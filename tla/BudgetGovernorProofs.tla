------------------------ MODULE BudgetGovernorProofs ------------------------
(***************************************************************************)
(* Proofs, for any calls, admins, amounts, caps and faults, that the row   *)
(* never exceeds its cap, that reset() is never handed a negative amount   *)
(* and that the coroutines implement BudgetLedger; and, when nothing       *)
(* fails, that the counter never offers more than the row has left.        *)
(*                                                                         *)
(* The cap alone is not inductive: CommitFlush writes what CommitLoad put  *)
(* into the loaded object several steps earlier.  ChangeInFlight says that *)
(* this object still is the committed row plus the call's own amount,      *)
(* because the lock has been held since; Loaded says which coroutines have *)
(* a Budget object at all.                                                 *)
(***************************************************************************)
EXTENDS BudgetGovernor, TLAPS

\* The coroutines between a SELECT and the use of its result hold a row.
Loaded ==
  /\ \A c \in Calls :
       pc[c] \in {"lookup", "miss", "reserving", "releasing"} => seen[c] \in Row
  /\ \A a \in Admins : pc[a] = "inserting" => seen[a] = NewBudget(a)

IInv == TypeOK /\ CapRespected /\ ChangeInFlight /\ Loaded

LEMMA FloorType == ASSUME NEW n \in Int PROVE Floor(n) \in Nat
  BY DEF Floor

LEMMA RowRemaining ==
  ASSUME NEW r \in Row PROVE Remaining(r) \in Int /\ Floor(Remaining(r)) \in Nat
  BY FloorType DEF Row, Remaining

\* What the three ways of changing a row do to its fields.
LEMMA NewBudgetFields ==
  ASSUME NEW a \in Admins
  PROVE  /\ NewBudget(a) \in Row
         /\ NewBudget(a) = [limit |-> NewLimit[a], consumed |-> 0, version |-> 1, active |-> TRUE]
         /\ Remaining(NewBudget(a)) \in Nat
         /\ NewBudget(a) # NoRow
<1>1. NewLimit[a] \in Nat \ {0}
  BY ConstantsAssumption
<1>2. NewBudget(a) \in Row
  BY <1>1 DEF NewBudget, Row
<1>3. Remaining(NewBudget(a)) = NewLimit[a]
  BY <1>1 DEF NewBudget, Remaining
<1> QED BY <1>1, <1>2, <1>3, ConstantsAssumption DEF NewBudget

LEMMA ConsumeFields ==
  ASSUME NEW c \in Calls, NEW r \in Row
  PROVE  /\ Consume(r, c) \in Row
         /\ Consume(r, c).limit = r.limit
         /\ Consume(r, c).consumed = r.consumed + Amount[c]
         /\ Consume(r, c).version = r.version + 1
         /\ Consume(r, c).active = r.active
<1> DEFINE r1 == [r EXCEPT !.consumed = r.consumed + Amount[c]]
<1>1. r.consumed + Amount[c] \in Nat
  BY ConstantsAssumption DEF Row
<1>2. /\ r1 \in Row /\ r1.consumed = r.consumed + Amount[c] /\ r1.limit = r.limit
      /\ r1.version = r.version /\ r1.active = r.active
  BY <1>1 DEF Row
<1>3. Consume(r, c) = [r1 EXCEPT !.version = r1.version + 1]
  BY <1>2 DEF Consume
<1> HIDE DEF r1
<1> QED BY <1>2, <1>3 DEF Row

LEMMA MoveLimitFields ==
  ASSUME NEW a \in Admins, NEW r \in Row
  PROVE  /\ MoveLimit(r, a) \in Row
         /\ MoveLimit(r, a).limit = NewLimit[a]
         /\ MoveLimit(r, a).consumed = r.consumed
         /\ MoveLimit(r, a).version = r.version + 1
         /\ MoveLimit(r, a).active = r.active
<1> DEFINE r1 == [r EXCEPT !.limit = NewLimit[a]]
<1>1. NewLimit[a] \in Nat
  BY ConstantsAssumption DEF Row
<1>2. /\ r1 \in Row /\ r1.limit = NewLimit[a] /\ r1.consumed = r.consumed
      /\ r1.version = r.version /\ r1.active = r.active
  BY <1>1 DEF Row
<1>3. MoveLimit(r, a) = [r1 EXCEPT !.version = r1.version + 1]
  BY <1>2 DEF MoveLimit
<1> HIDE DEF r1
<1> QED BY <1>2, <1>3 DEF Row

\* The initial rows are within their caps and nobody holds anything.
LEMMA InitInv == Init => IInv
<1> SUFFICES ASSUME Init PROVE IInv
  OBVIOUS
<1>1. row \in Row \cup {NoRow}
  BY ConstantsAssumption DEF Init
<1>2. CapRespected
  BY ConstantsAssumption DEF Init, CapRespected
<1>3. redis \in Nat \cup {NoKey}
  <2>1. CASE row = NoRow
    BY <2>1 DEF Init
  <2>2. CASE row # NoRow
    BY <2>2, <1>1, <1>2 DEF Init, CapRespected, Remaining, Row
  <2> QED BY <2>1, <2>2
<1>4. TypeOK
  BY <1>1, <1>3, ConstantsAssumption DEF Init, TypeOK, CallSteps, AdminSteps
<1>5. ChangeInFlight
  BY ConstantsAssumption DEF Init, ChangeInFlight, Procs
<1>6. Loaded
  BY DEF Init, Loaded, Procs
<1> QED BY <1>2, <1>4, <1>5, <1>6 DEF IInv

-----------------------------------------------------------------------------
\* A step of a call that holds no lock and touches neither row nor lock keeps
\* the invariant, provided it holds a row where one is needed and leaves a
\* natural number, or nothing, in Redis.
LEMMA QuietCall ==
  ASSUME IInv, NEW c \in Calls, NEW next \in CallSteps \cup CallEnds,
         NEW r \in Row \cup {NoRow},
         pc[c] \notin {"locked", "reset"}, next \notin {"locked", "reset"},
         next \in {"lookup", "miss", "reserving", "releasing"} => r \in Row,
         pc' = [pc EXCEPT ![c] = next], seen' = [seen EXCEPT ![c] = r],
         row' = row, lock' = lock, redis' \in Nat \cup {NoKey}
  PROVE  IInv'
<1>1. pc[c] # "flushed" /\ next # "flushed" /\ c \in Procs /\ c \notin Admins
  BY ConstantsAssumption DEF IInv, TypeOK, CallSteps, CallEnds, Procs
<1>2. TypeOK'
  BY <1>1 DEF IInv, TypeOK, Procs
<1>3. CapRespected'
  BY DEF IInv, CapRespected
<1>4. ChangeInFlight'
  <2>1. \A p \in Procs : lock' = p <=> pc'[p] \in {"locked", "flushed", "reset"}
    BY <1>1 DEF IInv, TypeOK, ChangeInFlight
  <2>2. \A d \in Calls : pc'[d] \in {"locked", "reset"} =>
          pc[d] \in {"locked", "reset"} /\ seen'[d] = seen[d]
    BY <1>1 DEF IInv, TypeOK, Procs
  <2>3. \A a \in Admins : pc'[a] = pc[a] /\ seen'[a] = seen[a]
    BY <1>1 DEF IInv, TypeOK, Procs
  <2> QED BY <2>1, <2>2, <2>3 DEF IInv, ChangeInFlight, Usable
<1>5. Loaded'
  BY <1>1 DEF IInv, TypeOK, Loaded, Procs
<1> QED BY <1>2, <1>3, <1>4, <1>5 DEF IInv

\* The same for an admin.
LEMMA QuietAdmin ==
  ASSUME IInv, NEW a \in Admins, NEW next \in AdminSteps \cup AdminEnds,
         NEW r \in Row \cup {NoRow},
         pc[a] \notin {"flushed", "reset"}, next \notin {"flushed", "reset"},
         next = "inserting" => r = NewBudget(a),
         pc' = [pc EXCEPT ![a] = next], seen' = [seen EXCEPT ![a] = r],
         row' = row, lock' = lock, redis' = redis
  PROVE  IInv'
<1>1. pc[a] # "locked" /\ next # "locked" /\ a \in Procs /\ a \notin Calls
  BY ConstantsAssumption DEF IInv, TypeOK, AdminSteps, AdminEnds, Procs
<1>2. TypeOK'
  BY <1>1 DEF IInv, TypeOK, Procs
<1>3. CapRespected'
  BY DEF IInv, CapRespected
<1>4. ChangeInFlight'
  <2>1. \A p \in Procs : lock' = p <=> pc'[p] \in {"locked", "flushed", "reset"}
    BY <1>1 DEF IInv, TypeOK, ChangeInFlight
  <2>2. \A b \in Admins : pc'[b] \in {"flushed", "reset"} =>
          pc[b] \in {"flushed", "reset"} /\ seen'[b] = seen[b]
    BY <1>1 DEF IInv, TypeOK, Procs
  <2>3. \A c \in Calls : pc'[c] = pc[c] /\ seen'[c] = seen[c]
    BY <1>1 DEF IInv, TypeOK, Procs
  <2> QED BY <2>1, <2>2, <2>3 DEF IInv, ChangeInFlight, Usable
<1>5. Loaded'
  BY <1>1 DEF IInv, TypeOK, Loaded, Procs, NewBudget
<1> QED BY <1>2, <1>3, <1>4, <1>5 DEF IInv

\* Everything a call does before it commits, and what it does instead of it.
LEMMA CallReads ==
  ASSUME IInv, NEW c \in Calls,
         \/ Evaluate(c) \/ Lookup(c) \/ Seed(c) \/ Reread(c) \/ Resolve(c)
         \/ ReserveSelect(c) \/ ReserveScript(c)
         \/ ToolSucceeds(c) \/ ToolFails(c) \/ ReleaseLoad(c) \/ ReleaseSet(c)
  PROVE  IInv'
<1> USE DEF CallSteps, CallEnds, Goto, Load, Drop
<1>1. /\ row \in Row \cup {NoRow} /\ redis \in Nat \cup {NoKey}
      /\ seen[c] \in Row \cup {NoRow} /\ seen = [seen EXCEPT ![c] = seen[c]]
      /\ pc[c] \in {"lookup", "miss", "reserving", "releasing"} => seen[c] \in Row
  BY DEF IInv, TypeOK, Loaded, Procs
<1>2. \A r \in Row : Floor(Remaining(r)) \in Nat
  BY RowRemaining
<1>3. Amount[c] \in Nat /\ NoKey \notin Int
  BY ConstantsAssumption
<1>4. CASE Evaluate(c)
  BY <1>4, <1>1, QuietCall DEF Evaluate, Usable
<1>5. CASE Lookup(c)
  BY <1>5, <1>1, QuietCall DEF Lookup, Decide, Outcomes
<1>6. CASE Seed(c)
  BY <1>6, <1>1, <1>2, QuietCall DEF Seed, Counter
<1>7. CASE Reread(c)
  BY <1>7, <1>1, QuietCall DEF Reread, Decide, Outcomes
<1>8. CASE Resolve(c)
  BY <1>8, <1>1, QuietCall DEF Resolve
<1>9. CASE ReserveSelect(c)
  BY <1>9, <1>1, QuietCall DEF ReserveSelect, Usable
<1>10. CASE ReserveScript(c)
  <2>1. pc[c] = "reserving" => Counter(c) \in Nat
    BY <1>1, <1>2 DEF Counter
  <2>2. redis' \in Nat \cup {NoKey}
    BY <2>1, <1>10, <1>1, <1>3 DEF ReserveScript
  <2> QED BY <2>2, <1>10, <1>1, QuietCall DEF ReserveScript
<1>11. CASE ToolSucceeds(c)
  BY <1>11, <1>1, QuietCall DEF ToolSucceeds
<1>12. CASE ToolFails(c)
  BY <1>12, <1>1, QuietCall DEF ToolFails
<1>13. CASE ReleaseLoad(c)
  BY <1>13, <1>1, QuietCall DEF ReleaseLoad
<1>14. CASE ReleaseSet(c)
  BY <1>14, <1>1, <1>2, QuietCall DEF ReleaseSet
<1> QED BY <1>4, <1>5, <1>6, <1>7, <1>8, <1>9, <1>10, <1>11, <1>12, <1>13, <1>14

\* Taking the lock: the change in flight is the committed row plus the amount.
LEMMA CommitLoadInv == ASSUME IInv, NEW c \in Calls, CommitLoad(c) PROVE IInv'
<1> USE DEF CommitLoad, RowFree, Goto, Load, Drop
<1>1. c \in Procs /\ c \notin Admins /\ c # Nobody
  BY ConstantsAssumption DEF Procs
<1>2. CASE ~(Usable(row) /\ row.consumed + Amount[c] <= row.limit)
  BY <1>2, QuietCall DEF CallSteps, CallEnds, IInv, TypeOK
<1>3. CASE Usable(row) /\ row.consumed + Amount[c] <= row.limit
  <2>1. /\ row \in Row /\ lock = Nobody /\ lock' = c /\ row' = row /\ redis' = redis
        /\ pc' = [pc EXCEPT ![c] = "locked"]
        /\ seen' = [seen EXCEPT ![c] = Consume(row, c)]
    BY <1>3 DEF Usable, IInv, TypeOK
  <2>2. Consume(row, c) \in Row
    BY <2>1, ConsumeFields
  <2>3. TypeOK'
    BY <2>1, <2>2, <1>1 DEF IInv, TypeOK, Procs, CallSteps
  <2>4. \A p \in Procs : pc[p] \notin {"locked", "flushed", "reset"}
    BY <2>1, ConstantsAssumption DEF IInv, ChangeInFlight
  <2>5. ChangeInFlight'
    BY <2>1, <2>4, <1>1, <1>3 DEF IInv, TypeOK, ChangeInFlight, Usable, Procs
  <2>6. Loaded'
    BY <2>1, <1>1 DEF IInv, TypeOK, Loaded, Procs, NewBudget
  <2> QED BY <2>1, <2>3, <2>5, <2>6 DEF IInv, CapRespected
<1> QED BY <1>2, <1>3

LEMMA CommitResetInv == ASSUME IInv, NEW c \in Calls, CommitReset(c) PROVE IInv'
<1> USE DEF CommitReset, ResetTo, Goto
<1>1. c \in Procs /\ c \notin Admins
  BY ConstantsAssumption DEF Procs
<1>2. row \in Row /\ seen[c] = Consume(row, c) /\ row.consumed + Amount[c] <= row.limit
  BY DEF IInv, TypeOK, ChangeInFlight, Usable
<1>3. Remaining(seen[c]) \in Nat
  BY <1>2, ConsumeFields, ConstantsAssumption DEF Remaining, Row
<1>4. TypeOK'
  BY <1>1, <1>3 DEF IInv, TypeOK, Procs, CallSteps
<1>5. ChangeInFlight'
  BY <1>1 DEF IInv, TypeOK, ChangeInFlight, Usable, Procs
<1>6. Loaded'
  BY <1>1 DEF IInv, TypeOK, Loaded, Procs, NewBudget
<1> QED BY <1>4, <1>5, <1>6 DEF IInv, CapRespected

\* The committed row is the old one with exactly the call's amount added.
LEMMA CommitFlushRow ==
  ASSUME IInv, NEW c \in Calls, CommitFlush(c)
  PROVE  /\ lock = c /\ row \in Row /\ row.active
         /\ row.consumed + Amount[c] <= row.limit
         /\ row' = Consume(row, c)
<1>1. /\ row \in Row /\ row.active /\ seen[c] = Consume(row, c) /\ lock = c
      /\ row.consumed + Amount[c] <= row.limit
  BY DEF CommitFlush, IInv, TypeOK, ChangeInFlight, Usable, Procs
<1>2. row' = [row EXCEPT !.consumed = seen[c].consumed, !.version = seen[c].version]
  BY DEF CommitFlush
<1>3. seen[c].consumed = row.consumed + Amount[c] /\ seen[c].version = row.version + 1
  BY <1>1, ConsumeFields
<1> QED BY <1>1, <1>2, <1>3 DEF Consume

LEMMA CommitFlushInv == ASSUME IInv, NEW c \in Calls, CommitFlush(c) PROVE IInv'
<1> USE DEF CommitFlush, Load, Drop
<1>1. c \in Procs /\ c \notin Admins /\ c # Nobody /\ Nobody \notin Procs
  BY ConstantsAssumption DEF Procs
<1>2. /\ lock = c /\ row \in Row /\ row.consumed + Amount[c] <= row.limit
      /\ row' = Consume(row, c)
  BY CommitFlushRow
<1>3. row' \in Row /\ row'.consumed <= row'.limit
  BY <1>2, ConsumeFields
<1>4. \A p \in Procs \ {c} : pc[p] \notin {"locked", "flushed", "reset"}
  BY <1>2 DEF IInv, ChangeInFlight
<1>5. TypeOK'
  BY <1>1, <1>3 DEF IInv, TypeOK, Procs, CallEnds
<1>6. CapRespected'
  BY <1>3 DEF CapRespected
<1>7. ChangeInFlight'
  BY <1>1, <1>4 DEF IInv, TypeOK, ChangeInFlight, Procs
<1>8. Loaded'
  BY <1>1 DEF IInv, TypeOK, Loaded, Procs, NewBudget
<1> QED BY <1>5, <1>6, <1>7, <1>8 DEF IInv

LEMMA UpsertLoadInv == ASSUME IInv, NEW a \in Admins, UpsertLoad(a) PROVE IInv'
<1> USE DEF UpsertLoad, BelowConsumed, RowFree, Load, Drop
<1>1. /\ a \in Procs /\ a \notin Calls /\ a # Nobody /\ NewLimit[a] \in Nat
      /\ NewBudget(a) \in Row
  BY ConstantsAssumption, NewBudgetFields DEF Procs
<1>2. CASE row = NoRow
  BY <1>2, <1>1, QuietAdmin DEF AdminSteps, AdminEnds, IInv
<1>3. CASE row # NoRow /\ NewLimit[a] < row.consumed
  BY <1>3, <1>1, QuietAdmin DEF AdminSteps, AdminEnds, IInv
<1>4. CASE row # NoRow /\ ~(NewLimit[a] < row.consumed)
  <2>1. /\ row \in Row /\ lock = Nobody /\ lock' = a /\ row' = row /\ redis' = redis
        /\ pc' = [pc EXCEPT ![a] = "flushed"]
        /\ seen' = [seen EXCEPT ![a] = MoveLimit(row, a)]
        /\ row.consumed <= NewLimit[a]
    BY <1>4, <1>1 DEF IInv, TypeOK, Row
  <2>2. MoveLimit(row, a) \in Row
    BY <2>1, MoveLimitFields
  <2>3. TypeOK'
    BY <2>1, <2>2, <1>1 DEF IInv, TypeOK, Procs, AdminSteps
  <2>4. \A p \in Procs : pc[p] \notin {"locked", "flushed", "reset"}
    BY <2>1, ConstantsAssumption DEF IInv, ChangeInFlight
  <2>5. ChangeInFlight'
    BY <2>1, <2>4, <1>1, <1>4 DEF IInv, TypeOK, ChangeInFlight, Procs
  <2>6. Loaded'
    BY <2>1, <1>1 DEF IInv, TypeOK, Loaded, Procs, NewBudget
  <2> QED BY <2>1, <2>3, <2>5, <2>6 DEF IInv, CapRespected
<1> QED BY <1>2, <1>3, <1>4

LEMMA UpsertInsertInv == ASSUME IInv, NEW a \in Admins, UpsertInsert(a) PROVE IInv'
<1> USE DEF UpsertInsert, Goto, Load, Drop
<1>1. a \in Procs /\ a \notin Calls /\ a # Nobody
  BY ConstantsAssumption DEF Procs
<1>2. CASE row # NoRow
  BY <1>2, <1>1, QuietAdmin DEF AdminSteps, AdminEnds, IInv
<1>3. CASE row = NoRow
  <2>1. \A p \in Procs : pc[p] \notin {"locked", "flushed", "reset"}
    BY ConstantsAssumption DEF IInv, ChangeInFlight
  <2>2. TypeOK'
    BY <1>3, <1>1 DEF IInv, TypeOK, Procs, AdminSteps
  <2>3. ChangeInFlight'
    BY <1>3, <2>1, <1>1 DEF IInv, TypeOK, ChangeInFlight, Loaded, Procs, NewBudget
  <2>4. Loaded'
    BY <1>3, <1>1 DEF IInv, TypeOK, Loaded, Procs, NewBudget
  <2> QED BY <1>3, <2>2, <2>3, <2>4 DEF IInv, CapRespected
<1> QED BY <1>2, <1>3

LEMMA AdminRemaining ==
  ASSUME IInv, NEW a \in Admins, pc[a] \in {"flushed", "reset"}
  PROVE  Remaining(seen[a]) \in Nat /\ seen[a] \in Row
<1>1. CASE row = NoRow
  BY <1>1, NewBudgetFields DEF IInv, ChangeInFlight
<1>2. CASE row # NoRow
  <2>1. row \in Row /\ seen[a] = MoveLimit(row, a) /\ row.consumed <= NewLimit[a]
    BY <1>2 DEF IInv, TypeOK, ChangeInFlight
  <2> QED BY <2>1, MoveLimitFields, ConstantsAssumption DEF Remaining, Row
<1> QED BY <1>1, <1>2

LEMMA UpsertResetInv == ASSUME IInv, NEW a \in Admins, UpsertReset(a) PROVE IInv'
<1> USE DEF UpsertReset, ResetTo, Goto
<1>1. a \in Procs /\ a \notin Calls
  BY ConstantsAssumption DEF Procs
<1>2. Remaining(seen[a]) \in Nat
  BY AdminRemaining
<1>3. TypeOK'
  BY <1>1, <1>2 DEF IInv, TypeOK, Procs, AdminSteps
<1>4. ChangeInFlight'
  BY <1>1 DEF IInv, TypeOK, ChangeInFlight, Usable, Procs, NewBudget
<1>5. Loaded'
  BY <1>1 DEF IInv, TypeOK, Loaded, Procs, NewBudget
<1> QED BY <1>3, <1>4, <1>5 DEF IInv, CapRespected

\* The committed row is the new budget, or the old one under the new cap.
LEMMA UpsertCommitRow ==
  ASSUME IInv, NEW a \in Admins, UpsertCommit(a)
  PROVE  /\ lock = a
         /\ \/ row = NoRow /\ row' = NewBudget(a)
            \/ row \in Row /\ row.consumed <= NewLimit[a] /\ row' = MoveLimit(row, a)
<1>1. lock = a /\ row \in Row \cup {NoRow}
  BY DEF UpsertCommit, IInv, TypeOK, ChangeInFlight, Procs
<1>2. CASE row = NoRow
  BY <1>1, <1>2 DEF UpsertCommit, IInv, ChangeInFlight
<1>3. CASE row # NoRow
  <2>1. row \in Row /\ seen[a] = MoveLimit(row, a) /\ row.consumed <= NewLimit[a]
    BY <1>1, <1>3 DEF UpsertCommit, IInv, ChangeInFlight
  <2>2. seen[a].limit = NewLimit[a] /\ seen[a].version = row.version + 1
    BY <2>1, MoveLimitFields
  <2>3. row' = [row EXCEPT !.limit = seen[a].limit, !.version = seen[a].version]
    BY <1>3 DEF UpsertCommit
  <2> QED BY <1>1, <2>1, <2>2, <2>3 DEF MoveLimit
<1> QED BY <1>2, <1>3

LEMMA UpsertCommitInv == ASSUME IInv, NEW a \in Admins, UpsertCommit(a) PROVE IInv'
<1> USE DEF Load, Drop
<1>1. a \in Procs /\ a \notin Calls /\ a # Nobody /\ Nobody \notin Procs
  BY ConstantsAssumption DEF Procs
<1>2. row' \in Row /\ row'.consumed <= row'.limit
  <2>1. CASE row = NoRow /\ row' = NewBudget(a)
    BY <2>1, NewBudgetFields, ConstantsAssumption
  <2>2. CASE row \in Row /\ row.consumed <= NewLimit[a] /\ row' = MoveLimit(row, a)
    BY <2>2, MoveLimitFields
  <2> QED BY <2>1, <2>2, UpsertCommitRow
<1>3. /\ lock = a /\ lock' = Nobody /\ redis' = redis
      /\ pc' = [pc EXCEPT ![a] = "updated"] /\ seen' = [seen EXCEPT ![a] = NoRow]
  BY UpsertCommitRow DEF UpsertCommit
<1>4. \A p \in Procs \ {a} : pc[p] \notin {"locked", "flushed", "reset"}
  BY <1>3 DEF IInv, ChangeInFlight
<1>5. TypeOK'
  BY <1>1, <1>2, <1>3 DEF IInv, TypeOK, Procs, AdminEnds
<1>6. ChangeInFlight'
  BY <1>1, <1>3, <1>4 DEF IInv, TypeOK, ChangeInFlight, Procs
<1>7. Loaded'
  BY <1>1, <1>3 DEF IInv, TypeOK, Loaded, Procs, NewBudget
<1> QED BY <1>2, <1>5, <1>6, <1>7 DEF IInv, CapRespected

\* Rolling back at any point keeps the invariant.
LEMMA AbandonInv == ASSUME IInv, NEW p \in Procs, Abandon(p) PROVE IInv'
<1> DEFINE end == StopsAs(p)
<1>1. /\ end \in {"aborted", "unrecorded", "leaked", "denied"}
      /\ p \in Calls => end \in CallEnds
      /\ p \in Admins => end \in AdminEnds
      /\ pc' = [pc EXCEPT ![p] = end] /\ seen' = [seen EXCEPT ![p] = NoRow]
      /\ lock' = (IF lock = p THEN Nobody ELSE lock) /\ row' = row /\ redis' = redis
  BY ConstantsAssumption
     DEF Abandon, Unlock, Load, Drop, StopsAs, Procs, CallEnds, AdminEnds
<1> HIDE DEF end
<1>2. Nobody \notin Procs
  BY ConstantsAssumption
<1>3. TypeOK'
  BY <1>1, <1>2 DEF IInv, TypeOK, Procs
<1>4. ChangeInFlight'
  <2>1. \A q \in Procs : lock' = q <=> pc'[q] \in {"locked", "flushed", "reset"}
    BY <1>1, <1>2 DEF IInv, TypeOK, ChangeInFlight
  <2>2. \A q \in Procs : pc'[q] \in {"locked", "flushed", "reset"} =>
          pc'[q] = pc[q] /\ seen'[q] = seen[q]
    BY <1>1 DEF IInv, TypeOK
  <2> QED BY <2>1, <2>2, <1>1 DEF IInv, ChangeInFlight, Usable, Procs
<1>5. Loaded'
  <2>1. \A q \in Procs :
          pc'[q] \in {"lookup", "miss", "reserving", "releasing", "inserting"} =>
            pc'[q] = pc[q] /\ seen'[q] = seen[q]
    BY <1>1 DEF IInv, TypeOK
  <2> QED BY <2>1 DEF IInv, Loaded, Procs, NewBudget
<1> QED BY <1>1, <1>3, <1>4, <1>5 DEF IInv, CapRespected

LEMMA ExpireInv == ASSUME IInv, Expire PROVE IInv'
BY DEF Expire, IInv, TypeOK, CapRespected, ChangeInFlight, Loaded, Usable, NewBudget

\* IInv is inductive.
LEMMA StepInv == IInv /\ [Next]_vars => IInv'
<1> SUFFICES ASSUME IInv, [Next]_vars PROVE IInv'
  OBVIOUS
<1>1. CASE UNCHANGED state
  BY <1>1 DEF state, IInv, TypeOK, CapRespected, ChangeInFlight, Loaded, Usable, NewBudget
<1>2. ASSUME NEW c \in Calls, CallStep(c) PROVE IInv'
  BY <1>2, CallReads, CommitLoadInv, CommitResetInv, CommitFlushInv DEF CallStep
<1>3. ASSUME NEW a \in Admins, AdminStep(a) PROVE IInv'
  BY <1>3, UpsertLoadInv, UpsertInsertInv, UpsertResetInv, UpsertCommitInv DEF AdminStep
<1>4. ASSUME NEW p \in Procs, Abandon(p) PROVE IInv'
  BY <1>4, AbandonInv
<1>5. CASE Expire
  BY <1>5, ExpireInv
<1>6. CASE AllEnded
  BY <1>6, <1>1 DEF AllEnded
<1> QED BY <1>1, <1>2, <1>3, <1>4, <1>5, <1>6 DEF Next, vars

LEMMA Invariance == Spec => []IInv
  BY InitInv, StepInv, PTL DEF Spec

\* The cap holds for every number of calls and admins, every amount and every
\* fault: "PostgreSQL locking at commit remains authoritative".
THEOREM CapTheorem == Spec => []CapRespected
<1>1. IInv => CapRespected
  BY DEF IInv
<1> QED BY <1>1, Invariance, PTL

\* Every variable keeps its type.
THEOREM TypeTheorem == Spec => []TypeOK
<1>1. IInv => TypeOK
  BY DEF IInv
<1> QED BY <1>1, Invariance, PTL

\* Changes to the row are serialized and made on the row they were read from.
THEOREM ChangeTheorem == Spec => []ChangeInFlight
<1>1. IInv => ChangeInFlight
  BY DEF IInv
<1> QED BY <1>1, Invariance, PTL

\* The ValueError of reset() is never raised after a tool has run.
THEOREM ResetTheorem == Spec => []ResetNeverRaises
<1>1. IInv => ResetNeverRaises
  <2> SUFFICES ASSUME IInv, NEW p \in Procs, pc[p] \in {"locked", "flushed"}
               PROVE  Remaining(seen[p]) >= 0
    BY DEF ResetNeverRaises, ResetTo
  <2>1. CASE p \in Calls
    <3>1. /\ row \in Row /\ seen[p] = Consume(row, p)
          /\ row.consumed + Amount[p] <= row.limit
      BY <2>1 DEF IInv, TypeOK, ChangeInFlight, Usable, CallSteps, CallEnds
    <3> QED BY <3>1, <2>1, ConsumeFields, ConstantsAssumption DEF Remaining, Row
  <2>2. CASE p \in Admins
    BY <2>2, AdminRemaining DEF IInv, TypeOK, AdminSteps, AdminEnds
  <2> QED BY <2>1, <2>2 DEF Procs
<1> QED BY <1>1, Invariance, PTL

-----------------------------------------------------------------------------
(***************************************************************************)
(* The counter, when nothing fails.  What a coroutine is going to seed the *)
(* counter from may be a row it selected long ago.  CounterInv says why it *)
(* is not stale: as long as there is no counter, no change of the row has  *)
(* been committed, since a transaction writes the counter first.           *)
(***************************************************************************)

CounterInv ==
  /\ \A c \in Calls : pc[c] \notin {"failing", "releasing"}
  /\ redis = NoKey =>
       /\ \A c \in Calls : pc[c] \in {"lookup", "miss", "reserving"} => seen[c] = row
       /\ \A p \in Procs : pc[p] # "reset"
  /\ redis # NoKey =>
       /\ (\A p \in Procs : pc[p] # "reset") /\ row # NoRow => redis <= Remaining(row)
       /\ \A p \in Procs : pc[p] = "reset" => redis <= Remaining(seen[p])

LEMMA InitCounter == Init => CounterInv
<1> SUFFICES ASSUME Init PROVE CounterInv
  OBVIOUS
<1>1. \A p \in Procs : pc[p] = "idle"
  BY DEF Init
<1>2. redis # NoKey /\ row # NoRow => redis <= Remaining(row)
  <2>1. redis # NoKey /\ row # NoRow => redis = Remaining(row) /\ row \in Row
    BY ConstantsAssumption DEF Init
  <2> QED BY <2>1, RowRemaining
<1> QED BY <1>1, <1>2 DEF CounterInv, Procs

\* A step that leaves row and counter alone, of a coroutine that has not
\* written the counter itself.
LEMMA CounterKept ==
  ASSUME TypeOK, CounterInv, NEW p \in Procs, NEW next, NEW r,
         pc[p] # "reset", next \notin {"reset", "failing", "releasing"},
         redis = NoKey /\ next \in {"lookup", "miss", "reserving"} => r = row,
         pc' = [pc EXCEPT ![p] = next], seen' = [seen EXCEPT ![p] = r],
         row' = row, redis' = redis
  PROVE  CounterInv'
<1>1. \A q \in Procs : /\ pc'[q] = IF q = p THEN next ELSE pc[q]
                       /\ seen'[q] = IF q = p THEN r ELSE seen[q]
  BY DEF TypeOK
<1> QED BY <1>1 DEF CounterInv, Procs

\* A call that seeds the counter from the row, or takes something from it.
LEMMA CounterLowered ==
  ASSUME IInv, CounterInv, NEW c \in Calls, NEW next, NEW r,
         pc[c] # "reset", next \notin {"reset", "failing", "releasing"},
         pc' = [pc EXCEPT ![c] = next], seen' = [seen EXCEPT ![c] = r], row' = row,
         redis' \in Int, redis # NoKey => redis' <= redis,
         redis = NoKey => row \in Row /\ redis' <= Remaining(row)
  PROVE  CounterInv'
<1>1. \A q \in Procs : /\ pc'[q] = IF q = c THEN next ELSE pc[q]
                       /\ seen'[q] = IF q = c THEN r ELSE seen[q]
  BY DEF IInv, TypeOK
<1>2. redis' # NoKey /\ NoKey \notin Int
  BY ConstantsAssumption
<1>3. \A d \in Calls : pc'[d] \notin {"failing", "releasing"}
  BY <1>1 DEF CounterInv, Procs
<1>4. CASE redis = NoKey
  <2>1. \A q \in Procs : pc'[q] # "reset"
    BY <1>1, <1>4 DEF CounterInv
  <2> QED BY <1>2, <1>3, <1>4, <2>1 DEF CounterInv, Remaining
<1>5. CASE redis # NoKey
  <2>1. redis \in Int /\ redis' <= redis
    BY <1>5 DEF IInv, TypeOK
  <2>2. row # NoRow => Remaining(row) \in Int
    BY RowRemaining DEF IInv, TypeOK
  <2>3. \A q \in Procs : seen[q] \in Row => Remaining(seen[q]) \in Int
    BY RowRemaining
  <2>4. \A q \in Procs : pc[q] = "reset" => Remaining(seen[q]) \in Int
    <3> SUFFICES ASSUME NEW q \in Procs, pc[q] = "reset" PROVE seen[q] \in Row
      BY <2>3
    <3>1. CASE q \in Calls
      BY <3>1, ConsumeFields DEF IInv, TypeOK, ChangeInFlight, Usable
    <3>2. CASE q \in Admins
      BY <3>2, AdminRemaining
    <3> QED BY <3>1, <3>2 DEF Procs
  <2>5. (\A q \in Procs : pc'[q] # "reset") /\ row # NoRow => redis' <= Remaining(row)
    <3> SUFFICES ASSUME \A q \in Procs : pc'[q] # "reset", row # NoRow
                 PROVE  redis' <= Remaining(row)
      OBVIOUS
    <3>1. redis <= Remaining(row)
      BY <1>1, <1>5 DEF CounterInv
    <3> QED BY <3>1, <2>1, <2>2
  <2>6. \A q \in Procs : pc'[q] = "reset" => redis' <= Remaining(seen'[q])
    <3> SUFFICES ASSUME NEW q \in Procs, pc'[q] = "reset"
                 PROVE  redis' <= Remaining(seen'[q])
      OBVIOUS
    <3>1. q # c /\ pc[q] = "reset" /\ seen'[q] = seen[q]
      BY <1>1
    <3>2. redis <= Remaining(seen[q])
      BY <3>1, <1>5 DEF CounterInv
    <3> QED BY <3>1, <3>2, <2>1, <2>4
  <2>7. row' # NoRow /\ (\A q \in Procs : pc'[q] # "reset") => redis' <= Remaining(row')
    BY <2>5 DEF Remaining
  <2> QED BY <1>2, <1>3, <2>6, <2>7 DEF CounterInv
<1> QED BY <1>4, <1>5

\* Whoever resets the counter writes what its own change leaves.
LEMMA CounterReset ==
  ASSUME IInv, CounterInv, NEW p \in Procs, pc' = [pc EXCEPT ![p] = "reset"],
         seen' = seen, row' = row, redis' = Remaining(seen[p]),
         Remaining(seen[p]) \in Int, lock = p
  PROVE  CounterInv'
<1>1. \A q \in Procs : pc'[q] = IF q = p THEN "reset" ELSE pc[q]
  BY DEF IInv, TypeOK
<1>2. \A q \in Procs : pc'[q] = "reset" => q = p
  BY <1>1 DEF IInv, ChangeInFlight
<1>3. redis' # NoKey /\ redis' = Remaining(seen'[p])
  BY ConstantsAssumption DEF Remaining
<1>4. redis' <= Remaining(seen'[p])
  BY <1>3
<1>5. \A d \in Calls : pc'[d] \notin {"failing", "releasing"}
  BY <1>1 DEF CounterInv, Procs
<1>6. pc'[p] = "reset"
  BY <1>1
<1> QED BY <1>2, <1>3, <1>4, <1>5, <1>6 DEF CounterInv

\* The commit that follows makes the row agree with it.
LEMMA CounterCommitted ==
  ASSUME IInv, CounterInv, NEW p \in Procs, NEW next,
         next \notin {"lookup", "miss", "reserving", "reset", "failing", "releasing"},
         pc[p] = "reset", pc' = [pc EXCEPT ![p] = next],
         seen' = [seen EXCEPT ![p] = NoRow], lock = p,
         redis' = redis, Remaining(row') = Remaining(seen[p])
  PROVE  CounterInv'
<1>1. \A q \in Procs : pc'[q] = IF q = p THEN next ELSE pc[q]
  BY DEF IInv, TypeOK
<1>2. \A q \in Procs : pc'[q] # "reset"
  BY <1>1 DEF IInv, ChangeInFlight
<1>3. redis # NoKey /\ redis <= Remaining(seen[p])
  BY DEF CounterInv
<1>4. \A d \in Calls : pc'[d] \notin {"failing", "releasing"}
  BY <1>1 DEF CounterInv, Procs
<1> QED BY <1>2, <1>3, <1>4 DEF CounterInv

LEMMA CounterCall ==
  ASSUME IInv, CounterInv, faults = {}, NEW c \in Calls, CallStep(c)
  PROVE  CounterInv'
<1> USE DEF Goto, Load, Drop
<1>1. /\ c \in Procs /\ TypeOK /\ seen = [seen EXCEPT ![c] = seen[c]]
      /\ redis = NoKey /\ pc[c] \in {"lookup", "miss", "reserving"} => seen[c] = row
      /\ pc[c] \notin {"failing", "releasing"}
      /\ pc[c] \in {"lookup", "miss", "reserving"} => seen[c] \in Row
  BY DEF IInv, TypeOK, Loaded, CounterInv, Procs
<1>2. pc[c] \in {"miss", "reserving"} =>
        /\ Counter(c) \in Int
        /\ redis # NoKey => Counter(c) <= redis
        /\ redis = NoKey => row \in Row /\ Counter(c) <= Remaining(row)
  <2> SUFFICES ASSUME pc[c] \in {"miss", "reserving"}
               PROVE  /\ Counter(c) \in Int
                      /\ redis # NoKey => Counter(c) <= redis
                      /\ redis = NoKey => row \in Row /\ Counter(c) <= Remaining(row)
    OBVIOUS
  <2>1. CASE redis = NoKey
    <3>1. row \in Row /\ seen[c] = row /\ Counter(c) = Floor(Remaining(row))
      BY <2>1, <1>1 DEF Counter
    <3>2. Remaining(row) \in Int /\ Remaining(row) >= 0
      BY <3>1, ConstantsAssumption DEF IInv, CapRespected, Remaining, Row
    <3> QED BY <2>1, <3>1, <3>2 DEF Floor
  <2>2. CASE redis # NoKey
    BY <2>2 DEF Counter, IInv, TypeOK
  <2> QED BY <2>1, <2>2
<1>3. Amount[c] \in Nat
  BY ConstantsAssumption
<1>4. CASE Evaluate(c)
  BY <1>4, <1>1, CounterKept DEF Evaluate
<1>5. CASE Lookup(c)
  BY <1>5, <1>1, CounterKept DEF Lookup, Decide, Outcomes
<1>6. CASE Seed(c)
  BY <1>6, <1>1, <1>2, CounterLowered DEF Seed
<1>7. CASE Reread(c)
  BY <1>7, <1>1, CounterKept DEF Reread, Decide, Outcomes
<1>8. CASE Resolve(c)
  <2>1. PICK next \in {"allowed", "denied"} : pc' = [pc EXCEPT ![c] = next]
    BY <1>8 DEF Resolve
  <2> QED BY <2>1, <1>8, <1>1, CounterKept DEF Resolve
<1>9. CASE ReserveSelect(c)
  BY <1>9, <1>1, CounterKept DEF ReserveSelect
<1>10. CASE ReserveScript(c)
  <2>1. CASE redis' = redis /\ pc' = [pc EXCEPT ![c] = "denied"]
    BY <2>1, <1>10, <1>1, CounterKept DEF ReserveScript
  <2>2. CASE redis' = Counter(c) - Amount[c] /\ pc' = [pc EXCEPT ![c] = "granted"]
    <3>1. /\ redis' \in Int
          /\ redis # NoKey => redis' <= redis
          /\ redis = NoKey => row \in Row /\ redis' <= Remaining(row)
      <4>1. /\ Counter(c) \in Int /\ Counter(c) - Amount[c] <= Counter(c)
            /\ redis # NoKey => redis \in Int /\ Counter(c) <= redis
        BY <1>10, <1>1, <1>2, <1>3 DEF ReserveScript, TypeOK
      <4>2. redis = NoKey => row \in Row /\ Remaining(row) \in Int /\ Counter(c) <= Remaining(row)
        BY <1>10, <1>2, RowRemaining DEF ReserveScript
      <4> QED BY <4>1, <4>2, <2>2, <1>3
    <3> QED BY <3>1, <2>2, <1>10, <1>1, CounterLowered DEF ReserveScript
  <2> QED BY <2>1, <2>2, <1>10 DEF ReserveScript
<1>11. CASE ToolSucceeds(c)
  BY <1>11, <1>1, CounterKept DEF ToolSucceeds
<1>12. CASE ToolFails(c) \/ ReleaseLoad(c) \/ ReleaseSet(c)
  BY <1>12, <1>1 DEF ToolFails, ReleaseLoad, ReleaseSet
<1>13. CASE CommitLoad(c)
  BY <1>13, <1>1, CounterKept DEF CommitLoad
<1>14. CASE CommitReset(c)
  <2>1. /\ row \in Row /\ seen[c] = Consume(row, c) /\ lock = c
    BY <1>14, <1>1 DEF CommitReset, IInv, TypeOK, ChangeInFlight, Usable
  <2>2. Remaining(seen[c]) \in Int
    BY <2>1, ConsumeFields, RowRemaining
  <2> QED BY <2>1, <2>2, <1>14, <1>1, CounterReset DEF CommitReset, ResetTo
<1>15. CASE CommitFlush(c)
  <2>1. lock = c /\ row' = Consume(row, c) /\ seen[c] = Consume(row, c)
    BY <1>15, CommitFlushRow DEF CommitFlush, IInv, ChangeInFlight
  <2> QED BY <2>1, <1>15, <1>1, CounterCommitted DEF CommitFlush, Remaining
<1> QED BY <1>4, <1>5, <1>6, <1>7, <1>8, <1>9, <1>10, <1>11, <1>12, <1>13, <1>14, <1>15
        DEF CallStep

LEMMA CounterAdmin ==
  ASSUME IInv, CounterInv, NEW a \in Admins, AdminStep(a) PROVE CounterInv'
<1> USE DEF Goto, Load, Drop
<1>1. a \in Procs /\ TypeOK /\ seen = [seen EXCEPT ![a] = seen[a]]
  BY DEF IInv, TypeOK, Procs
<1>2. CASE UpsertLoad(a)
  BY <1>2, <1>1, CounterKept DEF UpsertLoad
<1>3. CASE UpsertInsert(a)
  BY <1>3, <1>1, CounterKept DEF UpsertInsert
<1>4. CASE UpsertReset(a)
  <2>1. Remaining(seen[a]) \in Int /\ lock = a
    BY <1>4, <1>1, AdminRemaining DEF UpsertReset, IInv, ChangeInFlight
  <2> QED BY <2>1, <1>4, <1>1, CounterReset DEF UpsertReset, ResetTo
<1>5. CASE UpsertCommit(a)
  <2>1. lock = a /\ row' = seen[a]
    <3>1. CASE row = NoRow
      BY <3>1, <1>5, UpsertCommitRow DEF UpsertCommit
    <3>2. CASE row # NoRow
      BY <3>2, <1>5, UpsertCommitRow DEF UpsertCommit, IInv, ChangeInFlight
    <3> QED BY <3>1, <3>2
  <2> QED BY <2>1, <1>5, <1>1, CounterCommitted DEF UpsertCommit, Remaining
<1> QED BY <1>2, <1>3, <1>4, <1>5 DEF AdminStep

LEMMA StepCounter ==
  IInv /\ (faults = {} => CounterInv) /\ [Next]_vars => (faults = {} => CounterInv)'
<1>0. [Next]_vars => faults' = faults
  BY DEF Next, vars
<1> SUFFICES ASSUME IInv, CounterInv, faults = {}, [Next]_vars PROVE CounterInv'
  BY <1>0
<1>1. CASE UNCHANGED state
  BY <1>1 DEF state, CounterInv, Remaining
<1>2. ASSUME NEW c \in Calls, CallStep(c) PROVE CounterInv'
  BY <1>2, CounterCall
<1>3. ASSUME NEW a \in Admins, AdminStep(a) PROVE CounterInv'
  BY <1>3, CounterAdmin
<1>4. ~Expire /\ \A p \in Procs : ~Abandon(p)
  BY DEF Expire, Abandon
<1>5. CASE AllEnded
  BY <1>5, <1>1 DEF AllEnded
<1> QED BY <1>1, <1>2, <1>3, <1>4, <1>5 DEF Next, vars

\* When nothing fails, the counter never offers more than the ledger has left,
\* for every number of concurrent reservations, seedings, commits and cap
\* changes; it is late only while a change of the row is in flight.
THEOREM CounterTheorem == Spec => []CounterNeverOverstates
<1>1. IInv /\ (faults = {} => CounterInv) => CounterNeverOverstates
  <2> SUFFICES ASSUME IInv, CounterInv, lock = Nobody, redis # NoKey, row # NoRow
               PROVE  redis <= Remaining(row)
    BY DEF CounterNeverOverstates
  <2>1. \A p \in Procs : pc[p] # "reset"
    BY ConstantsAssumption DEF IInv, ChangeInFlight
  <2> QED BY <2>1 DEF CounterInv
<1> QED BY <1>1, StepCounter, InitCounter, Invariance, PTL DEF Spec

-----------------------------------------------------------------------------
(***************************************************************************)
(* The refinement.  Only the two commits move the ledger; each is one      *)
(* action of BudgetLedger because ChangeInFlight fixes what it writes.     *)
(***************************************************************************)

Charged == {c \in Calls : pc[c] = "committed"}

LEMMA InitLedger == Init => Ledger!Init
  BY ConstantsAssumption DEF Init, Ledger!Init, Procs

\* A step of one call that does not commit it.
LEMMA LedgerStutter ==
  ASSUME TypeOK, NEW p \in Procs, NEW next, pc' = [pc EXCEPT ![p] = next],
         p \in Calls => pc[p] # "committed" /\ next # "committed", row' = row
  PROVE  UNCHANGED Ledger!ledgerVars
<1>1. Charged' = Charged
  BY DEF TypeOK, Charged, Procs
<1> QED BY <1>1 DEF Ledger!ledgerVars, Charged

LEMMA LedgerCommit ==
  ASSUME IInv, NEW c \in Calls, CommitFlush(c) PROVE Ledger!Charge(c)
<1>1. /\ row \in Row /\ row.active /\ row.consumed + Amount[c] <= row.limit
      /\ row' = Consume(row, c)
  BY CommitFlushRow
<1>2. c \notin Charged /\ Charged' = Charged \cup {c}
  BY DEF CommitFlush, Load, Drop, Charged, IInv, TypeOK, Procs
<1> QED BY <1>1, <1>2, ConstantsAssumption DEF Ledger!Charge, Charged, Consume

LEMMA LedgerUpsert ==
  ASSUME IInv, NEW a \in Admins, UpsertCommit(a)
  PROVE  Ledger!Open(NewLimit[a]) \/ Ledger!MoveCap(NewLimit[a])
<1>1. Charged' = Charged
  BY ConstantsAssumption DEF UpsertCommit, Load, Drop, Charged, IInv, TypeOK, Procs
<1>2. CASE row = NoRow /\ row' = NewBudget(a)
  BY <1>1, <1>2 DEF Ledger!Open, Charged, NewBudget
<1>3. CASE row \in Row /\ row.consumed <= NewLimit[a] /\ row' = MoveLimit(row, a)
  <2>1. NewLimit[a] >= row.consumed /\ row # NoRow
    BY <1>3, ConstantsAssumption DEF Row
  <2> QED BY <1>1, <1>3, <2>1 DEF Ledger!MoveCap, Charged, MoveLimit
<1> QED BY <1>2, <1>3, UpsertCommitRow

LEMMA StepLedger == IInv /\ [Next]_vars => [Ledger!Next]_Ledger!ledgerVars
<1> SUFFICES ASSUME IInv, [Next]_vars PROVE [Ledger!Next]_Ledger!ledgerVars
  OBVIOUS
<1> USE DEF Goto, Load, Drop
<1>1. CASE UNCHANGED state
  BY <1>1 DEF state, Ledger!ledgerVars
<1>2. ASSUME NEW c \in Calls, CallStep(c) PROVE [Ledger!Next]_Ledger!ledgerVars
  <2>1. CASE CommitFlush(c)
    BY <2>1, LedgerCommit DEF Ledger!Next
  <2>2. CASE ~CommitFlush(c)
    <3>1. \E next : /\ pc' = [pc EXCEPT ![c] = next] /\ next # "committed"
                    /\ pc[c] # "committed" /\ row' = row
      BY <1>2, <2>2
         DEF CallStep, Evaluate, Lookup, Seed, Reread, Resolve, ReserveSelect,
             ReserveScript, ToolSucceeds, ToolFails, CommitLoad, CommitReset,
             ReleaseLoad, ReleaseSet, Decide, Outcomes
    <3> QED BY <3>1, LedgerStutter DEF IInv, Procs
  <2> QED BY <2>1, <2>2
<1>3. ASSUME NEW a \in Admins, AdminStep(a) PROVE [Ledger!Next]_Ledger!ledgerVars
  <2>1. CASE UpsertCommit(a)
    BY <2>1, LedgerUpsert DEF Ledger!Next
  <2>2. CASE ~UpsertCommit(a)
    <3>1. \E next : pc' = [pc EXCEPT ![a] = next] /\ row' = row
      BY <1>3, <2>2 DEF AdminStep, UpsertLoad, UpsertInsert, UpsertReset
    <3>2. a \notin Calls /\ a \in Procs
      BY ConstantsAssumption DEF Procs
    <3> QED BY <3>1, <3>2, LedgerStutter DEF IInv
  <2> QED BY <2>1, <2>2
<1>4. ASSUME NEW p \in Procs, Abandon(p) PROVE [Ledger!Next]_Ledger!ledgerVars
  <2>1. /\ pc' = [pc EXCEPT ![p] = StopsAs(p)] /\ row' = row
        /\ StopsAs(p) # "committed"
    BY <1>4 DEF Abandon, StopsAs
  <2>2. p \in Calls => pc[p] # "committed"
    BY <1>4, ConstantsAssumption DEF Abandon, Ended, CallEnds
  <2> QED BY <2>1, <2>2, LedgerStutter DEF IInv
<1>5. CASE Expire
  BY <1>5 DEF Expire, Ledger!ledgerVars
<1>6. CASE AllEnded
  BY <1>6, <1>1 DEF AllEnded
<1> QED BY <1>1, <1>2, <1>3, <1>4, <1>5, <1>6 DEF Next, vars, vars

\* The governor implements the ledger: every execution is charged at most once,
\* by exactly its amount, within the cap, whatever fails in between.
THEOREM LedgerTheorem == Spec => ImplementsLedger
<1>1. Spec => Ledger!Init /\ [][Ledger!Next]_Ledger!ledgerVars
  BY InitLedger, StepLedger, Invariance, PTL DEF Spec
<1> QED BY <1>1 DEF ImplementsLedger, Ledger!Spec
=============================================================================

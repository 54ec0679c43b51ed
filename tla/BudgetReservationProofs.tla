----------------------- MODULE BudgetReservationProofs -----------------------
(***************************************************************************)
(* Proofs about the reservations the Redis counter stands for: that the    *)
(* outstanding ones fit into what the ledger has left until the counter is *)
(* first overwritten, and that without faults the counter converges to the *)
(* ledger, for any calls, admins, amounts and caps.                        *)
(***************************************************************************)
EXTENDS BudgetGovernorProofs, FiniteSetTheorems

-----------------------------------------------------------------------------
(***************************************************************************)
(* Sums of amounts.                                                        *)
(***************************************************************************)

LEMMA SumEmpty == IsFiniteSet(Units({})) /\ Sum({}) = 0
<1>1. Units({}) = {}
  BY DEF Units
<1> QED BY <1>1, FS_EmptySet DEF Sum

LEMMA OwnUnits ==
  ASSUME NEW c \in Calls
  PROVE  IsFiniteSet({c} \X (1..Amount[c])) /\ Cardinality({c} \X (1..Amount[c])) = Amount[c]
<1>1. Amount[c] \in Nat /\ Amount[c] > 0
  BY ConstantsAssumption
<1>2. IsFiniteSet(1..Amount[c]) /\ Cardinality(1..Amount[c]) = Amount[c]
  <2>1. IsFiniteSet(1..Amount[c])
    BY <1>1, FS_Interval
  <2>2. Cardinality(1..Amount[c]) = IF 1 > Amount[c] THEN 0 ELSE Amount[c] - 1 + 1
    BY <1>1, FS_Interval
  <2> QED BY <1>1, <2>1, <2>2
<1>3. IsFiniteSet({c}) /\ Cardinality({c}) = 1
  BY FS_Singleton
<1>4. /\ IsFiniteSet({c} \X (1..Amount[c]))
      /\ Cardinality({c} \X (1..Amount[c])) = 1 * Amount[c]
  BY <1>2, <1>3, FS_Product
<1> QED BY <1>1, <1>4

\* One call more adds its amount.
LEMMA SumAdd ==
  ASSUME NEW S \in SUBSET Calls, IsFiniteSet(Units(S)), NEW c \in Calls, c \notin S
  PROVE  /\ IsFiniteSet(Units(S \cup {c}))
         /\ Sum(S) \in Nat
         /\ Sum(S \cup {c}) = Sum(S) + Amount[c]
<1> DEFINE own == {c} \X (1..Amount[c])
<1>1. Units(S \cup {c}) = Units(S) \cup own
  BY DEF Units
<1>2. Units(S) \cap own = {}
  BY DEF Units
<1>3. IsFiniteSet(own) /\ Cardinality(own) = Amount[c] /\ Amount[c] \in Nat
  BY OwnUnits, ConstantsAssumption
<1> HIDE DEF own
<1>4. Cardinality(Units(S)) \in Nat
  BY FS_CardinalityType
<1>5. /\ IsFiniteSet(Units(S) \cup own)
      /\ Cardinality(Units(S) \cup own)
           = Cardinality(Units(S)) + Cardinality(own) - Cardinality(Units(S) \cap own)
  BY <1>3, FS_Union
<1>6. Cardinality(Units(S) \cap own) = 0
  BY <1>2, FS_EmptySet
<1>7. Cardinality(Units(S) \cup own) = Cardinality(Units(S)) + Amount[c]
  BY <1>3, <1>4, <1>5, <1>6
<1>8. Sum(S) = Cardinality(Units(S)) /\ Sum(S \cup {c}) = Cardinality(Units(S) \cup own)
  BY <1>1 DEF Sum
<1> QED BY <1>1, <1>4, <1>5, <1>7, <1>8

\* A sum covers each of its amounts.
LEMMA SumCovers ==
  ASSUME NEW S \in SUBSET Calls, IsFiniteSet(Units(S)), NEW c \in S
  PROVE  Sum(S) >= Amount[c]
<1> DEFINE rest == S \ {c}
<1>1. Units(rest) \subseteq Units(S)
  BY DEF Units
<1>2. IsFiniteSet(Units(rest))
  BY <1>1, FS_Subset
<1>3. rest \in SUBSET Calls /\ c \notin rest /\ rest \cup {c} = S /\ c \in Calls
  OBVIOUS
<1> HIDE DEF rest
<1>4. Sum(rest) \in Nat /\ Sum(S) = Sum(rest) + Amount[c]
  BY <1>2, <1>3, SumAdd
<1> QED BY <1>3, <1>4, ConstantsAssumption

-----------------------------------------------------------------------------
(***************************************************************************)
(* Exclusivity.  Until the counter is first overwritten the row does not   *)
(* change, so what calls seed the counter from is the row, and the counter *)
(* holds no more than the row has left after what is outstanding.          *)
(***************************************************************************)

OutstandingSteps == {"granted", "spent", "locked", "failing", "releasing", "leaked"}

Exclusive ==
  /\ \A c \in Calls : pc[c] \in {"lookup", "miss", "reserving"} => seen[c] = row
  /\ IsFiniteSet(Units(Outstanding))
  /\ redis = NoKey => Outstanding = {}
  /\ redis # NoKey /\ row # NoRow => redis + Sum(Outstanding) <= Remaining(row)

UntilSettled == "expiry" \notin faults /\ NoneSettled => Exclusive

LEMMA InitExclusive == Init => UntilSettled
<1> SUFFICES ASSUME Init PROVE Exclusive
  BY DEF UntilSettled
<1>1. \A c \in Calls : pc[c] = "idle"
  BY DEF Init, Procs
<1>2. Outstanding = {}
  BY <1>1 DEF Outstanding
<1>3. redis # NoKey /\ row # NoRow => redis + Sum(Outstanding) <= Remaining(row)
  <2>1. redis # NoKey /\ row # NoRow => redis = Remaining(row) /\ row \in Row
    BY ConstantsAssumption DEF Init
  <2> QED BY <1>2, <2>1, SumEmpty, RowRemaining
<1> QED BY <1>1, <1>2, <1>3, SumEmpty DEF Exclusive

\* A step that grants, takes back or settles nothing and leaves the counter.
LEMMA ExclusiveKept ==
  ASSUME TypeOK, Exclusive, NEW p \in Procs, NEW next, NEW r,
         next \in {"lookup", "miss", "reserving"} => r = row,
         p \in Calls => (next \in OutstandingSteps <=> pc[p] \in OutstandingSteps),
         pc' = [pc EXCEPT ![p] = next], seen' = [seen EXCEPT ![p] = r],
         row' = row, redis' = redis
  PROVE  Exclusive'
<1>1. \A q \in Procs : /\ pc'[q] = IF q = p THEN next ELSE pc[q]
                       /\ seen'[q] = IF q = p THEN r ELSE seen[q]
  BY DEF TypeOK
<1>2. Outstanding' = Outstanding
  BY <1>1 DEF Outstanding, OutstandingSteps, Procs
<1>3. \A c \in Calls : pc'[c] \in {"lookup", "miss", "reserving"} => seen'[c] = row
  BY <1>1 DEF Exclusive, Procs
<1> QED BY <1>2, <1>3 DEF Exclusive, Remaining

\* What a call that is about to seed or to reserve takes the counter to be.
LEMMA CounterIs ==
  ASSUME IInv, Exclusive, NEW c \in Calls, pc[c] \in {"miss", "reserving"}
  PROVE  /\ Counter(c) \in Nat /\ row \in Row /\ Remaining(row) \in Nat
         /\ redis # NoKey => Counter(c) = redis
         /\ redis = NoKey => Counter(c) = Remaining(row)
<1>1. row \in Row /\ seen[c] = row
  BY DEF IInv, Loaded, Exclusive
<1>2. Remaining(row) \in Nat
  BY <1>1, ConstantsAssumption DEF IInv, CapRespected, Remaining, Row
<1> QED BY <1>1, <1>2 DEF Counter, Floor, IInv, TypeOK

LEMMA ExclusiveSeed ==
  ASSUME IInv, Exclusive, NEW c \in Calls, Seed(c)
  PROVE  Exclusive'
<1>1. /\ pc' = [pc EXCEPT ![c] = "reread"] /\ seen' = seen /\ row' = row
      /\ redis' = Counter(c) /\ pc[c] = "miss" /\ c \in Procs
  BY DEF Seed, Goto, Procs
<1>2. CASE redis # NoKey
  <2>1. redis' = redis
    BY <1>1, <1>2, CounterIs
  <2>2. seen' = [seen EXCEPT ![c] = seen[c]]
    BY <1>1 DEF IInv, TypeOK
  <2> QED BY <1>1, <2>1, <2>2, ExclusiveKept DEF IInv, OutstandingSteps
<1>3. CASE redis = NoKey
  <2>1. Outstanding = {} /\ redis' = Remaining(row) /\ row \in Row /\ Remaining(row) \in Nat
    BY <1>1, <1>3, CounterIs DEF Exclusive
  <2>2. Outstanding' = {}
    BY <1>1, <2>1 DEF Outstanding, IInv, TypeOK, Procs
  <2>3. \A d \in Calls : pc'[d] \in {"lookup", "miss", "reserving"} => seen'[d] = row
    BY <1>1 DEF Exclusive, IInv, TypeOK, Procs
  <2>4. redis' + Sum(Outstanding') <= Remaining(row)
    BY <2>1, <2>2, SumEmpty
  <2> QED BY <1>1, <2>1, <2>2, <2>3, <2>4, SumEmpty DEF Exclusive, Remaining
<1> QED BY <1>2, <1>3

LEMMA ExclusiveReserve ==
  ASSUME IInv, Exclusive, NEW c \in Calls, ReserveScript(c)
  PROVE  Exclusive'
<1>1. /\ pc[c] = "reserving" /\ c \in Procs /\ row' = row
      /\ seen' = [seen EXCEPT ![c] = NoRow] /\ Amount[c] \in Nat
  BY ConstantsAssumption DEF ReserveScript, Load, Drop, Procs
<1>2. CASE pc' = [pc EXCEPT ![c] = "denied"] /\ redis' = redis
  BY <1>1, <1>2, ExclusiveKept DEF IInv, OutstandingSteps
<1>3. CASE pc' = [pc EXCEPT ![c] = "granted"] /\ redis' = Counter(c) - Amount[c]
  <2>1. Outstanding \in SUBSET Calls /\ c \notin Outstanding /\ IsFiniteSet(Units(Outstanding))
    BY <1>1 DEF Outstanding, Exclusive
  <2>2. Outstanding' = Outstanding \cup {c}
    BY <1>1, <1>3 DEF Outstanding, IInv, TypeOK, Procs
  <2>3. /\ IsFiniteSet(Units(Outstanding \cup {c})) /\ Sum(Outstanding) \in Nat
        /\ Sum(Outstanding \cup {c}) = Sum(Outstanding) + Amount[c]
    BY <2>1, SumAdd
  <2>4. Counter(c) \in Nat /\ Remaining(row) \in Nat /\ row \in Row /\ row # NoRow
    BY <1>1, CounterIs, ConstantsAssumption
  <2>5. Counter(c) + Sum(Outstanding) <= Remaining(row)
    <3>1. CASE redis = NoKey
      BY <1>1, <2>4, <3>1, CounterIs, SumEmpty DEF Exclusive
    <3>2. CASE redis # NoKey
      BY <1>1, <2>4, <3>2, CounterIs DEF Exclusive
    <3> QED BY <3>1, <3>2
  <2>6. redis' \in Int /\ redis' + Sum(Outstanding \cup {c}) <= Remaining(row)
    BY <1>1, <1>3, <2>3, <2>4, <2>5
  <2>7. \A d \in Calls : pc'[d] \in {"lookup", "miss", "reserving"} => seen'[d] = row
    BY <1>1, <1>3 DEF Exclusive, IInv, TypeOK, Procs
  <2>8. redis' # NoKey
    BY <2>6, ConstantsAssumption
  <2> QED BY <1>1, <2>2, <2>3, <2>6, <2>7, <2>8 DEF Exclusive, Remaining
<1> QED BY <1>2, <1>3 DEF ReserveScript, Load, Drop

\* Once somebody has settled, or stopped after it was to, that stays so.
LEMMA SettledStays ==
  ASSUME TypeOK, NEW p \in Procs, NEW next, NoneSettled', pc' = [pc EXCEPT ![p] = next],
         pc[p] \in {"reset", "committed", "unrecorded", "failed", "aborted", "updated"} =>
           next \in {"reset", "committed", "unrecorded", "failed", "aborted", "updated"}
  PROVE  NoneSettled
<1>1. \A q \in Procs : pc'[q] = IF q = p THEN next ELSE pc[q]
  BY DEF TypeOK
<1> QED BY <1>1 DEF NoneSettled

LEMMA ExclusiveCall ==
  ASSUME IInv, NoneSettled => Exclusive, NEW c \in Calls, CallStep(c), NoneSettled'
  PROVE  Exclusive'
<1> USE DEF Goto, Load, Drop
<1>1. c \in Procs /\ TypeOK /\ seen = [seen EXCEPT ![c] = seen[c]]
  BY DEF IInv, TypeOK, Procs
<1>2. PICK next : pc' = [pc EXCEPT ![c] = next] /\ (pc[c] = "reset" => next = "committed")
                  /\ pc[c] \notin CallEnds
  BY DEF CallStep, Evaluate, Lookup, Seed, Reread, Resolve, ReserveSelect, ReserveScript,
         ToolSucceeds, ToolFails, CommitLoad, CommitReset, CommitFlush, ReleaseLoad,
         ReleaseSet, Decide, CallEnds
<1>3. NoneSettled
  <2>1. pc[c] \notin {"committed", "unrecorded", "failed", "aborted", "updated"}
    BY <1>1, <1>2 DEF CallEnds, CallSteps, TypeOK
  <2> QED BY <1>1, <1>2, <2>1, SettledStays
<1>4. Exclusive
  BY <1>3
<1>5. pc[c] # "reset" /\ pc'[c] \notin {"reset", "committed", "unrecorded", "failed"}
  BY <1>1, <1>3 DEF NoneSettled
<1>6. pc[c] \in {"lookup", "miss", "reserving"} => seen[c] = row
  BY <1>4 DEF Exclusive
<1> USE DEF OutstandingSteps
<1>7. CASE Evaluate(c)
  BY <1>1, <1>4, <1>7, ExclusiveKept DEF Evaluate
<1>8. CASE Lookup(c)
  BY <1>1, <1>4, <1>6, <1>8, ExclusiveKept DEF Lookup, Decide, Outcomes
<1>9. CASE Seed(c)
  BY <1>4, <1>9, ExclusiveSeed
<1>10. CASE Reread(c)
  BY <1>1, <1>4, <1>10, ExclusiveKept DEF Reread, Decide, Outcomes
<1>11. CASE Resolve(c)
  <2>1. PICK end \in {"allowed", "denied"} : pc' = [pc EXCEPT ![c] = end]
    BY <1>11 DEF Resolve
  <2> QED BY <1>1, <1>4, <1>11, <2>1, ExclusiveKept DEF Resolve
<1>12. CASE ReserveSelect(c)
  BY <1>1, <1>4, <1>12, ExclusiveKept DEF ReserveSelect
<1>13. CASE ReserveScript(c)
  BY <1>4, <1>13, ExclusiveReserve
<1>14. CASE ToolSucceeds(c)
  BY <1>1, <1>4, <1>14, ExclusiveKept DEF ToolSucceeds
<1>15. CASE ToolFails(c)
  BY <1>1, <1>4, <1>15, ExclusiveKept DEF ToolFails
<1>16. CASE CommitLoad(c)
  <2>1. pc[c] = "spent" /\ pc' = [pc EXCEPT ![c] = "locked"] /\ row' = row /\ redis' = redis
        /\ seen' = [seen EXCEPT ![c] = Consume(row, c)]
    BY <1>1, <1>5, <1>16 DEF CommitLoad, TypeOK
  <2> QED BY <1>1, <1>4, <2>1, ExclusiveKept
<1>17. CASE ReleaseLoad(c)
  <2>1. pc[c] = "failing" /\ pc' = [pc EXCEPT ![c] = "releasing"] /\ row' = row
        /\ redis' = redis /\ seen' = [seen EXCEPT ![c] = row]
    BY <1>1, <1>5, <1>17 DEF ReleaseLoad, TypeOK
  <2> QED BY <1>1, <1>4, <2>1, ExclusiveKept
<1>18. ~CommitReset(c) /\ ~CommitFlush(c) /\ ~ReleaseSet(c)
  BY <1>1, <1>5 DEF CommitReset, CommitFlush, ReleaseSet, TypeOK
<1> QED BY <1>7, <1>8, <1>9, <1>10, <1>11, <1>12, <1>13, <1>14, <1>15, <1>16, <1>17, <1>18
        DEF CallStep

LEMMA ExclusiveAdmin ==
  ASSUME IInv, NoneSettled => Exclusive, NEW a \in Admins, AdminStep(a), NoneSettled'
  PROVE  Exclusive'
<1> USE DEF Goto, Load, Drop
<1>1. /\ a \in Procs /\ a \notin Calls /\ TypeOK
      /\ seen = [seen EXCEPT ![a] = seen[a]]
  BY ConstantsAssumption DEF IInv, TypeOK, Procs
<1>2. PICK next, r : /\ pc' = [pc EXCEPT ![a] = next] /\ seen' = [seen EXCEPT ![a] = r]
                     /\ next \in {"inserting", "refused", "flushed", "reset", "updated"}
                     /\ pc[a] = "reset" => next = "updated"
                     /\ pc[a] \in AdminSteps
                     /\ next \notin {"reset", "updated"} => row' = row /\ redis' = redis
  BY <1>1 DEF AdminStep, UpsertLoad, UpsertInsert, UpsertReset, UpsertCommit, AdminSteps
<1>3. next \notin {"reset", "updated"}
  BY <1>1, <1>2 DEF NoneSettled, TypeOK
<1>4. NoneSettled
  BY <1>1, <1>2, SettledStays DEF AdminSteps
<1> QED BY <1>1, <1>2, <1>3, <1>4, ExclusiveKept

\* A handler that stops leaves its reservation, if it has one.
LEMMA ExclusiveAbandon ==
  ASSUME IInv, NoneSettled => Exclusive, NEW p \in Procs, Abandon(p), NoneSettled'
  PROVE  Exclusive'
<1>1. /\ TypeOK /\ pc' = [pc EXCEPT ![p] = StopsAs(p)] /\ seen' = [seen EXCEPT ![p] = NoRow]
      /\ row' = row /\ redis' = redis /\ ~Ended(p)
  BY DEF Abandon, Load, Drop, IInv
<1>2. StopsAs(p) \notin {"unrecorded", "aborted"}
  BY <1>1 DEF NoneSettled, TypeOK
<1>3. /\ p \in Calls /\ p \notin Admins /\ pc[p] \in CallSteps
      /\ pc[p] \notin {"spent", "locked", "reset"}
  BY <1>1, <1>2, ConstantsAssumption DEF StopsAs, Procs, Ended, TypeOK
<1>4. /\ StopsAs(p) \in {"leaked", "denied"}
      /\ StopsAs(p) = "leaked" <=> pc[p] \in {"granted", "failing", "releasing"}
  BY <1>3 DEF StopsAs
<1>5. NoneSettled
  BY <1>1, <1>3, SettledStays DEF CallSteps
<1> QED BY <1>1, <1>3, <1>4, <1>5, ExclusiveKept DEF CallSteps, OutstandingSteps

LEMMA StepExclusive == IInv /\ UntilSettled /\ [Next]_vars => UntilSettled'
<1> SUFFICES ASSUME IInv, UntilSettled, [Next]_vars, ("expiry" \notin faults)', NoneSettled'
             PROVE  Exclusive'
  BY DEF UntilSettled
<1>1. "expiry" \notin faults /\ (NoneSettled => Exclusive)
  BY DEF Next, vars, UntilSettled
<1>2. CASE UNCHANGED state
  BY <1>1, <1>2 DEF state, Exclusive, Outstanding, NoneSettled, Remaining
<1>3. ASSUME NEW c \in Calls, CallStep(c) PROVE Exclusive'
  BY <1>1, <1>3, ExclusiveCall
<1>4. ASSUME NEW a \in Admins, AdminStep(a) PROVE Exclusive'
  BY <1>1, <1>4, ExclusiveAdmin
<1>5. ASSUME NEW p \in Procs, Abandon(p) PROVE Exclusive'
  BY <1>1, <1>5, ExclusiveAbandon
<1>6. ~Expire
  BY <1>1 DEF Expire
<1>7. CASE AllEnded
  BY <1>2, <1>7 DEF AllEnded
<1> QED BY <1>2, <1>3, <1>4, <1>5, <1>6, <1>7 DEF Next, vars

\* Calls that find no counter seed it from rows they read at different times,
\* reserve, run, fail or stop: until somebody overwrites the counter, what is
\* reserved for unsettled calls is no more than the ledger has left.
THEOREM ExclusiveTheorem == Spec => []ReservationsExclusiveUntilSettled
<1>1. IInv /\ UntilSettled => ReservationsExclusiveUntilSettled
  <2> SUFFICES ASSUME IInv, Exclusive, row # NoRow
               PROVE  Sum(Outstanding) <= Remaining(row)
    BY DEF UntilSettled, ReservationsExclusiveUntilSettled
  <2>1. row \in Row /\ Remaining(row) \in Nat
    BY ConstantsAssumption DEF IInv, TypeOK, CapRespected, Remaining, Row
  <2>2. CASE redis = NoKey
    BY <2>1, <2>2, SumEmpty DEF Exclusive
  <2>3. CASE redis # NoKey
    <3>1. redis \in Nat /\ redis + Sum(Outstanding) <= Remaining(row)
      BY <2>3 DEF IInv, TypeOK, Exclusive
    <3>2. Sum(Outstanding) \in Nat
      BY FS_CardinalityType DEF Sum, Exclusive
    <3> QED BY <2>1, <3>1, <3>2
  <2> QED BY <2>2, <2>3
<1> QED BY <1>1, InitExclusive, StepExclusive, Invariance, PTL DEF Spec

\* What tools have spent and no commit has written yet fits under the cap until
\* the counter is first overwritten: only the overwriting lets them overspend.
THEOREM SpentUntilSettledTheorem ==
  Spec => []("expiry" \notin faults /\ NoneSettled => SpentWithinCap)
<1>1. IInv /\ UntilSettled /\ ReservationsExclusiveUntilSettled
        => ("expiry" \notin faults /\ NoneSettled => SpentWithinCap)
  <2> DEFINE unwritten == {c \in Calls : pc[c] \in {"spent", "locked", "reset", "unrecorded"}}
  <2> SUFFICES ASSUME IInv, Exclusive, NoneSettled, row # NoRow,
                      Sum(Outstanding) <= Remaining(row)
               PROVE  row.consumed + Sum(unwritten) <= row.limit
    BY DEF UntilSettled, ReservationsExclusiveUntilSettled, SpentWithinCap
  <2>1. unwritten \subseteq Outstanding
    BY DEF NoneSettled, Outstanding, Procs
  <2>2. Sum(unwritten) \in Nat /\ Sum(Outstanding) \in Nat /\ Sum(unwritten) <= Sum(Outstanding)
    <3>1. Units(unwritten) \subseteq Units(Outstanding)
      BY <2>1 DEF Units
    <3>2. IsFiniteSet(Units(Outstanding))
      BY DEF Exclusive
    <3> HIDE DEF unwritten
    <3> QED BY <3>1, <3>2, FS_Subset, FS_CardinalityType DEF Sum
  <2>3. row.consumed \in Nat /\ row.limit \in Nat
    BY DEF IInv, TypeOK, Row
  <2> HIDE DEF unwritten
  <2> QED BY <2>2, <2>3 DEF Remaining
<1> QED BY <1>1, InitExclusive, StepExclusive, ExclusiveTheorem, Invariance, PTL DEF Spec

-----------------------------------------------------------------------------
(***************************************************************************)
(* Convergence, when nothing fails.  A reset() erases the reservations of  *)
(* the calls still running, so the counter stands for some of them only:   *)
(* those made since.  Backed says that these account for the whole         *)
(* difference between the counter and what the ledger has left, or will    *)
(* have when the transaction that wrote the counter commits.               *)
(***************************************************************************)

HeldSteps == {"granted", "spent", "locked"}
Held == {c \in Calls : pc[c] \in HeldSteps}

Backed(L) ==
  /\ IsFiniteSet(Units(L))
  /\ \A p \in Procs : pc[p] = "reset" => redis + Sum(L) = Remaining(seen[p])
  /\ (\A p \in Procs : pc[p] # "reset") /\ row # NoRow => redis + Sum(L) = Remaining(row)

Reserved ==
  /\ \A c \in Calls : pc[c] \in {"reserving"} \cup HeldSteps => Usable(row)
  /\ redis # NoKey => \E L \in SUBSET Held : Backed(L)

LEMMA InitReserved == Init => Reserved
<1> SUFFICES ASSUME Init PROVE Reserved
  OBVIOUS
<1>1. \A p \in Procs : pc[p] = "idle"
  BY DEF Init
<1>2. redis # NoKey /\ row # NoRow => redis + Sum({}) = Remaining(row)
  <2>1. redis # NoKey /\ row # NoRow => redis = Remaining(row) /\ row \in Row
    BY ConstantsAssumption DEF Init
  <2> QED BY <2>1, SumEmpty, RowRemaining
<1>3. redis # NoKey => Backed({})
  BY <1>1, <1>2, SumEmpty DEF Backed
<1> QED BY <1>1, <1>3 DEF Reserved, HeldSteps, Procs

\* A step that leaves row and counter, of a coroutine that has not written the
\* counter itself, as long as no reservation it stands for goes.
LEMMA ReservedKept ==
  ASSUME TypeOK, Reserved, NEW p \in Procs, NEW next, NEW r,
         pc[p] # "reset", next # "reset", row' = row, redis' = redis,
         p \in Calls /\ next \in {"reserving"} \cup HeldSteps => Usable(row),
         \A L \in SUBSET Held :
           redis # NoKey /\ Backed(L) /\ p \in L => next \in HeldSteps,
         pc' = [pc EXCEPT ![p] = next], seen' = [seen EXCEPT ![p] = r]
  PROVE  Reserved'
<1>1. \A q \in Procs : /\ pc'[q] = IF q = p THEN next ELSE pc[q]
                       /\ seen'[q] = IF q = p THEN r ELSE seen[q]
  BY DEF TypeOK
<1>2. \A c \in Calls : pc'[c] \in {"reserving"} \cup HeldSteps => Usable(row)
  BY <1>1 DEF Reserved, Procs
<1>3. ASSUME NEW L \in SUBSET Held, redis # NoKey, Backed(L)
      PROVE  L \in SUBSET Held' /\ Backed(L)'
  <2>1. L \in SUBSET Held'
    BY <1>1, <1>3 DEF Held, Procs
  <2>2. \A q \in Procs : pc'[q] = "reset" <=> pc[q] = "reset"
    BY <1>1
  <2>3. \A q \in Procs : pc'[q] = "reset" => seen'[q] = seen[q]
    BY <1>1
  <2> QED BY <1>3, <2>1, <2>2, <2>3 DEF Backed, Remaining
<1>4. redis' # NoKey => \E L \in SUBSET Held' : Backed(L)'
  BY <1>3 DEF Reserved
<1> QED BY <1>2, <1>4 DEF Reserved, Usable

\* A call that seeds the counter.
LEMMA ReservedSeed ==
  ASSUME IInv, CounterInv, Reserved, NEW c \in Calls, Seed(c)
  PROVE  Reserved'
<1>1. /\ pc[c] = "miss" /\ c \in Procs /\ pc' = [pc EXCEPT ![c] = "reread"] /\ seen' = seen
      /\ row' = row /\ redis' = Counter(c) /\ TypeOK
      /\ seen' = [seen EXCEPT ![c] = seen[c]]
  BY DEF Seed, Goto, Procs, IInv, TypeOK
<1>2. CASE redis # NoKey
  <2>1. redis' = redis /\ \A L \in SUBSET Held : c \notin L
    BY <1>1, <1>2 DEF Counter, Held, HeldSteps
  <2> QED BY <1>1, <2>1, ReservedKept DEF HeldSteps
<1>3. CASE redis = NoKey
  <2>1. row \in Row /\ seen[c] = row /\ \A p \in Procs : pc[p] # "reset"
    BY <1>1, <1>3 DEF IInv, Loaded, CounterInv
  <2>2. redis' = Remaining(row) /\ Remaining(row) \in Nat
    BY <1>1, <1>3, <2>1, ConstantsAssumption
       DEF Counter, Floor, IInv, CapRespected, Remaining, Row
  <2>3. \A p \in Procs : pc'[p] # "reset"
    BY <1>1, <2>1
  <2>4. \A d \in Calls : pc'[d] \in {"reserving"} \cup HeldSteps => Usable(row)
    BY <1>1 DEF Reserved, HeldSteps, TypeOK, Procs
  <2>5. redis' + Sum({}) = Remaining(row)
    BY <2>2, SumEmpty
  <2>6. Backed({})'
    BY <1>1, <2>3, <2>5, SumEmpty DEF Backed, Remaining, Sum, Units
  <2> QED BY <1>1, <2>4, <2>6 DEF Reserved, Usable
<1> QED BY <1>2, <1>3

\* A call that reserves: its amount moves from the counter to what backs it.
LEMMA ReservedReserve ==
  ASSUME IInv, CounterInv, Reserved, NEW c \in Calls, ReserveScript(c)
  PROVE  Reserved'
<1>1. /\ pc[c] = "reserving" /\ c \in Procs /\ row' = row /\ TypeOK
      /\ seen' = [seen EXCEPT ![c] = NoRow] /\ Amount[c] \in Nat
      /\ \A L \in SUBSET Held : c \notin L
  BY ConstantsAssumption DEF ReserveScript, Load, Drop, Procs, IInv, Held, HeldSteps
<1>2. CASE pc' = [pc EXCEPT ![c] = "denied"] /\ redis' = redis
  BY <1>1, <1>2, ReservedKept DEF HeldSteps
<1>3. CASE pc' = [pc EXCEPT ![c] = "granted"] /\ redis' = Counter(c) - Amount[c]
  <2>1. Usable(row) /\ row \in Row /\ row # NoRow
    BY <1>1 DEF Reserved, TypeOK, Usable
  <2>2. \A q \in Procs : /\ pc'[q] = IF q = c THEN "granted" ELSE pc[q]
                         /\ seen'[q] = IF q = c THEN NoRow ELSE seen[q]
    BY <1>1, <1>3 DEF TypeOK
  <2>3. \A d \in Calls : pc'[d] \in {"reserving"} \cup HeldSteps => Usable(row)
    BY <2>1
  <2>4. PICK L \in SUBSET Held :
          /\ IsFiniteSet(Units(L)) /\ Counter(c) \in Nat
          /\ \A p \in Procs : pc[p] = "reset" => Counter(c) + Sum(L) = Remaining(seen[p])
          /\ (\A p \in Procs : pc[p] # "reset") => Counter(c) + Sum(L) = Remaining(row)
    <3>1. CASE redis # NoKey
      <4>1. Counter(c) = redis /\ redis \in Nat
        BY <1>1, <3>1 DEF Counter, TypeOK
      <4> QED BY <2>1, <3>1, <4>1 DEF Reserved, Backed
    <3>2. CASE redis = NoKey
      <4>1. seen[c] = row /\ \A p \in Procs : pc[p] # "reset"
        BY <1>1, <3>2 DEF CounterInv
      <4>2. Counter(c) = Remaining(row) /\ Counter(c) \in Nat
        BY <2>1, <3>2, <4>1, ConstantsAssumption
           DEF Counter, Floor, IInv, CapRespected, Remaining, Row
      <4>3. {} \in SUBSET Held /\ Counter(c) + Sum({}) = Remaining(row)
        BY <4>2, SumEmpty
      <4> QED BY <4>1, <4>2, <4>3, SumEmpty
    <3> QED BY <3>1, <3>2
  <2> DEFINE more == L \cup {c}
  <2>5. /\ IsFiniteSet(Units(more)) /\ Sum(L) \in Nat /\ Sum(more) = Sum(L) + Amount[c]
    <3>1. L \in SUBSET Calls /\ c \notin L
      BY <1>1 DEF Held
    <3> QED BY <2>4, <3>1, SumAdd
  <2>6. more \in SUBSET Held'
    BY <2>2, <1>1 DEF Held, HeldSteps, Procs
  <2>7. redis' + Sum(more) = Counter(c) + Sum(L) /\ redis' \in Int
    BY <1>1, <1>3, <2>4, <2>5
  <2>8. \A p \in Procs : pc'[p] = "reset" => pc[p] = "reset" /\ seen'[p] = seen[p]
    BY <2>2
  <2>9. (\A p \in Procs : pc'[p] # "reset") => \A p \in Procs : pc[p] # "reset"
    BY <1>1, <2>2
  <2>10. Backed(more)'
    <3> HIDE DEF more
    <3>1. \A p \in Procs : pc'[p] = "reset" => redis' + Sum(more) = Remaining(seen'[p])
      BY <2>4, <2>7, <2>8
    <3>2. (\A p \in Procs : pc'[p] # "reset") => redis' + Sum(more) = Remaining(row')
      BY <1>1, <2>4, <2>7, <2>9
    <3> QED BY <2>5, <3>1, <3>2 DEF Backed, Remaining, more, Sum, Units
  <2> QED BY <1>1, <2>3, <2>6, <2>10 DEF Reserved, Usable
<1> QED BY <1>2, <1>3 DEF ReserveScript, Load, Drop

\* reset() leaves nothing to be backed but what its own change leaves.
LEMMA ReservedReset ==
  ASSUME IInv, Reserved, NEW p \in Procs, lock = p, pc[p] \in {"locked", "flushed"},
         pc' = [pc EXCEPT ![p] = "reset"], seen' = seen, row' = row,
         redis' = Remaining(seen[p]), Remaining(seen[p]) \in Nat
  PROVE  Reserved'
<1>1. \A q \in Procs : pc'[q] = IF q = p THEN "reset" ELSE pc[q]
  BY DEF IInv, TypeOK
<1>2. \A q \in Procs : pc'[q] = "reset" => q = p
  BY <1>1 DEF IInv, ChangeInFlight
<1>3. \A c \in Calls : pc'[c] \in {"reserving"} \cup HeldSteps => Usable(row)
  BY <1>1 DEF Reserved, HeldSteps, Procs
<1>4. redis' + Sum({}) = Remaining(seen'[p])
  <2>1. redis' + Sum({}) = Remaining(seen[p])
    BY SumEmpty
  <2> QED BY <2>1
<1>5. Backed({})'
  BY <1>1, <1>2, <1>4, SumEmpty DEF Backed, Sum, Units, Remaining
<1> QED BY <1>3, <1>5 DEF Reserved, Usable

\* The commit that follows makes the row what the counter was computed from.
LEMMA ReservedCommit ==
  ASSUME IInv, CounterInv, Reserved, NEW p \in Procs, lock = p, pc[p] = "reset",
         NEW next \in {"committed", "updated"}, pc' = [pc EXCEPT ![p] = next],
         seen' = [seen EXCEPT ![p] = NoRow], redis' = redis,
         Remaining(row') = Remaining(seen[p]), Usable(row) => Usable(row)'
  PROVE  Reserved'
<1>1. \A q \in Procs : pc'[q] = IF q = p THEN next ELSE pc[q]
  BY DEF IInv, TypeOK
<1>2. \A q \in Procs : pc'[q] # "reset"
  BY <1>1 DEF IInv, ChangeInFlight
<1>3. \A c \in Calls : pc'[c] \in {"reserving"} \cup HeldSteps => Usable(row)'
  BY <1>1 DEF Reserved, HeldSteps, Procs
<1>4. PICK L \in SUBSET Held : Backed(L)
  BY DEF CounterInv, Reserved
<1>5. L \in SUBSET Held'
  BY <1>1 DEF Held, HeldSteps, Procs
<1>6. redis + Sum(L) = Remaining(seen[p]) /\ IsFiniteSet(Units(L))
  BY <1>4 DEF Backed
<1>7. Backed(L)'
  BY <1>2, <1>6 DEF Backed, Sum, Units
<1> QED BY <1>3, <1>5, <1>7 DEF Reserved

\* A commit that finds no room was made by a call whose reservation a reset()
\* has erased: the counter would not have been lowered for it otherwise.
LEMMA UnrecordedUnbacked ==
  ASSUME IInv, Reserved, NEW c \in Calls, CommitLoad(c), redis # NoKey,
         NEW L \in SUBSET Held, Backed(L), c \in L,
         ~(Usable(row) /\ row.consumed + Amount[c] <= row.limit)
  PROVE  FALSE
<1>1. Usable(row) /\ row \in Row /\ row # NoRow
  BY DEF CommitLoad, Reserved, HeldSteps, Usable, IInv, TypeOK
<1>2. \A p \in Procs : pc[p] # "reset"
  BY <1>1, ConstantsAssumption DEF CommitLoad, RowFree, IInv, ChangeInFlight
<1>3. redis + Sum(L) = Remaining(row) /\ redis \in Nat
  BY <1>1, <1>2 DEF Backed, IInv, TypeOK
<1>4. Sum(L) >= Amount[c] /\ Sum(L) \in Nat /\ Amount[c] \in Nat
  <2>1. L \in SUBSET Calls /\ IsFiniteSet(Units(L))
    BY DEF Held, Backed
  <2> QED BY <2>1, SumCovers, FS_CardinalityType, ConstantsAssumption DEF Sum
<1>5. row.limit - row.consumed >= Amount[c]
  BY <1>3, <1>4 DEF Remaining
<1>6. row.limit \in Nat /\ row.consumed \in Nat
  BY <1>1 DEF Row
<1> QED BY <1>1, <1>4, <1>5, <1>6

LEMMA ReservedCall ==
  ASSUME IInv, CounterInv, Reserved, faults = {}, NEW c \in Calls, CallStep(c)
  PROVE  Reserved'
<1> USE DEF Goto, Load, Drop, HeldSteps
<1>1. /\ c \in Procs /\ TypeOK /\ seen = [seen EXCEPT ![c] = seen[c]]
      /\ pc[c] \notin {"failing", "releasing"}
  BY DEF IInv, TypeOK, CounterInv, Procs
<1>2. pc[c] \notin HeldSteps => \A L \in SUBSET Held : c \notin L
  BY DEF Held
<1>3. CASE Evaluate(c)
  BY <1>1, <1>2, <1>3, ReservedKept DEF Evaluate
<1>4. CASE Lookup(c)
  BY <1>1, <1>2, <1>4, ReservedKept DEF Lookup, Decide, Outcomes
<1>5. CASE Seed(c)
  BY <1>5, ReservedSeed
<1>6. CASE Reread(c)
  BY <1>1, <1>2, <1>6, ReservedKept DEF Reread, Decide, Outcomes
<1>7. CASE Resolve(c)
  <2>1. PICK end \in {"allowed", "denied"} : pc' = [pc EXCEPT ![c] = end]
    BY <1>7 DEF Resolve
  <2> QED BY <1>1, <1>2, <1>7, <2>1, ReservedKept DEF Resolve
<1>8. CASE ReserveSelect(c)
  BY <1>1, <1>2, <1>8, ReservedKept DEF ReserveSelect
<1>9. CASE ReserveScript(c)
  BY <1>9, ReservedReserve
<1>10. CASE ToolSucceeds(c)
  <2>1. Usable(row)
    BY <1>10 DEF ToolSucceeds, Reserved
  <2> QED BY <1>1, <1>10, <2>1, ReservedKept DEF ToolSucceeds
<1>11. CASE ToolFails(c) \/ ReleaseLoad(c) \/ ReleaseSet(c)
  BY <1>1, <1>11 DEF ToolFails, ReleaseLoad, ReleaseSet
<1>12. CASE CommitLoad(c)
  <2>1. CASE Usable(row) /\ row.consumed + Amount[c] <= row.limit
    BY <1>1, <1>12, <2>1, ReservedKept DEF CommitLoad
  <2>2. CASE ~(Usable(row) /\ row.consumed + Amount[c] <= row.limit)
    <3>1. \A L \in SUBSET Held : redis # NoKey /\ Backed(L) => c \notin L
      BY <1>12, <2>2, UnrecordedUnbacked
    <3>2. /\ pc[c] = "spent" /\ pc' = [pc EXCEPT ![c] = "unrecorded"] /\ row' = row
          /\ redis' = redis /\ seen' = [seen EXCEPT ![c] = NoRow]
      BY <1>12, <2>2 DEF CommitLoad
    <3> QED BY <1>1, <3>1, <3>2, ReservedKept
  <2> QED BY <2>1, <2>2
<1>13. CASE CommitReset(c)
  <2>1. /\ row \in Row /\ seen[c] = Consume(row, c) /\ lock = c
        /\ row.consumed + Amount[c] <= row.limit
    BY <1>1, <1>13 DEF CommitReset, IInv, TypeOK, ChangeInFlight, Usable
  <2>2. Remaining(seen[c]) \in Nat
    BY <2>1, ConsumeFields, ConstantsAssumption DEF Remaining, Row
  <2> QED BY <1>1, <1>13, <2>1, <2>2, ReservedReset DEF CommitReset, ResetTo
<1>14. CASE CommitFlush(c)
  <2>1. lock = c /\ row' = Consume(row, c) /\ seen[c] = Consume(row, c) /\ row \in Row
    BY <1>14, CommitFlushRow DEF CommitFlush, IInv, ChangeInFlight
  <2>2. row' \in Row /\ row'.active = row.active
    BY <2>1, ConsumeFields
  <2>3. Usable(row) => Usable(row)'
    BY <2>2, ConstantsAssumption DEF Usable
  <2> QED BY <1>1, <1>14, <2>1, <2>3, ReservedCommit DEF CommitFlush, Remaining
<1> QED BY <1>3, <1>4, <1>5, <1>6, <1>7, <1>8, <1>9, <1>10, <1>11, <1>12, <1>13, <1>14
        DEF CallStep

LEMMA ReservedAdmin ==
  ASSUME IInv, CounterInv, Reserved, NEW a \in Admins, AdminStep(a)
  PROVE  Reserved'
<1> USE DEF Goto, Load, Drop
<1>1. /\ a \in Procs /\ a \notin Calls /\ TypeOK /\ seen = [seen EXCEPT ![a] = seen[a]]
      /\ \A L \in SUBSET Held : a \notin L
  BY ConstantsAssumption DEF IInv, TypeOK, Procs, Held
<1>2. CASE UpsertLoad(a)
  BY <1>1, <1>2, ReservedKept DEF UpsertLoad
<1>3. CASE UpsertInsert(a)
  BY <1>1, <1>3, ReservedKept DEF UpsertInsert
<1>4. CASE UpsertReset(a)
  <2>1. Remaining(seen[a]) \in Nat /\ lock = a
    BY <1>1, <1>4, AdminRemaining DEF UpsertReset, IInv, ChangeInFlight
  <2> QED BY <1>1, <1>4, <2>1, ReservedReset DEF UpsertReset, ResetTo
<1>5. CASE UpsertCommit(a)
  <2>1. lock = a /\ row' = seen[a]
    <3>1. CASE row = NoRow
      BY <1>5, <3>1, UpsertCommitRow DEF UpsertCommit
    <3>2. CASE row # NoRow
      BY <1>5, <3>2, UpsertCommitRow DEF UpsertCommit, IInv, ChangeInFlight
    <3> QED BY <3>1, <3>2
  <2>2. Usable(row) => Usable(row)'
    <3> SUFFICES ASSUME Usable(row) PROVE Usable(row)'
      OBVIOUS
    <3>1. row \in Row /\ row' = MoveLimit(row, a)
      BY <1>5, UpsertCommitRow DEF Usable
    <3>2. row' \in Row /\ row'.active = row.active
      BY <3>1, MoveLimitFields
    <3> QED BY <3>2, ConstantsAssumption DEF Usable
  <2> QED BY <1>1, <1>5, <2>1, <2>2, ReservedCommit DEF UpsertCommit, Remaining
<1> QED BY <1>2, <1>3, <1>4, <1>5 DEF AdminStep

LEMMA StepReserved ==
  IInv /\ (faults = {} => CounterInv) /\ (faults = {} => Reserved) /\ [Next]_vars
    => (faults = {} => Reserved)'
<1>0. [Next]_vars => faults' = faults
  BY DEF Next, vars
<1> SUFFICES ASSUME IInv, CounterInv, Reserved, faults = {}, [Next]_vars PROVE Reserved'
  BY <1>0
<1>1. CASE UNCHANGED state
  BY <1>1 DEF state, Reserved, Held, Backed, Sum, Units, Usable, Remaining
<1>2. ASSUME NEW c \in Calls, CallStep(c) PROVE Reserved'
  BY <1>2, ReservedCall
<1>3. ASSUME NEW a \in Admins, AdminStep(a) PROVE Reserved'
  BY <1>3, ReservedAdmin
<1>4. ~Expire /\ \A p \in Procs : ~Abandon(p)
  BY DEF Expire, Abandon
<1>5. CASE AllEnded
  BY <1>1, <1>5 DEF AllEnded
<1> QED BY <1>1, <1>2, <1>3, <1>4, <1>5 DEF Next, vars

\* When nothing fails and everything has come to rest, the counter is absent or
\* below the ledger by reservations of calls over HTTP only, in whatever order
\* reservations, resets and commits came: no older amount survives a change of
\* the row, and a call whose commit finds no room has no reservation in the
\* counter any more.
THEOREM ConvergesTheorem == Spec => []CounterConverges
<1>1. IInv /\ (faults = {} => CounterInv) /\ (faults = {} => Reserved) => CounterConverges
  <2> SUFFICES ASSUME IInv, CounterInv, Reserved, redis # NoKey, row # NoRow,
                      \A p \in Procs : Ended(p)
               PROVE  \E kept \in SUBSET {c \in Calls : pc[c] = "granted"} :
                        redis + Sum(kept) = Remaining(row)
    BY DEF CounterConverges
  <2>1. \A c \in Calls : pc[c] \in CallEnds \cup {"granted"}
    BY ConstantsAssumption DEF Ended, Procs
  <2>2. Held \subseteq {c \in Calls : pc[c] = "granted"}
    BY <2>1 DEF Held, HeldSteps, CallEnds
  <2>3. \A p \in Procs : pc[p] # "reset"
    BY <2>1 DEF Ended, Procs, CallEnds, AdminEnds
  <2>4. PICK kept \in SUBSET Held : Backed(kept)
    BY DEF Reserved
  <2>5. redis + Sum(kept) = Remaining(row)
    BY <2>3, <2>4 DEF Backed
  <2> QED BY <2>2, <2>4, <2>5
<1> QED BY <1>1, InitReserved, StepReserved, InitCounter, StepCounter, Invariance, PTL DEF Spec
=============================================================================

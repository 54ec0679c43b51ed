------------------------- MODULE HitlApprovalProofs -------------------------
(***************************************************************************)
(* Proofs, for any number of callers, reviewers and other requests and for *)
(* every fault, that an approval is resolved once, that callers and        *)
(* reviewers learn the resolution the row shows, that the audit chain      *)
(* tells the same, and that two requests never collide on the idempotency  *)
(* key.                                                                    *)
(*                                                                         *)
(* Everything follows from what each coroutine may rely on where it        *)
(* stands, Stands(p): which locks it has and what it knows of the row.  A  *)
(* step of p changes the row only with both locks in hand, and then no     *)
(* other coroutine relies on what the row was.                             *)
(***************************************************************************)
EXTENDS HitlApproval, FiniteSetTheorems, SequenceTheorems, TLAPS

\* Between the insert of its first audit row and its end, a transaction keeps
\* the next sequence number to itself.
Appended == {"finding", "inserting", "inserted", "found", "recorded"}

\* Who has the row, or its key, locked.  Other requests never have.
Locking == {"inserted", "locked", "recording", "recorded"}

Stands(p) ==
  /\ writer = p <=> pc[p] \in Appended
  /\ holder = p <=> p \notin Others /\ pc[p] \in Locking
  /\ pc[p] \in {"inserting", "inserted"} => status = "none"
  /\ p \notin Others /\ pc[p] \in {"locked", "recording", "recorded"} => status = "pending"
  /\ p \in Callers =>
       /\ pc[p] \in {"found", "subscribing", "waiting", "polling", "expiring"} =>
            status # "none"
       /\ pc[p] = "notified" => status \in Terminal
       /\ pc[p] = "allowed" => status = "approved"
       /\ pc[p] = "refused" => status = "rejected"
  /\ p \in Reviewers /\ pc[p] \in {"publishing", "done"} => status = Verdict[p]

\* A message is sent after the resolution it announces.
MailTells == mail # {} => status \in Terminal

HInv == TypeOK /\ MailTells /\ \A p \in Procs : Stands(p)

\* Where a coroutine of each kind can be.
Place(p, next) ==
  /\ p \in Callers => next \in CallerSteps \cup CallerEnds
  /\ p \in Reviewers => next \in ReviewerSteps \cup ReviewerEnds
  /\ p \in Others => next \in OtherSteps \cup OtherEnds

LEMMA InitHInv == Init => HInv
<1> SUFFICES ASSUME Init PROVE HInv
  OBVIOUS
<1>1. pc = [p \in Procs |-> "idle"] /\ last = [p \in Procs |-> 0] /\ trail \in Seq(Events)
  BY DEF Init
<1>2. TypeOK
  <2>1. /\ pc \in [Procs -> CallerSteps \cup CallerEnds \cup ReviewerSteps \cup ReviewerEnds
                            \cup OtherSteps \cup OtherEnds]
        /\ \A p \in Procs : pc[p] = "idle"
    BY <1>1 DEF CallerSteps
  <2>2. status \in {"none", "pending"} \cup Terminal /\ last \in [Procs -> Nat]
    BY <1>1 DEF Init
  <2> QED BY <1>1, <2>1, <2>2 DEF Init, TypeOK, Procs, CallerSteps, ReviewerSteps, OtherSteps
<1>3. \A p \in Procs : Stands(p)
  BY ConstantsAssumption DEF Init, Stands, Appended, Locking
<1> QED BY <1>2, <1>3 DEF Init, HInv, MailTells

-----------------------------------------------------------------------------
\* What a step of one coroutine may do to the variables, by type.
LEMMA StepType ==
  ASSUME TypeOK, NEW p \in Procs, NEW next, Place(p, next),
         pc' = [pc EXCEPT ![p] = next],
         status' \in {"none", "pending"} \cup Terminal,
         holder' \in {holder, p, Nobody}, writer' \in {writer, p, Nobody},
         trail' \in Seq(Events), last' \in [Procs -> Nat],
         mail' \subseteq Callers, overdue' = overdue, due' = due
  PROVE  TypeOK'
<1>1. \A q \in Procs : pc'[q] = IF q = p THEN next ELSE pc[q]
  BY DEF TypeOK
<1>2. /\ next \in CallerSteps \cup CallerEnds \cup ReviewerSteps \cup ReviewerEnds
                    \cup OtherSteps \cup OtherEnds
  BY DEF Place, Procs
<1>3. /\ \A q \in Callers : pc'[q] \in CallerSteps \cup CallerEnds
      /\ \A q \in Reviewers : pc'[q] \in ReviewerSteps \cup ReviewerEnds
      /\ \A q \in Others : pc'[q] \in OtherSteps \cup OtherEnds
  BY <1>1 DEF TypeOK, Place, Procs
<1> QED BY <1>2, <1>3 DEF TypeOK

\* A step that leaves the row as it is and takes or frees its own locks only:
\* no other coroutine notices.
LEMMA RowKept ==
  ASSUME HInv, NEW p \in Procs, NEW next, Place(p, next),
         pc' = [pc EXCEPT ![p] = next], status' = status,
         holder' = holder \/ (holder \in {p, Nobody} /\ holder' \in {p, Nobody}),
         writer' = writer \/ (writer \in {p, Nobody} /\ writer' \in {p, Nobody}),
         trail' \in Seq(Events), last' \in [Procs -> Nat],
         mail' \subseteq Callers, mail' # {} => status \in Terminal,
         overdue' = overdue, due' = due,
         Stands(p)'
  PROVE  HInv'
<1>1. TypeOK'
  BY StepType DEF HInv, TypeOK
<1>2. ASSUME NEW q \in Procs, q # p PROVE Stands(q)'
  <2>1. /\ pc'[q] = pc[q] /\ (writer' = q <=> writer = q) /\ (holder' = q <=> holder = q)
    BY <1>2, ConstantsAssumption DEF HInv, TypeOK
  <2> QED BY <2>1 DEF HInv, Stands
<1> QED BY <1>1, <1>2 DEF HInv, MailTells

\* A commit that changes the row: with both locks in hand, from "none" to
\* "pending" or from "pending" to a resolution.
LEMMA RowChanged ==
  ASSUME HInv, NEW p \in Procs, NEW next, Place(p, next),
         pc' = [pc EXCEPT ![p] = next], next \notin Appended \cup Locking,
         holder = p, holder' = Nobody, writer = p, writer' = Nobody,
         \/ status = "none" /\ status' = "pending"
         \/ status = "pending" /\ status' \in Terminal,
         trail' \in Seq(Events), last' = last, mail' = mail,
         overdue' = overdue, due' = due,
         Stands(p)'
  PROVE  HInv'
<1>1. TypeOK'
  BY StepType DEF HInv, TypeOK
<1>2. ASSUME NEW q \in Procs, q # p PROVE Stands(q)'
  <2>1. /\ pc'[q] = pc[q] /\ pc[q] \notin Appended /\ Nobody # q
        /\ q \in Reviewers => status # Verdict[q]
    BY <1>2, ConstantsAssumption DEF HInv, TypeOK, Stands
  <2> QED BY <2>1, <1>2 DEF HInv, Stands, Locking, Appended, Terminal
<1>3. MailTells'
  BY DEF HInv, MailTells, Terminal
<1> QED BY <1>1, <1>2, <1>3 DEF HInv

-----------------------------------------------------------------------------
\* The steps of one coroutine, by the kind of statement it makes.
LEMMA MoveInv ==
  ASSUME HInv, NEW p \in Procs, NEW next, Place(p, next), Move(p, next),
         pc[p] \notin Appended \cup Locking, next \notin Appended \cup Locking,
         p \in Callers =>
           /\ next \in {"found", "subscribing", "waiting", "polling", "expiring"} =>
                status # "none"
           /\ next = "notified" => status \in Terminal
           /\ next = "allowed" => status = "approved"
           /\ next = "refused" => status = "rejected",
         p \in Reviewers => next \notin {"publishing", "done"}
  PROVE  HInv'
<1> USE DEF Move, Goto
<1>1. pc'[p] = next
  BY DEF HInv, TypeOK
<1>2. Stands(p)'
  BY <1>1 DEF HInv, Stands, Locking, Appended, Terminal
<1> QED BY <1>2, RowKept DEF HInv, TypeOK, MailTells

LEMMA ReadTailInv ==
  ASSUME HInv, NEW p \in Procs, NEW next, Place(p, next), ReadTail(p, next),
         \/ pc[p] = "idle" /\ next = "appending"
         \/ pc[p] = "idle" /\ next = "recording" /\ p \in Others
         \/ pc[p] = "locked" /\ next = "recording" /\ p \notin Others
  PROVE  HInv'
<1> USE DEF ReadTail, Goto
<1>1. pc'[p] = next /\ Len(trail) \in Nat
  BY DEF HInv, TypeOK
<1>2. last' \in [Procs -> Nat]
  BY <1>1 DEF HInv, TypeOK
<1>3. Stands(p)'
  BY <1>1 DEF HInv, Stands, Locking, Appended, Terminal
<1> QED BY <1>2, <1>3, RowKept DEF HInv, TypeOK, MailTells

\* Rolling back frees whatever the coroutine had locked.
LEMMA RollbackInv ==
  ASSUME HInv, NEW p \in Procs, Rollback(p), NEW next \in {"error", "gone"}, Goto(p, next),
         last' \in [Procs -> Nat], UNCHANGED <<status, trail, mail, overdue, due>>
  PROVE  HInv'
<1> USE DEF Rollback, Goto
<1>1. pc'[p] = next /\ holder' # p /\ writer' # p
  BY ConstantsAssumption DEF HInv, TypeOK
<1>2. Place(p, next)
  BY DEF Place, CallerEnds, ReviewerEnds, OtherEnds
<1>3. Stands(p)'
  BY <1>1 DEF HInv, Stands, Locking, Appended, Terminal
<1> QED BY <1>2, <1>3, RowKept DEF HInv, TypeOK, MailTells

LEMMA InsertTailInv ==
  ASSUME HInv, NEW p \in Procs, NEW next, Place(p, next), InsertTail(p, next),
         \/ pc[p] = "appending" /\ next = "finding"
         \/ pc[p] = "recording" /\ next = "recorded"
  PROVE  HInv'
<1>0. last' \in [Procs -> Nat]
  BY DEF InsertTail, HInv, TypeOK
<1>1. CASE last[p] = Len(trail)
  <2> USE DEF InsertTail, Goto
  <2>1. pc'[p] = next /\ writer = Nobody /\ writer' = p
    BY <1>1 DEF HInv, TypeOK
  <2>2. Stands(p)'
    BY <1>1, <2>1 DEF HInv, Stands, Locking, Appended, Terminal
  <2> QED BY <1>0, <1>1, <2>1, <2>2, RowKept DEF HInv, TypeOK, MailTells
<1>2. CASE last[p] # Len(trail)
  BY <1>0, <1>2, RollbackInv DEF InsertTail
<1> QED BY <1>1, <1>2

LEMMA LockInv ==
  ASSUME HInv, NEW p \in Procs, p \notin Others, NEW next, Place(p, next), Lock(p, next),
         holder = Nobody,
         \/ pc[p] \in {"expiring", "ontime", "late"} /\ next = "locked" /\ status = "pending"
         \/ pc[p] = "inserting" /\ next = "inserted" /\ status = "none"
  PROVE  HInv'
<1> USE DEF Lock, Goto
<1>1. pc'[p] = next /\ holder' = p
  BY DEF HInv, TypeOK
<1>2. Stands(p)'
  BY <1>1 DEF HInv, Stands, Locking, Appended, Terminal
<1> QED BY <1>2, RowKept DEF HInv, TypeOK, MailTells

LEMMA CommitType ==
  ASSUME HInv, NEW p \in Procs, NEW s, NEW events \in Seq(Events), NEW next,
         Commit(p, s, events, next)
  PROVE  trail' \in Seq(Events) /\ pc'[p] = next
  BY DEF HInv, TypeOK, Commit, Goto

\* A commit that creates the row or resolves it.
LEMMA CommitChange ==
  ASSUME HInv, NEW p \in Procs, p \notin Others, NEW s, NEW events \in Seq(Events),
         NEW next, Place(p, next), Commit(p, s, events, next),
         \/ pc[p] = "inserted" /\ s = "pending"
         \/ pc[p] = "recorded" /\ s \in Terminal,
         \/ p \in Callers /\ p \notin Reviewers /\ next \in {"subscribing", "timedout"}
         \/ p \in Reviewers /\ p \notin Callers /\ next = "publishing" /\ s = Verdict[p]
  PROVE  HInv'
<1>1. trail' \in Seq(Events) /\ pc'[p] = next
  BY CommitType
<1>2. holder = p /\ writer = p /\ holder' = Nobody /\ writer' = Nobody /\ status' = s
  BY DEF HInv, Stands, Appended, Locking, Commit, Rollback
<1>3. \/ status = "none" /\ status' = "pending"
      \/ status = "pending" /\ status' \in Terminal
  BY <1>2 DEF HInv, Stands
<1>4. status' # "none"
  BY <1>3 DEF Terminal
<1>5. Nobody # p
  BY ConstantsAssumption
<1>6. Stands(p)'
  BY <1>1, <1>2, <1>4, <1>5 DEF Stands, Appended, Locking
<1> QED BY <1>1, <1>2, <1>3, <1>6, RowChanged DEF Commit, Goto, Appended, Locking

\* A commit that only adds audit events.
LEMMA CommitSame ==
  ASSUME HInv, NEW p \in Procs, NEW events \in Seq(Events), NEW next, Place(p, next),
         Commit(p, status, events, next), pc[p] \in Appended, pc[p] \notin Locking \/ p \in Others,
         \/ p \in Callers /\ p \notin Reviewers /\ next = "subscribing" /\ status # "none"
         \/ p \in Others /\ p \notin Callers \cup Reviewers /\ next = "done"
  PROVE  HInv'
<1>1. trail' \in Seq(Events) /\ pc'[p] = next
  BY CommitType
<1>2. /\ writer = p /\ holder # p /\ holder' = holder /\ writer' = Nobody /\ status' = status
      /\ Nobody # p
  BY ConstantsAssumption DEF HInv, Stands, Commit, Rollback
<1>3. Stands(p)'
  BY <1>1, <1>2 DEF Stands, Appended, Locking
<1> QED BY <1>1, <1>2, <1>3, RowKept DEF Commit, Goto, HInv, TypeOK, MailTells

-----------------------------------------------------------------------------
\* The actions of each kind of coroutine.
LEMMA CallerInv ==
  ASSUME HInv, NEW p \in Callers, CallerStep(p) \/ PassDeadline(p) PROVE HInv'
<1>1. /\ p \in Procs /\ p \notin Reviewers /\ p \notin Others
      /\ status \in {"none", "pending"} \cup Terminal /\ Stands(p) /\ MailTells
      /\ mail \subseteq Callers /\ trail \in Seq(Events) /\ last \in [Procs -> Nat]
  BY ConstantsAssumption DEF HInv, TypeOK, Procs
<1>2. \A next \in CallerSteps \cup CallerEnds : Place(p, next)
  BY <1>1 DEF Place
<1> USE DEF CallerSteps, CallerEnds
<1>3. CASE Evaluate(p)
  BY <1>3, <1>1, <1>2, ReadTailInv DEF Evaluate
<1>4. CASE AppendEvaluated(p)
  BY <1>4, <1>1, <1>2, InsertTailInv DEF AppendEvaluated
<1>5. CASE Find(p)
  <2>1. PICK next \in {"inserting", "found"} :
          /\ Move(p, next) /\ (next = "inserting") = (status = "none") /\ pc[p] = "finding"
    BY <1>5 DEF Find
  <2>2. pc'[p] = next
    BY <2>1, <1>1 DEF Move, Goto, HInv, TypeOK
  <2>3. Stands(p)'
    BY <2>1, <2>2, <1>1 DEF Stands, Appended, Locking, Move
  <2> QED BY <2>1, <2>3, <1>1, <1>2, RowKept DEF Move, Goto, MailTells
<1>6. CASE Insert(p)
  <2>1. CASE status = "none"
    BY <2>1, <1>6, <1>1, <1>2, LockInv DEF Insert
  <2>2. CASE status # "none"
    BY <2>2, <1>6, <1>1, RollbackInv DEF Insert
  <2> QED BY <2>1, <2>2
<1>7. CASE CommitRequest(p)
  <2>1. <<"evaluated", "requested">> \in Seq(Events)
    BY DEF Events
  <2> QED BY <2>1, <1>7, <1>1, <1>2, CommitChange DEF CommitRequest
<1>8. CASE CommitFound(p)
  <2>1. <<"evaluated">> \in Seq(Events)
    BY DEF Events
  <2> QED BY <2>1, <1>8, <1>1, <1>2, CommitSame DEF CommitFound, Stands, Appended, Locking
<1>9. CASE Subscribe(p)
  BY <1>9, <1>1, <1>2, MoveInv DEF Subscribe, Stands, Appended, Locking
<1>10. CASE TakeMessage(p)
  <2>1. pc'[p] = "notified" /\ status \in Terminal /\ mail' \subseteq mail
    BY <1>10, <1>1 DEF TakeMessage, Goto, HInv, TypeOK, MailTells
  <2>2. Stands(p)'
    BY <2>1, <1>10, <1>1 DEF TakeMessage, Stands, Appended, Locking
  <2> QED BY <2>1, <2>2, <1>10, <1>1, <1>2, RowKept DEF TakeMessage, Goto
<1>11. CASE Poll(p)
  BY <1>11, <1>1, <1>2, MoveInv DEF Poll, Stands, Appended, Locking
<1>12. CASE ReadOnMessage(p)
  <2>1. PICK next \in {"allowed", "refused", "timedout"} :
          /\ Move(p, next) /\ pc[p] = "notified" /\ status \in Terminal
          /\ next = "allowed" => status = "approved"
          /\ next = "refused" => status = "rejected"
    BY <1>12, <1>1 DEF ReadOnMessage, Resolution, Stands, Terminal
  <2> QED BY <2>1, <1>1, <1>2, MoveInv DEF Appended, Locking
<1>13. CASE ReadOnPoll(p)
  <2>1. PICK next \in {"allowed", "refused", "timedout", "waiting"} :
          /\ Move(p, next) /\ pc[p] = "polling"
          /\ next = "allowed" => status = "approved"
          /\ next = "refused" => status = "rejected"
    BY <1>13, <1>1 DEF ReadOnPoll, Resolution, Terminal
  <2> QED BY <2>1, <1>1, <1>2, MoveInv DEF Appended, Locking, Stands
<1>14. CASE TimeOut(p)
  BY <1>14, <1>1, <1>2, MoveInv DEF TimeOut, Stands, Appended, Locking
<1>15. CASE ExpireLock(p)
  <2>1. CASE status = "pending"
    BY <2>1, <1>15, <1>1, <1>2, LockInv DEF ExpireLock, RowFree
  <2>2. CASE status # "pending"
    BY <2>2, <1>15, <1>1, <1>2, MoveInv DEF ExpireLock, Appended, Locking
  <2> QED BY <2>1, <2>2
<1>16. CASE Record(p)
  BY <1>16, <1>1, <1>2, ReadTailInv, InsertTailInv DEF Record
<1>17. CASE CommitExpiry(p)
  <2>1. <<"expired">> \in Seq(Events) /\ "expired" \in Terminal
    BY DEF Events, Terminal
  <2> QED BY <2>1, <1>17, <1>1, <1>2, CommitChange DEF CommitExpiry
<1>18. CASE PassDeadline(p)
  BY <1>18 DEF PassDeadline, HInv, TypeOK, MailTells, Stands
<1> QED BY <1>3, <1>4, <1>5, <1>6, <1>7, <1>8, <1>9, <1>10, <1>11, <1>12, <1>13,
           <1>14, <1>15, <1>16, <1>17, <1>18 DEF CallerStep

LEMMA ReviewerInv == ASSUME HInv, NEW r \in Reviewers, ReviewerStep(r) PROVE HInv'
<1>1. /\ r \in Procs /\ r \notin Callers /\ r \notin Others
      /\ Stands(r) /\ MailTells /\ Verdict[r] \in {"approved", "rejected"}
      /\ mail \subseteq Callers /\ trail \in Seq(Events) /\ last \in [Procs -> Nat]
  BY ConstantsAssumption DEF HInv, TypeOK, Procs
<1>2. \A next \in ReviewerSteps \cup ReviewerEnds : Place(r, next)
  BY <1>1 DEF Place
<1> USE DEF ReviewerSteps, ReviewerEnds
<1>3. CASE Receive(r)
  <2>1. PICK next \in {"late", "ontime"} : Move(r, next) /\ pc[r] = "idle"
    BY <1>3 DEF Receive
  <2> QED BY <2>1, <1>1, <1>2, MoveInv DEF Appended, Locking
<1>4. CASE ResolveLock(r)
  <2>1. \/ \E next \in {"notfound", "conflict", "toolate"} : Move(r, next)
        \/ status = "pending" /\ holder = Nobody /\ Lock(r, "locked")
    BY <1>4 DEF ResolveLock, RowFree
  <2>2. pc[r] \in {"ontime", "late"}
    BY <1>4 DEF ResolveLock
  <2>3. CASE \E next \in {"notfound", "conflict", "toolate"} : Move(r, next)
    BY <2>2, <2>3, <1>1, <1>2, MoveInv DEF Appended, Locking
  <2>4. CASE status = "pending" /\ holder = Nobody /\ Lock(r, "locked")
    BY <2>2, <2>4, <1>1, <1>2, LockInv
  <2> QED BY <2>1, <2>3, <2>4
<1>5. CASE Record(r)
  BY <1>5, <1>1, <1>2, ReadTailInv, InsertTailInv DEF Record
<1>6. CASE CommitVerdict(r)
  <2>1. VerdictEvents(r) \in Seq(Events) /\ Verdict[r] \in Terminal
    BY <1>1 DEF VerdictEvents, Events, Terminal
  <2> QED BY <2>1, <1>6, <1>1, <1>2, CommitChange DEF CommitVerdict
<1>7. CASE Publish(r)
  <2>1. pc[r] = "publishing" /\ pc'[r] = "done" /\ status = Verdict[r]
    BY <1>7, <1>1 DEF Publish, Goto, Stands, HInv, TypeOK
  <2>2. mail' \subseteq Callers
    BY <1>7, <1>1 DEF Publish, Subscribers
  <2>3. Stands(r)' /\ status \in Terminal
    BY <2>1, <1>7, <1>1 DEF Publish, Stands, Appended, Locking, Terminal
  <2> QED BY <2>2, <2>3, <1>7, <1>1, <1>2, RowKept DEF Publish, Goto
<1> QED BY <1>3, <1>4, <1>5, <1>6, <1>7 DEF ReviewerStep

LEMMA OtherInv == ASSUME HInv, NEW o \in Others, OtherStep(o) PROVE HInv'
<1>1. o \in Procs /\ o \notin Callers /\ o \notin Reviewers /\ <<"other">> \in Seq(Events)
  BY ConstantsAssumption DEF Procs, Events
<1>2. \A next \in OtherSteps \cup OtherEnds : Place(o, next)
  BY <1>1 DEF Place
<1> USE DEF OtherSteps, OtherEnds
<1>3. CASE pc[o] = "idle" /\ ReadTail(o, "recording")
  BY <1>3, <1>1, <1>2, ReadTailInv
<1>4. CASE pc[o] = "recording" /\ InsertTail(o, "recorded")
  BY <1>4, <1>1, <1>2, InsertTailInv
<1>5. CASE pc[o] = "recorded" /\ Commit(o, status, <<"other">>, "done")
  BY <1>5, <1>1, <1>2, CommitSame DEF Appended
<1> QED BY <1>3, <1>4, <1>5 DEF OtherStep

\* HInv is inductive.
LEMMA StepHInv == HInv /\ [Next]_vars => HInv'
<1> SUFFICES ASSUME HInv, [Next]_vars PROVE HInv'
  OBVIOUS
<1>1. CASE UNCHANGED vars
  BY <1>1 DEF vars, HInv, TypeOK, MailTells, Stands
<1>2. ASSUME NEW p \in Procs, Abandon(p) PROVE HInv'
  <2>1. last' \in [Procs -> Nat]
    BY <1>2 DEF Abandon, HInv, TypeOK
  <2> QED BY <1>2, <2>1, RollbackInv DEF Abandon
<1>3. CASE PassExpiry
  BY <1>3 DEF PassExpiry, HInv, TypeOK, MailTells, Stands
<1>4. CASE AllEnded
  BY <1>4, <1>1 DEF AllEnded
<1> QED BY <1>1, <1>2, <1>3, <1>4, CallerInv, ReviewerInv, OtherInv DEF Next

LEMMA Invariance == Spec => []HInv
  BY InitHInv, StepHInv, PTL DEF Spec

-----------------------------------------------------------------------------
\* Every variable keeps its type.
THEOREM TypeTheorem == Spec => []TypeOK
<1>1. HInv => TypeOK
  BY DEF HInv
<1> QED BY <1>1, Invariance, PTL

\* What a caller is told and what a reviewer is answered is what the row says,
\* however many of them there are and whatever gets lost.
THEOREM OutcomeTheorem == Spec => []OutcomeAgrees
<1>1. HInv => OutcomeAgrees
  BY DEF HInv, Stands, OutcomeAgrees, Procs
<1> QED BY <1>1, Invariance, PTL

\* No two requests reach the insert of one key at the same time: the handler of
\* the IntegrityError in _create_or_get_hitl is never needed.
THEOREM CollisionTheorem == Spec => []InsertNeverCollides
<1>1. HInv => InsertNeverCollides
  <2> SUFFICES ASSUME HInv, NEW p \in Callers, pc[p] = "inserting"
               PROVE  status = "none" /\ holder = Nobody
    BY DEF InsertNeverCollides
  <2>1. status = "none" /\ writer = p
    BY DEF HInv, Stands, Appended, Procs
  <2>2. ASSUME NEW q \in Procs PROVE holder # q
    <3>1. holder = q => q \notin Others /\ pc[q] \in Locking
      BY DEF HInv, Stands
    <3>2. pc[q] \in Locking /\ q \notin Others => pc[q] = "inserted"
      BY <2>1 DEF HInv, Stands, Locking
    <3>3. pc[q] = "inserted" => q = p
      BY <2>1 DEF HInv, Stands, Appended
    <3> QED BY <3>1, <3>2, <3>3
  <2> QED BY <2>1, <2>2 DEF HInv, TypeOK
<1> QED BY <1>1, Invariance, PTL

\* A resolution is final, whoever else is resolving or expiring.
THEOREM ResolvedOnceTheorem == Spec => ResolvedOnce
<1> DEFINE Once ==
      status' # status =>
        \/ status = "none" /\ status' = "pending"
        \/ status = "pending" /\ status' \in Terminal
<1>1. ASSUME HInv, [Next]_vars PROVE Once
  <2> USE DEF Move, Lock, ReadTail, InsertTail, Record
  <2>1. CASE UNCHANGED vars
    BY <2>1 DEF vars
  <2>2. ASSUME NEW p \in Callers, CallerStep(p) PROVE Once
    <3>1. CASE CommitRequest(p)
      <4>1. pc[p] = "inserted" /\ status' = "pending"
        BY <3>1 DEF CommitRequest, Commit
      <4> QED BY <4>1, <1>1 DEF HInv, Stands, Procs
    <3>2. CASE CommitExpiry(p)
      <4>1. pc[p] = "recorded" /\ status' = "expired" /\ p \notin Others
        BY <3>2, ConstantsAssumption DEF CommitExpiry, Commit
      <4> QED BY <4>1, <1>1 DEF HInv, Stands, Procs, Terminal
    <3>3. CASE ~CommitRequest(p) /\ ~CommitExpiry(p)
      BY <2>2, <3>3
         DEF CallerStep, Evaluate, AppendEvaluated, Find, Insert, CommitFound, Commit,
             Subscribe, TakeMessage, Poll, ReadOnMessage, ReadOnPoll, TimeOut, ExpireLock
    <3> QED BY <3>1, <3>2, <3>3
  <2>3. ASSUME NEW r \in Reviewers, ReviewerStep(r) PROVE Once
    <3>1. CASE CommitVerdict(r)
      <4>1. /\ pc[r] = "recorded" /\ status' = Verdict[r] /\ r \notin Others
            /\ Verdict[r] \in Terminal
        BY <3>1, ConstantsAssumption DEF CommitVerdict, Commit, Terminal
      <4> QED BY <4>1, <1>1 DEF HInv, Stands, Procs
    <3>2. CASE ~CommitVerdict(r)
      BY <2>3, <3>2 DEF ReviewerStep, Receive, ResolveLock, Publish
    <3> QED BY <3>1, <3>2
  <2>4. ASSUME NEW o \in Others, OtherStep(o) PROVE Once
    BY <2>4 DEF OtherStep, Commit
  <2>5. ASSUME NEW p \in Procs, Abandon(p) PROVE Once
    BY <2>5 DEF Abandon
  <2>6. CASE PassExpiry \/ AllEnded \/ \E p \in Callers : PassDeadline(p)
    BY <2>6 DEF PassExpiry, AllEnded, PassDeadline, vars
  <2> QED BY <1>1, <2>1, <2>2, <2>3, <2>4, <2>5, <2>6 DEF Next
<1>2. HInv /\ [Next]_vars => [Once]_vars
  BY <1>1
<1> QED BY <1>2, Invariance, PTL DEF Spec, ResolvedOnce

-----------------------------------------------------------------------------
(***************************************************************************)
(* The story on the audit chain.  Every commit appends one event, or two,  *)
(* and the events of a resolution with the resolution.                     *)
(***************************************************************************)
At(events, e) == {i \in DOMAIN events : events[i] = e}
Number(events, e) == Cardinality(At(events, e))

Tells(events, shown) ==
  /\ Number(events, "requested") = IF shown = "none" THEN 0 ELSE 1
  /\ \A s \in Terminal : Number(events, s) = IF shown = s THEN 1 ELSE 0
  /\ \A i, j \in DOMAIN events :
       events[i] = "requested" /\ events[j] \in Terminal => i < j

LEMMA NumberGrows ==
  ASSUME NEW events \in Seq(Events), NEW x \in Events, NEW e
  PROVE  /\ IsFiniteSet(At(events, e)) /\ Number(events, e) \in Nat
         /\ Number(Append(events, x), e) = Number(events, e) + (IF x = e THEN 1 ELSE 0)
<1> DEFINE n == Len(events)
           more == Append(events, x)
<1>1. /\ n \in Nat /\ DOMAIN events = 1..n /\ DOMAIN more = 1..(n + 1)
      /\ more[n + 1] = x /\ \A i \in 1..n : more[i] = events[i]
  BY AppendProperties
<1>2. IsFiniteSet(1..n) /\ At(events, e) \in SUBSET (1..n)
  BY <1>1, FS_Interval DEF At
<1>3. IsFiniteSet(At(events, e))
  BY <1>2, FS_Subset
<1>4. Number(events, e) \in Nat
  BY <1>3, FS_CardinalityType DEF Number
<1>5. n + 1 \notin At(events, e)
  BY <1>1, <1>2
<1> HIDE DEF n, more
<1>6. CASE x = e
  <2>1. At(more, e) = At(events, e) \cup {n + 1}
    BY <1>1, <1>6 DEF At
  <2>2. Cardinality(At(more, e)) = Cardinality(At(events, e)) + 1
    BY <1>3, <1>5, <2>1, FS_AddElement
  <2> QED BY <1>3, <1>4, <1>6, <2>2 DEF Number, more
<1>7. CASE x # e
  <2>1. At(more, e) = At(events, e)
    BY <1>1, <1>7 DEF At
  <2> QED BY <1>3, <1>4, <1>7, <2>1 DEF Number, more
<1> QED BY <1>6, <1>7

\* What may be appended to a story that tells of a row.
LEMMA StoryGrows ==
  ASSUME NEW events \in Seq(Events), NEW x \in Events, NEW before, NEW after,
         Tells(events, before),
         \/ x \in {"evaluated", "other"} /\ after = before
         \/ x = "requested" /\ before = "none" /\ after = "pending"
         \/ x \in Terminal /\ before = "pending" /\ after = x
  PROVE  Tells(Append(events, x), after)
<1> DEFINE n == Len(events)
           more == Append(events, x)
<1>1. /\ n \in Nat /\ DOMAIN events = 1..n /\ DOMAIN more = 1..(n + 1)
      /\ more[n + 1] = x /\ \A i \in 1..n : more[i] = events[i]
  BY AppendProperties
<1> HIDE DEF n, more
<1>2. Number(more, "requested") = IF after = "none" THEN 0 ELSE 1
  <2>1. /\ Number(events, "requested") = IF before = "none" THEN 0 ELSE 1
        /\ Number(more, "requested") =
             Number(events, "requested") + (IF x = "requested" THEN 1 ELSE 0)
    BY NumberGrows DEF Tells, more
  <2> QED BY <2>1 DEF Terminal
<1>3. ASSUME NEW s \in Terminal
      PROVE  Number(more, s) = IF after = s THEN 1 ELSE 0
  <2>1. /\ Number(events, s) = IF before = s THEN 1 ELSE 0
        /\ Number(more, s) = Number(events, s) + (IF x = s THEN 1 ELSE 0)
    BY NumberGrows DEF Tells, more
  <2> QED BY <2>1 DEF Terminal
<1>4. x = "requested" => \A j \in 1..n : events[j] \notin Terminal
  <2> SUFFICES ASSUME x = "requested", NEW j \in 1..n, events[j] \in Terminal PROVE FALSE
    OBVIOUS
  <2>1. before = "none"
    BY DEF Terminal
  <2>2. Number(events, events[j]) = 0
    BY <2>1 DEF Tells, Terminal
  <2>3. At(events, events[j]) = {}
    BY <2>2, NumberGrows, FS_EmptySet DEF Number
  <2> QED BY <1>1, <2>3 DEF At
<1>5. ASSUME NEW i \in DOMAIN more, NEW j \in DOMAIN more,
             more[i] = "requested", more[j] \in Terminal
      PROVE  i < j
  <2>1. CASE i = n + 1
    BY <1>1, <1>4, <1>5, <2>1 DEF Terminal
  <2>2. CASE i # n + 1
    BY <1>1, <1>5, <2>2 DEF Tells
  <2> QED BY <2>1, <2>2
<1> QED BY <1>2, <1>3, <1>5 DEF Tells, more

\* The story after each step.
StoryMoves ==
  \/ trail' = trail /\ status' = status
  \/ \E x \in Events \ {"requested"} :
       /\ trail' = trail \o <<x>>
       /\ \/ x \in {"evaluated", "other"} /\ status' = status
          \/ x \in Terminal /\ status = "pending" /\ status' = x
  \/ trail' = trail \o <<"evaluated", "requested">> /\ status = "none" /\ status' = "pending"

LEMMA EveryStoryMoves == HInv /\ [Next]_vars => StoryMoves
<1> SUFFICES ASSUME HInv, [Next]_vars PROVE StoryMoves
  OBVIOUS
<1> USE DEF StoryMoves, Move, Lock, ReadTail, InsertTail, Record
<1>1. CASE UNCHANGED vars
  BY <1>1 DEF vars
<1>2. ASSUME NEW p \in Callers, CallerStep(p) PROVE StoryMoves
  <2>1. CASE CommitRequest(p)
    BY <2>1 DEF CommitRequest, Commit, HInv, Stands, Procs
  <2>2. CASE CommitFound(p)
    BY <2>2 DEF CommitFound, Commit, Events
  <2>3. CASE CommitExpiry(p)
    <3>1. pc[p] = "recorded" /\ p \notin Others
      BY <2>3, ConstantsAssumption DEF CommitExpiry
    <3> QED BY <2>3, <3>1 DEF CommitExpiry, Commit, HInv, Stands, Procs, Events, Terminal
  <2>4. CASE ~CommitRequest(p) /\ ~CommitFound(p) /\ ~CommitExpiry(p)
    BY <1>2, <2>4
       DEF CallerStep, Evaluate, AppendEvaluated, Find, Insert, Subscribe, TakeMessage,
           Poll, ReadOnMessage, ReadOnPoll, TimeOut, ExpireLock
  <2> QED BY <2>1, <2>2, <2>3, <2>4
<1>3. ASSUME NEW r \in Reviewers, ReviewerStep(r) PROVE StoryMoves
  <2>1. CASE CommitVerdict(r)
    <3>1. pc[r] = "recorded" /\ r \notin Others /\ Verdict[r] \in Terminal
      BY <2>1, ConstantsAssumption DEF CommitVerdict, Terminal
    <3> QED BY <2>1, <3>1
            DEF CommitVerdict, VerdictEvents, Commit, HInv, Stands, Procs, Events, Terminal
  <2>2. CASE ~CommitVerdict(r)
    BY <1>3, <2>2 DEF ReviewerStep, Receive, ResolveLock, Publish
  <2> QED BY <2>1, <2>2
<1>4. ASSUME NEW o \in Others, OtherStep(o) PROVE StoryMoves
  BY <1>4 DEF OtherStep, Commit, Events
<1>5. ASSUME NEW p \in Procs, Abandon(p) PROVE StoryMoves
  BY <1>5 DEF Abandon
<1>6. CASE PassExpiry \/ AllEnded \/ \E p \in Callers : PassDeadline(p)
  BY <1>6 DEF PassExpiry, AllEnded, PassDeadline, vars
<1> QED BY <1>1, <1>2, <1>3, <1>4, <1>5, <1>6 DEF Next

\* The chain has one request if there is a row and the one resolution the row
\* shows, after it, for any callers, reviewers, other requests and faults.
THEOREM TrailTheorem == Spec => []TrailTellsStatus
<1>1. Init => Tells(trail, status)
  <2> SUFFICES ASSUME Init PROVE Tells(trail, status)
    OBVIOUS
  <2>1. DOMAIN trail = {} /\ status = "none"
    BY DEF Init
  <2>2. \A e : At(trail, e) = {}
    BY <2>1 DEF At
  <2>3. \A e : Number(trail, e) = 0
    BY <2>2, FS_EmptySet DEF Number
  <2> QED BY <2>1, <2>3 DEF Tells, Terminal
<1>2. HInv /\ Tells(trail, status) /\ [Next]_vars => Tells(trail, status)'
  <2> SUFFICES ASSUME HInv, Tells(trail, status), [Next]_vars
               PROVE  Tells(trail', status')
    OBVIOUS
  <2>1. StoryMoves /\ trail \in Seq(Events)
    BY EveryStoryMoves DEF HInv, TypeOK
  <2>2. CASE trail' = trail /\ status' = status
    BY <2>2
  <2>3. ASSUME NEW x \in Events \ {"requested"}, trail' = trail \o <<x>>,
               \/ x \in {"evaluated", "other"} /\ status' = status
               \/ x \in Terminal /\ status = "pending" /\ status' = x
        PROVE  Tells(trail', status')
    <3>1. trail' = Append(trail, x)
      BY <2>1, <2>3, AppendIsConcat
    <3> QED BY <2>1, <2>3, <3>1, StoryGrows
  <2>4. CASE /\ trail' = trail \o <<"evaluated", "requested">>
             /\ status = "none" /\ status' = "pending"
    <3> DEFINE once == Append(trail, "evaluated")
    <3>1. /\ "evaluated" \in Events /\ "requested" \in Events
          /\ once \in Seq(Events) /\ trail' = Append(once, "requested")
      BY <2>1, <2>4, AppendProperties DEF Events
    <3>2. Tells(once, "none")
      BY <2>1, <2>4, <3>1, StoryGrows
    <3> HIDE DEF once
    <3>3. Tells(Append(once, "requested"), "pending")
      BY <3>1, <3>2, StoryGrows
    <3> QED BY <2>4, <3>1, <3>3
  <2> QED BY <2>1, <2>2, <2>3, <2>4 DEF StoryMoves
<1>3. Tells(trail, status) => TrailTellsStatus
  BY DEF Tells, TrailTellsStatus, Number, At, Count
<1> QED BY <1>1, <1>2, <1>3, Invariance, PTL DEF Spec

-----------------------------------------------------------------------------
(***************************************************************************)
(* The refinement.  A step of one party changes its own answer only; it is *)
(* the step of Approval that answers it, requests the approval or resolves *)
(* it, and a stutter if it does none of these.                             *)
(***************************************************************************)
answers == [p \in Callers \cup Reviewers |-> Answer(p)]

\* What a step of p from one place to the next does to the answers.
LEMMA AnswersMoved ==
  ASSUME TypeOK, NEW p \in Procs, NEW next, pc' = [pc EXCEPT ![p] = next]
  PROVE  /\ \A q \in Procs : q # p => Answer(q)' = Answer(q)
         /\ Answer(p)' =
              IF next \notin CallerEnds \cup ReviewerEnds THEN "none"
              ELSE IF next \in {"allowed", "refused"} THEN next
              ELSE IF next = "done" THEN "accepted" ELSE "failed"
  BY DEF TypeOK, Answer, Ended

\* A party that is not answered by the step leaves all answers as they are.
LEMMA NotAnswered ==
  ASSUME TypeOK, NEW p \in Procs, NEW next, pc' = [pc EXCEPT ![p] = next],
         ~Ended(p), next \notin CallerEnds \cup ReviewerEnds
  PROVE  answers' = answers
<1>1. Answer(p) = "none" /\ Answer(p)' = "none"
  BY AnswersMoved DEF Answer
<1> QED BY <1>1, AnswersMoved DEF answers, Procs

\* A party that is answered changes its own entry.
LEMMA Answered ==
  ASSUME TypeOK, NEW p \in Callers \cup Reviewers, NEW next, pc' = [pc EXCEPT ![p] = next],
         ~Ended(p), next \in CallerEnds \cup ReviewerEnds
  PROVE  /\ answers[p] = "none"
         /\ answers' = [answers EXCEPT ![p] = Answer(p)']
<1>1. Answer(p) = "none"
  BY DEF Answer
<1> QED BY <1>1, AnswersMoved DEF answers, Procs

\* A step that keeps the row and lets its party go on or fail.
LEMMA QuietStep ==
  ASSUME TypeOK, NEW p \in Procs, NEW next, pc' = [pc EXCEPT ![p] = next],
         ~Ended(p), status' = status, next \notin {"allowed", "refused"},
         next = "done" => p \notin Callers \cup Reviewers
  PROVE  [Promised!Next]_(Promised!approvalVars)
<1> USE DEF Promised!approvalVars, answers
<1>1. CASE p \notin Callers \cup Reviewers
  <2>1. answers' = answers
    BY <1>1, AnswersMoved DEF Procs
  <2> QED BY <2>1
<1>2. CASE p \in Callers \cup Reviewers /\ next \in CallerEnds \cup ReviewerEnds
  <2>1. answers[p] = "none" /\ answers' = [answers EXCEPT ![p] = "failed"]
    BY <1>2, Answered, AnswersMoved
  <2>2. Promised!Fail(p)
    BY <2>1 DEF Promised!Fail, Promised!Tell
  <2> QED BY <1>2, <2>2 DEF Promised!Next
<1>3. CASE next \notin CallerEnds \cup ReviewerEnds
  BY <1>3, NotAnswered
<1> QED BY <1>1, <1>2, <1>3

\* A caller learns the resolution.
LEMMA TellStep ==
  ASSUME TypeOK, NEW p \in Callers, NEW next, pc' = [pc EXCEPT ![p] = next],
         ~Ended(p), status' = status,
         (next = "allowed" /\ status = "approved") \/ (next = "refused" /\ status = "rejected")
  PROVE  [Promised!Next]_(Promised!approvalVars)
<1>1. answers[p] = "none" /\ answers' = [answers EXCEPT ![p] = next]
  BY Answered, AnswersMoved DEF CallerEnds, Procs
<1>2. Promised!Proceed(p) \/ Promised!Refuse(p)
  BY <1>1 DEF Promised!Proceed, Promised!Refuse, Promised!Tell, answers
<1> QED BY <1>2 DEF Promised!Next

\* A caller takes what it reads in the row for its resolution.
LEMMA ReadStep ==
  ASSUME HInv, NEW p \in Callers, ReadOnMessage(p) \/ ReadOnPoll(p)
  PROVE  [Promised!Next]_(Promised!approvalVars)
<1>1. PICK next \in {"allowed", "refused", "timedout", "waiting"} :
        /\ pc' = [pc EXCEPT ![p] = next] /\ status' = status
        /\ next = "allowed" => status = "approved"
        /\ next = "refused" => status = "rejected"
  <2>1. CASE ReadOnMessage(p)
    <3>1. status \in Terminal
      BY <2>1 DEF ReadOnMessage, HInv, Stands, Procs
    <3> QED BY <2>1, <3>1 DEF ReadOnMessage, Move, Goto, Resolution, Terminal
  <2>2. CASE ReadOnPoll(p)
    BY <2>2 DEF ReadOnPoll, Move, Goto, Resolution, Terminal
  <2> QED BY <2>1, <2>2
<1>2. TypeOK /\ p \in Procs /\ ~Ended(p)
  BY DEF HInv, Procs, ReadOnMessage, ReadOnPoll, Ended, CallerEnds, ReviewerEnds
<1>3. CASE next \in {"allowed", "refused"}
  <2>1. (next = "allowed" /\ status = "approved") \/ (next = "refused" /\ status = "rejected")
    BY <1>1, <1>3
  <2>2. pc' = [pc EXCEPT ![p] = next] /\ status' = status
    BY <1>1
  <2> QED BY <1>2, <2>1, <2>2, TellStep
<1>4. CASE next \in {"timedout", "waiting"}
  BY <1>1, <1>2, <1>4, QuietStep
<1> QED BY <1>3, <1>4

LEMMA CallerPromise ==
  ASSUME HInv, NEW p \in Callers, CallerStep(p)
  PROVE  [Promised!Next]_(Promised!approvalVars)
<1>1. TypeOK /\ p \in Procs
  BY DEF HInv, Procs
<1>2. CASE ReadOnMessage(p) \/ ReadOnPoll(p)
  BY <1>2, ReadStep
<1>3. CASE CommitRequest(p)
  <2>1. /\ pc' = [pc EXCEPT ![p] = "subscribing"] /\ ~Ended(p)
        /\ status = "none" /\ status' = "pending"
    BY <1>1, <1>3 DEF CommitRequest, Commit, Goto, HInv, Stands, Ended, CallerEnds, ReviewerEnds
  <2>2. answers' = answers
    BY <2>1, <1>1, NotAnswered DEF CallerEnds, ReviewerEnds
  <2> QED BY <2>1, <2>2 DEF Promised!Next, Promised!Request, answers
<1>4. CASE CommitExpiry(p)
  <2>1. /\ pc' = [pc EXCEPT ![p] = "timedout"] /\ ~Ended(p) /\ p \notin Others
        /\ pc[p] = "recorded" /\ status' = "expired"
    BY <1>1, <1>4, ConstantsAssumption
       DEF CommitExpiry, Commit, Goto, Ended, CallerEnds, ReviewerEnds
  <2>2. status = "pending"
    BY <1>1, <2>1 DEF HInv, Stands
  <2>3. answers[p] = "none" /\ answers' = [answers EXCEPT ![p] = "failed"]
    BY <2>1, <1>1, Answered, AnswersMoved DEF CallerEnds
  <2> QED BY <2>1, <2>2, <2>3 DEF Promised!Next, Promised!Expire, answers
<1>5. CASE ~(ReadOnMessage(p) \/ ReadOnPoll(p) \/ CommitRequest(p) \/ CommitExpiry(p))
  <2>1. PICK next \in CallerSteps \cup {"error", "timedout"} : pc' = [pc EXCEPT ![p] = next]
    BY <1>5
       DEF CallerStep, Evaluate, AppendEvaluated, Find, Insert, CommitFound, Subscribe,
           TakeMessage, Poll, TimeOut, ExpireLock, Record, Move, Lock, ReadTail, InsertTail,
           Commit, Goto, CallerSteps
  <2>2. status' = status /\ ~Ended(p)
    BY <1>5
       DEF CallerStep, Evaluate, AppendEvaluated, Find, Insert, CommitFound, Subscribe,
           TakeMessage, Poll, TimeOut, ExpireLock, Record, Move, Lock, ReadTail, InsertTail,
           Commit, Ended, CallerEnds, ReviewerEnds
  <2> QED BY <1>1, <2>1, <2>2, QuietStep DEF CallerSteps
<1> QED BY <1>2, <1>3, <1>4, <1>5

LEMMA ReviewerPromise ==
  ASSUME HInv, NEW r \in Reviewers, ReviewerStep(r)
  PROVE  [Promised!Next]_(Promised!approvalVars)
<1>1. TypeOK /\ r \in Procs /\ r \notin Others
  BY ConstantsAssumption DEF HInv, Procs
<1>2. CASE CommitVerdict(r)
  <2>1. /\ pc' = [pc EXCEPT ![r] = "publishing"] /\ ~Ended(r)
        /\ status = "pending" /\ status' = Verdict[r]
    BY <1>1, <1>2
       DEF CommitVerdict, Commit, Goto, HInv, Stands, Ended, CallerEnds, ReviewerEnds
  <2>2. answers' = answers /\ answers[r] = "none"
    BY <2>1, <1>1, NotAnswered DEF answers, Answer, CallerEnds, ReviewerEnds
  <2> QED BY <2>1, <2>2 DEF Promised!Next, Promised!Decide, answers
<1>3. CASE Publish(r)
  <2>1. /\ pc' = [pc EXCEPT ![r] = "done"] /\ ~Ended(r)
        /\ status = Verdict[r] /\ status' = status
    BY <1>1, <1>3 DEF Publish, Goto, HInv, Stands, Ended, CallerEnds, ReviewerEnds
  <2>2. answers[r] = "none" /\ answers' = [answers EXCEPT ![r] = "accepted"]
    BY <2>1, <1>1, Answered, AnswersMoved DEF ReviewerEnds
  <2> QED BY <2>1, <2>2 DEF Promised!Next, Promised!Accept, Promised!Tell, answers
<1>4. CASE ~(CommitVerdict(r) \/ Publish(r))
  <2>1. PICK next \in ReviewerSteps \cup {"notfound", "conflict", "toolate", "error"} :
          pc' = [pc EXCEPT ![r] = next]
    BY <1>4
       DEF ReviewerStep, Receive, ResolveLock, Record, Move, Lock, ReadTail, InsertTail,
           Goto, ReviewerSteps
  <2>2. status' = status /\ ~Ended(r)
    BY <1>4
       DEF ReviewerStep, Receive, ResolveLock, Record, Move, Lock, ReadTail, InsertTail,
           Ended, CallerEnds, ReviewerEnds
  <2> QED BY <1>1, <2>1, <2>2, QuietStep DEF ReviewerSteps
<1> QED BY <1>2, <1>3, <1>4

\* The coroutines of one approval implement Approval, for any number of callers,
\* reviewers and other requests and whatever gets lost or stops.
THEOREM ApprovalTheorem == Spec => ImplementsApproval
<1>1. Init => Promised!Init
  BY DEF Init, Promised!Init, Answer, Ended, CallerEnds, ReviewerEnds, Procs
<1>2. ASSUME HInv, [Next]_vars PROVE [Promised!Next]_(Promised!approvalVars)
  <2>1. CASE UNCHANGED vars
    BY <2>1 DEF vars, Promised!approvalVars, Answer, Ended
  <2>2. ASSUME NEW o \in Others, OtherStep(o) PROVE [Promised!Next]_(Promised!approvalVars)
    <3>1. PICK next \in {"recording", "recorded", "error", "done"} :
            pc' = [pc EXCEPT ![o] = next]
      BY <2>2 DEF OtherStep, ReadTail, InsertTail, Commit, Goto
    <3>2. status' = status /\ ~Ended(o)
      BY <2>2 DEF OtherStep, ReadTail, InsertTail, Commit, Ended, CallerEnds, ReviewerEnds
    <3>3. TypeOK /\ o \in Procs /\ o \notin Callers \cup Reviewers
      BY <1>2, ConstantsAssumption DEF HInv, Procs
    <3> QED BY <3>1, <3>2, <3>3, QuietStep
  <2>3. ASSUME NEW p \in Procs, Abandon(p) PROVE [Promised!Next]_(Promised!approvalVars)
    <3>1. PICK next \in {"gone"} : pc' = [pc EXCEPT ![p] = next]
      BY <2>3 DEF Abandon, Goto
    <3>2. status' = status /\ ~Ended(p) /\ TypeOK
      BY <1>2, <2>3 DEF Abandon, HInv
    <3> QED BY <3>1, <3>2, QuietStep
  <2>4. CASE PassExpiry \/ AllEnded \/ \E p \in Callers : PassDeadline(p)
    BY <2>4
       DEF PassExpiry, AllEnded, PassDeadline, vars, Promised!approvalVars, Answer, Ended
  <2> QED BY <1>2, <2>1, <2>2, <2>3, <2>4, CallerPromise, ReviewerPromise DEF Next
<1>3. HInv /\ [Next]_vars => [Promised!Next]_(Promised!approvalVars)
  BY <1>2
<1> QED BY <1>1, <1>3, Invariance, PTL DEF Spec, ImplementsApproval, Promised!Spec
=============================================================================

---------------------------- MODULE HitlApproval ----------------------------
(***************************************************************************)
(* One human approval, that is, one idempotency key: the callers whose     *)
(* intent requires it, the reviewers who resolve it, its row in            *)
(* hitl_transactions, and the Redis channel that announces the resolution. *)
(*                                                                         *)
(* Every handler that changes the row appends to the audit chain in the    *)
(* same transaction, so the chain belongs to the model: an append reads    *)
(* the last sequence number, then inserts the next one, which waits for    *)
(* another uncommitted insert of that number and fails once a row with it  *)
(* is committed.  The database is PostgreSQL under READ COMMITTED.         *)
(*                                                                         *)
(* A definition that stands directly before another with the same          *)
(* parameters and is used nowhere is a mutation of the latter: README.md,  *)
(* "Mutations".                                                            *)
(***************************************************************************)
EXTENDS Integers, FiniteSets, SequencesExt

CONSTANTS
  Callers,      \* evaluate_or_wait coroutines whose decision is require_approval
  Reviewers,    \* requests POST /hitl/{transaction_id}/resolve
  Verdict,      \* Verdict[r]: payload.decision
  Others,       \* requests that append to the audit chain for other reasons
  Faults,       \* which of the things below may go wrong
  Nobody        \* nobody holds the row's or the chain's lock

\* "abandon": a handler may stop anywhere (exception, cancellation, crash);
\* "loss": a subscriber may miss a published message.
FaultKinds == {"abandon", "loss"}

Procs == Callers \cup Reviewers \cup Others

ASSUME ConstantsAssumption ==
  /\ Callers \cap Reviewers = {} /\ Others \cap (Callers \cup Reviewers) = {}
  /\ Verdict \in [Reviewers -> {"approved", "rejected"}]
  /\ Faults \subseteq FaultKinds
  /\ Nobody \notin Procs

VARIABLES
  status,       \* HitlTransaction.status as committed, "none" without a row
  holder,       \* who has the row locked, or its key inserted uncommitted
  trail,        \* the committed events of the audit chain
  writer,       \* who has the next audit row inserted uncommitted
  last,         \* last[p]: the length of the chain that p's append has read
  mail,         \* subscribers with an undelivered message
  overdue,      \* expires_at has passed
  due,          \* callers whose own deadline has passed
  pc            \* where each coroutine stands

vars == <<status, holder, trail, writer, last, mail, overdue, due, pc>>

Terminal == {"approved", "rejected", "expired"}
Events == {"evaluated", "requested", "other"} \cup Terminal

CallerSteps ==
  {"idle", "appending", "finding", "inserting", "inserted", "found", "subscribing",
   "waiting", "notified", "polling", "expiring", "locked", "recording", "recorded"}
CallerEnds == {"allowed", "refused", "timedout", "error", "gone"}
ReviewerSteps ==
  {"idle", "ontime", "late", "locked", "recording", "recorded", "publishing"}
ReviewerEnds == {"done", "notfound", "conflict", "toolate", "error", "gone"}
OtherSteps == {"idle", "recording", "recorded"}
OtherEnds == {"done", "error", "gone"}

Goto(p, next) == pc' = [pc EXCEPT ![p] = next]
Ended(p) == pc[p] \in CallerEnds \cup ReviewerEnds

Init ==
  /\ status = "none" /\ holder = Nobody
  /\ trail = <<>> /\ writer = Nobody
  /\ last = [p \in Procs |-> 0]
  /\ mail = {} /\ overdue = FALSE /\ due = {}
  /\ pc = [p \in Procs |-> "idle"]

-----------------------------------------------------------------------------
(***************************************************************************)
(* Transactions and the audit chain.                                       *)
(***************************************************************************)

\* AuditLogger.append up to the flush: the last committed row.
ReadTail(p, next) ==
  /\ last' = [last EXCEPT ![p] = Len(trail)]
  /\ Goto(p, next)
  /\ UNCHANGED <<status, holder, trail, writer, mail, overdue, due>>

\* Rollback: nothing p wrote remains, and its locks go.
RollbackKeepsLock(p) == UNCHANGED <<holder, writer>>
Rollback(p) ==
  /\ holder' = IF holder = p THEN Nobody ELSE holder
  /\ writer' = IF writer = p THEN Nobody ELSE writer

\* The flush of the new audit row.  Its IntegrityError is caught nowhere.
InsertTail(p, next) ==
  /\ IF last[p] = Len(trail)
       THEN writer = Nobody /\ writer' = p /\ Goto(p, next) /\ UNCHANGED holder
       ELSE Rollback(p) /\ Goto(p, "error")
  /\ last' = [last EXCEPT ![p] = 0]
  /\ UNCHANGED <<status, trail, mail, overdue, due>>

\* Commit: the row's status and p's audit events become visible together.
Commit(p, newStatus, events, next) ==
  /\ status' = newStatus
  /\ trail' = trail \o events
  /\ Rollback(p)
  /\ Goto(p, next)
  /\ UNCHANGED <<last, mail, overdue, due>>

Move(p, next) ==
  Goto(p, next) /\ UNCHANGED <<status, holder, trail, writer, last, mail, overdue, due>>

\* SELECT ... FOR UPDATE of the row: waits for its lock.
RowFreeUnlocked == TRUE
RowFree == holder = Nobody

Lock(p, next) ==
  /\ holder' = p
  /\ Goto(p, next)
  /\ UNCHANGED <<status, trail, writer, last, mail, overdue, due>>

-----------------------------------------------------------------------------
(***************************************************************************)
(* evaluate_or_wait: the transaction that evaluates and creates the row.   *)
(***************************************************************************)

Evaluate(p) == pc[p] = "idle" /\ ReadTail(p, "appending")

AppendUnchecked(p) == pc[p] = "appending" /\ Move(p, "finding")
AppendEvaluated(p) == pc[p] = "appending" /\ InsertTail(p, "finding")

\* _create_or_get_hitl: a row of this key is reused whatever its status.
Find(p) ==
  /\ pc[p] = "finding"
  /\ Move(p, IF status = "none" THEN "inserting" ELSE "found")

\* The flush of the new row.  The IntegrityError of a duplicate key leaves the
\* session inactive until it is rolled back, so that the second SELECT raises.
Insert(p) ==
  /\ pc[p] = "inserting"
  /\ IF status = "none"
       THEN holder = Nobody /\ Lock(p, "inserted")
       ELSE /\ Rollback(p) /\ Goto(p, "error")
            /\ UNCHANGED <<status, trail, last, mail, overdue, due>>

\* Its own uncommitted audit row keeps other appends out, so that the second
\* append of the transaction and the COMMIT are one step.
CommitRequest(p) ==
  /\ pc[p] = "inserted"
  /\ Commit(p, "pending", <<"evaluated", "requested">>, "subscribing")

CommitFound(p) ==
  /\ pc[p] = "found"
  /\ Commit(p, status, <<"evaluated">>, "subscribing")

-----------------------------------------------------------------------------
(***************************************************************************)
(* _await_resolution: subscribe, then take a message or poll, until the    *)
(* caller's own deadline.                                                  *)
(***************************************************************************)

\* _publish_hitl_request has no subscriber in the program.
Subscribe(p) == pc[p] = "subscribing" /\ Move(p, "waiting")

TakeMessage(p) ==
  /\ pc[p] = "waiting" /\ p \notin due /\ p \in mail
  /\ mail' = mail \ {p}
  /\ Goto(p, "notified")
  /\ UNCHANGED <<status, holder, trail, writer, last, overdue, due>>

\* No message within a second.
Poll(p) ==
  /\ pc[p] = "waiting" /\ p \notin due /\ p \notin mail
  /\ Move(p, "polling")

\* _resolution_decision; whether an approved amount can be reserved is
\* BudgetGovernor's ReserveSelect.
Resolution ==
  IF status = "approved" THEN "allowed"
  ELSE IF status = "expired" THEN "timedout" ELSE "refused"

ReadOnMessage(p) == pc[p] = "notified" /\ Move(p, Resolution)

PollAnyStatus(p) == pc[p] = "polling" /\ Move(p, Resolution)
ReadOnPoll(p) ==
  /\ pc[p] = "polling"
  /\ Move(p, IF status \in Terminal THEN Resolution ELSE "waiting")

TimeOut(p) == pc[p] = "waiting" /\ p \in due /\ Move(p, "expiring")

\* _expire_transaction.  A row resolved meanwhile is left alone, and the caller
\* times out all the same.
ExpireLock(p) ==
  /\ pc[p] = "expiring" /\ RowFree
  /\ IF status = "pending" THEN Lock(p, "locked") ELSE Move(p, "timedout")

ExpireAsCancelled(p) ==
  /\ pc[p] = "recorded" /\ p \in Callers
  /\ Commit(p, "cancelled", <<"expired">>, "timedout")
CommitExpiry(p) ==
  /\ pc[p] = "recorded" /\ p \in Callers
  /\ Commit(p, "expired", <<"expired">>, "timedout")

-----------------------------------------------------------------------------
(***************************************************************************)
(* resolve_hitl.                                                           *)
(***************************************************************************)

\* now is taken before the row is locked.
Receive(r) ==
  /\ pc[r] = "idle"
  /\ Move(r, IF overdue THEN "late" ELSE "ontime")

\* An overdue row is set to EXPIRED and the HTTPException rolls that back.
ResolveUnguarded(r) ==
  /\ pc[r] \in {"ontime", "late"} /\ status # "none" /\ RowFree
  /\ Lock(r, "locked")
ResolveLock(r) ==
  /\ pc[r] \in {"ontime", "late"}
  /\ \/ status = "none" /\ Move(r, "notfound")
     \/ status \in Terminal /\ RowFree /\ Move(r, "conflict")
     \/ status = "pending" /\ RowFree /\ pc[r] = "late" /\ Move(r, "toolate")
     \/ status = "pending" /\ RowFree /\ pc[r] = "ontime" /\ Lock(r, "locked")

\* The verdict and its audit event are committed together.
VerdictUnrecorded(r) == <<>>
VerdictEvents(r) == <<Verdict[r]>>

CommitVerdict(r) ==
  /\ pc[r] = "recorded" /\ r \in Reviewers
  /\ Commit(r, Verdict[r], VerdictEvents(r), "publishing")

Subscribers == {p \in Callers : pc[p] \in {"waiting", "polling"}}

Publish(r) ==
  /\ pc[r] = "publishing"
  /\ \E missed \in IF "loss" \in Faults THEN SUBSET Subscribers ELSE {{}} :
       mail' = mail \cup (Subscribers \ missed)
  /\ Goto(r, "done")
  /\ UNCHANGED <<status, holder, trail, writer, last, overdue, due>>

-----------------------------------------------------------------------------
(***************************************************************************)
(* Time and faults.  expires_at counts from before the commit of the row,  *)
(* a caller's deadline from after its subscription, for equally long.      *)
(***************************************************************************)

PassExpiry ==
  /\ status # "none" /\ ~overdue
  /\ overdue' = TRUE
  /\ UNCHANGED <<status, holder, trail, writer, last, mail, due, pc>>

PassDeadline(p) ==
  /\ overdue /\ pc[p] \in {"waiting", "notified", "polling"} /\ p \notin due
  /\ due' = due \cup {p}
  /\ UNCHANGED <<status, holder, trail, writer, last, mail, overdue, pc>>

Abandon(p) ==
  /\ "abandon" \in Faults
  /\ ~Ended(p)
  /\ Rollback(p)
  /\ Goto(p, "gone")
  /\ last' = [last EXCEPT ![p] = 0]
  /\ UNCHANGED <<status, trail, mail, overdue, due>>

\* The audit append of _expire_transaction and of resolve_hitl.
Record(p) ==
  \/ pc[p] = "locked" /\ ReadTail(p, "recording")
  \/ pc[p] = "recording" /\ InsertTail(p, "recorded")

CallerStep(p) ==
  \/ Evaluate(p) \/ AppendEvaluated(p) \/ Find(p) \/ Insert(p)
  \/ CommitRequest(p) \/ CommitFound(p)
  \/ Subscribe(p) \/ TakeMessage(p) \/ Poll(p) \/ ReadOnMessage(p) \/ ReadOnPoll(p)
  \/ TimeOut(p) \/ ExpireLock(p) \/ Record(p) \/ CommitExpiry(p)

\* A registration, a budget or policy change, an execution, an evaluation of
\* another intent: what it locks besides the chain is not this row.
OtherStep(o) ==
  \/ pc[o] = "idle" /\ ReadTail(o, "recording")
  \/ pc[o] = "recording" /\ InsertTail(o, "recorded")
  \/ pc[o] = "recorded" /\ Commit(o, status, <<"other">>, "done")

ReviewerStep(r) ==
  Receive(r) \/ ResolveLock(r) \/ Record(r) \/ CommitVerdict(r) \/ Publish(r)

AllEnded == (\A p \in Procs : Ended(p)) /\ UNCHANGED vars

Next ==
  \/ \E p \in Callers : CallerStep(p) \/ PassDeadline(p)
  \/ \E r \in Reviewers : ReviewerStep(r)
  \/ \E o \in Others : OtherStep(o)
  \/ \E p \in Procs : Abandon(p)
  \/ PassExpiry
  \/ AllEnded

\* The event loop runs every coroutine whose await is over, the database hands
\* freed locks on, and time passes.
Fairness ==
  /\ \A p \in Callers : WF_vars(CallerStep(p)) /\ WF_vars(PassDeadline(p))
  /\ \A r \in Reviewers : WF_vars(ReviewerStep(r))
  /\ \A o \in Others : WF_vars(OtherStep(o))
  /\ WF_vars(PassExpiry)

Spec == Init /\ [][Next]_vars /\ Fairness

-----------------------------------------------------------------------------
(***************************************************************************)
(* Properties.                                                             *)
(***************************************************************************)

\* Every variable has its type.
TypeOK ==
  /\ status \in {"none", "pending"} \cup Terminal
  /\ holder \in Procs \cup {Nobody}
  /\ trail \in Seq(Events)
  /\ writer \in Procs \cup {Nobody}
  /\ last \in [Procs -> Nat]
  /\ mail \subseteq Callers
  /\ overdue \in BOOLEAN
  /\ due \subseteq Callers
  /\ pc \in [Procs -> CallerSteps \cup CallerEnds \cup ReviewerSteps \cup ReviewerEnds
                       \cup OtherSteps \cup OtherEnds]
  /\ \A p \in Callers : pc[p] \in CallerSteps \cup CallerEnds
  /\ \A r \in Reviewers : pc[r] \in ReviewerSteps \cup ReviewerEnds
  /\ \A o \in Others : pc[o] \in OtherSteps \cup OtherEnds

\* A resolution is final: two reviewers, or a reviewer and an expiring caller,
\* never overwrite each other, and no row comes back to "pending".
ResolvedOnce ==
  [][status' # status =>
       \/ status = "none" /\ status' = "pending"
       \/ status = "pending" /\ status' \in Terminal]_vars

\* Everybody is told what the row says.  A caller goes on only under an approval
\* and is refused only by a rejection, whether it heard of it by a message or by
\* polling; in particular no message makes it read a row that is still pending,
\* which would count as a refusal.  A reviewer whose resolution was accepted has
\* decided, whoever else was resolving or expiring the row.
OutcomeAgrees ==
  /\ \A p \in Callers :
       /\ pc[p] = "allowed" => status = "approved"
       /\ pc[p] = "refused" => status = "rejected"
  /\ \A r \in Reviewers : pc[r] \in {"publishing", "done"} => status = Verdict[r]

Count(e) == Cardinality({i \in DOMAIN trail : trail[i] = e})

\* The audit chain tells the row's story: one request if there is a row, then
\* exactly the one resolution the row shows, and none that was rolled back.
TrailTellsStatus ==
  /\ Count("requested") = IF status = "none" THEN 0 ELSE 1
  /\ \A s \in Terminal : Count(s) = IF status = s THEN 1 ELSE 0
  /\ \A i, j \in DOMAIN trail :
       trail[i] = "requested" /\ trail[j] \in Terminal => i < j

\* Two concurrent requests of one key never collide on the key: the audit row
\* each inserts first lets only one of them look for the transaction at a time,
\* so that the IntegrityError handler of _create_or_get_hitl is never needed.
InsertNeverCollides ==
  \A p \in Callers : pc[p] = "inserting" => status = "none" /\ holder = Nobody

\* Every caller and every reviewer gets an answer, with messages lost and
\* handlers gone: polling replaces the message, the deadline the reviewer.
EveryHandlerEnds == <>(\A p \in Procs : Ended(p))

Answer(p) ==
  IF ~Ended(p) THEN "none"
  ELSE IF pc[p] \in {"allowed", "refused"} THEN pc[p]
  ELSE IF pc[p] = "done" THEN "accepted" ELSE "failed"

Promised ==
  INSTANCE Approval WITH answer <- [p \in Callers \cup Reviewers |-> Answer(p)]

\* Seen from outside, the waiting, polling, publishing, locking and expiring of
\* all parties is one approval, requested and resolved in single steps, of which
\* everybody is told what it became or that the call failed.
ImplementsApproval == Promised!Spec

\* A resolution answered "HITL transaction has expired" (router.py:141) leaves
\* the transaction expired, as the assignment before the exception says
\* (router.py:138).  It fails: the exception rolls the assignment back.
TooLateMeansExpired ==
  \A r \in Reviewers : pc[r] = "toolate" => status # "pending"

\* The timeout that ends the wait also ends the transaction ("HITL wait and
\* expiry timeout", README.md:86).  It fails: an audit conflict rolls back the
\* only attempt of _expire_transaction, and nothing tries again.
ExpiryTakesEffect == overdue ~> status \in Terminal
=============================================================================

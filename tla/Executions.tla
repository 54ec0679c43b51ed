------------------------------ MODULE Executions ------------------------------
(***************************************************************************)
(* Whole executions: AgentInterceptor.execute of several agents that share *)
(* a budget and, some of them, an idempotency key, from the evaluation to  *)
(* the record of what the tool did.                                        *)
(*                                                                         *)
(* This module composes what the others model in detail.  The audit chain  *)
(* is the set of its events, and `current' says whose append has read the  *)
(* row that is still the last: that decides who waits and who loses        *)
(* (AuditChain).  An approval moves as the module Approval lets it, which  *)
(* HitlApproval implements.  The budget exists and its counter is present, *)
(* as upsert_budget leaves them; reading the row and running the Lua       *)
(* script, one step here, are two in BudgetGovernor.                       *)
(*                                                                         *)
(* A definition that stands directly before another with the same          *)
(* parameters and is used nowhere is a mutation of the latter: README.md,  *)
(* "Mutations".                                                            *)
(***************************************************************************)
EXTENDS Integers

CONSTANTS
  Execs,        \* calls of AgentInterceptor.execute
  Amount,       \* Amount[e]: intent.requested_amount, 0 for none
  Risky,        \* intents that a policy holds back for approval
  Key,          \* Key[e]: intent.idempotency_key
  Cap,          \* limit_amount of the budget
  Faults,       \* which of the things below may go wrong
  Nobody        \* nobody holds the row's lock or the end of the chain

\* "toolError": a tool may raise; "abandon": a handler may stop anywhere;
\* "ack": the answer to a COMMIT may be lost, so that the handler takes it for
\* failed.
FaultKinds == {"toolError", "abandon", "ack"}

Row == [limit : {Cap}, consumed : Nat, version : Nat, active : {TRUE}]

\* Whoever may resolve an approval, by the verdict.
Reviewers == {"approving", "rejecting"}

ASSUME ConstantsAssumption ==
  /\ Amount \in [Execs -> Nat]
  /\ Risky \subseteq Execs
  /\ Cap \in Nat \ {0}
  /\ Faults \subseteq FaultKinds
  /\ Nobody \notin Execs \cup Row
  /\ Execs \cap Reviewers = {}

VARIABLES
  row,          \* the committed row of the table budgets
  lock,         \* who has it locked
  counter,      \* what Redis has under the budget's key
  approval,     \* approval[k]: status of the transaction of key k, or "none"
  log,          \* the committed events of the audit chain
  writer,       \* who has the next audit row inserted uncommitted
  current,      \* whose append has read the row that is still the last
  decision,     \* decision[e]: the outcome of the PolicyDecision in e's hands
  ran,          \* executions whose tool has done its work
  pc            \* where each execution stands

vars == <<row, lock, counter, approval, log, writer, current, decision, ran, pc>>

Keys == {Key[e] : e \in Execs}
Financial == {e \in Execs : Amount[e] > 0}

Steps ==
  {"idle", "evaluated", "appending", "reserving", "closing", "waiting", "funding",
   "cleared", "spent", "locked", "settled", "recording", "recorded",
   "failing", "released", "noting", "noted"}
Ends == {"refused", "unasked", "completed", "failed", "error"}

Ended(e) == pc[e] \in Ends
Goto(e, next) == pc' = [pc EXCEPT ![e] = next]

Init ==
  /\ row = [limit |-> Cap, consumed |-> 0, version |-> 1, active |-> TRUE]
  /\ lock = Nobody /\ counter = Cap
  /\ approval = [k \in Keys |-> "none"]
  /\ log = {} /\ writer = Nobody /\ current = {}
  /\ decision = [e \in Execs |-> "none"]
  /\ ran = {}
  /\ pc = [e \in Execs |-> "idle"]

-----------------------------------------------------------------------------
(***************************************************************************)
(* Transactions.                                                           *)
(***************************************************************************)

\* AuditLogger.append up to the flush: the last committed row.
ReadTail(e, next) ==
  /\ current' = current \cup {e}
  /\ Goto(e, next)
  /\ UNCHANGED <<row, lock, counter, approval, log, writer, decision, ran>>

\* ROLLBACK: the lock, the audit row and the changes of e go, Redis stays.
RollbackSaved(e) ==
  /\ row' = IF lock = e THEN [row EXCEPT !.consumed = @ + Amount[e]] ELSE row
  /\ lock' = IF lock = e THEN Nobody ELSE lock
  /\ writer' = IF writer = e THEN Nobody ELSE writer
Rollback(e) ==
  /\ row' = row
  /\ lock' = IF lock = e THEN Nobody ELSE lock
  /\ writer' = IF writer = e THEN Nobody ELSE writer

\* The flush of the new audit row.  Its IntegrityError is caught nowhere.
InsertIgnored(e, next) ==
  /\ IF e \in current
       THEN writer = Nobody /\ writer' = e /\ Goto(e, next) /\ UNCHANGED <<row, lock>>
       ELSE Goto(e, next) /\ UNCHANGED <<row, lock, writer>>
  /\ UNCHANGED <<counter, approval, log, current, decision, ran>>
InsertTail(e, next) ==
  /\ IF e \in current
       THEN writer = Nobody /\ writer' = e /\ Goto(e, next) /\ UNCHANGED <<row, lock>>
       ELSE Rollback(e) /\ Goto(e, "error")
  /\ UNCHANGED <<counter, approval, log, current, decision, ran>>

\* COMMIT: the row's change and the events become visible together; whoever has
\* read the chain's end before has not read it.
Commit(e, newRow, events, next) ==
  /\ row' = newRow
  /\ log' = log \cup (IF writer = e THEN events ELSE {})
  /\ lock' = IF lock = e THEN Nobody ELSE lock
  /\ writer' = IF writer = e THEN Nobody ELSE writer
  /\ current' = {}
  /\ \E answered \in {next} \cup (IF "ack" \in Faults THEN {"error"} ELSE {}) :
       Goto(e, answered)

-----------------------------------------------------------------------------
(***************************************************************************)
(* evaluate_or_wait.                                                       *)
(***************************************************************************)

\* DeterministicPolicyEngine.evaluate: the strictest of what the policies say
\* (PolicyEngine) and of what the counter allows.
Outcomes(e) ==
  {"deny", "require_approval"}
    \cup (IF e \in Risky \/ Amount[e] > counter THEN {} ELSE {"allow"})

Evaluate(e) ==
  /\ pc[e] = "idle"
  /\ \E outcome \in Outcomes(e) : decision' = [decision EXCEPT ![e] = outcome]
  /\ Goto(e, "evaluated")
  /\ UNCHANGED <<row, lock, counter, approval, log, writer, current, ran>>

ReadForEvaluation(e) == pc[e] = "evaluated" /\ ReadTail(e, "appending")

AppendEvaluated(e) ==
  /\ pc[e] = "appending"
  /\ InsertTail(e, IF decision[e] = "allow" /\ e \in Financial THEN "reserving" ELSE "closing")

\* TokenBucketGovernor.reserve, with a plain SELECT and then the Lua script.
ReservedOnLedger(e) == row.limit - row.consumed >= Amount[e]
Reserved(e) == row.limit - row.consumed >= Amount[e] /\ counter >= Amount[e]

\* The counter is changed inside the transaction of the evaluation, at once and
\* for good.  Failing, the outcome becomes require_approval, with no transaction.
ReserveForUpdate(e) ==
  /\ pc[e] = "reserving" /\ lock = Nobody
  /\ counter' = IF Reserved(e) THEN counter - Amount[e] ELSE counter
  /\ decision' = [decision EXCEPT ![e] = IF Reserved(e) THEN "allow" ELSE "unfunded"]
  /\ Goto(e, "closing")
  /\ UNCHANGED <<row, lock, approval, log, writer, current, ran>>
Reserve(e) ==
  /\ pc[e] = "reserving"
  /\ counter' = IF Reserved(e) THEN counter - Amount[e] ELSE counter
  /\ decision' = [decision EXCEPT ![e] = IF Reserved(e) THEN "allow" ELSE "unfunded"]
  /\ Goto(e, "closing")
  /\ UNCHANGED <<row, lock, approval, log, writer, current, ran>>

\* Where the PolicyDecision leads once the transaction is committed; `execute'
\* raises ApprovalRejectedError for "unfunded".
AfterEvaluation(e) ==
  CASE decision[e] = "allow" -> "cleared"
    [] decision[e] = "require_approval" -> "waiting"
    [] decision[e] = "unfunded" -> "unasked"
    [] OTHER -> "refused"

\* With _create_or_get_hitl: e's audit row keeps everybody else from creating
\* the transaction of this key (HitlApproval, InsertNeverCollides).
CommitEvaluation(e) ==
  LET asks == decision[e] = "require_approval" /\ approval[Key[e]] = "none" IN
  /\ pc[e] = "closing"
  /\ approval' = IF asks THEN [approval EXCEPT ![Key[e]] = "pending"] ELSE approval
  /\ Commit(e, row,
       {<<"evaluated", e>>} \cup (IF asks THEN {<<"requested", Key[e]>>} ELSE {}),
       AfterEvaluation(e))
  /\ UNCHANGED <<counter, decision, ran>>

-----------------------------------------------------------------------------
(***************************************************************************)
(* The approval: a reviewer resolves it, every caller that waits for the   *)
(* key learns of it, or its deadline passes first.                         *)
(***************************************************************************)

\* resolve_hitl, with its event; by HitlApproval as good as one step.
Decide(k) ==
  /\ approval[k] = "pending" /\ writer = Nobody
  /\ \E verdict \in {"approved", "rejected"} :
       /\ approval' = [approval EXCEPT ![k] = verdict]
       /\ log' = log \cup {<<verdict, k>>}
  /\ current' = {}
  /\ UNCHANGED <<row, lock, counter, writer, decision, ran, pc>>

Learn(e, what, next) ==
  /\ decision' = [decision EXCEPT ![e] = what]
  /\ Goto(e, next)
  /\ UNCHANGED <<row, lock, counter, writer, ran>>

\* A caller whose key has been resolved before does not wait at all.
LearnAnything(e) ==
  /\ pc[e] = "waiting"
  /\ Learn(e, "approved", IF e \in Financial THEN "funding" ELSE "cleared")
  /\ UNCHANGED <<approval, log, current>>
LearnResolution(e) ==
  /\ pc[e] = "waiting"
  /\ \/ /\ approval[Key[e]] = "approved"
        /\ Learn(e, "approved", IF e \in Financial THEN "funding" ELSE "cleared")
     \/ /\ approval[Key[e]] \in {"rejected", "expired"}
        /\ Learn(e, approval[Key[e]], "refused")
  /\ UNCHANGED <<approval, log, current>>

\* _expire_transaction: it may find the transaction resolved, or lose the race
\* for the end of the audit chain.
GiveUp(e) ==
  /\ pc[e] = "waiting"
  /\ Learn(e, "timedout", "refused")
  /\ \/ /\ approval[Key[e]] = "pending" /\ writer = Nobody
        /\ approval' = [approval EXCEPT ![Key[e]] = "expired"]
        /\ log' = log \cup {<<"expired", Key[e]>>}
        /\ current' = {}
     \/ UNCHANGED <<approval, log, current>>

\* _resolution_decision: an approved amount must still be reserved.
ReserveApproved(e) ==
  /\ pc[e] = "funding"
  /\ counter' = IF Reserved(e) THEN counter - Amount[e] ELSE counter
  /\ Goto(e, IF Reserved(e) THEN "cleared" ELSE "refused")
  /\ UNCHANGED <<row, lock, approval, log, writer, current, decision, ran>>

-----------------------------------------------------------------------------
(***************************************************************************)
(* execute: the tool, then _commit_execution or _record_execution_failure. *)
(***************************************************************************)

ToolSucceeds(e) ==
  /\ pc[e] = "cleared"
  /\ ran' = ran \cup {e}
  /\ Goto(e, IF e \in Financial THEN "spent" ELSE "settled")
  /\ UNCHANGED <<row, lock, counter, approval, log, writer, current, decision>>

ToolFails(e) ==
  /\ "toolError" \in Faults
  /\ pc[e] = "cleared"
  /\ Goto(e, IF e \in Financial THEN "failing" ELSE "released")
  /\ UNCHANGED <<row, lock, counter, approval, log, writer, current, decision, ran>>

Fits(e) == row.consumed + Amount[e] <= row.limit

\* TokenBucketGovernor.commit; its GovernanceError comes after the tool has run.
CommitLoad(e) ==
  /\ pc[e] = "spent" /\ lock = Nobody
  /\ IF Fits(e) THEN lock' = e /\ Goto(e, "locked") ELSE Goto(e, "error") /\ UNCHANGED lock
  /\ UNCHANGED <<row, counter, approval, log, writer, current, decision, ran>>

CommitReset(e) ==
  /\ pc[e] = "locked"
  /\ counter' = row.limit - (row.consumed + Amount[e])
  /\ Goto(e, "settled")
  /\ UNCHANGED <<row, lock, approval, log, writer, current, decision, ran>>

ReadForRecord(e) == pc[e] = "settled" /\ ReadTail(e, "recording")
AppendCompleted(e) == pc[e] = "recording" /\ InsertTail(e, "recorded")

Consume(r, e) ==
  IF e \in Financial THEN [r EXCEPT !.consumed = @ + Amount[e], !.version = @ + 1] ELSE r

\* The tool's failure handler around the commit as well.
CommitInsideTry(e) ==
  /\ pc[e] = "recorded"
  /\ row' = Consume(row, e)
  /\ log' = log \cup {<<"completed", e>>}
  /\ lock' = IF lock = e THEN Nobody ELSE lock
  /\ writer' = Nobody /\ current' = {}
  /\ \E answered \in {"completed"} \cup (IF "ack" \in Faults THEN {"failing"} ELSE {}) :
       Goto(e, answered)
  /\ UNCHANGED <<counter, approval, decision, ran>>
CommitExecution(e) ==
  /\ pc[e] = "recorded"
  /\ Commit(e, Consume(row, e), {<<"completed", e>>}, "completed")
  /\ UNCHANGED <<counter, approval, decision, ran>>

\* TokenBucketGovernor.release.
Release(e) ==
  /\ pc[e] = "failing"
  /\ counter' = row.limit - row.consumed
  /\ Goto(e, "released")
  /\ UNCHANGED <<row, lock, approval, log, writer, current, decision, ran>>

ReadForFailure(e) == pc[e] = "released" /\ ReadTail(e, "noting")
AppendFailed(e) == pc[e] = "noting" /\ InsertTail(e, "noted")

CommitFailure(e) ==
  /\ pc[e] = "noted"
  /\ Commit(e, row, {<<"failed", e>>}, "failed")
  /\ UNCHANGED <<counter, approval, decision, ran>>

-----------------------------------------------------------------------------
Abandon(e) ==
  /\ "abandon" \in Faults
  /\ ~Ended(e)
  /\ Rollback(e)
  /\ Goto(e, "error")
  /\ UNCHANGED <<counter, approval, log, current, decision, ran>>

ExecStep(e) ==
  \/ Evaluate(e) \/ ReadForEvaluation(e) \/ AppendEvaluated(e) \/ Reserve(e)
  \/ CommitEvaluation(e)
  \/ LearnResolution(e) \/ GiveUp(e) \/ ReserveApproved(e)
  \/ ToolSucceeds(e) \/ ToolFails(e)
  \/ CommitLoad(e) \/ CommitReset(e)
  \/ ReadForRecord(e) \/ AppendCompleted(e) \/ CommitExecution(e)
  \/ Release(e) \/ ReadForFailure(e) \/ AppendFailed(e) \/ CommitFailure(e)

AllEnded == (\A e \in Execs : Ended(e)) /\ UNCHANGED vars

Next ==
  \/ \E e \in Execs : ExecStep(e) \/ Abandon(e)
  \/ \E k \in Keys : Decide(k)
  \/ AllEnded

\* The event loop runs what is ready, the database hands freed locks on, tools
\* return and deadlines pass.  Reviewers need not act.
Fairness == \A e \in Execs : WF_vars(ExecStep(e))

Spec == Init /\ [][Next]_vars /\ Fairness

-----------------------------------------------------------------------------
(***************************************************************************)
(* Properties.                                                             *)
(***************************************************************************)

Resolutions == {"approved", "rejected", "expired"}
Events ==
  ({"evaluated", "completed", "failed"} \X Execs)
    \cup (({"requested"} \cup Resolutions) \X Keys)

\* Every variable has its type.
TypeOK ==
  /\ row \in Row
  /\ lock \in Financial \cup {Nobody}
  /\ counter \in Nat
  /\ approval \in [Keys -> {"none", "pending"} \cup Resolutions]
  /\ log \subseteq Events
  /\ writer \in Execs \cup {Nobody}
  /\ current \subseteq Execs
  /\ decision \in [Execs -> {"none", "deny", "allow", "require_approval", "unfunded",
                             "timedout"} \cup Resolutions]
  /\ ran \subseteq Execs
  /\ pc \in [Execs -> Steps \cup Ends]

\* A policy held e back, or the budget did: what it has it did not get by an allow.
HeldBack(e) == e \in Risky \/ decision[e] # "allow"

\* A tool has run only after its evaluation was on the audit chain and, if it was
\* held back, for its risk or for the budget, after the request and the approval of
\* its key were: losing a race for the chain or for the budget, a crash or a lost
\* COMMIT never lets an execution through unrecorded or unapproved.
ClearedBeforeRun ==
  \A e \in ran :
    /\ <<"evaluated", e>> \in log
    /\ HeldBack(e) => {<<"requested", Key[e]>>, <<"approved", Key[e]>>} \subseteq log

\* The chain never tells two stories of one execution: it has completed only if
\* its tool ran to the end, failed only if it did not, and neither without its
\* evaluation, even when the answer to the COMMIT that said so was lost.
OneStory ==
  \A e \in Execs :
    /\ <<"completed", e>> \in log => e \in ran /\ <<"evaluated", e>> \in log
    /\ <<"failed", e>> \in log => e \notin ran /\ <<"evaluated", e>> \in log

Ledger ==
  INSTANCE BudgetLedger WITH
    Calls <- Financial,
    Limits <- {},
    InitRows <- {[limit |-> Cap, consumed |-> 0, version |-> 1, active |-> TRUE]},
    NoRow <- Nobody,
    charged <- {e \in Financial : <<"completed", e>> \in log}

\* Ledger and audit chain agree at every moment: the row is charged in the very
\* step that puts the execution's completion on the chain, by its amount and
\* within the cap, whatever is rolled back, lost or stopped on the way.
ImplementsLedger == Ledger!Spec

Answer(e) ==
  CASE decision[e] = "approved" -> "allowed"
    [] decision[e] = "rejected" -> "refused"
    [] decision[e] \in {"expired", "timedout"} -> "failed"
    [] OTHER -> "none"

CallersOf(k) == {e \in Execs : Key[e] = k}

Waiting(k) ==
  INSTANCE Approval WITH
    Callers <- CallersOf(k),
    Verdict <- [r \in Reviewers |-> IF r = "approving" THEN "approved" ELSE "rejected"],
    status <- approval[k],
    answer <- [p \in CallersOf(k) \cup Reviewers |->
                 IF p \in Execs THEN Answer(p) ELSE "none"]

\* Every key's transaction keeps the promise of Approval towards all executions
\* that share it, those that come after its resolution included.
ApprovalsKept ==
  [][\A k \in Keys : [Waiting(k)!Next]_(Waiting(k)!approvalVars)]_vars

\* Every execution ends.  The reservation waits for no row lock while it holds
\* the end of the chain, which those who hold the row lock wait for.
EveryExecutionEnds == <>(\A e \in Execs : Ended(e))

\* An intent is answered as not approved only if a human was asked, as
\* README.md:201 has it: evaluation "intentionally waits for a HITL outcome".
\* It fails: when the reservation fails after an allow, the outcome becomes
\* require_approval without a transaction (interceptor.py:73).
NotApprovedWasAsked ==
  \A e \in Execs : pc[e] = "unasked" => approval[Key[e]] # "none"
=============================================================================

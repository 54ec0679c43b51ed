------------------------------- MODULE Approval -------------------------------
(***************************************************************************)
(* What a human approval promises, with no row locks, messages, deadlines  *)
(* or audit appends: it is requested once and resolved at most once; a     *)
(* caller goes on only when it is approved and is refused only when it is  *)
(* rejected; a reviewer is told that the resolution was taken only if it   *)
(* stands; an answer is never taken back; and anybody may be answered with *)
(* a failure instead.  The module HitlApproval is shown to implement it,   *)
(* and Executions uses it for the approvals it waits for.                  *)
(***************************************************************************)
CONSTANTS
  Callers,      \* who waits for the approval
  Reviewers,    \* who resolves it
  Verdict       \* Verdict[r]: what reviewer r decides

VARIABLES
  status,       \* "none", "pending" or the resolution
  answer        \* answer[p]: what p has been told, "none" so far

approvalVars == <<status, answer>>

Init ==
  /\ status = "none"
  /\ answer = [p \in Callers \cup Reviewers |-> "none"]

Request ==
  /\ status = "none"
  /\ status' = "pending"
  /\ UNCHANGED answer

\* A reviewer who has not been answered yet decides.
Decide(r) ==
  /\ status = "pending" /\ answer[r] = "none"
  /\ status' = Verdict[r]
  /\ UNCHANGED answer

\* The caller whose time is up ends the approval and its own call at once.
Expire(c) ==
  /\ status = "pending" /\ answer[c] = "none"
  /\ status' = "expired"
  /\ answer' = [answer EXCEPT ![c] = "failed"]

Tell(p, what) ==
  /\ answer[p] = "none"
  /\ answer' = [answer EXCEPT ![p] = what]
  /\ UNCHANGED status

Proceed(c) == status = "approved" /\ Tell(c, "allowed")
Refuse(c) == status = "rejected" /\ Tell(c, "refused")
Accept(r) == status = Verdict[r] /\ Tell(r, "accepted")
Fail(p) == Tell(p, "failed")

Next ==
  \/ Request
  \/ \E c \in Callers : Expire(c) \/ Proceed(c) \/ Refuse(c)
  \/ \E r \in Reviewers : Decide(r) \/ Accept(r)
  \/ \E p \in Callers \cup Reviewers : Fail(p)

Spec == Init /\ [][Next]_approvalVars
=============================================================================

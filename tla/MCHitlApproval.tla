--------------------------- MODULE MCHitlApproval ---------------------------
(***************************************************************************)
(* Small instances of HitlApproval: reviewers who disagree, and callers    *)
(* that share the idempotency key.                                         *)
(***************************************************************************)
EXTENDS HitlApproval, TLC

CONSTANTS p1, p2, p3, r1, r2, o1

\* r1 approves, everybody else rejects.
MCVerdict == [r \in Reviewers |-> IF r = r1 THEN "approved" ELSE "rejected"]

MCAllFaults == FaultKinds
=============================================================================

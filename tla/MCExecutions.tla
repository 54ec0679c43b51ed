---------------------------- MODULE MCExecutions ----------------------------
(***************************************************************************)
(* Small instances of Executions.  The first two share a key and are held  *)
(* back; the first and the third want more than the budget has for both.   *)
(***************************************************************************)
EXTENDS Executions, TLC

CONSTANTS e1, e2, e3, k1, k2

MCAmount == [e \in Execs |-> IF e = e2 THEN 0 ELSE 2]
MCKey == [e \in Execs |-> IF e = e3 THEN k2 ELSE k1]
MCRisky == {e1, e2}

MCAllFaults == FaultKinds
=============================================================================

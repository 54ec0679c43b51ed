-------------------------- MODULE MCBudgetGovernor --------------------------
(***************************************************************************)
(* Small instances of BudgetGovernor.  The amounts are chosen so that two  *)
(* calls exhaust the budget and a third is one too many.                   *)
(***************************************************************************)
EXTENDS BudgetGovernor, TLC

CONSTANTS c1, c2, c3, a1, a2

\* Units of 0.0001; c2 asks for twice as much as the others.
MCAmount == [c \in Calls |-> IF c = c2 THEN 2 ELSE 1]
MCUnitAmount == [c \in Calls |-> 1]

\* One admin lowers the cap of 3 to 2, the other raises it to 4.
MCNewLimit == [a \in Admins |-> IF a = a1 THEN 2 ELSE 4]

Active(limit, consumed) ==
  [limit |-> limit, consumed |-> consumed, version |-> 1, active |-> TRUE]

\* No budget, a fresh one, and a nearly spent one that is switched off.
MCInitRows == {NoRow, Active(3, 0), [Active(3, 2) EXCEPT !.active = FALSE]}
MCCapOfTwo == {Active(2, 0)}

\* Nothing fails, everything may, or everything except the loss of the counter.
MCFaultSets == {{}, FaultKinds, FaultKinds \ {"expiry"}}
MCNoFaults == {{}}
=============================================================================

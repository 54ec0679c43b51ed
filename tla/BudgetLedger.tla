---------------------------- MODULE BudgetLedger ----------------------------
(***************************************************************************)
(* What the ledger promises for one (agent, currency) budget, with no      *)
(* cache, no locks and no coroutines: an execution is charged at most      *)
(* once, by exactly its amount, in one step, and never beyond the cap; an  *)
(* operator may open the budget and move its cap, never below what has     *)
(* been consumed.  The module BudgetGovernor is shown to implement it.     *)
(***************************************************************************)
EXTENDS Integers

CONSTANTS
  Calls,        \* the executions that may be charged to the budget
  Amount,       \* Amount[c]: the amount execution c asks for
  Limits,       \* the caps an operator may set
  InitRows,     \* what the ledger may hold to begin with
  NoRow         \* the budget does not exist

VARIABLES
  row,          \* the budget row, or NoRow
  charged       \* the executions the row has been charged for

ledgerVars == <<row, charged>>

Init ==
  /\ row \in InitRows
  /\ charged = {}

Open(l) ==
  /\ row = NoRow
  /\ row' = [limit |-> l, consumed |-> 0, version |-> 1, active |-> TRUE]
  /\ UNCHANGED charged

MoveCap(l) ==
  /\ row # NoRow
  /\ l >= row.consumed
  /\ row' = [row EXCEPT !.limit = l, !.version = @ + 1]
  /\ UNCHANGED charged

Charge(c) ==
  /\ row # NoRow
  /\ row.active
  /\ c \notin charged
  /\ row.consumed + Amount[c] <= row.limit
  /\ row' = [row EXCEPT !.consumed = @ + Amount[c], !.version = @ + 1]
  /\ charged' = charged \cup {c}

Next ==
  \/ \E l \in Limits : Open(l) \/ MoveCap(l)
  \/ \E c \in Calls : Charge(c)

Spec == Init /\ [][Next]_ledgerVars
=============================================================================

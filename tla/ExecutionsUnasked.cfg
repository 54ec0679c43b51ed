\* Three executions, nothing fails.
SPECIFICATION Spec
CONSTANTS
  e1 = e1  e2 = e2  e3 = e3  k1 = k1  k2 = k2
  Execs = {e1, e2, e3}
  Amount <- MCAmount
  Risky <- MCRisky
  Key <- MCKey
  Cap = 3
  Faults = {}
  Nobody = Nobody
INVARIANTS
  NotApprovedWasAsked

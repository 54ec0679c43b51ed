\* Three executions of amount 1 against a cap of 2, nothing fails.
SPECIFICATION Spec
CONSTANTS
  c1 = c1  c2 = c2  c3 = c3  a1 = a1  a2 = a2
  Calls = {c1, c2, c3}
  Wrapped = {c1, c2, c3}
  Admins = {}
  Amount <- MCUnitAmount
  NewLimit <- MCNewLimit
  InitRows <- MCCapOfTwo
  FaultSets <- MCNoFaults
  NoRow = NoRow  NoKey = NoKey  Nobody = Nobody
INVARIANTS
  SpentWithinCap

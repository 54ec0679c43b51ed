\* Three executions, two of one key, a budget for one of the two financial ones.
SPECIFICATION Spec
CONSTANTS
  e1 = e1  e2 = e2  e3 = e3  k1 = k1  k2 = k2
  Execs = {e1, e2, e3}
  Amount <- MCAmount
  Risky <- MCRisky
  Key <- MCKey
  Cap = 3
  Faults <- MCAllFaults
  Nobody = Nobody
INVARIANTS
  TypeOK
  ClearedBeforeRun
  OneStory
PROPERTIES
  ImplementsLedger
  ApprovalsKept
  EveryExecutionEnds

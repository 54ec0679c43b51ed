\* Two executions, a call over HTTP, two admins, with and without faults.
SPECIFICATION Spec
CONSTANTS
  c1 = c1  c2 = c2  c3 = c3  a1 = a1  a2 = a2
  Calls = {c1, c2, c3}
  Wrapped = {c1, c2}
  Admins = {a1, a2}
  Amount <- MCAmount
  NewLimit <- MCNewLimit
  InitRows <- MCInitRows
  FaultSets <- MCFaultSets
  NoRow = NoRow  NoKey = NoKey  Nobody = Nobody
INVARIANTS
  TypeOK
  CapRespected
  ChangeInFlight
  ResetNeverRaises
  ReservationsExclusiveUntilSettled
  CounterNeverOverstates
  CounterConverges
PROPERTIES
  ImplementsLedger
  EveryHandlerEnds

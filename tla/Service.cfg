\* Two replicas with pools of one connection, crowds of up to three requests.
SPECIFICATION Spec
CONSTANTS
  r1 = r1  r2 = r2
  g1 = g1  g2 = g2  b1 = b1  b2 = b2  i1 = i1  i2 = i2  s1 = s1  f1 = f1  x1 = x1
  Replicas = {r1, r2}
  Requests = {g1, g2, b1, b2, i1, i2, s1, f1, x1}
  Asked <- MCAsked
  Spelling <- MCSpelling
  Normal <- MCNormal
  Agent <- MCAgent
  Roles <- MCRoles
  Valid <- MCValid
  Crowds <- MCCrowds
  Before <- MCBefore
  PoolSize = 1
  Lifetime = 4
  Fraction = 1
  Skew <- MCSkew
  Spread = 1
  MaxTime <- MCMaxTime
  Faults = {"abandon", "outage"}
  Nobody = Nobody
INVARIANTS
  TypeOK
  ServedOnSchema
  OneWinner
  BudgetsFounded
  WaitsInOrder
PROPERTIES
  TokenHonoured
  EveryRequestEnds

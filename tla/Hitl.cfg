\* Two callers of one key, two reviewers who disagree, another request, every fault.
SPECIFICATION Spec
CONSTANTS
  p1 = p1  p2 = p2  p3 = p3  r1 = r1  r2 = r2  o1 = o1
  Callers = {p1, p2}
  Reviewers = {r1, r2}
  Others = {o1}
  Verdict <- MCVerdict
  Faults <- MCAllFaults
  Nobody = Nobody
INVARIANTS
  TypeOK
  OutcomeAgrees
  TrailTellsStatus
  InsertNeverCollides
PROPERTIES
  ResolvedOnce
  ImplementsApproval
  EveryHandlerEnds

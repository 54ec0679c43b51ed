\* One caller, one late reviewer, nothing fails.
SPECIFICATION Spec
CONSTANTS
  p1 = p1  p2 = p2  p3 = p3  r1 = r1  r2 = r2  o1 = o1
  Callers = {p1}
  Reviewers = {r1}
  Others = {}
  Verdict <- MCVerdict
  Faults = {}
  Nobody = Nobody
INVARIANTS
  TooLateMeansExpired

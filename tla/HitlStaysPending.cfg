\* One caller, one other request, nothing fails.
SPECIFICATION Spec
CONSTANTS
  p1 = p1  p2 = p2  p3 = p3  r1 = r1  r2 = r2  o1 = o1
  Callers = {p1}
  Reviewers = {}
  Others = {o1}
  Verdict <- MCVerdict
  Faults = {}
  Nobody = Nobody
PROPERTIES
  ExpiryTakesEffect

\* One transaction, one of its payloads with a number that JSONB rewrites.
SPECIFICATION Spec
CONSTANTS
  t1 = t1  t2 = t2  t3 = t3  t4 = t4
  Txs = {t1}
  Appends <- MCAppends
  Rewritten = {"evaluated"}
  Altered = "altered"
  Faults = {}
  Nobody = Nobody
INVARIANTS
  VerifiesSomewhere

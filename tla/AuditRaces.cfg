\* Four transactions that race, some of which stop; the payload of one event is
\* rewritten by JSONB.
SPECIFICATION Spec
CONSTANTS
  t1 = t1  t2 = t2  t3 = t3  t4 = t4
  Txs = {t1, t2, t3, t4}
  Appends <- MCAppends
  Rewritten = {"completed"}
  Altered = "altered"
  Faults <- MCFaults
  Nobody = Nobody
INVARIANTS
  TypeOK
  ChainWellFormed
  VerifiesAsHashed
  AlterationsExposed
PROPERTIES
  ImplementsLog
  EveryTxEnds

SPECIFICATION Spec
CONSTANTS
  i1 = i1  i2 = i2  st1 = st1  st2 = st2  q1 = q1  q2 = q2
  m1 = m1  m2 = m2  c1 = c1  c2 = c2  c3 = c3
  Importers = {i1, i2}
  Stores = {st1}
  Receipts = {q1, q2}
  Manifests = {m1, m2}
  Source <- MCSource
  Rank <- MCRank
  Pool = {c1, c2}
  RunnerReruns = FALSE
  PowerMayFail = FALSE
  MaxTime = 1
  Nobody = Nobody  Runner = Runner  Managed = Managed  Absent = Absent  Damaged = Damaged
SYMMETRY Symmetric
INVARIANTS OneObservation StoreUnambiguous ReceiptReplays

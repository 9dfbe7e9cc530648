SPECIFICATION FairSpec
CONSTANTS
  i1 = i1  i2 = i2  st1 = st1  st2 = st2  q1 = q1  q2 = q2
  m1 = m1  m2 = m2  c1 = c1  c2 = c2  c3 = c3
  Importers = {i1, i2}
  Stores = {st1, st2}
  Receipts = {q1}
  Manifests = {m1}
  Source <- MCSourceOne
  Rank <- MCRank
  Pool = {c1}
  RunnerReruns = FALSE
  PowerMayFail = TRUE
  MaxTime = 0
  Nobody = Nobody  Runner = Runner  Managed = Managed  Absent = Absent  Damaged = Damaged
INVARIANTS AdmittingReceiptDurable ReturnedReceiptStays
PROPERTY ImportEnds

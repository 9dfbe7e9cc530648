SPECIFICATION Spec
CONSTANTS
  p1 = p1  p2 = p2  r1 = r1  r2 = r2  r3 = r3  a = a  b = b
  Procs <- MCProcs
  Records <- MCRecords
  IdOf <- MCIdOf
  MaxBatch = 2
  FlushMayFail = FALSE
  FsyncFlushesEntry = TRUE
  Nobody = Nobody  NoTail = NoTail  Torn = Torn  Garbage = Garbage
SYMMETRY Symmetric
INVARIANTS ConfirmedDurable UniqueResultIds ReadsStay
PROPERTY ImplementsLog

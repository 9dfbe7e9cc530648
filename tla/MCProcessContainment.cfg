SPECIFICATION FairSpec
CONSTANTS
  l = l  k1 = k1  k2 = k2  out = out  err = err
  Leader = l
  Kids = {k1, k2}
  Streams = {out}
  MaxChunks = 1
CHECK_DEADLOCK FALSE
INVARIANTS CleanIsContained CleanIsCaptured RaiseIsContained
PROPERTY CallEnds

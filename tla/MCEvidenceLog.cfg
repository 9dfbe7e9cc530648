SPECIFICATION LogSpec
CONSTANTS
  a = a  b = b  c = c  x = x  y = y
  Ids = {a, b}
  Bodies = {x, y}
  Observed = {1, 2}
  PowerMayFail = TRUE
  NewlineMayBeLost = TRUE
  FsyncFlushesEntry = TRUE
  Nothing = Nothing  Torn = Torn  Garbage = Garbage
SYMMETRY Symmetric
CHECK_DEADLOCK FALSE
INVARIANTS WrittenDurable ReturnsAgree NeverSilentlyGone

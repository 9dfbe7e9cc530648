SPECIFICATION Spec
CONSTANTS
  a = a  b = b  r1 = r1  r2 = r2
  Tasks = {a, b}
  Runners = {r1, r2}
  MaxTime = 3
  MaxPools = 2
  MaxCalls = 2
  MaxFaults = 1
  Calendars <- MCCalendars
  Windows <- MCWindows
  Lag = 1
  Strict <- MCStrict
  Replayed <- MCReplayed
  None = None
SYMMETRY Symmetric
CHECK_DEADLOCK FALSE
INVARIANTS NoLookAhead CohortIsTheWindow ReplaysAgree RecordsResolve

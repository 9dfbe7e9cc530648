SPECIFICATION Spec
CONSTANTS
  f1 = f1  f2 = f2  c1 = c1  c2 = c2  p1 = p1  p2 = p2  s1 = s1  s2 = s2
  Fillers = {f1, f2}
  Cells = {c1, c2}
  Plans = {p1, p2}
  PlanCells <- MCPlanCells
  Scorings = {s1, s2}
  Outcomes = {"scoreable", "benchmark_invalid"}
  ReuseBenchmarkInvalid = FALSE
  AllowForced = TRUE
  MaxRuns = 2
  Nobody = Nobody  Missing = Missing
SYMMETRY Symmetric
CHECK_DEADLOCK FALSE
INVARIANTS FrozenBindingsStored FrozenMissingWasRun
PROPERTY NeverPaidAgain

SPECIFICATION Spec
CONSTANTS
  script = script  other = other  note = note  cache = cache
  Paths <- MCPaths
  Reserved = {note}
  Caches = {cache}
  Script = {script}
  Texts = {1, 2}
  Endings = {"lf", "crlf"}
  Base <- MCBaseCrlf
  MaxFaults = 2
  Gone = Gone  None = None
INVARIANT CapturedDiffReplays
CHECK_DEADLOCK FALSE

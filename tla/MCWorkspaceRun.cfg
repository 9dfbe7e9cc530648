SPECIFICATION FairSpec
CONSTANTS
  script = script  other = other  note = note  cache = cache
  Paths <- MCPaths
  Reserved = {note}
  Caches = {cache}
  Script = {script}
  Texts = {1}
  Endings = {"lf"}
  Base <- MCBase
  MaxFaults = 2
  Gone = Gone  None = None
CHECK_DEADLOCK FALSE
INVARIANTS RecordIsStorable BlamedIsGuilty ScoreableMeasuresAgent HiddenFromAgent
PROPERTY RecordIsReturned

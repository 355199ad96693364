SPECIFICATION Spec
CONSTANTS
  Budget = 240
  Recent = 2
  SummaryLimit = 1
  FactLimit = 3
  EarlyTurns = 2
  Preamble = 10
  LedgerBase = 5
  FactBase = 5
  SummaryBase = 6
  OmittedNote = 8
  ToolNote = 8
  Wrapper = 23
  Envelope = 40
  FactClip = 43
  SnippetClip = 30
  TaskSizes = {20, 185, 235, 250}
  TextSizes = {10, 60}
  ResultSizes = {5, 90, 170}
  MaxEvents = 5
  MaxUserTurns = 2
  MaxCrashes = 1
CHECK_DEADLOCK FALSE
INVARIANTS
  TypeOK
  ContextSound
  NoGaps
  RaisesOnlyWhenHopeless
  Resumable

CONSTANTS
  repl = repl
  web = web
  kim = kim
  ada = ada
  fact = fact
  Caller <- MCCaller
  Child = {kim, ada}
  NoChild = NoChild
  Fact = {fact, Blank}
  Blank = Blank
  MaxCalls = 2
  Repl = repl
  MaxToolTurns = 2
  MaxEmptyRetries = 1
  InspectOnly <- MCInspectOnly
  MaxBatch = 2
  MaxLines = 2
SPECIFICATION Spec
CHECK_DEADLOCK FALSE
INVARIANTS HistoryIsAnswered InspectingSpendsNothing MemoryIsOfWholeBooks BriefedByOwnPast
PROPERTIES MemoryNeverCostsABook SendReturns

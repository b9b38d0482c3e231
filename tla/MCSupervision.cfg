\* A session: two processes and two paths, one of which may not be restorable; halting on and off.
CONSTANTS
  p1 = p1
  p2 = p2
  s0 = s0
  plain = plain
  None = None
  Shas = {s0}
  Modes = {plain}
  Command = cmd
  Paths <- TwoPaths
  ReportPaths <- NoPaths
  Blockable <- OnePath
  Start <- StartAll
  Limit = 1
  HaltModes = {TRUE, FALSE}
  Helpers = {h1, h2}
  MaxSignals = 1
\* Two flights.
  Flights = {f1, f2}
  Mcp = {f2}
  Timed = {f1, f2}
  Obedient = {f1}
  Zone = {x}
  Outside = {}
  Big = {2, 3}
  Contents = {1, 2, 3}
  Deleted = 0
  Editor = Editor
  Nothing = Nothing
  TornError = TornError
  MaxWrites = 1
SPECIFICATION SupervisionSpec
CHECK_DEADLOCK FALSE
INVARIANTS
  ListedAreGone
  UnresolvedIsReported
  LiveRestoresBounded
  FlightsAreTold
PROPERTIES
  HaltEnds
  TimeoutsEnd

\* A watched path that can become unrestorable, a report-mode path, a journal that may fail; unlimited rewrites.
CONSTANTS
  p1 = p1
  p2 = p2
  s0 = s0
  s1 = s1
  s2 = s2
  plain = plain
  None = None
  Unshown = Unshown
  Paths <- TwoPaths
  Start <- StartTwo
  Shas = {s0}
  Modes = {plain}
  ReportPaths <- SecondPath
  TooBig <- NoPaths
  Timeout = 1
  RejectLimit = 1
  Written <- Anything
  Blockable <- OnePath
  JournalCanFail = TRUE
SPECIFICATION FairSpec
CHECK_DEADLOCK FALSE
INVARIANTS
  ExitRestores
PROPERTIES
  QuestionsEnd
  Settles

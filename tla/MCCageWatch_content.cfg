\* Two watched paths, one of which takes several contents: which question a key meets, and what an answer keeps.
CONSTANTS
  p1 = p1
  p2 = p2
  s0 = s0
  s1 = s1
  s2 = s2
  plain = plain
  None = None
  Unshown = Unshown
  Paths <- TwoPaths
  Start <- StartTwo
  Shas = {s0, s1, s2}
  Modes = {plain}
  ReportPaths <- NoPaths
  TooBig <- Oversize
  Timeout = 1
  RejectLimit = 1
  Written <- Contents
  Blockable <- NoPaths
  JournalCanFail = FALSE
SPECIFICATION Spec
CHECK_DEADLOCK FALSE
INVARIANTS
  HeadIsShown
  KeptWasShown

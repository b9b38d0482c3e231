\* A watch and two sessions in any order, each killed at any step; every other process writes too.
CONSTANTS
  cfg = cfg
  f = f
  s0 = s0
  plain = plain
  w1 = w1
  w2 = w2
  w3 = w3
  None = None
  Paths <- TwoPaths
  Config = cfg
  Shas = {s0}
  Modes = {plain}
  Always <- OnlyCfg
  Lists <- ListsF
  Start <- StartListed
  Wrappers <- ThreeRuns
  Watches <- OneRun
  Blockable <- NoPaths
  Concurrent = FALSE
  RulesChange = FALSE
SPECIFICATION Spec
CHECK_DEADLOCK FALSE
SYMMETRY OtherRuns
INVARIANTS
  TamperNeverBaseline
  KillIsCleanedUp

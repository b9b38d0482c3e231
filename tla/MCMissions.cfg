CONSTANTS
  s1 = s1
  s2 = s2
  t1 = t1
  t2 = t2
  Servers <- MCServers
  Proposals <- MCProposals
  NoKey = NoKey
  Torn = Torn
  ReplayCap = 1
  TTL = 0
  MaxTokens = 2
  MaxOutside = 1
  MaxCalls = 3
  MaxPlain = 1
  Star = "*"
  Deep = "**"
  Intents <- MCIntents
  Skill <- MCSkill
  Risks <- MCRisks
  Layers <- MCLayers
  ScanRoots <- MCScanRoots
  MissionAt <- MCMissionAt
  Sources <- MCSources
  Stub = {"stub"}
  Words = {"yes"}
  Forged = {"forged"}
  ScanDepth = 3
  MaxSaid = 2
  MaxEdits = 2
  MaxCommits = 3
  Texts = {"q1", "q2", "t"}
  Placeholder = "todo"
  Blank = "blank"
  Lines <- MCLines
  Rows <- MCRows
  Tables = {0, 1, 2}
  HasRoots = TRUE
  MaxVersion = 1
  MaxLines = 3
  MaxHistory = 3
  MaxSteps = 4
  Gates = {g1, g2}
  Typed = {g2}
  Chunks = {1, 2}
  Needle = 1
  Hole = 0
  LogCap = 2
  MaxOutput = 3
  Slots = {"a/b", "a__b", "c"}
  FileOf <- MCSlotFiles
  CredentialKinds = {"bearer", "basic"}
  MaxChanges = 3
SPECIFICATION MissionsSpec
SYMMETRY Alike
CHECK_DEADLOCK FALSE
INVARIANTS
  SpentOnce
  AnswersStand
  
  TraceIsFresh
  GateIsItsOwn
  SecretsStayInTheirSlot

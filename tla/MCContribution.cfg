CONSTANTS
  None = None
  Star = Star
  Deep = Deep
  Absent = Absent
  Substrate <- MCSubstrate
  PackageFiles = {}
  LockFiles = {}
  WorkflowFiles = {}
  agent = agent
  m1 = m1
  m2 = m2
  code = code
  wall = wall
  Files <- MCFiles
  Missions <- MCMissions
  Enforced <- MCEnforced
  Protected <- MCProtected
  AutomationRules <- MCRules
  Identities <- MCIdentities
  InitialTree <- MCInitialTree
  Edits <- MCEdits
  MaxCommits = 5
SPECIFICATION BranchSpec
CHECK_DEADLOCK FALSE
INVARIANTS
  HandoffsAreStamped
  
CONSTRAINT
  MCBound

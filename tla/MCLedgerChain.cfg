CONSTANTS
  c1 = c1
  c2 = c2
  a1 = a1
  a2 = a2
  a3 = a3
  Clones <- MCClones
  Origin = Origin
  Calls <- MCCalls
  RepoOf <- MCRepoOf
  Genesis = Genesis
  MaxAttempts = 2
  MaxFaults = 2
SPECIFICATION Spec
SYMMETRY SameClone
CHECK_DEADLOCK FALSE
INVARIANTS
  LedgerStands
  GivesUpOvertaken
PROPERTIES
  ImplementsLedgerLog

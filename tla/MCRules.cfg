CONSTANTS
  a = a
  b = b
  ci = ci
  pkg = pkg
  Absent = Absent
  Substrate = Substrate
  PackageFiles <- MCPackageFiles
  LockFiles <- MCLocks
  WorkflowFiles <- MCWorkflowFiles
  UpdateRules <- MCUpdateRules
  Documents <- MCDocuments
  git = git
  cage = cage
  env = env
  lock = lock
  dep = dep
  vendor = vendor
  l1 = l1
  l2 = l2
  n1 = n1
  n2 = n2
  n3 = n3
  n4 = n4
  Unresolved = Unresolved
  Unset = Unset
  Specs <- MCSpecs
  BudgetSpecs <- MCBudgetSpecs
  Trees <- MCTrees
  Baselines <- MCBaselines
  ManifestRoots <- MCManifestRoots
  None = None
  Index = Index
  Repos <- MCRepos
  TrackedRepos <- MCTrackedRepos
  MovedRepos <- MCMovedRepos
  Tampered <- MCTampered
  TamperedBaselines <- MCTamperedBaselines
  Graphs <- MCGraphs
  Star = Star
  Deep = Deep
  CiConfig <- MCCi
  GitControl <- MCGit
  CageFile <- MCCage
  SecretFiles <- MCSecrets
  SecretExcept <- MCNone
  Lockfiles <- MCLocks
  DependencyManifests <- MCDeps
  Vendored <- MCVendored
  Paths <- MCPaths
  OverrideSets <- MCOverrides
  UpperLaws <- MCUpperLaws
  LowerLaws <- MCLowerLaws
  Skills <- MCSkills
  Policies <- MCPolicies
  Contracts <- MCContracts
  Transport <- MCTransport
  Zones <- MCZones
  Configs <- MCConfigs
  FlagSets <- MCFlagSets
  Found <- MCFound
SPECIFICATION AllSpec
CHECK_DEADLOCK FALSE
INVARIANTS
  NoLevelWidens
  SuggestionsAreFinal
  TreesAreJudged
  CyclesAreFound
  
  ResultsAgree
  

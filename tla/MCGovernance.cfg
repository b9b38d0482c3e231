CONSTANTS
  p1 = p1
  p2 = p2
  n1 = n1
  n2 = n2
  k1 = k1
  k2 = k2
  k3 = k3
  v1 = v1
  script = script
  doc = doc
  local1 = local1
  ignore = ignore
  own = own
  wanted = wanted
  Procs <- MCProcs
  Missions <- MCNames
  Reports <- MCReports
  RingCap = 1
  Audited = {1}
  NoNote = NoNote
  NoRun = NoRun
  MaxRuns = 3
  Assets <- MCNames
  Appliers <- MCProcs
  Numbers <- MCNumbers
  MaxVersion = 2
  MaxPlans = 2
  MaxFaults = 2
  Pulls <- MCProcs
  Verifies = {v1}
  FloorOf <- MCFloors
  Unparsed = {}
  Unsigned = {}
  MaxEdits = 1
  MaxSent = 1
  MaxCrashes = 1
  MaxPulled = 2
  Strict = {script}
  Starters = {Manifest, VersionFile}
  Core = {Manifest, VersionFile}
  Composed = {doc}
  Manifest = Manifest
  VersionFile = VersionFile
  LocalList = local1
  IgnoreFiles = {ignore}
  Lines = {own, wanted}
  Fragment <- MCFragment
  Inits = {v1}
  MaxMishaps = 2
SPECIFICATION GovernanceSpec
SYMMETRY Alike
CHECK_DEADLOCK FALSE
INVARIANTS
  BreakerIsExact
  UpgradeIsWhole
  PassMeetsTheFloor
PROPERTIES
  InstallsWhatWasChecked
  InitIsSafe

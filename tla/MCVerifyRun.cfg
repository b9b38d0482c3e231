CONSTANTS
  r1 = r1
  r2 = r2
  stub = stub
  done = done
  zoned = zoned
  Runs <- MCRuns
  Contents <- MCContents
  RootsOf <- MCRootsOf
  ZoneOf <- MCZoneOf
  Passing <- MCPassing
  Start = stub
  Laws = {1, 2}
  FirstLaw = 1
  NoRecord = NoRecord
  HalfWritten = HalfWritten
  ScanDepth = 4
  MaxCommits = 3
  MaxEdits = 2
SPECIFICATION Spec
SYMMETRY AnyRun
CHECK_DEADLOCK FALSE
INVARIANTS
  RecordsAreTrue
  
PROPERTIES
  PassMeansTested

\* The command rewrites .gitignore, and an ignored file shows.
CONSTANTS
  gitignore = gitignore
  src = src
  shared = shared
  built = built
  new = new
  own = own
  s0 = s0
  s1 = s1
  plain = plain
  None = None
  Paths <- MCPaths
  Shas = {s0, s1}
  Modes = {plain}
  Areas <- MCAreas
  Overrides = {own}
  IgnoreFiles = {gitignore}
  Hides <- MCHides
  RealIndex <- Tracked
  Start <- MCStart
SPECIFICATION Spec
CHECK_DEADLOCK FALSE
PROPERTIES
  IgnoredLeftAlone

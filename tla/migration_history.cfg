SPECIFICATION HistorySpec
CONSTANTS
  t = t
  u = u
  profiles = profiles
  listing = listing
  Views <- MCViews
  PlatformGrants <- MCPlatformGrants
  ViewAllowlist = {}
  AssumeWrites = "auto"
  Projects <- MCProjects
  p = p
  q = q
  purge = purge
  grow = grow
  Relations <- MCRelations
  PolicyNames <- MCPolicyNames
  Routines <- MCRoutines
  Files <- MCFiles
  Grandfather <- MCGrandfather
  NumberingGrandfathered = FALSE
  Baseline = 0
  Allowlist = {}
  HandEdits <- MCHandEdits
  MaxEdits = 1
  MaxFiles = 3
  DriftAllow <- MCDriftAllow
INVARIANTS
  HistoryTypeOK
  NoFalseDrift
  CleanMeansReproducible
  InversionBreaksFresh
  OrderHazardNamed
  DefinerSound
  DefinerComplete
  WriteThroughNamed
  WriteThroughSound

SPECIFICATION Spec
CONSTANTS
  StaticGuards <- MCStatic
  RuntimeGuards <- MCRuntime
  Paths <- MCPaths
  JsonPath <- MCJson
  SarifPath <- MCSarif
  Jobs <- OneAction
  MaxFaults = 0
INVARIANT FailureReachesUpload

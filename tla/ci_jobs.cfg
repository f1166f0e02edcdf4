SPECIFICATION Spec
CONSTANTS
  StaticGuards <- MCStatic
  RuntimeGuards <- MCRuntime
  Paths <- MCPaths
  JsonPath <- MCJson
  SarifPath <- MCSarif
  Jobs <- SmallJobs
  MaxFaults = 1
INVARIANTS
  TypeOK
  GreenCallDelivers
  OneVoice
  GreenJobIsClean
  UploadIsOwn
  FindingsUploaded
PROPERTY
  SummaryKept

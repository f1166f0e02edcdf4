SPECIFICATION FairSpec
CONSTANTS
  t1 = t1  t2 = t2
  tenantA = tenantA  tenantB = tenantB  tenantC = tenantC
  NullTenant = NullTenant
  NoTenant = NoTenant
  Tables <- MCTables
  Tenants <- MCTenants
  CatalogOrder <- MCOrder
  SeedPair <- MCSeedPair
  Setups <- FaultSetups
  Databases <- FaultDatabases
  MaxWrites = 1
  MaxDrops = 1
  SampleLimit = 3
INVARIANTS
  Unharmed
  NoTrace
  ActsAsClaimed
  NoVacuousPass
  GreenMeansControlled
  EveryTableAnswered
PROPERTY
  Terminates

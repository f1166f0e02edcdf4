SPECIFICATION Spec
CONSTANTS
  t1 = t1  t2 = t2
  tenantA = tenantA  tenantB = tenantB  tenantC = tenantC
  NullTenant = NullTenant
  NoTenant = NoTenant
  Tables <- MCTables
  Tenants <- MCTenants
  CatalogOrder <- MCOrder
  SeedPair <- MCSeedPair
  Setups <- OnlyDefault
  Databases <- SoleScoped
  MaxWrites = 1
  MaxDrops = 0
  SampleLimit = 3
INVARIANT NeverInvented

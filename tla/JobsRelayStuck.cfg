SPECIFICATION FairSpec
CONSTANTS
  Nobody = Nobody
  Jobs = {j1}
  Tenants = {t1}
  TenantOf <- SameTenant
  Relays = {r1}
  Workers = {w1}
  Production = TRUE
  CeleryModes = {"present"}
  Grant = 1
  Cost = 1
  ClaimLimit = 1
  FaultKinds = {"api_crash", "relay_lost"}
  MaxFaults = 2
PROPERTY EveryJobIsSent

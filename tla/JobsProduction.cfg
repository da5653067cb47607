SPECIFICATION FairSpec
CONSTANTS
  Nobody = Nobody
  Jobs = {j1}
  Tenants = {t1}
  TenantOf <- SameTenant
  Relays = {r1, r2}
  Workers = {w1, w2}
  Production = TRUE
  CeleryModes = {"present"}
  Grant = 1
  Cost = 1
  ClaimLimit = 1
  FaultKinds = {"send", "api_crash", "worker_lost", "kill"}
  MaxFaults = 3
INVARIANTS NoForgottenJob StatusIsEarned ClaimsExclusive
PROPERTIES Settles ImplementsFairLifecycle

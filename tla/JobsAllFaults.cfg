SPECIFICATION Spec
CONSTANTS
  Nobody = Nobody
  Jobs = {j1, j2}
  Tenants = {t1}
  TenantOf <- SameTenant
  Relays = {r1}
  Workers = {w1}
  Production = FALSE
  CeleryModes = {"present", "absent"}
  Grant = 1
  Cost = 1
  ClaimLimit = 1
  FaultKinds = {"send", "db", "api_crash", "relay_lost", "worker_lost", "kill", "expire"}
  MaxFaults = 1
SYMMETRY Symmetry
INVARIANTS PublishedWasSent DeliveredIsCommitted CreditsConserved LocalSettlement
PROPERTIES ImplementsLifecycle ImplementsSnapshot

SPECIFICATION Spec
CONSTANTS
  None = None
  Purchases = {p1}
  Subs = {s1}
  Invoices = {i1}
  SubOf <- OneSub
  FaultKinds = {"crash", "grant"}
  MaxEvents = 5
  MaxFaults = 1
INVARIANT CreditedOnce
CHECK_DEADLOCK FALSE

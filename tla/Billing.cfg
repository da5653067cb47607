SPECIFICATION FairSpec
CONSTANTS
  None = None
  Purchases = {p1}
  Subs = {s1, s2}
  Invoices = {i1}
  SubOf <- OneSub
  FaultKinds = {"db", "grant", "stripe", "duplicate", "crash", "free"}
  MaxEvents = 3
  MaxFaults = 2
INVARIANTS GrantsFollowPayments CopiesAgree TogetherCreditedOnce
PROPERTIES ImplementsEntitlements PurchaseSettles
CHECK_DEADLOCK FALSE

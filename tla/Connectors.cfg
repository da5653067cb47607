SPECIFICATION Spec
CONSTANTS
  None = None
  Connector = {k1}
  Calls = {c1, c2}
  Policies <- AllPolicies
  DefaultPolicy <- Strict
  Minimums = {1, 2}
  MaxRequests = 3
  MaxItems = 2
  MaxAlerts = 3
  MaxRules = 1
  MaxCount = 2
SYMMETRY Symmetry
INVARIANTS TypeOK OneOpenAlert EscalatedOnce ReplaysAccounted
PROPERTIES ClosedForGood OnlyChecksMislead

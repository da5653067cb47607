SPECIFICATION Spec
CONSTANTS
  p1 = p1
  c1 = c1
  c2 = c2
  Redis = Redis
  Processes = {p1}
  Calls <- Threads
  ProcessOf <- Placement
  Limit = 1
  Window = 2
  RetryInterval = 1
  MaxTime = 4
  MaxAdmissions = 3
SYMMETRY Symmetry
INVARIANTS LocalLimit SharedLimit WindowEnds

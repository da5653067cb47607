SPECIFICATION FairSpec
CONSTANTS
  None = None
  Stores = {s1, s2}
  Seeded = {s2}
  MaxVersion = 2
  FaultKinds = {"connect", "load", "encode", "save", "slow", "crash"}
  MaxFaults = 2
INVARIANTS ShutdownSaves
PROPERTIES ImplementsSnapshots EmptyNeverWritten EventuallySaved

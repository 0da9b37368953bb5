SPECIFICATION FairDaemonSpec
CONSTANTS
  s1 = s1
  e1 = e1
  e2 = e2
  Subtype = {}
  Extra <- TwoExtras
  Twin <- Twins
INVARIANTS
  MemoryStands
  NoServiceOfTheDead
  ExtrasInStep
PROPERTIES
  ServiceIsFreed
  CloseReturns
CHECK_DEADLOCK FALSE

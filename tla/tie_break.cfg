SPECIFICATION FairSpec
CONSTANTS
  h1 = h1
  h2 = h2
  Host <- Hosts
  Type <- SameType
  Data <- TwoData
  CanReceiveUnicast <- Hosts
  Asking = {h1}
  DefaultProbeCountForTypeUnique = 3
  InitialAnnounceCount = 3
  OneSecond = 4
  FirstWaits = {0, 1}
  MaxLosses = 1
INVARIANTS
  OneOwner
  FirstKeeps
  SomebodyKeeps
PROPERTIES
  ConflictsResolve
CHECK_DEADLOCK FALSE

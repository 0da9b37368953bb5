SPECIFICATION Spec
CONSTANTS
  h1 = h1
  h2 = h2
  Host <- Hosts
  Type <- SameType
  Data <- TwoData
  CanReceiveUnicast <- Hosts
  Asking = {}
  DefaultProbeCountForTypeUnique = 3
  InitialAnnounceCount = 2
  OneSecond = 4
  FirstWaits = {1}
  MaxLosses = 0
INVARIANTS
  VerifiedIsUnique
CHECK_DEADLOCK FALSE

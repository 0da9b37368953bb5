SPECIFICATION CloseSpec
CONSTANTS
  r1 = r1
  r2 = r2
  r3 = r3
  NoRecord = NoRecord
  Record <- Records
  Kind <- SharedTwins
  Data <- TwoData
  Signature <- TwoData
  DependentOn <- NoDependence
  Additional <- NoAdditional
  DefaultProbeCount = 1
  InitialAnnounceCount = 2
  ReannounceCount = 1
  CallbackCalls = FALSE
  EarlyReuse = TRUE
INVARIANTS
  AnnouncedGetsGoodbye
PROPERTIES
  DeregistrationCompletes
  CloseCompletes
CHECK_DEADLOCK FALSE

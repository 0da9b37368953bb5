SPECIFICATION FairSpec
CONSTANTS
  r1 = r1
  r2 = r2
  r3 = r3
  NoRecord = NoRecord
  Record <- Records
  Kind <- ServiceKind
  Data <- TwoData
  Signature <- TwoData
  DependentOn <- NoDependence
  Additional <- NoAdditional
  DefaultProbeCount = 2
  InitialAnnounceCount = 2
  ReannounceCount = 1
  CallbackCalls = TRUE
  EarlyReuse = FALSE
INVARIANTS
  TypeOK
  ListsAgree
  OneMain
  VerifiedMeansProbed
  DuplicateHasMain
PROPERTIES
  ProbingEnds

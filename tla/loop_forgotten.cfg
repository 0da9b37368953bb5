SPECIFICATION LoopSpec
CONSTANTS
  r1 = r1
  r2 = r2
  q1 = q1
  Record = {r1, r2}
  Question = {}
  Probed = {r1}
  Needs <- PTRNeedsSRV
  Half = 16
  Horizon = 8
  CacheHorizon = 4
  OneSecond = 4
  TenthSecond = 1
  MaxQuestionInterval = 4
  DefaultProbeCountForTypeUnique = 3
  InitialAnnounceCount = 2
  MaxDepth = 1
  Steps = {}
  MaxCalls = 3
  NotSet = NotSet
  HasCache = TRUE
  Credits = {9}
  Arrivals = {0, 1, 3}

INVARIANTS
  VerifiedIsScheduled
CHECK_DEADLOCK FALSE

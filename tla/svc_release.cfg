SPECIFICATION FairSpec
CONSTANTS
  s1 = s1
  s2 = s2
  e1 = e1
  e2 = e2
  Subtype <- Subtypes
  Extra <- Extras2
  Twin <- Twins
INVARIANTS
  TypeOK
  ReleasedWhenGone
  ExtrasFollow
PROPERTIES
  ReleasedOnce
  ToldTheReason
  ReleaseComes
CHECK_DEADLOCK FALSE

SPECIFICATION FairSpec
CONSTANTS
  Kinds <- AllKinds
  HeaderLen = 1
  DataLen = 2
  ReplyLen = 2
  Room = 3
  MaxRequests = 2
  MaxReplies = 3
  OneSecond = 2
  MaxTimeBlocked = 1
INVARIANTS
  StreamInOrder
  BurstEnds
PROPERTIES
  AbortedOnlyIfStuck
  RepliesGo
  CallsReturn
CHECK_DEADLOCK FALSE

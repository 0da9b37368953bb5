SPECIFICATION Spec
CONSTANTS
  q1 = q1
  q2 = q2
  q3 = q3
  e1 = e1
  e2 = e2
  e3 = e3
  NoQuestion = NoQuestion
  NoEntry = NoEntry
  Question <- ThreeQuestions
  Entry <- Entries
  Identity <- Identities
  Answers <- AnyAnswers
  InitialCacheSize = 1
  MaxCacheSize = 2
  StopNew = TRUE
PROPERTIES
  CallsListed

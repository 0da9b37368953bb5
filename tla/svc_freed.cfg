SPECIFICATION DaemonSpec
CONSTANTS
  s1 = s1
  e1 = e1
  e2 = e2
  Subtype <- OneSubtype
  Extra = {}
  Twin = {}
INVARIANTS
  MemoryStands
CHECK_DEADLOCK FALSE

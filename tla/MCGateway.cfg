SPECIFICATION Spec
CONSTANTS
  Node = {n1, n2}
  None = None
  Client = {c1, c2}
  Key = {k1, k2}
  Method = {"GET", "PUT", "POST", "DELETE", "Get", "Set", "Delete"}
  Remembered = {"ok", "read", "error"}
  MaxKeys = 1
  MaxRequests = 2
  MaxElections = 2
  MaxCrashes = 1
INVARIANTS AnswersTruthful WritesInOrder LeaderReadsItsWrites CreateExclusiveUnderOneLeader KeyLimitPassedOnlyInRace
SYMMETRY Symmetry
CHECK_DEADLOCK FALSE

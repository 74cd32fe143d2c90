SPECIFICATION Spec
CONSTANTS
  Node = {n1, n2}
  None = None
  Client = {c1}
  Key = {k1}
  Method = {"POST"}
  Remembered = {"ok", "read", "error"}
  MaxKeys = 0
  MaxRequests = 2
  MaxElections = 2
  MaxCrashes = 0
INVARIANTS CreateExclusive
CHECK_DEADLOCK FALSE

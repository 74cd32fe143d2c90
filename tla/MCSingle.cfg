SPECIFICATION Spec
CONSTANTS
  Node = {n1}
  Command = {c1, c2}
  None = None
  NoOp = NoOp
  MaxEntriesPerAppend = 1
  MaxRounds = 1
  MaxVoteCalls = 0
  MaxAppendCalls = 0
  MaxTerm = 3
  MaxCrashes = 2
  FaultyDisk = FALSE
SYMMETRY Symmetry
INVARIANTS AckedDurable SoleLeaderServesLog

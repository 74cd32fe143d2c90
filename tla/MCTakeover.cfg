SPECIFICATION TakeoverSpec
CONSTANTS
  Node = {n1, n2, n3}
  Command = {c1}
  None = None
  NoOp = NoOp
  MaxEntriesPerAppend = 1
  MaxRounds = 1
  MaxVoteCalls = 1
  MaxAppendCalls = 1
  MaxTerm = 4
  MaxCrashes = 1
  FaultyDisk = FALSE
SYMMETRY Symmetry
INVARIANTS LeaderCompleteness AckedDurable WaitingRoomSound
PROPERTIES LeaderAppendOnly Refinement

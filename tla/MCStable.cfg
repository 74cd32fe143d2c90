SPECIFICATION StableSpec
CONSTANTS
  Node = {n1, n2, n3}
  Command = {}
  None = None
  NoOp = NoOp
  MaxEntriesPerAppend = 1
  MaxRounds = 2
  MaxVoteCalls = 2
  MaxAppendCalls = 1
  MaxTerm = 2
  MaxCrashes = 1
  FaultyDisk = FALSE
SYMMETRY Symmetry
INVARIANTS NoDisruption

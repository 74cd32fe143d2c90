SPECIFICATION Spec
CONSTANTS
  Node = {n1, n2, n3}
  Command = {}
  None = None
  NoOp = NoOp
  MaxEntriesPerAppend = 1
  MaxRounds = 1
  MaxVoteCalls = 2
  MaxAppendCalls = 0
  MaxTerm = 2
  MaxCrashes = 1
  FaultyDisk = FALSE
SYMMETRY Symmetry
INVARIANTS TypeOK OneVotePerTerm ElectionSafety VoteDurable ElectionInv
PROPERTIES TermNeverDecreases LeadershipPromise

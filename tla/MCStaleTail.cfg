SPECIFICATION StaleTailSpec
CONSTANTS
  Node = {n1, n2, n3}
  Command = {c1}
  None = None
  NoOp = NoOp
  MaxEntriesPerAppend = 1
  MaxRounds = 1
  MaxVoteCalls = 1
  MaxAppendCalls = 2
  MaxTerm = 4
  MaxCrashes = 0
  FaultyDisk = FALSE
SYMMETRY Symmetry
INVARIANTS LogMatching StateMachineSafety MatchIndexSound
PROPERTIES Refinement LeadershipPromise

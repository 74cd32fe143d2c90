SPECIFICATION CatchUpSpec
CONSTANTS
  Node = {n1, n2, n3}
  Command = {c1}
  None = None
  NoOp = NoOp
  MaxEntriesPerAppend = 1
  MaxRounds = 1
  MaxVoteCalls = 0
  MaxAppendCalls = 2
  MaxTerm = 5
  MaxCrashes = 0
  FaultyDisk = FALSE
PROPERTIES LogsConverge ProposalsAnswered

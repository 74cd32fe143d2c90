SPECIFICATION EstablishedSpec
CONSTANTS
  Node = {n1, n2}
  None = None
  Client = {h1, h2}
  Key = {k1}
  Method = {"GET", "PUT"}
  Remembered = {}
  MaxKeys = 1
  MaxRequests = 3
  MaxElections = 1
  MaxCrashes = 1
  Addrs <- Order
  MaxRedirects = 2
  MaxCycles = 2
  MaxCommands = 1
  MaxTerm = 2
INVARIANTS CommittedMeansStored CopiesAccountedFor OneRedirectWhenSettled StatusClaimBacked
PROPERTY EveryStepCountsDown
SYMMETRY Symmetry
CHECK_DEADLOCK FALSE

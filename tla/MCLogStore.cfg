SPECIFICATION Spec
CONSTANTS
  Base = 3
  Width = 2
  MaxIndex = 6
  MaxTerm = 3
INVARIANTS LogDense BackendsAgree SequenceFaithful

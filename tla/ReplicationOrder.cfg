CONSTANTS
  FullReplay = TRUE
  Replica <- MCReplica3
  MaxOps = 4
  MaxChars = 1
  MaxRestarts = 0
SPECIFICATION Spec
INVARIANTS
  StrongConvergence
  OrderAgreement
  AllSeenNothingWaits
  DrainIsTheLoop

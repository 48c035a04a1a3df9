CONSTANTS
  Room = {R1}
  Client = {a, b}
  Conn = {k1, k2, k3}
  Op <- MCOp
  MaxSends = 2
SPECIFICATION Spec
SYMMETRY MCSymmetry
CHECK_DEADLOCK FALSE
INVARIANTS
  LogIsReplayedGapless
  PresenceIsCurrent
  NewestIsRegistered

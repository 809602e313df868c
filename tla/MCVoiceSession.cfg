SPECIFICATION Spec
CONSTANTS
  Users = {u1, u2}
  Sessions = {s1}
  NoSession = NoSession
  RetiredKept = 1
  MaxEpoch = 3
  MaxGeneration = 3
SYMMETRY Symmetry
INVARIANTS ConsentGate
PROPERTY RevokedStaysRevoked
CHECK_DEADLOCK FALSE

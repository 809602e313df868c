SPECIFICATION CallSpec
CONSTANTS
  Users = {u1, u2}
  Attempts = {a1, a2}
  NoAttempt = NoAttempt
  RetiredKept = 2
  MaxEpoch = 10
  MaxGeneration = 10
  Bounds <- CallBounds
SYMMETRY Symmetry
INVARIANTS NobodyUnannounced CallIsBound HeardAsAnnounced
PROPERTIES StopOutlivesStart KeepsSession TeardownSparesNewerCall
CHECK_DEADLOCK FALSE

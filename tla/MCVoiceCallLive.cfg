SPECIFICATION LiveSpec
CONSTANTS
  Users = {u1}
  Attempts = {a1}
  NoAttempt = NoAttempt
  RetiredKept = 1
  MaxEpoch = 7
  MaxGeneration = 9
  Bounds <- LiveBounds
PROPERTIES RevokedIsTornDown StartsEnd
CHECK_DEADLOCK FALSE

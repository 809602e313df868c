SPECIFICATION Spec
CONSTANTS
  Tasks = {1}
  Runners = {r1}
  Nobody = Nobody
  User = User
  Terms <- MorningOnly
  Day = 3
  MaxItems = 1
  MaxNow = 8
  MaxEdits = 2
  MaxFaults = 0
  MaxCrashes = 0
PROPERTIES SentIsCurrent
CHECK_DEADLOCK FALSE

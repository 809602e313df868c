SPECIFICATION Spec
CONSTANTS
  Tasks = {1, 2}
  Runners = {r1, r2}
  Nobody = Nobody
  User = User
  Terms <- EitherTerms
  Day = 3
  MaxItems = 1
  MaxNow = 9
  MaxEdits = 1
  MaxFaults = 1
  MaxCrashes = 1
INVARIANTS ToldOnce ReceiptsAreTrue Reloadable
PROPERTIES SentAsAllowed AttemptsSettle
CHECK_DEADLOCK FALSE

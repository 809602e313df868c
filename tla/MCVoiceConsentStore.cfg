SPECIFICATION Spec
CONSTANTS
  Users = {u1, u2}
  MaxEvent = 3
  MaxChanges = 2
  MaxFaults = 1
  MaxRestarts = 2
  NoFile = NoFile
CHECK_DEADLOCK FALSE
INVARIANTS NoRevivedConsent DurableBeforeUsable
PROPERTIES SavedMeansBinding KeepsPromise EveryChoiceAnswered

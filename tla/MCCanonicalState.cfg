SPECIFICATION Spec
CONSTANTS
  Commits = {c1}
  Snapshots = {s1}
  Erasures = {e1}
  Handlers = {h1}
  Nobody = Nobody
  FinalWrite = FinalWrite
  MaxFaults = 2
  MaxCrashes = 1
INVARIANTS AckedSurvives ErasedStaysErased CleanShutdownKeepsAll ClaimIsTrue
PROPERTIES NotesAreKept UncertainWriteIsKept AdmittedEnds ShutdownEnds
CHECK_DEADLOCK FALSE

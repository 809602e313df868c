SPECIFICATION Spec
CONSTANTS
  m1 = m1  m2 = m2
  Members = {m1, m2}
  Channels = {c1}
  Everywhere = everywhere
  Pairs <- BothMembers
  Words = {1, 2}
  Terms <- TwoTerms
  FirstTerms <- OneTerms
  Day = 2
  Bounds <- Instances
SYMMETRY Swapped
CHECK_DEADLOCK FALSE
INVARIANTS ContactedOnce ForgottenIsGone Reloadable
PROPERTIES WithinBudget SentAsAgreed

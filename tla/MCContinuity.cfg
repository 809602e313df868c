SPECIFICATION Spec
CONSTANTS
  Cards = {c1, c2}
  Members = {m1, m2}
  NoCard = NoCard
  MaxEvents = 3
  MaxNotes = 1
SYMMETRY Symmetry
CHECK_DEADLOCK FALSE
INVARIANTS ReceiptsAreKnown
PROPERTIES ErasedIsUnused

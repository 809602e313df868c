SPECIFICATION Spec
CONSTANTS
  Users = {u1, u2}
  Requests = {r1, r2}
  Turns = {t1}
  Nobody = Nobody
  Kinds = {"on", "off", "remember", "confirm", "forget"}
  MaxEvents = 2
SYMMETRY Symmetry
INVARIANTS WithdrawnIsUnused PermitsEnd AckedHolds
CHECK_DEADLOCK FALSE

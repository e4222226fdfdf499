SPECIFICATION ProgramsSpec
CONSTANTS
  Handle = {a, b, c}
  Slot = {p, q, r}
  Object = {f, g}
  Place = {u, v}
  Ref = {x}
  Null = Null
  Gone = Gone
  UseNull = TRUE
  MaxSize = 1
SYMMETRY Symmetry
INVARIANTS SoleOwners NothingStale OnlyNullAborts
CHECK_DEADLOCK FALSE

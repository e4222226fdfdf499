SPECIFICATION Spec
CONSTANTS
  Handle = {a, b, c, d}
  Slot = {p, q, r, s}
  Null = Null
  Gone = Gone
  UseNull = FALSE
SYMMETRY Symmetry
INVARIANT PromiseKept
CHECK_DEADLOCK FALSE

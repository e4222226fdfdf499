SPECIFICATION Spec
CONSTANTS
  Id = {a, b, c, d}
  MaxRejectAt = 1
SYMMETRY Symmetry
INVARIANTS TypeOK UsesExact ArgsDefined SimplifyFinds ValueKept
PROPERTIES UnknownsKept NothingDeadLeft SimplifyEnds

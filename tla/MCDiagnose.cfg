SPECIFICATION Spec
CONSTANTS
  Expr <- MCExpr
  Width = 2
  MaxPasses = 3
  SizeFactor = 2
  NoExpr = NoExpr
INVARIANT Chained
PROPERTIES ReproducesOrdinary
CHECK_DEADLOCK FALSE

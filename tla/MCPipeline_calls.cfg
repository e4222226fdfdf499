SPECIFICATION FairSpec
CONSTANTS
  Expr <- ThreeSizes
  Width = 2
  MaxPasses = 3
  SizeFactor = 2
  NoExpr = NoExpr
  InnerWidths = {1, 2}
  Panics = TRUE
  MaxCalls = 2
INVARIANTS PipelineExact SessionScoped PanicIsFinal SmallestKept
PROPERTIES CallReturns
CHECK_DEADLOCK FALSE

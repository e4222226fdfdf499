SPECIFICATION ProductionSpec
CONSTANTS
  Width = 3
  MachineBits = 4
  MaxVars = 20
  BitwiseVars = 10
  MaxPasses = 2
  MaxAtoms = 4
  SizeFactor = 4
  ClosurePasses = 2
  Hashed <- MCHashed
  SourceVars = 2
  Sources <- MCSources
  NoVerdict = NoVerdict
  Exprs <- MCExprs
  Given <- MCGiven
  DefaultLimits <- MCDefaultLimits
  LimitSets <- MCLimits
INVARIANTS ProductionTypeOK ProvedIsEqual CounterexampleReplays CarriesAreQuotients ResultExact LinearNeverRefuted
INVARIANTS NeverInconsistent ProductionExact DependenciesHold
PROPERTY ImplementsFixedPoint
CHECK_DEADLOCK FALSE

SPECIFICATION ProductionSpec
CONSTANTS
  Width = 3
  MachineBits = 4
  MaxVars = 20
  BitwiseVars = 10
  MaxPasses = 8
  MaxAtoms = 4
  SizeFactor = 4
  ClosurePasses = 2
  Hashed <- MCHashed
  SourceVars = 2
  Sources <- MCNarrowed
  NoVerdict = NoVerdict
  Exprs = {}
  Given = {}
  DefaultLimits <- MCDefaultLimits
  LimitSets <- MCLimits
INVARIANT BaselineExact
CHECK_DEADLOCK FALSE

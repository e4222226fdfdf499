SPECIFICATION ExperimentsSpec
CONSTANTS
  Width = 3
  MachineBits = 4
  MaxVars = 20
  BitwiseVars = 10
  MaxPasses = 2
  MaxAtoms = 4
  SizeFactor = 4
  ClosurePasses = 2
  Hashed <- MCHashed
  SourceVars = 2
  Sources <- MCSources
  MaxAnchors = 2
  MaxNodes8 = 20
  MaxBases = 4
  MaxParents = 2
  MaxPairs = 6
  Expected <- MCExpected
  SystemWidth = 3
  Systems <- MCSystems
  Bounds <- MCBounds
  HandScopes <- MCHand
  Surfaces <- MCSurfaces
INVARIANTS RelationsHold NoAliasLeft LowbitExact AnalysesExact SolutionsKept SystemAnswered
CHECK_DEADLOCK FALSE

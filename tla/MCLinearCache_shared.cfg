SPECIFICATION Spec
CONSTANTS
  Threads = {t, u}
  Keys = {k, l, m}
  TooWide = {m}
  Widths = {8}
  NoEntry = NoEntry
  MaxLookups = 3
SYMMETRY Symmetry
INVARIANTS SolvedOncePerThread TalliesAccount

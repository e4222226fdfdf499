SPECIFICATION Spec
CONSTANTS
  Id = {a, b}
  MaxRejectAt = 2
PROPERTY RemovesUnused

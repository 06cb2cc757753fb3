SPECIFICATION FairSpec
CONSTANTS
  nl = nl
  x = x
  y = y
  Byte = {nl, x, y}
  NewLine = nl
  MaxLine = 2
  MaxStream = 5
INVARIANTS
  TypeOK
  BufferBounded
  BufferIsPrefix
  CleanEndHandledAll
PROPERTIES
  SplitsLines
  Terminates

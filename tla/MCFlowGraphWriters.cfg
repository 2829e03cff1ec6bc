SPECIFICATION FlatSpec
CHECK_DEADLOCK FALSE
CONSTANTS
  NComps = 4
  x = x
  y = y
  Data <- MCData
  Accesses <- MCAccesses
  MaxAccess = 1
SYMMETRY Symmetry
INVARIANT
  ProducersAreChildren

SPECIFICATION OrderedSpec
CHECK_DEADLOCK FALSE
CONSTANTS
  NComps = 3
  x = x
  y = y
  Data <- MCData
  Accesses <- MCAccesses
  MaxAccess = 1
SYMMETRY Symmetry
INVARIANT
  OrderKept
PROPERTY
  ImplementsMotion

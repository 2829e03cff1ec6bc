SPECIFICATION FlatSpec
CHECK_DEADLOCK FALSE
CONSTANTS
  NComps = 3
  x = x
  y = y
  Data <- MCData
  Accesses <- MCAccesses
  MaxAccess = 2
SYMMETRY Symmetry
INVARIANTS
  TypeOK
  StatementsOnce
  EdgesMatchStatements
  LookupFindsHome
  ProducersExact
PROPERTY
  SignatureKept

SPECIFICATION SequentialSpec
CONSTANTS
  N = 4
  a = a
  b = b
  c = c
  Data <- MCData
  Programs <- MCSequential
  Sizings <- MCSizings
  Sizes = {1, 2, 3}
  MaxReads = 2
  MaxWrites = 1
SYMMETRY Symmetry
INVARIANTS
  TypeOK
  NoInterference
  NoLeak
  Economical
PROPERTY
  ImplementsStorage

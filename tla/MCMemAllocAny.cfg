SPECIFICATION SizedSpec
CONSTANTS
  N = 3
  a = a
  b = b
  c = c
  Data <- MCData
  Programs <- MCAny
  Sizings <- MCSizings
  Bounds <- MCBounds
  Sizes <- MCSizes
  MaxReads = 1
  MaxWrites = 1
INVARIANTS
  TightEntries
  Annotated
  SizesExact
  BuffersFit

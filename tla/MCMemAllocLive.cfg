SPECIFICATION Spec
CONSTANTS
  N = 3
  a = a
  b = b
  c = c
  Data <- MCData
  Programs <- MCDefined
  Sizings <- MCSizings
  Sizes = {2}
  MaxReads = 2
  MaxWrites = 1
PROPERTY
  OnlyNonLiveTaken

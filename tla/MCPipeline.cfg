SPECIFICATION Spec
CONSTANTS
  a = a
  b = b
  s1 = s1
  s2 = s2
  s3 = s3
  x = x
  z = z
  Names = {a, b}
  Stmts = {s1, s2, s3}
  Spaces = {x, z}
  Reads <- MCReads
  Writes <- MCWrites
  Distant <- MCDistant
  MaxGraphs = 3
  Rules = {"complete", "current", "own", "unfused"}
INVARIANTS
  TypeOK
  CodeScheduled
  CodeComplete
  CodeMapped
  ContractedInPlace
  MemoryOfCode
PROPERTY
  TransformReturns

SPECIFICATION ReduceSpec
CONSTANTS
  I = I
  J = J
  K = K
  Iters = {I, J, K}
  Programs <- FusionPrograms
INVARIANTS
  TypeOK
  OwnLoops
  AfterProducers
  Synchronized
  FlowKept
  Shared
  InStepContractionSafe
PROPERTIES
  Advances
  AllPlaced

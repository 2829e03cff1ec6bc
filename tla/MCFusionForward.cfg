SPECIFICATION ReduceSpec
CONSTANTS
  I = I
  J = J
  K = K
  Iters = {I, J, K}
  Programs <- ForwardPrograms
INVARIANTS
  FlowKept

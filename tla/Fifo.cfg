CONSTANTS
  N = 3
  Values = {a, b}
  Resetters = {z1, z2}
  GenLimit = 3
  MaxResets = 2
  MaxBlock = 1
SYMMETRY Symmetry
SPECIFICATION Spec
INVARIANT FifoInv
PROPERTIES
  ImplementsQueue
  SizedBlocksSucceed

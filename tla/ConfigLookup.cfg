CONSTANTS
  Blocks <- AllBlocks
  Props = {p, q}
  MaxBlocks = 3
  Requests <- AllRequests
  Statuses = {404, 500}
SPECIFICATION Spec
INVARIANTS OneConfigurationPerBlock Inherited FoundNarrowest ErrorConfigurationFits
SYMMETRY Sym
CHECK_DEADLOCK FALSE

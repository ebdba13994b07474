SPECIFICATION Spec
CONSTANTS
  Friend = {f1}
  MaxLoads = 3
  InOrder = TRUE
INVARIANT NoInvalidatedAccess

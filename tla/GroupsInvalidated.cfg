SPECIFICATION Spec
CONSTANTS
  Group = {g1, g2}
  NoPhoto = {}
  MaxLoads = 2
INVARIANT NoInvalidatedAccess

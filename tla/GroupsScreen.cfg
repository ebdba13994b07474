SPECIFICATION Spec
CONSTANTS
  Group = {g1, g2}
  NoPhoto = {g2}
  MaxLoads = 2
INVARIANTS TypeOK LastDeleterOwnsGroups FailureKeepsGroups
PROPERTY SpinnerStops

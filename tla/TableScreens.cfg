SPECIFICATION Spec
CONSTANTS
  Id = {i1, i2}
  Matching = {i1}
  MaxSaves = 2
  None = None
CHECK_DEADLOCK FALSE
INVARIANTS TypeOK NoMerge ChangeLeadsToLive BatchesFitWithoutSearch RangeNeedsEarlySaving AvatarsAreDrawn OnlyFailuresStray
PROPERTIES QuietIsSafe TableCatchesUp

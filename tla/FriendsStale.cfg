SPECIFICATION Spec
CONSTANTS
  Friend = {f1}
  MaxLoads = 2
  InOrder = FALSE
PROPERTY DeletedFriendLeavesRealm

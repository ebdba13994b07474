SPECIFICATION Spec
CONSTANTS
  Friend = {f1}
  MaxLoads = 1
  InOrder = FALSE
PROPERTY DeletesOnlyWithReply

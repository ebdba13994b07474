SPECIFICATION Spec
CONSTANTS
  Friend = {f1, f2}
  MaxLoads = 2
  InOrder = FALSE
INVARIANTS TypeOK DbIsOneReply AvatarBlocksAreValid ParsesTheReply
PROPERTIES FrozenOnceAvatarsRun ParsedIsSaved

SPECIFICATION Spec
CONSTANTS
  Shapes <- MCShapes
  Profiles <- MCProfiles
  Groups <- MCGroups
  MaxPosts = 2
INVARIANTS TypeOK LikesKeepBalance CellsShowWhatPostHas PhotosAreAttached
PROPERTY MediaIsShown

SPECIFICATION GallerySpec
CONSTANTS
  o1 = o1
  o2 = o2
  Owner = {o1, o2}
  PhotoId = {1, 2, 3}
  Album <- MCAlbum
  NoX <- MCNoX
  MaxScreens = 2
  None = None
INVARIANTS GalleryTypeOK GalleryIsOwn MetadataIsThere BatchNeedsReload RangeNeedsSharedId ItemsAreCurrent
PROPERTIES IndicatorStops GalleryCatchesUp

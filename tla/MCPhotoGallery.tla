--------------------------- MODULE MCPhotoGallery ---------------------------
(* Two owners: both use id 1, one has a photo of his own, and the other one *)
(* that has no usable URL.                                                  *)
EXTENDS PhotoGallery

CONSTANTS o1, o2

MCAlbum == {<<o1, 1>>, <<o2, 1>>, <<o1, 2>>, <<o2, 3>>}
MCNoX == {<<o2, 3>>}
=============================================================================

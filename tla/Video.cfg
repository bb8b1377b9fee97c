SPECIFICATION FairSpec
CONSTANTS
  Viewers = {v1, v2}
  Snap = snap
  Slots = 2
  MaxFrames = 2
PROPERTIES
  ViewerCatchesUp
  DeadViewerLeaves
  PicturesAdvance

SPECIFICATION Spec
CONSTANTS
  SCREENS = 3
  CLEARS = 3
  RefreshesInWait = 2
  Texts = {fps, saved}
  Black = Black
  Picture = Picture
  MaxFrames = 10
INVARIANTS NoTearing BandsSayTheText BordersAreBlack
PROPERTIES FramesAreShown FlipEnds
CHECK_DEADLOCK FALSE

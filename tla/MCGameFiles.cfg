SPECIFICATION Spec
CONSTANTS
  one = one
  two = two
  x = x
  y = y
  z = z
  Games = {one, two}
  Stems = {x, y, z}
  Large = {one}
  DISKS <- MCDisks
  None = None
  Torn = Torn
  Bad = Bad
INVARIANTS RomsAreKept NoHalfRoms SavesAreFound SavesAreKept RunningGameHasItsRom ListKeepsPlaces

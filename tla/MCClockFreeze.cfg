SPECIFICATION ClockSpec
CONSTANTS
  g1 = g1
  g2 = g2
  c1 = c1
  Games = {g1, g2}
  NoGame = NoGame
  None = None
  Raw = raw
  Scales = {raw}
  Speeds = {0, 3}
  Choices = {c1}
  OldFiles <- MCOldFiles
  MaxChanges = 1
SYMMETRY Symmetry
PROPERTY FreezeGoesBackToNormal

SPECIFICATION Spec
CONSTANTS
  Games = {g1, g2}
  NoGame = NoGame
  None = None
  Blank = Blank
  Torn = Torn
  WRITE_BACKUP_DELAY = 2
  MaxWrites = 2
  MaxTime = 1
SYMMETRY Symmetry
INVARIANTS SavesAreTheGames NoWriteIsForgotten DeletedStaysDeleted
PROPERTIES LeavingSavesTheGame PackingKeepsASave

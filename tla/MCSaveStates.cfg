SPECIFICATION Spec
CONSTANTS
  STATE_SLOTS = 2
  OldSaves = 2
  MaxSaves = 5
  MaxClock = 1
  OldDisks <- Disks
  NoFile = NoFile
  Partial = Partial
  NoJob = NoJob
INVARIANTS FilesAreListed NewestIsLastSaved
PROPERTIES RepackKeepsNewest StatesAreKept
CHECK_DEADLOCK FALSE

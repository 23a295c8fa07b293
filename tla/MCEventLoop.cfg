\* The smallest screen, a timer with a cascade, three DMA settings.
CONSTANTS
  HDRAW = 3
  HBLANK = 2
  VISIBLE = 1
  TOTAL = 2
  OVERSHOOT = 1
  DMA_LIMIT = 1
  LONGEST_RUN = 2
  LAST_TIMER = 1
  LAST_DMA = 1
  RELOADS = {2}
  TimerSettings <- MCTimers
  DmaSettings <- MCDmas
  DisplaySettings <- MCDisplays
  SerialSettings <- MCSerials
  IESettings <- MCIEs
  AHEAD = 3
SPECIFICATION Spec
INVARIANTS
  EventsAreOnTime
  InterruptsAreRaised
  ScreenKeepsTime
PROPERTIES
  SleepIsServed
  HaltEnds
CHECK_DEADLOCK TRUE

SPECIFICATION PacingSpec
CONSTANTS
  Wrap = 40
  Fraction = 2
  FRAME_PERIOD = 5
  NSPIRE_TICK_HZ = 16
  FAST_FORWARD_DRAW_EVERY = 3
  Late = 2
  MaxSkip = 1
  RunTicks = {0, 2, 9}
  AwayTicks = {0, 5, 25}
INVARIANT NeverTooFast
PROPERTY WaitsAreShort

SPECIFICATION Spec
CONSTANTS
  whole = whole
  trimmed = trimmed
  small = small
  zip = zip
  Games = {whole, trimmed, small, zip}
  NoGame = NoGame
  NoFile = NoFile
  PagesOf <- MCPagesOf
  Zipped = {zip}
  WithClock = {whole}
  Space = 4
  Half = 2
  BufferSlots = 2
  MaxSlots = 4
  None = None
  Blank = Blank
  GpioValues = {0, 1}
INVARIANTS ReadsAreTheRoms FastLoadsAreMapped CodePageStays GpioIsShown

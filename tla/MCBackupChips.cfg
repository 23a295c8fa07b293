SPECIFICATION ChipsSpec
CONSTANTS
  BankSize = 4
  SectorSize = 2
  Cmd1 = 3
  Cmd2 = 1
  Bits512 = 1
  Bits8K = 2
  Data = {170}
  Addresses = {0, 3}
  Absent = Absent
  MaxOps = 3
INVARIANT WritesAreSaved
PROPERTY ReadsAreTheSave

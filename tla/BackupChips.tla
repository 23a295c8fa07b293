----------------------------- MODULE BackupChips -----------------------------
(***************************************************************************)
(* The cartridge's memory as the game sees it, libretro-gpsp/gba_memory.c: *)
(* an SRAM, a flash chip of one or two banks or an EEPROM of two sizes,    *)
(* told apart by what the game does, and the size of the save that         *)
(* nspire_backup.c makes of it.                                            *)
(*                                                                         *)
(* A game drives its chip with sequences of accesses.  Between two of them *)
(* the save can be written, and the player can save and load states, which *)
(* hold the game and the chip's mode but not the memory, restart the game  *)
(* or leave it.                                                            *)
(***************************************************************************)
EXTENDS Integers, Sequences

CONSTANTS
  BankSize,             \* a flash bank's bytes, 64 K in the code
  SectorSize,           \* and a sector's, 4 K
  Cmd1, Cmd2,           \* the addresses 0x5555 and 0x2AAA
  Bits512, Bits8K,      \* an EEPROM's address bits, 6 and 14
  Data, Addresses,      \* the bytes games write, and the addresses they use
  Absent,               \* no save, or no state, yet
  MaxOps                \* bound: a game's operations on its chip

(* An EEPROM's block is one byte, eight in the code.                       *)
CellsOf == [none |-> 0, b512 |-> 2 ^ Bits512, b8K |-> 2 ^ Bits8K, b32K |-> BankSize,
            b64K |-> BankSize, b128K |-> 2 * BankSize]
Cells == 0 .. 2 * BankSize - 1
Erased == 255

(* The memory in the cartridge.                                            *)
Kinds == {"sram", "flash64", "flash128", "eeprom512", "eeprom8K"}

ASSUME AddressesAssumption ==
  /\ BankSize \in Nat \ {0} /\ SectorSize \in 1 .. BankSize /\ BankSize % SectorSize = 0
  /\ {Cmd1, Cmd2} \subseteq 1 .. BankSize - 1 /\ Cmd1 # Cmd2 /\ Cmd1 % SectorSize # 0
  /\ Addresses \subseteq 0 .. BankSize - 1
ASSUME BitsAssumption ==
  {Bits512, Bits8K} \subseteq Nat \ {0} /\ Bits512 < Bits8K /\ 2 ^ Bits8K <= 2 * BankSize
(* What an exponent is, which the provers do not know.                     *)
ASSUME PowersAssumption ==
  /\ 2 ^ 0 = 1
  /\ \A n \in 0 .. Bits8K + 8 : 2 ^ n \in Nat \ {0} /\ 2 ^ (n + 1) = 2 * 2 ^ n
  /\ 2 ^ Bits512 <= 2 ^ Bits8K
ASSUME DataAssumption == Data \subseteq 0 .. 255
ASSUME AbsentAssumption ==
  \A s \in DOMAIN CellsOf : Absent \notin [size : {s}, cells : [0 .. CellsOf[s] - 1 -> Nat]]
ASSUME BoundAssumption == MaxOps \in Nat

VARIABLES
  kind,                 \* what the cartridge has
  listed,               \* gbaover knows that the game has EEPROM, or 128 KB of flash
  cpu,                  \* the game: its operation, the accesses left, its bank, what it heard
  chip,                 \* what a state holds of the memory: backup_type, flash_*, eeprom_*
  backup_type_reset,
  gamepak_backup,
  marked,               \* backup_update_count counts down
  save,                 \* the in-game save
  state,                \* a savestate
  ops,                  \* for MaxOps
  promise,              \* history: what the game has put in each byte
  had,                  \* history: the most bytes its save has had
  cut                   \* history: one was to be written that had fewer

cartridge == <<kind, listed>>
console == <<cpu, chip, gamepak_backup>>
kept == <<save, state, backup_type_reset>>
chips_vars == <<cartridge, console, kept, marked, ops, promise, had, cut>>

Flash == kind \in {"flash64", "flash128"}
Eeprom == kind \in {"eeprom512", "eeprom8K"}

-----------------------------------------------------------------------------
(* The game's side: the accesses of an operation.                          *)

W(a, v) == [do |-> "write", at |-> a, value |-> v]
R(a) == [do |-> "read", at |-> a]
Bit(b) == [do |-> "out", bit |-> b]
In == [do |-> "in"]
Dma(units, toChip) == [do |-> "dma", units |-> units, toChip |-> toChip]

Unlock == <<W(Cmd1, 170), W(Cmd2, 85)>>
Command(value) == Append(Unlock, W(Cmd1, value))

(* The low n bits of v, the highest one first.                             *)
BitsOf(v, n) == [i \in 1 .. n |-> Bit((v \div 2 ^ (n - i)) % 2)]
AddressBits == IF kind = "eeprom512" THEN Bits512 ELSE Bits8K
Units(bits) == 3 + bits + (IF kind = "eeprom512" THEN 6 ELSE 14)

Accesses(op) ==
  CASE op.what = "store"    -> <<W(op.at, op.value)>>
    [] op.what = "program"  -> Command(160) \o <<W(op.at, op.value)>>
    [] op.what = "sector"   -> Command(128) \o Unlock \o <<W(op.at, 48)>>
    [] op.what = "chip"     -> Command(128) \o Command(16)
    [] op.what = "bank"     -> Command(176) \o <<W(0, op.at)>>
    [] op.what = "id"       -> Command(144) \o <<R(0), R(1)>> \o Command(240)
    [] op.what = "byte"     -> <<R(op.at)>>
    [] op.what = "put"      -> <<Dma(Units(64), TRUE), Bit(1), Bit(0)>>
                                 \o BitsOf(op.at, AddressBits) \o BitsOf(op.value, 8) \o <<Bit(0)>>
    [] op.what = "get"      -> <<Dma(Units(0), TRUE), Bit(1), Bit(1)>>
                                 \o BitsOf(op.at, AddressBits) \o <<Bit(0), Dma(68, FALSE)>>
                                 \o [i \in 1 .. 12 |-> In]

Op(what, at, value) == [what |-> what, at |-> at, value |-> value]
Nothing == Op("nothing", 0, 0)

(* A game uses its own memory as its chip's data sheet says.  That an SRAM *)
(* game may store 0xAA at 0x5555, which gpSP takes for a flash command, is *)
(* left out: Data and this set are what the model says of it.              *)
Ops ==
  CASE kind = "sram" ->
         ({Op("store", a, v) : a \in Addresses, v \in Data} \ {Op("store", Cmd1, 170)})
           \cup {Op("byte", a, 0) : a \in Addresses}
    [] Flash ->
         {Op("program", a, v) : a \in Addresses, v \in Data}
           \cup {Op("byte", a, 0) : a \in Addresses}
           \cup {Op("sector", a, 0) : a \in {b \in 0 .. BankSize - 1 : b % SectorSize = 0}}
           \cup {Op("chip", 0, 0), Op("id", 0, 0)}
           \cup (IF kind = "flash128" THEN {Op("bank", b, 0) : b \in 0 .. 1} ELSE {})
    [] Eeprom ->
         {Op("put", a, v) : a \in Addresses \cap 0 .. 2 ^ AddressBits - 1, v \in Data}
           \cup {Op("get", a, 0) : a \in Addresses \cap 0 .. 2 ^ AddressBits - 1}

(* What the memory is to hold after an operation.                          *)
Meant(op) ==
  LET full == op.at + BankSize * cpu.bank IN
  CASE op.what \in {"store", "put"} -> [promise EXCEPT ![op.at] = op.value]
    [] op.what = "program" -> [promise EXCEPT ![full] = op.value]
    [] op.what = "sector" ->
         [c \in Cells |-> IF c \in full .. full + SectorSize - 1 THEN Erased ELSE promise[c]]
    [] op.what = "chip" -> [c \in Cells |-> Erased]
    [] OTHER -> promise

(* Variant: the size of an EEPROM is not looked at.                        *)
FileSizeSmall ==
  CASE chip.type = "sram" -> "b32K"
    [] chip.type = "flash" -> IF chip.flash_bank_cnt = "128K" THEN "b128K" ELSE "b64K"
    [] chip.type = "eeprom" -> "b512"
    [] OTHER -> "none"

(* nspire_backup_file_size: none while the type is not known.              *)
FileSize ==
  CASE chip.type = "sram" -> "b32K"
    [] chip.type = "flash" -> IF chip.flash_bank_cnt = "128K" THEN "b128K" ELSE "b64K"
    [] chip.type = "eeprom" -> chip.eeprom_size
    [] OTHER -> "none"

Growing == had' = IF CellsOf[FileSize'] > had THEN CellsOf[FileSize'] ELSE had

Reset == [op |-> Nothing, todo |-> <<>>, bank |-> 0, heard |-> 0]

(* One access is made, and heard is what the game has read so far.         *)
Advance(heard) ==
  /\ cpu' = [cpu EXCEPT !.todo = Tail(@), !.heard = heard,
                        !.bank = IF cpu.op.what = "bank" /\ Len(cpu.todo) = 1 THEN cpu.op.at
                                 ELSE @]
  /\ promise' = IF Len(cpu.todo) = 1 THEN Meant(cpu.op) ELSE promise
  /\ Growing
  /\ UNCHANGED <<cartridge, kept, ops, cut>>

Doing(do) == cpu.todo # <<>> /\ Head(cpu.todo).do = do

Begin(op) ==
  /\ cpu.todo = <<>>
  /\ ops < MaxOps
  /\ ops' = ops + 1
  /\ cpu' = [cpu EXCEPT !.op = op, !.todo = Accesses(op), !.heard = 0]
  /\ UNCHANGED <<cartridge, chip, gamepak_backup, kept, marked, promise, had, cut>>

-----------------------------------------------------------------------------
(* SRAM and flash.                                                         *)

Known(type) == IF type = "unknown" THEN "sram" ELSE type
Full(a) == a + BankSize * chip.bank
Sector(a) == {c \in Cells : c \div SectorSize = Full(a) \div SectorSize}
Filled(cells) == [c \in Cells |-> IF c \in cells THEN Erased ELSE gamepak_backup[c]]

(* The third write of a sequence, at 0x5555.                               *)
Commanded(v) ==
  LET from(mode, to) == [chip EXCEPT !.position = 0,
                                     !.flash_mode = IF @ = mode THEN to ELSE @]
  IN CASE v = 144 -> from("base", "id")
       [] v = 128 -> from("base", "erase")
       [] v = 240 -> from("id", "base")
       [] v = 160 -> from("base", "write")
       [] v = 176 -> [from("base", "bankswitch") EXCEPT !.flash_bank_cnt = "128K"]
       [] v = 16  -> from("erase", "base")
       [] OTHER   -> [chip EXCEPT !.position = 0]

(* A write anywhere else: the end of an operation, or one to the SRAM.     *)
AtOther(a, v) ==
  IF chip.position = 2 /\ chip.flash_mode = "erase" /\ v = 48
    THEN <<[chip EXCEPT !.flash_mode = "base", !.position = 0], Filled(Sector(a))>>
  ELSE IF chip.position = 0 /\ chip.flash_mode = "bankswitch" /\ a = 0
          /\ chip.flash_bank_cnt = "128K"
    THEN <<[chip EXCEPT !.flash_mode = "base", !.bank = v % 2], gamepak_backup>>
  ELSE IF chip.position = 0 /\ chip.flash_mode = "write"
    THEN <<[chip EXCEPT !.flash_mode = "base"], [gamepak_backup EXCEPT ![Full(a)] = v]>>
  ELSE <<[chip EXCEPT !.type = Known(@)],
         IF Known(chip.type) = "sram" THEN [gamepak_backup EXCEPT ![a] = v]
         ELSE gamepak_backup>>

(* The first write of a sequence makes the memory a flash chip.            *)
write_backup(a, v) ==
  IF a = Cmd1 /\ chip.flash_mode # "write" THEN
    IF chip.position = 0 /\ v = 170
      THEN <<[chip EXCEPT !.type = "flash", !.position = 1], gamepak_backup>>
    ELSE <<[(IF chip.position = 2 THEN Commanded(v) ELSE chip) EXCEPT !.type = Known(@)],
           IF chip.position = 2 /\ v = 16 /\ chip.flash_mode = "erase" THEN Filled(Cells)
           ELSE IF Known(chip.type) = "sram" THEN [gamepak_backup EXCEPT ![Cmd1] = v]
           ELSE gamepak_backup>>
  ELSE IF a = Cmd2 /\ v = 85 /\ chip.position = 1
    THEN <<[chip EXCEPT !.type = Known(@), !.position = 2], gamepak_backup>>
  ELSE AtOther(a, v)

GameWritesByte ==
  /\ Doing("write")
  /\ LET written == write_backup(Head(cpu.todo).at, Head(cpu.todo).value) IN
     IF chip.type = "eeprom" THEN UNCHANGED <<chip, gamepak_backup, marked>>
     ELSE chip' = written[1] /\ gamepak_backup' = written[2] /\ marked' = TRUE
  /\ Advance(cpu.heard)

(* A chip in ID mode answers with its maker's number and its own.          *)
read_backup(a) ==
  CASE chip.type = "eeprom" -> 255
    [] Known(chip.type) = "sram" -> gamepak_backup[a]
    [] Known(chip.type) = "flash" /\ chip.flash_mode = "id" ->
         IF chip.flash_bank_cnt = "128K"
           THEN (IF a = 0 THEN 194 ELSE IF a = 1 THEN 9 ELSE 0)
           ELSE (IF a = 0 THEN 50 ELSE IF a = 1 THEN 27 ELSE 0)
    [] OTHER -> gamepak_backup[Full(a)]

GameReadsByte ==
  /\ Doing("read")
  /\ chip' = [chip EXCEPT !.type = Known(@)]
  /\ UNCHANGED <<gamepak_backup, marked>>
  /\ Advance(read_backup(Head(cpu.todo).at))

-----------------------------------------------------------------------------
(* EEPROM.                                                                 *)

(* trigger_dma: the length of a transfer to the chip tells its size.       *)
GameStartsDma ==
  /\ Doing("dma")
  /\ chip' = IF Head(cpu.todo).toChip /\ Head(cpu.todo).units % 32 = 17
               THEN [chip EXCEPT !.eeprom_size = "b8K"] ELSE chip
  /\ UNCHANGED <<gamepak_backup, marked>>
  /\ Advance(cpu.heard)

Block == chip.eeprom_address \div 8
Counted(n) == [chip EXCEPT !.eeprom_counter = n]

InBase(bit) ==
  LET address == chip.eeprom_address + bit * 2 ^ (1 - chip.eeprom_counter) IN
  IF chip.eeprom_counter = 0
    THEN [chip EXCEPT !.type = "eeprom", !.eeprom_address = address, !.eeprom_counter = 1]
    ELSE [chip EXCEPT !.type = "eeprom", !.eeprom_address = 0, !.eeprom_counter = 0,
                      !.eeprom_mode = CASE address % 4 = 2 -> "writeAddress"
                                        [] address % 4 = 3 -> "address"
                                        [] OTHER -> "base"]

InAddress(bit) ==
  LET address == 2 * chip.eeprom_address + bit
      last == IF chip.eeprom_size = "b512" THEN Bits512 ELSE Bits8K
  IN IF chip.eeprom_counter + 1 # last
       THEN [Counted(chip.eeprom_counter + 1) EXCEPT !.eeprom_address = address]
       ELSE [Counted(0) EXCEPT !.eeprom_address = 8 * address,
                               !.eeprom_mode = IF @ = "address" THEN "addressFooter" ELSE "write"]

(* A bit is put into a byte that was cleared when its address was known.   *)
WithBit(bit) ==
  LET power == 2 ^ (7 - chip.eeprom_counter) IN
  [gamepak_backup EXCEPT ![Block] = IF (@ \div power) % 2 = 1 THEN @ ELSE @ + bit * power]

Cleared(to) ==
  IF to.eeprom_mode = "write" THEN [gamepak_backup EXCEPT ![to.eeprom_address \div 8] = 0]
  ELSE gamepak_backup

write_eeprom(bit) ==
  CASE chip.eeprom_mode = "base" ->
         chip' = InBase(bit) /\ UNCHANGED <<gamepak_backup, marked>>
    [] chip.eeprom_mode \in {"address", "writeAddress"} ->
         /\ chip' = InAddress(bit)
         /\ gamepak_backup' = Cleared(InAddress(bit))
         /\ UNCHANGED marked
    [] chip.eeprom_mode = "write" ->
         /\ gamepak_backup' = WithBit(bit)
         /\ chip' = IF chip.eeprom_counter < 7 THEN Counted(chip.eeprom_counter + 1)
                    ELSE [Counted(0) EXCEPT !.eeprom_mode = "writeFooter"]
         /\ marked' = (marked \/ chip.eeprom_counter = 7)
    [] chip.eeprom_mode \in {"addressFooter", "writeFooter"} ->
         /\ chip' = [Counted(0) EXCEPT
                       !.eeprom_mode = IF @ = "addressFooter" THEN "readHeader" ELSE "base"]
         /\ UNCHANGED <<gamepak_backup, marked>>
    [] OTHER -> UNCHANGED <<chip, gamepak_backup, marked>>

GameSendsBit ==
  /\ Doing("out")
  /\ write_eeprom(Head(cpu.todo).bit)
  /\ Advance(cpu.heard)

(* A window of the ROM, until the chip is known to be there.               *)
read_eeprom ==
  CASE chip.type # "eeprom" -> {0, 1}
    [] chip.type = "eeprom" /\ chip.eeprom_mode = "base" -> {1}
    [] chip.type = "eeprom" /\ chip.eeprom_mode = "read" ->
         {(gamepak_backup[Block] \div 2 ^ (7 - chip.eeprom_counter)) % 2}
    [] OTHER -> {0}

AfterRead ==
  CASE chip.type # "eeprom" -> chip
    [] chip.eeprom_mode = "read" ->
         IF chip.eeprom_counter < 7 THEN Counted(chip.eeprom_counter + 1)
         ELSE [Counted(0) EXCEPT !.eeprom_mode = "base"]
    [] chip.eeprom_mode = "readHeader" ->
         IF chip.eeprom_counter < 3 THEN Counted(chip.eeprom_counter + 1)
         ELSE [Counted(0) EXCEPT !.eeprom_mode = "read"]
    [] OTHER -> chip

GameReadsBit ==
  /\ Doing("in")
  /\ chip' = AfterRead
  /\ UNCHANGED <<gamepak_backup, marked>>
  /\ \E bit \in read_eeprom : Advance(2 * cpu.heard + bit)

-----------------------------------------------------------------------------
(* The player's side.  A transfer to or from an EEPROM is not interrupted. *)

Between == ~ (cpu.todo # <<>> /\ Head(cpu.todo).do \in {"out", "in"})

Saved ==
  IF FileSize = "none" THEN save
  ELSE [size |-> FileSize, cells |-> [c \in 0 .. CellsOf[FileSize] - 1 |-> gamepak_backup[c]]]

(* update_backup, when the delay has passed.                               *)
UpdateBackup ==
  /\ Between
  /\ marked
  /\ marked' = FALSE
  /\ save' = Saved
  /\ cut' = (cut \/ CellsOf[FileSize] < had)
  /\ UNCHANGED <<cartridge, console, backup_type_reset, state, ops, promise, had>>

SaveToState ==
  /\ Between
  /\ state' = [cpu |-> cpu, chip |-> chip]
  /\ UNCHANGED <<cartridge, console, backup_type_reset, marked, save, ops, promise, had, cut>>

(* Variant: where a sequence is is not in the state.                       *)
LoadFromStateHere ==
  /\ Between
  /\ state # Absent
  /\ cpu' = state.cpu
  /\ chip' = [state.chip EXCEPT !.position = chip.position]
  /\ Growing
  /\ UNCHANGED <<cartridge, gamepak_backup, kept, marked, ops, promise, cut>>

LoadFromState ==
  /\ Between
  /\ state # Absent
  /\ cpu' = state.cpu
  /\ chip' = state.chip
  /\ Growing
  /\ UNCHANGED <<cartridge, gamepak_backup, kept, marked, ops, promise, cut>>

(* init_memory: all but flash_bank_cnt.                                    *)
Initial(type, banks) ==
  [type |-> type, flash_mode |-> "base", position |-> 0, bank |-> 0, flash_bank_cnt |-> banks,
   eeprom_size |-> "b512", eeprom_mode |-> "base", eeprom_address |-> 0, eeprom_counter |-> 0]

Restart ==
  /\ Between
  /\ cpu' = Reset
  /\ chip' = Initial(backup_type_reset, chip.flash_bank_cnt)
  /\ Growing
  /\ UNCHANGED <<cartridge, gamepak_backup, kept, marked, ops, promise, cut>>

(* load_gamepak, init_memory and nspire_load_cartridge_backup.             *)
Listed == Initial(IF listed /\ Eeprom THEN "eeprom" ELSE "unknown",
                  IF listed /\ kind = "flash128" THEN "128K" ELSE "64K")

Sized(size) ==
  CASE size \in {"b512", "b8K"} -> [Listed EXCEPT !.type = "eeprom", !.eeprom_size = size]
    [] size = "b32K" -> [Listed EXCEPT !.type = "sram"]
    [] OTHER -> [Listed EXCEPT !.type = "flash",
                               !.flash_bank_cnt = IF size = "b128K" THEN "128K" ELSE "64K"]

(* The game is left, its save written once more, and started again.        *)
LeaveAndStart ==
  /\ Between
  /\ save' = Saved
  /\ cut' = (cut \/ CellsOf[FileSize] < had)
  /\ marked' = FALSE
  /\ cpu' = Reset
  /\ chip' = IF save' = Absent THEN Listed ELSE Sized(save'.size)
  /\ backup_type_reset' = chip'.type
  /\ gamepak_backup' =
       [c \in Cells |-> IF save' = Absent THEN Erased
                        ELSE IF c \in DOMAIN save'.cells THEN save'.cells[c]
                        ELSE gamepak_backup[c]]
  /\ Growing
  /\ UNCHANGED <<cartridge, state, ops, promise>>

-----------------------------------------------------------------------------
(* The game is new: it has no save yet.                                    *)
ChipsInit ==
  /\ kind \in Kinds
  /\ listed \in {l \in BOOLEAN : l => kind \in {"flash128", "eeprom512", "eeprom8K"}}
  /\ cpu = Reset
  /\ chip = Listed /\ backup_type_reset = Listed.type
  /\ gamepak_backup = [c \in Cells |-> Erased]
  /\ marked = FALSE
  /\ save = Absent /\ state = Absent
  /\ ops = 0
  /\ promise = gamepak_backup
  /\ cut = FALSE /\ had = 0

ChipsNext ==
  \/ \E op \in Ops : Begin(op)
  \/ GameWritesByte \/ GameReadsByte
  \/ GameStartsDma \/ GameSendsBit \/ GameReadsBit
  \/ UpdateBackup
  \/ SaveToState \/ LoadFromState \/ Restart \/ LeaveAndStart

ChipsSpec == ChipsInit /\ [][ChipsNext]_chips_vars

-----------------------------------------------------------------------------
Holds(f) ==
  \A c \in Cells :
    promise[c] = IF f # Absent /\ c \in DOMAIN f.cells THEN f.cells[c] ELSE Erased

(* What a game reads from its memory is what it last put there, whichever  *)
(* chip it has, however gpSP found out which, and whatever states were     *)
(* saved in the middle of a sequence and loaded in the middle of another:  *)
(* write_backup, write_eeprom, memory_read_savestate and init_memory agree *)
(* on where the chip is.  A save that was cut (below) is left out.         *)
ReadsAreTheSave ==
  [][ /\ ~cut /\ cpu.op.what \in {"byte", "get"}
      /\ (GameReadsByte \/ GameReadsBit) /\ cpu'.todo = <<>>
      => cpu'.heard = promise[cpu.op.at + BankSize * cpu.bank] ]_chips_vars

(* While no write is pending, the save holds all that the game has put in  *)
(* its memory: whatever changes the memory also marks it, and the size     *)
(* that nspire_backup_file_size gives covers it.                           *)
WritesAreSaved == Between /\ ~marked /\ ~cut => Holds(save)

(* nspire_backup.c:3-4: "An in-game save is the cartridge's memory as it   *)
(* is (the size says the type)".                                           *)
SaveIsTheMemory == Between /\ ~marked => Holds(save)

=============================================================================

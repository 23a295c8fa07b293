# TLA+ models of gpSP for the TI-Nspire

These modules model the parts of this port of gpSP whose correctness lies in the
*order* of things: files that are replaced while power can go, caches and flags
that outlive what they describe, a display that reads while the program draws,
pages and translated code that must follow what they came from, a counter that
wraps, and a scheduler that must not miss an event. TLC checks each on a small
instance; where it says so below, TLAPS proves the same for every value of the
constants.

## Running it

    tlc -workers 2 -config MCSaveStates.cfg MCSaveStates
    tlapm SaveStatesProofs.tla

A `.cfg` belongs to the module that `PROJECT.json` names under `runs`
(`MCClockFreeze.cfg` to `MCClockMarker`, `MCSaveSize.cfg` to `MCBackupChips`,
the others to the module of their name). The longest runs, `clock_marker`,
`event_loop` and `ram_code`, take two to three minutes. `PROJECT.json` also holds the map from
each definition to the lines it models, the hazards with the properties that
cover them, the findings and the theorems.

Names follow the code: a TLA+ action `update_backup_force` in the text below is
the C function, and definitions without a C name (`RemoveOld`, `Left`) say in
`PROJECT.json` which lines they are. Definitions marked "Variant" are plausible
mistakes in the definition that follows them; no specification uses one. They
are kept to show that each property notices such a mistake.

## The system

The program is a GBA emulator. The core (`libretro-gpsp/`) emulates the console
and translates its ARM and Thumb code into ARM code; the front end
(`nspire_*.c`, `gui.c`) starts games, keeps their files, shows pictures and
menus and sets the calculator's hardware. There are no threads. What makes it
concurrent is outside: an LCD that reads the frame buffer, a player who presses
keys at any moment, a calculator that can freeze, lose power or reset its
clock at any step, and a game, which is an arbitrary program.

| Component | State | Operations | Hard | Correct when | Modules |
|---|---|---|---|---|---|
| Save states, `nspire_states.c` | a file per slot, a table of them in memory | open, save, load, compress, delete | power lost between remove and rename; a clock put back; formats of three builds | the newest state is the last saved, a save loses no other state | `SaveStates`, `StateStore` |
| In-game saves, `nspire_backup.c`, `nspire_save_manager.c` | the cartridge's memory, a plain and a gzipped file | write after a delay, when leaving; load the newer; delete; change form | two forms, cut-off writes, one array for all games | what the game wrote is on disk, and only there | `CartridgeBackup` |
| Settings and keys, `nspire_config.c`, `nspire_selfstore.c` | values in use, all games', files of each game | open, close, "this game only", save | two flags say whose values the variables are; files of older builds | a change goes where it belongs | `GameConfig`, `SettingsStore` |
| CPU clock, `nspire_clock.c` | the raised clock, the marker file | raise, put back, start, quit | a freeze leaves only a file | raised only in a game, with a marker | `ClockMarker` |
| Screen buffers, `nspire/nspire.c`, `nspire_video_present.c`, `nspire_video_ui.c` | three buffers, the LCD's registers, caches of bands | draw, flip, menus | the LCD runs by itself; bands and borders are rarely drawn | no tearing, nothing stale on screen | `ScreenFlip` |
| Dynarec for work RAM, `cpu_threaded.c`, `arm/arm_stub.S` | tags, table, cache | translate, look up, flush in whole and part | self-modifying code, a cache that fills up | no stale code is run | `RamCode` |
| Event loop, `main.c`, `serial.c`, `input.c`, register writes of `gba_memory.c`, `cpu.cc` | counts of timers, video, serial, DMA sleep; interrupts | `update_gba`, register writes, frames | every write in any order; overruns | events on time, interrupts raised | `EventLoop` |
| ROM paging, `gba_memory.c` | slots, the table, the page queue, the open ROM file | map, evict, load, release, restart | pages replaced while code runs in them; mirrors; a file that menus close | what is mapped is the running game's page | `RomPages` |
| Cartridge memory, `gba_memory.c`, `nspire_backup.c` | command states of SRAM, flash, EEPROM; what a state holds of them | reads, writes, DMA; states, restarts | chips told apart by what the game does; states made inside a command | a game reads what it wrote, and it is in the save | `BackupChips` |
| Frame pacing, `nspire_frameskip.c`, `nspire_host_main.c` | when the next frame is due, skip counters | begin a frame, fast forward, menus, speed test | a 32-bit counter that wraps, a fixed-point period | never faster than the console, never a long wait | `FramePacing` |
| ROM files, `nspire_rom_convert.c`, `nspire_rom_manager.c`, `nspire_paths.c`, `nspire_game_list.c` | a folder's ROMs, saves and order, the running game's path | convert, move old files, rename in the list | several files per game that go by its name; power lost between renames | a game keeps its ROM, its saves and its place | `GameFiles` |
| Video, cheats, menus, input, scaling, link protocols, code generation, start-up code, libretro support; instructions and samples | | | | | not modelled, see the end |

How they interact. `nspire_host_main.c` runs a frame (`run_frame`), which runs
the dynarec until `update_gba` says that a frame is complete, shows it, and
gives in-game saves their turn (`update_backup`). Menus, saves and quitting put
the CPU clock back first. Opening a game reads its settings, which decide its
clock; a marker left by a freeze changes them. States and DMA write into work
RAM and make translations stale. The save manager, the ROM manager and the menus
work on the same files as the running game: a conversion releases its ROM's
pages first, and changes the name its saves go by. A restart or a state puts a
cartridge chip's mode back but not its memory, and the size of the in-game save
follows from that mode.

## Modules

### SaveStates and StateStore

`SaveStates` has the files and temporary files of one game's slots (`files`,
`temps`), the table `states_*` functions decide from (`table`), and the steps of
a save as separate actions: `StartSave` (`states_save` up to the first write),
`WriteTemp` or `WriteFails`, `RemoveOld`, `RenameTemp` or `RenameFails`; and
likewise `StartRepack` (`states_set_compressed`). `Crash` and `LeaveGame` may
come between any two. `Tick` is the calculator's clock, which a reset puts back.
A state's contents are a number, the moment it holds.

`StateStore` is what the player is promised: each slot holds a moment or none,
and only the slot being replaced can be lost. `StatesAreKept` is the refinement,
with the slot whose old file is gone already holding the new one.

Run `save_states`: two slots, three saves after the two of older builds, three
disks left by older builds. Two slots are the fewest in which one can be the
newest and another be replaced, wrapped around to or lost.

Proved: every property of the run, and that new slots are free
(`NewSlotsAreFree`), for any number of slots, saves and old disks
(`SaveStatesProofs`). The newest state is no inductive fact: the invariant
adds that counters follow the order of saving among counted states
(`CountersFollowSaves`), that no file is missing from the table, and where the
job under way stands among the others (`JobFits`), as its counter was chosen
steps before its file appears. The refinement needs no more than those.

### CartridgeBackup

The memory of the running game's cartridge (who wrote it, and when), the two
forms of its file, and the count of frames until a save is written. A write in
one form (`StartWriting`, `FinishWriting`, `RemoveOther`) can fail or be cut off
by `PowerLoss` at each step; loading takes the newer file, and falls back to the
plain one when the gzipped one is damaged. `Delete` and `SetCompressed` are the
save manager's, `Leave`, `Quit` and `Left` the ways out of a game.

Run `cartridge_backup`: two games, two writes, a delay of two frames, two file
times. Two games are needed to see one's memory in the other's file, two times to
have older, equal and newer files.

Proved (`BackupProofs`): types and every property of the run. The invariant says
what a write
under way has already put into the file, and that it is torn until then
(`Writing`), and that nothing waits in a deleted or left game (`Waiting`).
`PackingKeepsASave` looks at one form being written beside a whole other one.

### GameConfig and SettingsStore

The values in use (`live`), those for all games while a game has its own
(`globals`), and the files of each (`program`, `copy`, `gameFile`), with the
version of the build that wrote a game's file and what this build converts.
Saving is in steps (copy, program file, game file) with `Stop` between them.
`SettingsStore` is the promise for one kind of values: a change goes to the ones
in use and to no others. `SettingsAreKept` and `KeysAreKept` are two refinements
of it by the same module.

Checked by the run `clock_marker` below, as the clock's specification has every
step of these. One change is enough for a refinement, which looks at each step;
two games show one's values in the other's; the old files are of the first QoL
build, with a speed to convert and without the keys of the slots.

Proved (`SettingsAndClockProofs`): types, `FrozenGameIsSlowed` and both
refinements, for any games, choices, speeds and old files. The invariant is
small (`OwnIsOpen`: own values only while their game is open): the files of
other builds and those being written map to the abstract store by what the
next start would read.

### ClockMarker

Extends `GameConfig` with the raised clock and the marker file, as the clock's
speed is a setting and the marker changes one at the next start. `ClockGame` is
`nspire_clock_game`: no marker, no raised speed. `Freeze`, `PowerLoss` and
`Quit` are the ways a session ends; `frozeIn` and `clean` remember them.

Runs `clock_marker` and `clock_freeze`: two games with and without a speed of
their own, one change. The first also checks the settings' properties, under
`ClockSpec`. Proved: types, `RaisedIsMarked`, `RaisedOnlyInGame`,
`QuitLeavesNoMarker`, from an invariant that ties the flag, the file and the
phases of a start (`MarkerKnown`); and that `ClockSpec` implements the settings'
`Spec` (`ClockKeepsGameConfig`), so that what is proved of them holds here.

### ScreenFlip

The buffer being drawn, the address given to the LCD (`base`), the one it took
at its last refresh (`reading`), and whether it still reads lines or rests in
its porch, where its address register points one past the buffer. `Paint` and
the `Present` actions are a frame; `FlipDone` leaves the loop in `nspire_flip`,
when the buffer is free or the time has run out. Each buffer has its bands'
text and borders, and `shown` is the cache `bands_shown`.

Run `screen_flip`: the code's three buffers, two texts, ten frames, so that each
buffer is drawn in three times, with a menu and a change of text in between.
Fairness: the LCD refreshes (`Refresh`, `LinesDone`) as hardware does, and the
wait ends when its condition holds (`FlipDone`), as it is a loop the program runs
alone. `RefreshesInWait` is how many refreshes the time limit (40 ms,
`NSPIRE_TICK_HZ / 25` in `nspire.c:188`) surely spans; the model needs one.

Proved (`FrameProofs`): types, `NoTearing`, `LastIsTaken`, `BandsSayTheText` and
`BordersAreBlack`, for any number of buffers above one. For the borders the
invariant counts how many flips ago each buffer was drawn (`Ago`): cleared
frames reach them all one after the other. `FramesAreShown` and `FlipEnds` are
liveness.

### RamCode

One RAM, IWRAM or EWRAM, in halfwords, with a tag for each, the table of the
tags, and the cache of translated blocks. The RAM is a ring, as its mirrors
follow each other in the address space: a block may go on at the start, and the
addresses of a partial flush wrap around. `scan_block` compares a block's
address with the end of IWRAM, which only the first of its mirrors can meet, and
for EWRAM with 0x203FFFF0 (`cpu_threaded.c:3029`), which no address does.
`ScanEnd` is that end, and `BlockSizes` lets a block that comes to it stop or go
on, as the model does not tell mirrors apart. Left out is what follows EWRAM's
last mirror, which is IWRAM.

`block_lookup_translate` looks up or translates, including the flush when the
cache fills up in the middle of a block. `Store` is one register's and looks at
the tags of all it writes. `StoreMultiple` is up to sixteen registers' and looks
at its last word only (`arm_stub.S:645`), `Dma` a halfword or a word and looks
at the first halfword only (`gba_memory.c:1875`). A CPU store that finds a tag
flushes everything, a DMA the run of tagged halfwords around what it wrote
(`PartialFlushed`), when the policy is partial. `LoadState` and `ChangePolicy`
forget all.

So a block may really be stale (see the known differences under Findings), and
`TranslationsAreCurrent` says that there are no other ways. Two history variables
hold what it excepts: `blind` are the blocks that were not tagged throughout when
they were translated (an ARM instruction over a halfword with a Thumb tag) or
that a write changed where it did not look, until the next flush; `left` is true
from a flush that has left the tag at offset 0 to one that does not. Everywhere
else, a lookup finds a block of that address and mode, and one of what is in RAM
now.

Run `ram_code`: four halfwords; a Thumb block at offset 0, which may stop at
`ScanEnd`, one that goes on at offset 0 from the RAM's end, and an ARM block over
both; blocks of up to two instructions; words and halfwords stored and
transferred, and a store of two registers; a cache for two blocks, so that every
flush happens, with and without blocks that overlap. More halfwords or a larger
cache take TLC past the time a run should have; the theorem is for any.

Proved (`RamCodeProofs`), from the assumptions about sizes and inputs in
`RamCode` alone, for any RAM, contents, code in both modes, stores, transfers
and caches: `CacheAndTableApart` and `TranslationsAreCurrent`. The invariant
`IInv` adds to types what says why a flush drops enough. `LimitsHold`: every
translated address lies between the lowest and the highest that the flush goes
by, but for one at offset 0 that the last flush left. `TagsOK`, while nothing is
left: tags at two addresses differ and are above the next one (`TagsDistinct`,
`TagsGiven`), and a block that is not blind has a tag on every halfword
(`BlocksTagged`), so a write that saw no tag did not meet it, and the run of tags
around a write reaches its start. That is an induction on how far the start is
away on the ring. `RoomLeft` says how far the cache and its table can still grow.

### EventLoop

The console's time. `pc` says who has control: the `cpu`, which may write any
register; `update`, a turn of `update_gba`'s loop; or `frame`, between frames.
`execute_cycles` and `remaining` are the budget and what is left of it; the
cycles a turn accounts (`Elapsed`) are their difference, clamped as in the code.
`Update` is a whole turn in the code's order: timers and the sound they feed, the
serial port, the video and its DMAs, interrupts, sleep, and the minimum that the
CPU may run next. `trigger_dma_now` leaves the CPU asleep for the DMA's cycles
(`sleep_cycles`, its bit 31 `sleep_first`). Whether a sound FIFO runs low is any
choice; FIFO contents and samples are left out. `owed` is a history variable.

`masked` is CPSR's interrupt bit; `enabled` is IE, empty without IME. Raising an
interrupt sets `masked` and wakes a halted CPU; who flags, enables or unmasks
raises it in the same step, as the code does on every return to translated code
(`write_epilogue`, `execute_store_cpsr`).

Run `event_loop`: a screen of two lines of three and two cycles, one drawn, one
timer with a cascade on it, and one channel with an immediate, an HBlank and a
sound DMA. The line is longer than the timer's period of two, the overshoot of
one is shorter, and a DMA of two cycles spans a turn: each order of the events
occurs. `AHEAD` bounds how often a timer may put the video back (see Findings).
Fairness: a turn of the loop and the next frame come (`Update`, `run_frame`), as
nothing else runs; the CPU need never do anything. `HaltEnds` then says that a
halt with the VBlank interrupt on ends, over however many frames.

Assumptions: a timer's period is longer than the overshoot the code accepts (64
cycles), sound channels repeat, and no DMA has a register for its destination.
Each is a named `ASSUME` or said in the map.

Proved (`EventLoopProofs`), for any screen, timers, reloads and DMA settings:
types, `EventsAreOnTime`, `InterruptsAreRaised`, `ScreenKeepsTime`,
`StoppedSoundIsNotFed` and `SleepIsServed`. That events are on time rests on
`OnTime`, which holds outside the CPU's turns too: the CPU can overrun by at most
`OVERSHOOT`, each period is longer, and the minimum is taken last. A sleep is
served because while it lasts no turn accounts more than is left of it
(`SleepIsOwed`), which the minimum of the turn before ensures.

### RomPages

The ROM's pages in the slots of the ROM buffer: the queue of slots, the page and
contents of each, the table the CPU reads through, with the mirrors in the
console's three windows, the open file, the sticky pages of a frame and the
interpreter's page. `ReadUnmapped` takes the slot at the head of the queue that
is not sticky (`Evicts`), `StartFrame`, `NextPage`, `RunRam` and `EndFrame` are
what a frame's code does to the sticky bits (code in RAM makes pages sticky, too,
by the low bits of its address), `LoadPlain`, `LoadZip`, `ZipIsDamaged` and
`LoadFails` the ways to load a game over another one, `nspire_rom_file_release`
what the menus do. Page 0 holds the registers of the cartridge's clock
(`words`), which are not in the file.

A load unmaps the ROM only up to 0xD000000 (`ClearedEnd`, `gba_memory.c:2814`),
the middle of the third window, while pages from 512 on are mapped in its second
half, too. What the last game had there stays, so a read there may meet another
page of the new game (see the known differences under Findings).
`ReadsAreTheRoms` says of that half what does hold, that an entry is right as long
as its page is mapped in the first window, and `CodePageStays` is about code below
it.

Run `rom_pages`: windows of four pages, a buffer of two slots that a zipped ROM
grows to four, and four games: one as large as a window, one trimmed to three
pages, whose mirrors overlap, one of two pages that fits in the buffer, one in a
zip. Two slots are the fewest in which one page can be kept and another replaced.

Proved (`RomPagesProofs`): every property of the run, for any ROMs, windows,
slots. The invariant says that queue and table agree: an entry below `ClearedEnd`
is mapped only to a slot whose recorded page has a mirror there (`MapOK`), every
mirror of a recorded page leads to its slot, also beyond (`MirrorsOK`), a slot
with a recorded page holds that page of the running game (`SlotsOK`), a ROM that
is not paged is mapped whole (`AllMapped`), and the interpreter's page is sticky
(`PcOK`). `MirrorsOK` holds although a load leaves entries as they were because it
maps pages over them, first to last (`MapsFirst`), and evicting a page unmaps all
of its mirrors.

### BackupChips

Each kind of cartridge memory, and the game that drives it: an operation (a
byte, an erase, a bank, an EEPROM block and so on) is a list of accesses
(`Accesses`), as the chips' data sheets have them, and `write_backup`,
`read_backup`, `write_eeprom`, `read_eeprom` and the DMA's hint of an EEPROM's
size are the code that answers one access. Between any two the player may save
or load a state, restart, leave and start again, or the save is written
(`UpdateBackup`) at the size `FileSize` gives.

Run `backup_chips`: banks of two sectors of two bytes, EEPROMs of two and four
blocks, three operations, bytes that are also parts of flash commands (0xAA).
Three operations span a change of bank, an erase and a write, and a state taken
and loaded inside of each. Run `save_size`: see Findings. `ReadsAreTheSave` and
`WritesAreSaved` are said while no save has been cut by that finding (`cut`).

Proved (`BackupProofs`, with the files'): `WritesAreSaved` and `ReadsAreTheSave`,
for banks, sectors, EEPROMs and commands of any size, any addresses and bytes.
Neither is inductive: in the middle of a command the memory and what the game
means differ, and what the next access does depends on the mode that the last
ones left. The invariant `CInv` says where the chip is for where the game is.
`TypesFit` has one relation of a game and a chip, `Fits`, by the number of
accesses an operation has made: a flash chip's mode and place in a sequence
(`FlashAt`), an EEPROM's mode, counter and the bits of its address that have
come (`EepromAt`), the game's bank and the chip's, and types that the kind of
memory can be taken for. It holds of the running game and of the state that is
kept, so loading the state restores it. `MemoryFits` says that the memory is
what the game means, with the first bits only of a byte on its way into an EEPROM
(`Present`), that the game has heard the first bits of the one it reads
(`HeardFits`), that a pending write is marked, and that a save that was not cut
holds every byte the game changed. An access moves both sides by one: a
lemma for each mode and access shows it, and the lemmas on halves and bits
(`OneMoreBit` and those after it) do the shifting.

The proof assumes of the constants that a sector divides a bank, that the first
command address is not the start of a sector, that the addresses differ
and are not zero, that the larger EEPROM fits the memory and that the
games' data are bytes (0x5555, 0x2AAA, 64 K, 4 K, 6 and 14 in the code).
`PowersAssumption` says what `2 ^ n` is up to the EEPROM's length: the provers know nothing of
exponents. `AbsentAssumption` says that no save is the value for none.

### FramePacing

The counter (`ticks`), when the next frame is due in whole ticks and fractions,
the counters of skipped frames, and the settings that decide. `BeginPaced` and
`BeginUnthrottled` are `nspire_frameskip_begin_frame`, with the wait;
`nspire_reset_timing` is in every action that calls it. `credit` is history: by
how much the game may still run ahead of the time that went by, a token bucket of
the frames that can be made up for.

Run `frame_pacing`: a counter of 40 ticks, frames of two and a half, of which
two are made up for, frames that take none, two or nine ticks, and stays in the
menus of up to more than half the counter: it wraps within few frames, at every
phase of the fraction.

Proved (`FrameProofs`, with the screen's): both properties, for a counter of
any even width, any period and fraction, as long as running one frame takes less than half the
counter (`WrapAssumption`) and a frame less than a second. The invariant is that
`next_frame` lies a number of ticks behind that a frame's running bounds, and
that the credit covers them (`Behind`); the sign of the wrapped difference
follows (`SignedDifference`).

### GameFiles

A folder: its ROMs (`.gba`, `.gbz`, `.zip`, the last with the name inside), the
saves in the saves folder by the name they go by, those that older builds left,
and the player's order. A conversion is a job in steps: `WriteTemp`,
`check_new_file`, `Rename`, `RemoveOld`, `MoveSave` for each file that goes
along, `OpenOrder`, `Finish`. Each step up to the rename can fail, and so can
removing the old ROM, which the code does not look at (`nspire_rom_convert.c:383`):
the game has two ROMs then. Writes of the order are taken to succeed. `PowerLoss`
may come between any two and in the middle of moving old files (`StartIsCut`). Between conversions the running game
saves by the name it was opened by or by the one its ROM has now, as the code
does for each kind of file. `saved`, `cut` and `listed` are history.
`SavesAreFound` makes an exception of the games in `cut`: those whose ROM got
another name but which were left between the two, as power went before all saves
had moved, or as the old ROM could not be removed and looks for them under its own.

Run `game_files`: two games and three names, so that names can be taken; two
disks, with a zip whose ROM has its own or another name, saves of an older
build, a `.gbz`, and an order with one or both.

Proved (`GameFilesProofs`): `RomsAreKept`, `NoHalfRoms`,
`RunningGameHasItsRom` and `ListKeepsPlaces`, for any games, names and disks;
`SavesAreKept` and `SavesAreFound` for any such folders as `OwnNames`,
`FoundAtFirst` and `NewNamesFree` describe (TLC evaluates the three on the run's
disks). Saves are kept as long as no two games use one name: the invariant gives
each name a game (`Owned`), which the names of conversions, of the zip looked up
last and of the running game's files keep to, so nothing is written over another
game's file. They are found because every ROM a game ever has is its first, or
one of those that conversions make, whose saves go by one name, `Home`
(`FormsOK`, `LastOK`); a first ROM of another name is the game's only one until
it is replaced (`OneRom`), and its saves are where it looks until each has moved
to `Home`, where there was none (`FilesFound`). Without `NewNamesFree` the
property is false of the code, see Findings.

## Findings

Runs that expect a violation, each with the line that says otherwise
(`PROJECT.json`, `findings`):

- `clock_freeze`: the marker names the first game of a session whose clock was
  raised, not the one that froze.
- `save_size`: a restart or a state puts the chip's mode back, which the size of
  the save follows from: a first save may not be written, or a save cut.

Known differences that are modelled or noted but have no run, each under
`hazards`:

- Loading a game does not unmap the last one's pages from 0xD000000 on
  (`gba_memory.c:2814`), against the comment above: "Unmap the ROM space since we
  will re-map it now". Load a ROM larger than the buffer, read a page there that is not
  in the buffer, load it again: what is read there is another page of it, until a
  page is mapped or evicted over it. `RomPages` has it.
- A DMA of a word looks at the tag of its first halfword only
  (`gba_memory.c:1875`), a store of several registers at those of its last word
  (`arm_stub.S:645`): translated code in the rest stays, and is run. An ARM
  instruction over one halfword that has a Thumb tag leaves the other without one
  (`cpu_threaded.c:2940`). `docs/partial-flush-smc-fix.md:7` asks that a write to RAM
  invalidates the blocks it affects. `RamCode` has all three (`blind`).
- After a full flush a lookup at offset 0 still finds a block, in the empty cache,
  if all that was translated was one instruction there (`cpu_threaded.c:3466`).
  `RamCode` has it (`left`).
- A game's settings of the build before this one are converted as if they were
  of the one before that (`nspire_config.c:467` against `:30-33`).
- A ROM called `.agb` in its zip takes along the saves in the saves folder when
  it is uncompressed, not those an older build left beside it, if it was not
  started before: `README.md:161` says that saves keep working. And if its zip has
  that name too, saves go by the old name after the game was zipped again, until
  the program is left (`nspire_rom_convert.c:461`). `NewNamesFree` leaves both out.
- Starting a timer lowers `execute_cycles` under the CPU, and the next turn can
  account a negative number of cycles (`gba_memory.c:311`); `EventLoop` has it.

## What the proofs leave to TLC

Liveness under fairness (`FramesAreShown`, `FlipEnds`, `HaltEnds`) and anything
about ENABLED is beyond the prover, and so is what a recursive definition
computes: the library's induction theorems take a predicate as a parameter.
Induction along a number is possible for one predicate at a time, from the fact
that every nonempty set of naturals has a least element (`LeastNatural` in
`RamCodeProofs`). Modules with theorems have no RECURSIVE operators. Every
other property of a passing run is a theorem, some under hypotheses that the
sections above name.
Some theorems have no run of their own because others imply them or they are
types: they are listed all the same.

## Plan

Done, in this order: `SaveStates` with `StateStore`; `ScreenFlip`; `GameConfig`
with `SettingsStore`; `ClockMarker` on it; `CartridgeBackup`; `RamCode`;
`EventLoop`; `RomPages`; `BackupChips`; `FramePacing`; `GameFiles`; the proofs
above. What is left:

1. Links between translated blocks of ROM code and the ROM cache's flush.
2. The settings' conversion by version number, which has no property yet.

Runs of new modules replaced weaker ones: properties that a stronger one implies
were dropped, so that every run stays worth its time.

## Not modelled, and why

Most of the repository's lines are tables, vendored code and pure functions, so
the modules map a small share of them: fonts and colour tables, two video
renderers, libretro headers, code generators and an interpreter that is one case
per opcode. What is left of these is named here.

- Instruction semantics (interpreter and `arm_emit.h`), the video renderer,
  scaling and blending, sound synthesis and cheats are functions of large data,
  without orders to get wrong.
- The menus' layout and key handling; what they change is an action of the
  module that owns the state.
- Links between translated blocks and ROM code: a direct branch cannot reach
  from ROM to RAM, so what is linked to RAM code is flushed with it.
- The wireless adapter and link protocols: this port has no network, and
  nothing is ever received.
- A transfer that writes to DMA, timer or display registers, and a state loaded
  into the event loop.
- In `RomPages`, a page that is needed while every slot is sticky: the loop in
  `evict_gamepak_page` would not end, and the model has no step. In `GameFiles`, the
  compression itself, two games whose saves go by one name, and moving games by
  hand in the list.
- Start-up and OS glue, third-party support code and generated tables.

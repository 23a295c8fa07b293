------------------------------ MODULE RomPages ------------------------------
(***************************************************************************)
(* The ROM in memory, libretro-gpsp/gba_memory.c: its 32 KB pages in slots *)
(* of the ROM buffer, the table the emulated CPU reads it through, and     *)
(* what fills, replaces and releases them.                                 *)
(*                                                                         *)
(* A ROM that is larger than the buffer is paged: a read that meets an     *)
(* unmapped page takes the slot at the head of a queue, whatever is in it, *)
(* unless the interpreter runs code there.  Every page is mapped at each   *)
(* of its mirrors, in the three windows the console has on the cartridge.  *)
(* Page 0 also holds the registers of the cartridge's clock.               *)
(***************************************************************************)
EXTENDS Integers, Sequences, FiniteSets

CONSTANTS
  Games, NoGame,
  NoFile,
  PagesOf,              \* each game's size, in pages
  Zipped,               \* the games in a zip
  WithClock,            \* the games with a clock, or rumble: rtc_enabled, rumble_enabled
  Space,                \* pages in a window, 1024 in the code
  Half,                 \* pages in the third one
  BufferSlots,          \* the buffer's slots when gpSP starts
  MaxSlots,             \* as many as memory can ever hold
  None, Blank,
  GpioValues            \* what gpio_regs can hold; 0 when they cannot be read

ASSUME GamesAssumption == NoGame \notin Games /\ NoFile \notin Games
ASSUME SizesAssumption ==
  /\ Half \in Nat \ {0} /\ Space = 2 * Half
  /\ PagesOf \in [Games -> 1 .. Space]
ASSUME SlotsAssumption ==
  BufferSlots \in Nat \ {0} /\ MaxSlots \in Nat /\ BufferSlots <= MaxSlots
ASSUME NoneAssumption == None \notin Nat
ASSUME GpioAssumption == 0 \in GpioValues /\ None \notin GpioValues

Slots == 0 .. MaxSlots - 1
Pages == 0 .. Space - 1

(* memory_map_read from 0x8000000 on: windows of 1024, 1024 and 512 pages, *)
(* and what lies beyond.                                                   *)
Entries == 0 .. 3 * Space - 1

VARIABLES
  game,                 \* the game that can be run
  gamepak_size,         \* in pages
  gamepak_buffer_count, \* in slots
  gamepak_file_large,   \* the game whose file is open
  gamepak_blk_queue,    \* the slots from gamepak_lru_head to gamepak_lru_tail
  phy_rom,              \* the page in each slot
  buffer,               \* what is in each slot, <<game, page>>
  memory_map_read,      \* the slot mapped at each entry
  gamepak_sticky_bit,   \* the pages not to be evicted in this frame
  pc,                   \* the interpreter's page and slot, while it runs a frame
  swapping,             \* the dynarec's loads look for unmapped pages: init_emitter
  gpio_regs,            \* the cartridge's registers
  words,                \* as page 0 shows them
  written               \* history: what the game last wrote to them

queue == <<gamepak_blk_queue, phy_rom, buffer, memory_map_read>>
rom == <<game, gamepak_size, gamepak_buffer_count, gamepak_file_large>>
vars == <<rom, queue, gamepak_sticky_bit, pc, swapping, gpio_regs, words, written>>

NoPc == [entry |-> None, slot |-> None]
InRam == [entry |-> None, slot |-> 0]     \* in a frame, but not in the ROM

Init ==
  /\ game = NoGame /\ gamepak_size = 0
  /\ gamepak_buffer_count = BufferSlots
  /\ gamepak_file_large = NoFile
  /\ gamepak_blk_queue = [i \in 1 .. BufferSlots |-> i - 1]
  /\ phy_rom = [s \in Slots |-> None]
  /\ buffer = [s \in Slots |-> Blank]
  /\ memory_map_read = [e \in Entries |-> None]
  /\ gamepak_sticky_bit = {}
  /\ pc = NoPc
  /\ swapping = FALSE
  /\ gpio_regs = 0 /\ words = None /\ written = None

-----------------------------------------------------------------------------
(* map_rom_entry: where a page is mapped.  A mirror that starts in a       *)
(* window may end in the next.                                             *)
Offsets(size, window) == {m \in 0 .. window - 1 : m % size = 0}

Mirrors(page, size) ==
  {w + page + m : w \in {0, Space}, m \in Offsets(size, Space)}
    \cup {2 * Space + page + m : m \in Offsets(size, Half)}

Mapped(table, page, size, slot) ==
  [e \in Entries |-> IF e \in Mirrors(page, size) THEN slot ELSE table[e]]

(* map_null(read, 0x8000000, 0xD000000): the windows' last quarter is left *)
(* as it is.                                                               *)
ClearedEnd == 2 * Space + Half

Cleared(table) == [e \in Entries |-> IF e < ClearedEnd THEN None ELSE table[e]]

(* The first pages of a ROM, each in the slot of its number, mapped one    *)
(* after the other.                                                        *)
FirstMapped(table, n, size) ==
  [e \in Entries |->
     LET at == {p \in 0 .. n - 1 : e \in Mirrors(p, size)} IN
       IF at = {} THEN table[e] ELSE CHOOSE p \in at : \A q \in at : q <= p]

gamepak_must_swap == gamepak_buffer_count < gamepak_size

IsSticky(slot, sticky) == phy_rom[slot] # None /\ phy_rom[slot] \in sticky

(* Variant: sticky bits are not looked at.                                 *)
EvictsFirst(i, sticky) == i = 1

(* evict_gamepak_page: the first slot of the queue that is not sticky.  If *)
(* all are, its loop does not end.                                         *)
Evicts(i, sticky) ==
  /\ ~IsSticky(gamepak_blk_queue[i], sticky)
  /\ \A j \in 1 .. i - 1 : IsSticky(gamepak_blk_queue[j], sticky)

(* The slots that were passed over go to the end of the queue too.         *)
Rotated(q, i) == SubSeq(q, i + 1, Len(q)) \o SubSeq(q, 1, i)

Unmapped(slot) ==
  IF phy_rom[slot] = None THEN memory_map_read
  ELSE Mapped(memory_map_read, phy_rom[slot], gamepak_size, None)

(* read_gamepak_file_page                                                  *)
FilePage(page) == IF gamepak_file_large = NoFile THEN Blank ELSE <<gamepak_file_large, page>>

(* Variant: a page that comes back is as it is in the file.                *)
PlainWords(page) == IF page = 0 THEN None ELSE words

(* update_gpio_romregs, when page 0 is loaded.                             *)
LoadedWords(page) ==
  IF page # 0 THEN words ELSE IF game \in WithClock THEN gpio_regs ELSE None

(* load_gamepak_page, for a page of the ROM.                               *)
load_gamepak_page(page, sticky) ==
  \E i \in 1 .. Len(gamepak_blk_queue) : LET s == gamepak_blk_queue[i] IN
    /\ Evicts(i, sticky)
    /\ gamepak_blk_queue' = Rotated(gamepak_blk_queue, i)
    /\ memory_map_read' = Mapped(Unmapped(s), page, gamepak_size, s)
    /\ phy_rom' = [phy_rom EXCEPT ![s] = page]
    /\ buffer' = [buffer EXCEPT ![s] = FilePage(page)]
    /\ words' = LoadedWords(page)

-----------------------------------------------------------------------------
(* The emulated CPU, and DMA.                                              *)

(* The page of an address: what it is mapped to or, where it is not, what  *)
(* load_gamepak_page is called for.                                        *)
Page(entry) == entry % Space

(* A read of the ROM by the CPU or a DMA finds its page unmapped.          *)
ReadUnmapped(entry) ==
  /\ game # NoGame
  /\ Page(entry) < gamepak_size
  /\ memory_map_read[entry] = None
  /\ load_gamepak_page(Page(entry), gamepak_sticky_bit)
  /\ UNCHANGED <<rom, gamepak_sticky_bit, pc, swapping, gpio_regs, written>>

(* What the interpreter fetches from: past the ROM's end, what is first in *)
(* the buffer.                                                             *)
Fetches(entry, sticky) ==
  \/ /\ memory_map_read[entry] # None
     /\ pc' = [entry |-> entry, slot |-> memory_map_read[entry]]
     /\ UNCHANGED <<queue, words>>
  \/ /\ memory_map_read[entry] = None
     /\ Page(entry) >= gamepak_size
     /\ pc' = [entry |-> entry, slot |-> 0]
     /\ UNCHANGED <<queue, words>>
  \/ /\ memory_map_read[entry] = None
     /\ Page(entry) < gamepak_size
     /\ load_gamepak_page(Page(entry), sticky)
     /\ pc' = [entry |-> entry, slot |-> memory_map_read'[entry]]

(* execute_arm: a frame of the interpreter starts.                         *)
StartFrame(entry) ==
  /\ game # NoGame /\ pc = NoPc
  /\ Fetches(entry, {})
  /\ gamepak_sticky_bit' = {Page(entry)}
  /\ UNCHANGED <<rom, swapping, gpio_regs, written>>

(* check_pc_region: the code goes on in another page.                      *)
NextPage(entry) ==
  /\ pc # NoPc /\ pc.entry # entry
  /\ gamepak_sticky_bit' = gamepak_sticky_bit \cup {Page(entry)}
  /\ Fetches(entry, gamepak_sticky_bit')
  /\ UNCHANGED <<rom, swapping, gpio_regs, written>>

(* Code in RAM is taken for a page of the ROM, too: touch_gamepak_page     *)
(* keeps the low bits of its address, the window's first half for EWRAM,   *)
(* the second for IWRAM, 0 for the BIOS.                                   *)
RunRam(page) ==
  /\ game # NoGame
  /\ pc' = InRam
  /\ gamepak_sticky_bit' = {page} \cup IF pc = NoPc THEN {} ELSE gamepak_sticky_bit
  /\ UNCHANGED <<rom, queue, swapping, gpio_regs, words, written>>

EndFrame ==
  /\ pc # NoPc
  /\ pc' = NoPc
  /\ UNCHANGED <<rom, queue, gamepak_sticky_bit, swapping, gpio_regs, words, written>>

(* write_gpio                                                              *)
write_gpio(value) ==
  /\ game \in WithClock
  /\ gpio_regs' = value
  /\ written' = value
  /\ words' = IF memory_map_read[0] = None THEN words ELSE value
  /\ UNCHANGED <<rom, queue, gamepak_sticky_bit, pc, swapping>>

-----------------------------------------------------------------------------
(* Games, from the menus.                                                  *)

(* Variant: init_emitter's choice is not made again.                       *)
ResetMemory == gpio_regs' = 0 /\ written' = None /\ UNCHANGED swapping

(* reset_gba: init_memory clears the registers, init_emitter chooses how   *)
(* translated code reads the ROM.                                          *)
Reset ==
  /\ gpio_regs' = 0 /\ written' = None
  /\ swapping' = (gamepak_buffer_count' < gamepak_size')

(* A new ROM: its first pages are read, each into the slot of its number,  *)
(* as far as there are slots.                                              *)
ReadPages(g, slots) ==
  LET n == IF PagesOf[g] < slots THEN PagesOf[g] ELSE slots IN
    /\ gamepak_blk_queue' = Rotated([i \in 1 .. slots |-> i - 1], n)
    /\ phy_rom' = [s \in Slots |-> IF s < n THEN s ELSE None]
    /\ buffer' = [s \in Slots |-> IF s < n THEN <<g, s>> ELSE buffer[s]]
    /\ memory_map_read' = FirstMapped(Cleared(memory_map_read), n, PagesOf[g])

(* load_gamepak_raw                                                        *)
LoadPlain(g) ==
  /\ pc = NoPc
  /\ g \notin Zipped
  /\ game' = g /\ gamepak_file_large' = g /\ gamepak_size' = PagesOf[g]
  /\ ReadPages(g, gamepak_buffer_count)
  /\ gamepak_sticky_bit' = {}
  /\ words' = None
  /\ UNCHANGED <<gamepak_buffer_count, pc>>
  /\ Reset

(* load_gamepak_zip: a zip is unpacked whole, into a larger buffer if it   *)
(* takes one.                                                              *)
Grown(g) == IF gamepak_buffer_count < PagesOf[g] THEN PagesOf[g] ELSE gamepak_buffer_count

LoadZip(g) ==
  /\ pc = NoPc
  /\ g \in Zipped
  /\ Grown(g) <= MaxSlots
  /\ game' = g /\ gamepak_file_large' = NoFile /\ gamepak_size' = PagesOf[g]
  /\ gamepak_buffer_count' = Grown(g)
  /\ ReadPages(g, Grown(g))
  /\ gamepak_sticky_bit' = {}
  /\ words' = None
  /\ Reset
  /\ UNCHANGED pc

(* Its ROM does not read back right, after n of its pages or at the end:   *)
(* no pages are left but what was mapped where map_null does not clear.    *)
ZipIsDamaged(g, n) ==
  /\ pc = NoPc
  /\ g \in Zipped
  /\ Grown(g) <= MaxSlots
  /\ game' = NoGame /\ gamepak_file_large' = NoFile /\ gamepak_size' = 0
  /\ gamepak_buffer_count' = Grown(g)
  /\ gamepak_blk_queue' = [i \in 1 .. Grown(g) |-> i - 1]
  /\ phy_rom' = [s \in Slots |-> None]
  /\ buffer' = [s \in Slots |-> IF s < PagesOf[g] /\ s <= n THEN Blank ELSE buffer[s]]
  /\ memory_map_read' = Cleared(FirstMapped(memory_map_read, n, PagesOf[g]))
  /\ gamepak_sticky_bit' = {}
  /\ UNCHANGED <<pc, swapping, gpio_regs, words, written>>

(* A file that does not open, or a zip there is no memory for.  The last   *)
(* game's file is closed by then, and menu_load leaves the menus without a *)
(* game.                                                                   *)
LoadFails ==
  /\ pc = NoPc
  /\ game' = NoGame /\ gamepak_file_large' = NoFile
  /\ gamepak_buffer_count' \in gamepak_buffer_count .. MaxSlots
  /\ gamepak_buffer_count' # gamepak_buffer_count =>
       \E g \in Zipped : gamepak_buffer_count' < PagesOf[g]
  /\ UNCHANGED <<gamepak_size, queue, gamepak_sticky_bit, pc, swapping, gpio_regs, words,
                 written>>

(* reset_gba, from the menus.                                              *)
Restart ==
  /\ pc = NoPc /\ game # NoGame
  /\ UNCHANGED <<rom, queue, gamepak_sticky_bit, pc, words>>
  /\ Reset

(* memory_read_savestate: the registers of the state.                      *)
LoadState(value) ==
  /\ pc = NoPc /\ game # NoGame
  /\ gpio_regs' = value /\ written' = None
  /\ UNCHANGED <<rom, queue, gamepak_sticky_bit, pc, swapping, words>>

(* Variant: the file is released while pages are still read from it.       *)
ReleaseAlways ==
  /\ pc = NoPc /\ game # NoGame
  /\ gamepak_file_large' = NoFile
  /\ UNCHANGED <<game, gamepak_size, gamepak_buffer_count, queue, gamepak_sticky_bit, pc,
                 swapping, gpio_regs, words, written>>

(* nspire_rom_file_release: the ROM manager is about to replace the        *)
(* running game's file.                                                    *)
nspire_rom_file_release ==
  /\ pc = NoPc /\ game # NoGame
  /\ ~gamepak_must_swap
  /\ gamepak_file_large' = NoFile
  /\ UNCHANGED <<game, gamepak_size, gamepak_buffer_count, queue, gamepak_sticky_bit, pc,
                 swapping, gpio_regs, words, written>>

Run ==
  \/ \E e \in Entries : ReadUnmapped(e) \/ StartFrame(e) \/ NextPage(e)
  \/ \E p \in Pages : RunRam(p)
  \/ EndFrame
  \/ \E v \in GpioValues : write_gpio(v)

Menu ==
  \/ \E g \in Games : LoadPlain(g) \/ LoadZip(g) \/ \E n \in 0 .. PagesOf[g] : ZipIsDamaged(g, n)
  \/ LoadFails \/ Restart \/ nspire_rom_file_release
  \/ \E v \in GpioValues : LoadState(v)

Next == Run \/ Menu

Spec == Init /\ [][Next]_vars

-----------------------------------------------------------------------------
(* Properties.                                                             *)

TypeOK ==
  /\ game \in Games \cup {NoGame}
  /\ gamepak_size \in 0 .. Space
  /\ gamepak_buffer_count \in BufferSlots .. MaxSlots
  /\ gamepak_file_large \in Games \cup {NoFile}
  /\ gamepak_blk_queue \in Seq(Slots) /\ Len(gamepak_blk_queue) <= gamepak_buffer_count
  /\ phy_rom \in [Slots -> Pages \cup {None}]
  /\ buffer \in [Slots -> (Games \X Pages) \cup {Blank}]
  /\ memory_map_read \in [Entries -> Slots \cup {None}]
  /\ gamepak_sticky_bit \subseteq Pages
  /\ pc \in [entry : Entries, slot : Slots] \cup {NoPc, InRam}
  /\ swapping \in BOOLEAN
  /\ gpio_regs \in GpioValues
  /\ words \in GpioValues \cup {None} /\ written \in GpioValues \cup {None}

(* The windows mirror each other where the ROM's size divides theirs.  A   *)
(* trimmed ROM's mirrors end past the first window and are mapped over the *)
(* start of the second.                                                    *)
MirrorsAgree(entry) == entry < Space \/ Space % gamepak_size = 0

(* What is mapped is the page of the running game's ROM that the console   *)
(* would see there: never another game's, one that was evicted, or nothing *)
(* because the file was closed.  Where map_null does not clear, that is so *)
(* only while the page is in the buffer.                                   *)
ReadsAreTheRoms ==
  game # NoGame =>
    \A e \in Entries :
      /\ memory_map_read[e] # None /\ MirrorsAgree(e)
      /\ e >= ClearedEnd => Page(e) < gamepak_size /\ memory_map_read[Page(e)] # None
      => buffer[memory_map_read[e]] = <<game, e % gamepak_size>>

(* Translated code that reads the ROM without a look at the table finds    *)
(* all of it mapped.                                                       *)
FastLoadsAreMapped ==
  game # NoGame /\ ~swapping => \A e \in 0 .. ClearedEnd - 1 : memory_map_read[e] # None

(* "Stick page bit: prevents page eviction for a frame. This is used to    *)
(* prevent unmapping code pages while being used": the page the            *)
(* interpreter runs keeps its contents, whatever the code it runs loads.   *)
(* Not where the table may lead to what the last game left: map_null.      *)
CodePageStays ==
  /\ pc \notin {NoPc, InRam} /\ Page(pc.entry) < gamepak_size /\ MirrorsAgree(pc.entry)
  /\ pc.entry < ClearedEnd
  =>
    buffer[pc.slot] = <<game, pc.entry % gamepak_size>>

(* What the game wrote to its clock's registers is what it reads there,    *)
(* even when page 0 has been evicted since and comes back from the file.   *)
GpioIsShown == written # None /\ memory_map_read[0] # None => words = written

=============================================================================

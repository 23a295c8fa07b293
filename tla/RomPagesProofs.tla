-------------------------- MODULE RomPagesProofs ----------------------------
(***************************************************************************)
(* Proofs about the ROM's pages, for ROMs of any size, trimmed or not, a   *)
(* buffer of any size and windows of any size.                             *)
(***************************************************************************)
EXTENDS RomPages, SequenceTheorems, TLAPS

(* The properties of division the mirrors need.                            *)
LEMMA DivMod ==
  ASSUME NEW n \in Nat, n > 0, NEW a \in Nat
  PROVE  /\ a = n * (a \div n) + (a % n)
         /\ a % n \in 0 .. n - 1
         /\ a \div n \in Nat
<1>1. a = n * (a \div n) + (a % n)
  BY Z3
<1>2. a % n \in 0 .. n - 1
  OBVIOUS
<1>3. a \div n \in Int
  OBVIOUS
<1>4. a \div n >= 0
  BY Z3
<1>5. QED
  BY <1>1, <1>2, <1>3, <1>4

LEMMA OneRemainder ==
  ASSUME NEW n \in Nat, n > 0, NEW q \in Int, NEW r \in Int,
         NEW b \in 0 .. n - 1, NEW c \in 0 .. n - 1, n * q + b = n * r + c
  PROVE  b = c
<1>1. n * (q - r) = c - b
  OBVIOUS
<1>2. CASE q - r >= 1
  <2>1. n * (q - r) >= n
    BY <1>2
  <2>2. QED
    BY <1>1, <2>1
<1>3. CASE q - r <= -1
  <2>1. n * (q - r) <= -n
    BY <1>3
  <2>2. QED
    BY <1>1, <2>1
<1>4. CASE q - r = 0
  BY <1>1, <1>4
<1>5. QED
  BY <1>2, <1>3, <1>4

(* What is left over a multiple.                                           *)
LEMMA ModAdd ==
  ASSUME NEW n \in Nat, n > 0, NEW a \in Nat, NEW b \in 0 .. n - 1, a % n = 0
  PROVE  (a + b) % n = b
<1>1. a = n * (a \div n) + 0 /\ a \div n \in Nat
  BY DivMod
<1>2. /\ a + b = n * ((a + b) \div n) + ((a + b) % n)
      /\ (a + b) % n \in 0 .. n - 1 /\ (a + b) \div n \in Nat
  BY DivMod
<1>3. QED
  BY <1>1, <1>2, OneRemainder

(* The multiple below a number.                                            *)
LEMMA ModFloor ==
  ASSUME NEW n \in Nat, n > 0, NEW a \in Nat
  PROVE  (a - (a % n)) % n = 0 /\ a - (a % n) \in 0 .. a
<1> DEFINE b == a - (a % n)
<1>1. a = n * (a \div n) + (a % n) /\ a \div n \in Nat /\ a % n \in 0 .. n - 1
  BY DivMod
<1>2. n * (a \div n) >= 0
  BY <1>1
<1>3. b \in 0 .. a /\ b = n * (a \div n) + 0
  BY <1>1, <1>2
<1> HIDE DEF b
<1>4. b = n * (b \div n) + (b % n) /\ b \div n \in Nat /\ b % n \in 0 .. n - 1
  BY <1>3, DivMod
<1>5. b % n = 0
  BY <1>1, <1>3, <1>4, OneRemainder
<1>6. QED
  BY <1>3, <1>5 DEF b

(* Multiples add up to one.                                                *)
LEMMA ModSum ==
  ASSUME NEW n \in Nat, n > 0, NEW a \in Nat, NEW b \in Nat, a % n = 0, b % n = 0
  PROVE  (a + b) % n = 0
<1>1. a = n * (a \div n) /\ a \div n \in Nat /\ b = n * (b \div n) /\ b \div n \in Nat
  BY DivMod
<1>2. a + b = n * ((a \div n) + (b \div n)) + 0
  BY <1>1
<1>3. /\ a + b = n * ((a + b) \div n) + ((a + b) % n)
      /\ (a + b) % n \in 0 .. n - 1 /\ (a + b) \div n \in Nat
  BY DivMod
<1>4. (a \div n) + (b \div n) \in Int /\ (a + b) \div n \in Int /\ 0 \in 0 .. n - 1
  BY <1>1, <1>3
<1>5. QED
  BY <1>2, <1>3, <1>4, OneRemainder

LEMMA ModSelf ==
  ASSUME NEW n \in Nat, n > 0
  PROVE  n % n = 0
<1>1. n = n * (n \div n) + (n % n) /\ n % n \in 0 .. n - 1 /\ n \div n \in Nat
  BY DivMod
<1>2. n = n * 1 + 0
  OBVIOUS
<1>3. QED
  BY <1>1, <1>2, OneRemainder

-----------------------------------------------------------------------------
(* Windows and mirrors.                                                    *)

LEMMA WindowsType == Half \in Nat /\ Half > 0 /\ Space \in Nat /\ Space > 0 /\ Half < Space
BY SizesAssumption

(* Where an address lies in its window.                                    *)
LEMMA PageOf ==
  ASSUME NEW e \in Entries
  PROVE  /\ e < Space => Page(e) = e
         /\ e >= Space /\ e < 2 * Space => Page(e) = e - Space
         /\ e >= 2 * Space => Page(e) = e - 2 * Space
         /\ Page(e) \in Pages
<1>1. Space % Space = 0 /\ (Space + Space) % Space = 0 /\ 0 % Space = 0
  BY WindowsType, ModSelf, ModSum
<1>2. CASE e < Space
  <2>1. (0 + e) % Space = e
    BY <1>1, <1>2, WindowsType, ModAdd DEF Entries
  <2>2. QED
    BY <1>2, <2>1, WindowsType DEF Page, Pages, Entries
<1>3. CASE e >= Space /\ e < 2 * Space
  <2>1. (Space + (e - Space)) % Space = e - Space
    BY <1>1, <1>3, WindowsType, ModAdd DEF Entries
  <2>2. QED
    BY <1>3, <2>1, WindowsType DEF Page, Pages, Entries
<1>4. CASE e >= 2 * Space
  <2>1. ((Space + Space) + (e - 2 * Space)) % Space = e - 2 * Space
    BY <1>1, <1>4, WindowsType, ModAdd DEF Entries
  <2>2. QED
    BY <1>4, <2>1, WindowsType DEF Page, Pages, Entries
<1>5. QED
  BY <1>2, <1>3, <1>4, WindowsType DEF Entries

(* The mirrors of a page, each in its window.                              *)
LEMMA MirrorsIn ==
  ASSUME NEW size \in 1 .. Space, NEW p \in 0 .. size - 1, NEW e \in Mirrors(p, size)
  PROVE  \E w \in {0, Space, 2 * Space}, m \in Nat : m % size = 0 /\ e = w + p + m
<1>1. CASE \E w \in {0, Space}, m \in Offsets(size, Space) : e = w + p + m
  BY <1>1, WindowsType DEF Offsets
<1>2. CASE \E m \in Offsets(size, Half) : e = 2 * Space + p + m
  <2>1. PICK m \in Offsets(size, Half) : e = 2 * Space + p + m
    BY <1>2
  <2>2. m \in Nat /\ m % size = 0
    BY <2>1, WindowsType DEF Offsets
  <2>3. QED
    BY <2>1, <2>2
<1>3. QED
  BY <1>1, <1>2 DEF Mirrors

(* A page of the ROM is a mirror of itself.                                *)
LEMMA OwnMirror ==
  ASSUME NEW size \in 1 .. Space, NEW e \in Entries, Page(e) < size
  PROVE  e \in Mirrors(Page(e), size)
<1>1. 0 \in Offsets(size, Space) /\ 0 \in Offsets(size, Half)
  BY WindowsType, ModSum, ModFloor DEF Offsets
<1>2. QED
  BY <1>1, PageOf, WindowsType DEF Mirrors, Entries, Pages

(* Where the windows mirror each other, an address has one page.           *)
LEMMA MirrorPage ==
  ASSUME NEW e \in Entries, NEW size \in 1 .. Space, e < Space \/ Space % size = 0,
         NEW p \in 0 .. size - 1, e \in Mirrors(p, size)
  PROVE  p = e % size
<1>0. size \in Nat /\ size > 0
  BY WindowsType
<1>1. PICK w \in {0, Space, 2 * Space}, m \in Nat : m % size = 0 /\ e = w + p + m
  BY MirrorsIn
<1>2. w \in Nat /\ w % size = 0
  <2>1. CASE e < Space
    <3>1. w = 0
      BY <1>1, <2>1, WindowsType
    <3>2. 0 % size = 0
      BY <1>0
    <3>3. QED
      BY <3>1, <3>2
  <2>2. CASE Space % size = 0
    <3>1. (Space + Space) % size = 0
      BY <1>0, <2>2, WindowsType, ModSum
    <3>2. 0 % size = 0 /\ 2 * Space = Space + Space
      BY <1>0, WindowsType
    <3>3. CASE w = 2 * Space
      BY <3>1, <3>2, <3>3, WindowsType
    <3>4. CASE w \in {0, Space}
      BY <2>2, <3>2, <3>4, WindowsType
    <3>5. QED
      BY <1>1, <3>3, <3>4
  <2>3. QED
    BY <2>1, <2>2
<1> DEFINE a == w + m
<1>3. a % size = 0
  BY <1>0, <1>1, <1>2, ModSum
<1>4. a \in Nat /\ a + p = e
  BY <1>1, <1>2
<1> HIDE DEF a
<1>5. (a + p) % size = p
  BY <1>0, <1>3, <1>4, ModAdd
<1>6. QED
  BY <1>4, <1>5

(* A ROM's mirrors leave no hole in the windows.                           *)
LEMMA MirrorsCover ==
  ASSUME NEW size \in 1 .. Space, NEW e \in 0 .. 2 * Space + Half - 1
  PROVE  \E p \in 0 .. size - 1 : e \in Mirrors(p, size)
<1> DEFINE w == IF e < Space THEN 0 ELSE IF e < 2 * Space THEN Space ELSE 2 * Space
           x == e - w
           m == x - (x % size)
<1>1. x \in Nat /\ e = w + x /\ w \in {0, Space, 2 * Space}
      /\ (w = 2 * Space => x < Half) /\ (w # 2 * Space => x < Space)
  BY WindowsType
<1> HIDE DEF w, x
<1>2. m % size = 0 /\ m \in 0 .. x /\ x % size \in 0 .. size - 1
  <2>1. size \in Nat /\ size > 0
    BY WindowsType
  <2>2. QED
    BY <1>1, <2>1, ModFloor, DivMod
<1>3. e = w + (x % size) + m
  BY <1>1, <1>2, WindowsType
<1> HIDE DEF m
<1>4. CASE w = 2 * Space
  <2>1. m \in Offsets(size, Half)
    BY <1>1, <1>2, <1>4, WindowsType DEF Offsets
  <2>2. QED
    BY <1>2, <1>3, <1>4, <2>1 DEF Mirrors
<1>5. CASE w # 2 * Space
  <2>1. m \in Offsets(size, Space)
    BY <1>1, <1>2, <1>5, WindowsType DEF Offsets
  <2>2. w \in {0, Space}
    BY <1>1, <1>5
  <2>3. QED
    BY <1>2, <1>3, <2>1, <2>2 DEF Mirrors
<1>6. QED
  BY <1>4, <1>5

(* Of the pages that have a mirror at an address, one is read last.        *)
LEMMA LastRead ==
  ASSUME NEW size \in 1 .. Space, NEW e \in Entries, NEW n \in 0 .. size,
         NEW P, P = {p \in 0 .. n - 1 : e \in Mirrors(p, size)}, P # {}
  PROVE  \E p \in P : \A q \in P : q <= p
<1>1. \A p \in P : p \in {e % size, (e - Space) % size, (e - 2 * Space) % size}
  <2> SUFFICES ASSUME NEW p \in P
               PROVE  p \in {e % size, (e - Space) % size, (e - 2 * Space) % size}
    OBVIOUS
  <2>1. p \in 0 .. size - 1 /\ e \in Mirrors(p, size)
    OBVIOUS
  <2>2. PICK w \in {0, Space, 2 * Space}, m \in Nat : m % size = 0 /\ e = w + p + m
    BY <2>1, MirrorsIn
  <2>3. (m + p) % size = p
    BY <2>1, <2>2, ModAdd
  <2>4. m + p = e - w /\ (w = 0 => e - w = e)
    BY <2>1, <2>2, WindowsType DEF Entries
  <2>5. QED
    BY <2>2, <2>3, <2>4
<1>2. \A p \in P : p \in Nat
  OBVIOUS
<1>3. PICK p1 \in P : TRUE
  OBVIOUS
<1>4. SUFFICES ASSUME \A p \in P : \E q \in P : q > p
               PROVE  FALSE
  BY <1>2
<1>5. PICK p2 \in P : p2 > p1
  BY <1>4
<1>6. PICK p3 \in P : p3 > p2
  BY <1>4
<1>7. PICK p4 \in P : p4 > p3
  BY <1>4
<1>8. p1 # p2 /\ p1 # p3 /\ p1 # p4 /\ p2 # p3 /\ p2 # p4 /\ p3 # p4
  BY <1>2, <1>5, <1>6, <1>7
<1>9. QED
  BY <1>1, <1>8

(* An entry a ROM's first pages have a mirror at leads to one of them.     *)
LEMMA MapsFirst ==
  ASSUME NEW size \in 1 .. Space, NEW n \in 0 .. size, NEW table, NEW e \in Entries,
         NEW m, m = FirstMapped(table, n, size)[e]
  PROVE  \/ /\ m = table[e]
            /\ ~ \E p \in 0 .. n - 1 : e \in Mirrors(p, size)
         \/ m \in 0 .. n - 1 /\ e \in Mirrors(m, size)
<1> DEFINE at == {p \in 0 .. n - 1 : e \in Mirrors(p, size)}
<1>1. m = IF at = {} THEN table[e] ELSE CHOOSE p \in at : \A q \in at : q <= p
  BY DEF FirstMapped
<1>2. CASE at = {}
  BY <1>1, <1>2
<1>3. CASE at # {}
  <2>1. \E p \in at : \A q \in at : q <= p
    BY <1>3, LastRead
  <2>2. m \in at
    <3> HIDE DEF at
    <3>1. QED
      BY <1>1, <1>3, <2>1
  <2>3. QED
    BY <2>2
<1>4. QED
  BY <1>2, <1>3

-----------------------------------------------------------------------------
(* The inductive invariant.                                                *)

Types ==
  /\ game \in Games \cup {NoGame}
  /\ gamepak_size \in 0 .. Space
  /\ gamepak_buffer_count \in BufferSlots .. MaxSlots
  /\ gamepak_blk_queue \in Seq(Slots)
  /\ phy_rom \in [Slots -> Pages \cup {None}]
  /\ DOMAIN buffer = Slots
  /\ memory_map_read \in [Entries -> Slots \cup {None}]

(* An entry leads to a slot with a page that it is a mirror of, if a load  *)
(* clears it.                                                              *)
MapOK ==
  \A e \in 0 .. ClearedEnd - 1 : memory_map_read[e] # None =>
    LET s == memory_map_read[e] IN
      phy_rom[s] # None /\ e \in Mirrors(phy_rom[s], gamepak_size)

(* All the mirrors of a page that is in the buffer lead to it, if each is  *)
(* the mirror of one page only.                                            *)
MirrorsOK ==
  Space % gamepak_size = 0 =>
    \A s \in Slots : phy_rom[s] # None =>
      \A e \in Entries : e \in Mirrors(phy_rom[s], gamepak_size) => memory_map_read[e] = s

(* A slot with a page holds the running game's.                            *)
SlotsOK ==
  \A s \in Slots : phy_rom[s] # None =>
    /\ phy_rom[s] < gamepak_size
    /\ game # NoGame => buffer[s] = <<game, phy_rom[s]>>

(* A ROM that fits in the buffer is mapped whole, so that its file is not  *)
(* needed any more.                                                        *)
AllMapped ==
  \A e \in Entries :
    Page(e) < gamepak_size \/ e < ClearedEnd => memory_map_read[e] # None

GameOK ==
  game # NoGame =>
    /\ gamepak_size = PagesOf[game]
    /\ gamepak_must_swap => gamepak_file_large = game
    /\ ~gamepak_must_swap => AllMapped
    /\ ~swapping => ~gamepak_must_swap

(* The page the interpreter runs is in its slot, and sticky.               *)
RunsPage ==
  /\ pc \notin {NoPc, InRam} /\ Page(pc.entry) < gamepak_size /\ MirrorsAgree(pc.entry)
  /\ pc.entry < ClearedEnd

PcOK ==
  /\ pc # NoPc => game # NoGame
  /\ pc \notin {NoPc, InRam} => pc.entry \in Entries
  /\ RunsPage =>
       /\ pc.slot \in Slots
       /\ phy_rom[pc.slot] = Page(pc.entry)
       /\ Page(pc.entry) \in gamepak_sticky_bit

GpioOK ==
  written # None =>
    /\ gpio_regs = written
    /\ game # NoGame => game \in WithClock
    /\ memory_map_read[0] # None => words = written

IInv == Types /\ MapOK /\ MirrorsOK /\ SlotsOK /\ GameOK /\ PcOK /\ GpioOK

LEMMA GameSize ==
  ASSUME GameOK, Types, game # NoGame
  PROVE  gamepak_size \in 1 .. Space
BY SizesAssumption DEF GameOK, Types

LEMMA LowEntries == ClearedEnd \in Int /\ \A e \in 0 .. ClearedEnd - 1 : e \in Entries /\ e < ClearedEnd
BY WindowsType DEF Entries, ClearedEnd

LEMMA NoneIsApart == None \notin Slots /\ None \notin Pages /\ None \notin Entries
BY NoneAssumption, WindowsType, SlotsAssumption DEF Slots, Pages, Entries

LEMMA InitCorrect == Init => IInv
<1> SUFFICES ASSUME Init PROVE IInv
  OBVIOUS
<1>1. Types
  <2>1. \A i \in 1 .. BufferSlots : i - 1 \in Slots
    BY SlotsAssumption DEF Slots
  <2>2. gamepak_blk_queue \in Seq(Slots)
    BY <2>1, SlotsAssumption DEF Init
  <2>3. QED
    BY <2>2, SlotsAssumption, WindowsType DEF Init, Types
<1>2. MapOK /\ MirrorsOK /\ SlotsOK /\ GameOK /\ GpioOK
  BY WindowsType, LowEntries DEF Init, MapOK, MirrorsOK, SlotsOK, GameOK, GpioOK
<1>3. PcOK
  BY DEF Init, PcOK, RunsPage
<1>4. QED
  BY <1>1, <1>2, <1>3 DEF IInv

-----------------------------------------------------------------------------
(* Loading a page.                                                         *)

LEMMA RotatedType ==
  ASSUME NEW S, NEW q \in Seq(S), NEW i \in 1 .. Len(q)
  PROVE  Rotated(q, i) \in Seq(S)
<1>1. SubSeq(q, i + 1, Len(q)) \in Seq(S) /\ SubSeq(q, 1, i) \in Seq(S)
  <2>1. Len(q) \in Nat /\ \A j \in 1 .. Len(q) : q[j] \in S
    OBVIOUS
  <2>2. \A j \in i + 1 .. Len(q) : q[j] \in S
    BY <2>1
  <2>3. \A j \in 1 .. i : q[j] \in S
    BY <2>1
  <2>4. QED
    BY <2>1, <2>2, <2>3, SubSeqProperties
<1>2. QED
  BY <1>1, ConcatProperties DEF Rotated

(* A load happens only while the game's file is there to read, takes no    *)
(* sticky slot, and leaves every slot and entry with its own page.         *)
LEMMA LoadsPage ==
  ASSUME IInv, game # NoGame, NEW entry \in Entries, Page(entry) < gamepak_size,
         memory_map_read[entry] = None, NEW sticky,
         load_gamepak_page(Page(entry), sticky), UNCHANGED rom
  PROVE  /\ Types' /\ MapOK' /\ MirrorsOK' /\ SlotsOK' /\ gamepak_must_swap
         /\ \A s \in Slots : phy_rom[s] # None /\ phy_rom[s] \in sticky => phy_rom'[s] = phy_rom[s]
         /\ memory_map_read'[entry] \in Slots
         /\ phy_rom'[memory_map_read'[entry]] = Page(entry)
         /\ words' = LoadedWords(Page(entry))
         /\ Page(entry) # 0 => memory_map_read'[0] \in {None, memory_map_read[0]}
<1> DEFINE page == Page(entry)
<1>1. gamepak_must_swap /\ gamepak_file_large = game
  BY DEF IInv, GameOK, AllMapped
<1>2. page \in Pages /\ page \in 0 .. gamepak_size - 1 /\ page # None
  BY PageOf, NoneIsApart DEF Pages, IInv, Types
<1>3. entry \in Mirrors(page, gamepak_size)
  BY OwnMirror, GameSize DEF IInv
<1> HIDE DEF page
<1>4. PICK i \in 1 .. Len(gamepak_blk_queue) :
        LET s == gamepak_blk_queue[i] IN
          /\ Evicts(i, sticky)
          /\ gamepak_blk_queue' = Rotated(gamepak_blk_queue, i)
          /\ memory_map_read' = Mapped(Unmapped(s), page, gamepak_size, s)
          /\ phy_rom' = [phy_rom EXCEPT ![s] = page]
          /\ buffer' = [buffer EXCEPT ![s] = FilePage(page)]
          /\ words' = LoadedWords(page)
  BY DEF load_gamepak_page, page
<1> DEFINE slot == gamepak_blk_queue[i]
<1>5. slot \in Slots
  BY DEF IInv, Types
<1>6. ~IsSticky(slot, sticky)
  BY <1>4 DEF Evicts
<1>7. /\ phy_rom' = [phy_rom EXCEPT ![slot] = page]
      /\ buffer' = [buffer EXCEPT ![slot] = FilePage(page)]
      /\ memory_map_read' = Mapped(Unmapped(slot), page, gamepak_size, slot)
      /\ words' = LoadedWords(page)
  BY <1>4
<1>8. gamepak_blk_queue' \in Seq(Slots)
  BY <1>4, RotatedType DEF IInv, Types
<1> HIDE DEF slot
<1>9. \A e \in Entries :
        memory_map_read'[e] = IF e \in Mirrors(page, gamepak_size) THEN slot
                              ELSE IF phy_rom[slot] # None /\ e \in Mirrors(phy_rom[slot], gamepak_size)
                                   THEN None ELSE memory_map_read[e]
  <2>1. CASE phy_rom[slot] = None
    BY <1>7, <2>1 DEF Mapped, Unmapped
  <2>2. CASE phy_rom[slot] # None
    BY <1>7, <2>2 DEF Mapped, Unmapped
  <2>3. QED
    BY <2>1, <2>2
<1>10. \A s \in Slots : phy_rom'[s] = IF s = slot THEN page ELSE phy_rom[s]
  BY <1>7 DEF IInv, Types
<1>11. UNCHANGED <<game, gamepak_size, gamepak_buffer_count, gamepak_file_large>>
  BY DEF rom
<1>12. Types'
  <2>1. phy_rom' \in [Slots -> Pages \cup {None}]
    BY <1>2, <1>5, <1>7 DEF IInv, Types
  <2>2. memory_map_read' \in [Entries -> Slots \cup {None}]
    <3>1. memory_map_read' = [e \in Entries |-> memory_map_read'[e]]
      BY <1>7 DEF Mapped
    <3>2. \A e \in Entries : memory_map_read'[e] \in Slots \cup {None}
      BY <1>5, <1>9 DEF IInv, Types
    <3>3. QED
      BY <3>1, <3>2
  <2>3. DOMAIN buffer' = Slots
    BY <1>7 DEF IInv, Types
  <2>4. QED
    BY <1>8, <1>11, <2>1, <2>2, <2>3 DEF IInv, Types
<1>13. MapOK'
  <2> SUFFICES ASSUME NEW e \in 0 .. ClearedEnd - 1, memory_map_read'[e] # None
               PROVE  /\ phy_rom'[memory_map_read'[e]] # None
                      /\ e \in Mirrors(phy_rom'[memory_map_read'[e]], gamepak_size)
    BY <1>11 DEF MapOK
  <2>0. e \in Entries
    BY LowEntries
  <2>1. CASE e \in Mirrors(page, gamepak_size)
    BY <1>2, <1>5, <1>9, <1>10, <2>0, <2>1
  <2>2. CASE e \notin Mirrors(page, gamepak_size)
    <3>1. memory_map_read'[e] = memory_map_read[e]
      BY <1>9, <2>0, <2>2
    <3>2. memory_map_read[e] \in Slots
      BY <2>0, <3>1 DEF IInv, Types
    <3>3. /\ phy_rom[memory_map_read[e]] # None
          /\ e \in Mirrors(phy_rom[memory_map_read[e]], gamepak_size)
      BY <3>1 DEF IInv, MapOK
    <3>4. memory_map_read[e] # slot
      BY <1>9, <2>0, <2>2, <3>1, <3>3
    <3>5. QED
      BY <1>10, <3>1, <3>2, <3>3, <3>4
  <2>3. QED
    BY <2>1, <2>2
<1>19. MirrorsOK'
  <2> SUFFICES ASSUME Space % gamepak_size = 0, NEW s \in Slots, phy_rom'[s] # None,
                      NEW e \in Entries, e \in Mirrors(phy_rom'[s], gamepak_size)
               PROVE  memory_map_read'[e] = s
    BY <1>11 DEF MirrorsOK
  <2>0. gamepak_size \in 1 .. Space
    BY GameSize DEF IInv
  <2>1. CASE s = slot
    BY <1>9, <1>10, <2>1
  <2>2. CASE s # slot
    <3>1. phy_rom'[s] = phy_rom[s]
      BY <1>10, <2>2
    <3>2. phy_rom[s] \in 0 .. gamepak_size - 1
      BY <2>0, <3>1, WindowsType DEF IInv, Types, SlotsOK, Pages
    <3>3. memory_map_read[e] = s /\ (entry \in Mirrors(phy_rom[s], gamepak_size) =>
                                       memory_map_read[entry] = s)
      BY <3>1 DEF IInv, MirrorsOK
    <3>4. e \notin Mirrors(page, gamepak_size)
      <4>1. SUFFICES ASSUME e \in Mirrors(page, gamepak_size) PROVE FALSE
        OBVIOUS
      <4>2. page = e % gamepak_size /\ phy_rom[s] = e % gamepak_size
        BY <1>2, <2>0, <3>1, <3>2, <4>1, MirrorPage
      <4>3. memory_map_read[entry] = s
        BY <1>3, <3>3, <4>2
      <4>4. QED
        BY <4>3, NoneIsApart
    <3>5. ~(phy_rom[slot] # None /\ e \in Mirrors(phy_rom[slot], gamepak_size))
      BY <1>5, <2>2, <3>3 DEF IInv, MirrorsOK
    <3>6. QED
      BY <1>9, <3>3, <3>4, <3>5
  <2>3. QED
    BY <2>1, <2>2
<1>14. SlotsOK'
  <2>1. FilePage(page) = <<game, page>>
    BY <1>1, GamesAssumption DEF FilePage, IInv, Types
  <2>2. \A s \in Slots : buffer'[s] = IF s = slot THEN <<game, page>> ELSE buffer[s]
    BY <1>7, <2>1 DEF IInv, Types
  <2> SUFFICES ASSUME NEW s \in Slots, phy_rom'[s] # None
               PROVE  /\ phy_rom'[s] < gamepak_size
                      /\ buffer'[s] = <<game, phy_rom'[s]>>
    BY <1>11 DEF SlotsOK
  <2>3. CASE s = slot
    <3>1. phy_rom'[s] = page /\ buffer'[s] = <<game, page>>
      BY <1>10, <2>2, <2>3
    <3>2. page < gamepak_size
      BY <1>2 DEF IInv, Types
    <3>3. QED
      BY <3>1, <3>2
  <2>4. CASE s # slot
    <3>1. phy_rom'[s] = phy_rom[s] /\ buffer'[s] = buffer[s]
      BY <1>10, <2>2, <2>4
    <3>2. QED
      BY <3>1 DEF IInv, SlotsOK
  <2>5. QED
    BY <2>3, <2>4
<1>15. \A s \in Slots : phy_rom[s] # None /\ phy_rom[s] \in sticky => phy_rom'[s] = phy_rom[s]
  BY <1>6, <1>10 DEF IsSticky
<1>16. memory_map_read'[entry] = slot
  BY <1>3, <1>9
<1>17. page # 0 => memory_map_read'[0] \in {None, memory_map_read[0]}
  <2> SUFFICES ASSUME page # 0
               PROVE  memory_map_read'[0] \in {None, memory_map_read[0]}
    OBVIOUS
  <2>1. 0 \notin Mirrors(page, gamepak_size)
    <3>1. ~ \E w \in {0, Space, 2 * Space}, m \in Nat : m % gamepak_size = 0 /\ 0 = w + page + m
      BY <1>2, WindowsType
    <3>2. gamepak_size \in 1 .. Space
      BY GameSize DEF IInv
    <3>3. QED
      BY <1>2, <3>1, <3>2, MirrorsIn
  <2>2. 0 \in Entries
    BY WindowsType DEF Entries
  <2>3. QED
    BY <1>9, <2>1, <2>2
<1>18. QED
  BY <1>1, <1>5, <1>7, <1>10, <1>12, <1>13, <1>14, <1>15, <1>16, <1>17, <1>19 DEF page
(* What a load leaves of the rest of the invariant.                        *)
LEMMA LoadKeepsGame ==
  ASSUME IInv, game # NoGame, NEW entry \in Entries, Page(entry) < gamepak_size,
         memory_map_read[entry] = None, NEW sticky,
         load_gamepak_page(Page(entry), sticky),
         UNCHANGED <<rom, swapping, gpio_regs, written>>
  PROVE  GameOK' /\ GpioOK'
<1>1. /\ gamepak_must_swap
      /\ words' = LoadedWords(Page(entry))
      /\ Page(entry) # 0 => memory_map_read'[0] \in {None, memory_map_read[0]}
  BY LoadsPage
<1>2. UNCHANGED <<game, gamepak_size, gamepak_buffer_count, gamepak_file_large>>
  BY DEF rom
<1>3. GameOK'
  BY <1>1, <1>2 DEF IInv, GameOK, gamepak_must_swap
<1>4. GpioOK'
  <2>1. CASE Page(entry) = 0
    BY <1>1, <1>2, <2>1 DEF IInv, GpioOK, LoadedWords
  <2>2. CASE Page(entry) # 0
    BY <1>1, <1>2, <2>2 DEF IInv, GpioOK, LoadedWords
  <2>3. QED
    BY <2>1, <2>2
<1>5. QED
  BY <1>3, <1>4

LEMMA ReadsUnmapped ==
  ASSUME IInv, NEW entry \in Entries, ReadUnmapped(entry)
  PROVE  IInv'
<1>1. /\ game # NoGame /\ Page(entry) < gamepak_size /\ memory_map_read[entry] = None
      /\ load_gamepak_page(Page(entry), gamepak_sticky_bit)
      /\ UNCHANGED <<rom, swapping, gpio_regs, written>>
      /\ UNCHANGED <<gamepak_sticky_bit, pc>>
  BY DEF ReadUnmapped
<1>2. /\ Types' /\ MapOK' /\ MirrorsOK' /\ SlotsOK'
      /\ \A s \in Slots : phy_rom[s] # None /\ phy_rom[s] \in gamepak_sticky_bit =>
           phy_rom'[s] = phy_rom[s]
  BY <1>1, LoadsPage
<1>3. GameOK' /\ GpioOK'
  BY <1>1, LoadKeepsGame
<1>4. PcOK'
  <2>1. RunsPage' => RunsPage
    BY <1>1 DEF RunsPage, MirrorsAgree, rom
  <2>2. pc.entry \in Entries => Page(pc.entry) # None
    BY PageOf, NoneIsApart
  <2>3. pc \notin {NoPc, InRam} => pc.entry \in Entries
    BY DEF IInv, PcOK
  <2>4. RunsPage' => phy_rom'[pc.slot] = Page(pc.entry)
    BY <1>2, <2>1, <2>2, <2>3 DEF IInv, PcOK, RunsPage
  <2>5. QED
    BY <1>1, <2>1, <2>3, <2>4 DEF IInv, PcOK, rom
<1>5. QED
  BY <1>2, <1>3, <1>4 DEF IInv

(* The interpreter goes to a page: the one it fetches from is sticky.      *)
LEMMA FetchesPage ==
  ASSUME IInv, game # NoGame, NEW entry \in Entries, NEW sticky, Fetches(entry, sticky),
         UNCHANGED <<rom, swapping, gpio_regs, written>>,
         Page(entry) \in gamepak_sticky_bit'
  PROVE  IInv'
<1>1. UNCHANGED <<game, gamepak_size, gamepak_buffer_count, gamepak_file_large>>
  BY DEF rom
<1>2. pc'.entry = entry
  BY DEF Fetches
<1>3. gamepak_size \in 1 .. Space
  BY GameSize DEF IInv
<1>4. CASE memory_map_read[entry] = None /\ Page(entry) < gamepak_size
  <2>0. Page(entry) \in Int /\ gamepak_size \in Int
    BY <1>3, PageOf, WindowsType DEF Pages
  <2>1. load_gamepak_page(Page(entry), sticky) /\ pc' = [entry |-> entry, slot |-> memory_map_read'[entry]]
    BY <1>4, <2>0 DEF Fetches
  <2>2. /\ Types' /\ MapOK' /\ MirrorsOK' /\ SlotsOK'
        /\ memory_map_read'[entry] \in Slots
        /\ phy_rom'[memory_map_read'[entry]] = Page(entry)
    BY <1>4, <2>1, LoadsPage
  <2>3. GameOK' /\ GpioOK'
    BY <1>4, <2>1, LoadKeepsGame
  <2>4. PcOK'
    BY <1>1, <1>2, <2>1, <2>2 DEF PcOK
  <2>5. QED
    BY <2>2, <2>3, <2>4 DEF IInv
<1>5. CASE memory_map_read[entry] # None \/ Page(entry) >= gamepak_size
  <2>1. UNCHANGED <<queue, words>>
    BY <1>3, <1>5, PageOf DEF Fetches, Pages
  <2>2. UNCHANGED <<gamepak_blk_queue, phy_rom, buffer, memory_map_read>>
    BY <2>1 DEF queue
  <2>3. Types' /\ MapOK' /\ MirrorsOK' /\ SlotsOK' /\ GameOK' /\ GpioOK'
    BY <1>1, <2>1, <2>2 DEF IInv, Types, MapOK, MirrorsOK, SlotsOK, GameOK, AllMapped, GpioOK, gamepak_must_swap
  <2>4. PcOK'
    <3>1. ASSUME Page(entry) < gamepak_size, MirrorsAgree(entry), entry < ClearedEnd
          PROVE  pc'.slot \in Slots /\ phy_rom'[pc'.slot] = Page(entry)
      <4>1. memory_map_read[entry] # None /\ pc'.slot = memory_map_read[entry]
        BY <1>3, <1>5, <3>1, PageOf DEF Fetches, Pages
      <4> DEFINE s == memory_map_read[entry]
      <4>2. s \in Slots
        BY <4>1 DEF IInv, Types
      <4>3. phy_rom[s] \in 0 .. gamepak_size - 1 /\ entry \in Mirrors(phy_rom[s], gamepak_size)
        <5>1. phy_rom[s] # None /\ entry \in Mirrors(phy_rom[s], gamepak_size)
          BY <3>1, <4>1, LowEntries DEF IInv, MapOK, Entries
        <5>2. phy_rom[s] \in Pages /\ phy_rom[s] < gamepak_size
          BY <4>2, <5>1 DEF IInv, Types, SlotsOK
        <5>3. QED
          BY <1>3, <5>1, <5>2, WindowsType DEF Pages
      <4>4. phy_rom[s] = entry % gamepak_size
        BY <1>3, <3>1, <4>3, MirrorPage DEF MirrorsAgree
      <4>5. Page(entry) \in 0 .. gamepak_size - 1 /\ entry \in Mirrors(Page(entry), gamepak_size)
        BY <1>3, <3>1, PageOf, OwnMirror, WindowsType DEF Pages
      <4>6. Page(entry) = entry % gamepak_size
        BY <1>3, <3>1, <4>5, MirrorPage DEF MirrorsAgree
      <4>7. QED
        BY <2>2, <4>1, <4>2, <4>4, <4>6
    <3>2. RunsPage' => Page(entry) < gamepak_size /\ MirrorsAgree(entry) /\ entry < ClearedEnd
      BY <1>1, <1>2 DEF RunsPage, MirrorsAgree
    <3>3. QED
      BY <1>1, <1>2, <3>1, <3>2 DEF PcOK
  <2>5. QED
    BY <2>3, <2>4 DEF IInv
<1>6. QED
  <2>1. Page(entry) < gamepak_size \/ Page(entry) >= gamepak_size
    BY <1>3, PageOf, WindowsType DEF Pages
  <2>2. QED
    BY <1>4, <1>5, <2>1

(* Steps of the game that leave the pages where they are.                  *)
LEMMA RunsOn ==
  ASSUME IInv, \/ \E p \in Pages : RunRam(p)
               \/ EndFrame
               \/ \E v \in GpioValues : write_gpio(v)
  PROVE  IInv'
<1>1. UNCHANGED <<game, gamepak_size, gamepak_buffer_count, gamepak_file_large, swapping,
                  gamepak_blk_queue, phy_rom, buffer, memory_map_read>>
  BY DEF RunRam, EndFrame, write_gpio, rom, queue
<1>2. Types' /\ MapOK' /\ MirrorsOK' /\ SlotsOK' /\ GameOK'
  BY <1>1 DEF IInv, Types, MapOK, MirrorsOK, SlotsOK, GameOK, AllMapped, gamepak_must_swap
<1>3. PcOK'
  <2>1. CASE \E p \in Pages : RunRam(p)
    BY <1>1, <2>1 DEF RunRam, PcOK, RunsPage
  <2>2. CASE EndFrame
    BY <1>1, <2>2 DEF EndFrame, PcOK, RunsPage
  <2>3. CASE \E v \in GpioValues : write_gpio(v)
    BY <1>1, <2>3 DEF write_gpio, IInv, PcOK, RunsPage, MirrorsAgree
  <2>4. QED
    BY <2>1, <2>2, <2>3
<1>4. GpioOK'
  <2>1. CASE (\E p \in Pages : RunRam(p)) \/ EndFrame
    BY <1>1, <2>1 DEF RunRam, EndFrame, IInv, GpioOK
  <2>2. CASE \E v \in GpioValues : write_gpio(v)
    BY <1>1, <2>2 DEF write_gpio, GpioOK
  <2>3. QED
    BY <2>1, <2>2
<1>5. QED
  BY <1>2, <1>3, <1>4 DEF IInv

LEMMA Runs ==
  ASSUME IInv, Run
  PROVE  IInv'
<1>1. ASSUME NEW e \in Entries, ReadUnmapped(e) PROVE IInv'
  BY <1>1, ReadsUnmapped
<1>2. ASSUME NEW e \in Entries, StartFrame(e) PROVE IInv'
  <2>1. /\ game # NoGame /\ Fetches(e, {}) /\ Page(e) \in gamepak_sticky_bit'
        /\ UNCHANGED <<rom, swapping, gpio_regs, written>>
    BY <1>2 DEF StartFrame
  <2>2. QED
    BY <2>1, FetchesPage
<1>3. ASSUME NEW e \in Entries, NextPage(e) PROVE IInv'
  <2>1. /\ pc # NoPc /\ Fetches(e, gamepak_sticky_bit') /\ Page(e) \in gamepak_sticky_bit'
        /\ UNCHANGED <<rom, swapping, gpio_regs, written>>
    BY <1>3 DEF NextPage
  <2>2. game # NoGame
    BY <2>1 DEF IInv, PcOK
  <2>3. QED
    BY <2>1, <2>2, FetchesPage
<1>4. QED
  BY <1>1, <1>2, <1>3, RunsOn DEF Run

-----------------------------------------------------------------------------
(* A new ROM.                                                              *)

(* Its pages are mapped at all of their mirrors, if there are slots for    *)
(* all of them.                                                            *)
LEMMA ReadsPages ==
  ASSUME NEW g \in Games, NEW slots \in BufferSlots .. MaxSlots, DOMAIN buffer = Slots,
         memory_map_read \in [Entries -> Slots \cup {None}],
         ReadPages(g, slots), gamepak_size' = PagesOf[g], game' = g
  PROVE  /\ gamepak_blk_queue' \in Seq(Slots)
         /\ phy_rom' \in [Slots -> Pages \cup {None}]
         /\ DOMAIN buffer' = Slots
         /\ memory_map_read' \in [Entries -> Slots \cup {None}]
         /\ MapOK' /\ MirrorsOK' /\ SlotsOK'
         /\ slots >= PagesOf[g] => AllMapped'
<1> DEFINE size == PagesOf[g]
           n == IF size < slots THEN size ELSE slots
<1>1. size \in 1 .. Space
  BY SizesAssumption
<1>2. /\ gamepak_blk_queue' = Rotated([i \in 1 .. slots |-> i - 1], n)
      /\ phy_rom' = [s \in Slots |-> IF s < n THEN s ELSE None]
      /\ buffer' = [s \in Slots |-> IF s < n THEN <<g, s>> ELSE buffer[s]]
      /\ memory_map_read' = FirstMapped(Cleared(memory_map_read), n, size)
  BY DEF ReadPages
<1> HIDE DEF size
<1>3. slots \in Nat /\ slots > 0 /\ slots <= MaxSlots /\ MaxSlots \in Nat
  BY SlotsAssumption
<1>4. n \in 1 .. slots /\ n \in 0 .. size /\ n \in Nat /\ (slots >= size => n = size)
  BY <1>1, <1>3, WindowsType
<1> HIDE DEF n
<1>5. \A p \in 0 .. n - 1 : p \in Slots /\ p \in Pages /\ p < size /\ p # None
  BY <1>1, <1>3, <1>4, WindowsType, NoneAssumption DEF Slots, Pages
<1>6. gamepak_blk_queue' \in Seq(Slots)
  <2> DEFINE all == [i \in 1 .. slots |-> i - 1]
  <2>1. \A i \in 1 .. slots : i - 1 \in Slots
    BY <1>3 DEF Slots
  <2>2. all \in Seq(Slots) /\ Len(all) = slots
    BY <1>3, <2>1
  <2>3. gamepak_blk_queue' = Rotated(all, n)
    BY <1>2
  <2> HIDE DEF all
  <2>4. QED
    BY <1>4, <2>2, <2>3, RotatedType
<1>7. \A s \in Slots : phy_rom'[s] = IF s < n THEN s ELSE None
  BY <1>2
<1>8. \A s \in Slots : s < n => s \in 0 .. n - 1
  BY <1>3, <1>4 DEF Slots
<1>9. phy_rom' \in [Slots -> Pages \cup {None}]
  BY <1>2, <1>5, <1>8
<1>10. \A e \in Entries :
         \/ /\ memory_map_read'[e] = IF e < ClearedEnd THEN None ELSE memory_map_read[e]
            /\ ~ \E p \in 0 .. n - 1 : e \in Mirrors(p, size)
         \/ memory_map_read'[e] \in 0 .. n - 1 /\ e \in Mirrors(memory_map_read'[e], size)
  <2> SUFFICES ASSUME NEW e \in Entries
               PROVE  \/ /\ memory_map_read'[e] = Cleared(memory_map_read)[e]
                         /\ ~ \E p \in 0 .. n - 1 : e \in Mirrors(p, size)
                      \/ /\ memory_map_read'[e] \in 0 .. n - 1
                         /\ e \in Mirrors(memory_map_read'[e], size)
    BY DEF Cleared
  <2> QED
    BY <1>1, <1>2, <1>4, MapsFirst
<1>13. memory_map_read' \in [Entries -> Slots \cup {None}]
  <2>1. memory_map_read' = [e \in Entries |-> memory_map_read'[e]]
    BY <1>2 DEF FirstMapped
  <2>2. \A e \in Entries : memory_map_read'[e] \in Slots \cup {None}
    BY <1>5, <1>10
  <2>3. QED
    BY <2>1, <2>2
<1>14. MapOK' /\ MirrorsOK'
  <2>1. MapOK'
    <3> SUFFICES ASSUME NEW e \in 0 .. ClearedEnd - 1, memory_map_read'[e] # None
                 PROVE  /\ phy_rom'[memory_map_read'[e]] # None
                        /\ e \in Mirrors(phy_rom'[memory_map_read'[e]], size)
      BY DEF MapOK, size
    <3>1. e \in Entries /\ e < ClearedEnd
      BY LowEntries
    <3>3. memory_map_read'[e] \in 0 .. n - 1 /\ e \in Mirrors(memory_map_read'[e], size)
      BY <1>10, <3>1
    <3>4. phy_rom'[memory_map_read'[e]] = memory_map_read'[e]
      BY <1>4, <1>5, <1>7, <3>3
    <3>5. QED
      BY <1>5, <3>3, <3>4
  <2>2. MirrorsOK'
    <3> SUFFICES ASSUME Space % size = 0, NEW s \in Slots, phy_rom'[s] # None,
                        NEW e \in Entries, e \in Mirrors(phy_rom'[s], size)
                 PROVE  memory_map_read'[e] = s
      BY DEF MirrorsOK, size
    <3>1. s \in 0 .. n - 1 /\ phy_rom'[s] = s
      BY <1>7, <1>8
    <3>2. memory_map_read'[e] \in 0 .. n - 1 /\ e \in Mirrors(memory_map_read'[e], size)
      BY <1>10, <3>1
    <3>3. \A p \in 0 .. n - 1 : e \in Mirrors(p, size) => p = e % size
      <4> SUFFICES ASSUME NEW p \in 0 .. n - 1, e \in Mirrors(p, size)
                   PROVE  p = e % size
        OBVIOUS
      <4>1. p \in 0 .. size - 1
        BY <1>1, <1>4, WindowsType
      <4>2. QED
        BY <1>1, <4>1, MirrorPage
    <3>4. s \in 0 .. n - 1 /\ e \in Mirrors(s, size)
      BY <3>1
    <3>5. QED
      BY <3>2, <3>3, <3>4
  <2>3. QED
    BY <2>1, <2>2
<1>15. SlotsOK'
  <2> SUFFICES ASSUME NEW s \in Slots, phy_rom'[s] # None
               PROVE  phy_rom'[s] < size /\ buffer'[s] = <<g, phy_rom'[s]>>
    BY DEF SlotsOK, size
  <2>1. s < n
    BY <1>7
  <2>2. QED
    BY <1>2, <1>5, <1>7, <1>8, <2>1
<1>16. ASSUME slots >= size
       PROVE  AllMapped'
  <2>1. n = size
    BY <1>4, <1>16
  <2> SUFFICES ASSUME NEW e \in Entries, Page(e) < size \/ e < ClearedEnd
               PROVE  memory_map_read'[e] # None
    BY DEF AllMapped, Page, size
  <2>2. \E p \in 0 .. n - 1 : e \in Mirrors(p, size)
    <3>1. CASE Page(e) < size
      BY <1>1, <2>1, <3>1, OwnMirror, PageOf, WindowsType DEF Pages
    <3>2. CASE e < ClearedEnd
      <4>1. e \in 0 .. 2 * Space + Half - 1
        BY <3>2, WindowsType DEF Entries, ClearedEnd
      <4>2. QED
        BY <1>1, <2>1, <4>1, MirrorsCover
    <3>3. QED
      BY <3>1, <3>2
  <2>3. memory_map_read'[e] \in 0 .. n - 1
    BY <1>10, <2>2
  <2>4. QED
    BY <1>5, <2>3
<1>17. DOMAIN buffer' = Slots
  BY <1>2
<1>18. QED
  BY <1>6, <1>9, <1>13, <1>14, <1>15, <1>16, <1>17 DEF size

LEMMA LoadsGame ==
  ASSUME IInv, NEW g \in Games, NEW slots \in BufferSlots .. MaxSlots, ReadPages(g, slots),
         game' = g, gamepak_size' = PagesOf[g], gamepak_buffer_count' = slots,
         gamepak_file_large' = g \/ slots >= PagesOf[g],
         pc = NoPc, UNCHANGED pc, Reset
  PROVE  IInv'
<1>1. /\ gamepak_blk_queue' \in Seq(Slots)
      /\ phy_rom' \in [Slots -> Pages \cup {None}]
      /\ DOMAIN buffer' = Slots
      /\ memory_map_read' \in [Entries -> Slots \cup {None}]
      /\ MapOK' /\ MirrorsOK' /\ SlotsOK'
      /\ slots >= PagesOf[g] => AllMapped'
  BY ReadsPages DEF IInv, Types
<1>2. PagesOf[g] \in 1 .. Space /\ PagesOf[g] \in Nat /\ slots \in Nat
  BY SizesAssumption, SlotsAssumption, WindowsType
<1>3. Types'
  BY <1>1, <1>2 DEF Types
<1>4. GameOK'
  <2>1. swapping' = (slots < PagesOf[g])
    BY DEF Reset
  <2>2. ~swapping' => ~(slots < PagesOf[g])
    BY <2>1
  <2>3. gamepak_must_swap' = (slots < PagesOf[g])
    BY DEF gamepak_must_swap
  <2>a. ~(slots < PagesOf[g]) => slots >= PagesOf[g]
    BY <1>2
  <2>b. slots < PagesOf[g] => ~(slots >= PagesOf[g])
    BY <1>2
  <2>4. ~gamepak_must_swap' => slots >= PagesOf[g]
    BY <2>3, <2>a, Zenon
  <2>5. gamepak_must_swap' => ~(slots >= PagesOf[g])
    BY <2>3, <2>b, Zenon
  <2>6. QED
    BY <1>1, <2>2, <2>3, <2>4, <2>5 DEF GameOK
<1>5. PcOK'
  BY DEF PcOK, RunsPage
<1>6. GpioOK'
  BY DEF GpioOK, Reset
<1>7. QED
  BY <1>1, <1>3, <1>4, <1>5, <1>6 DEF IInv

LEMMA GrownIsEnough ==
  ASSUME NEW g \in Games, gamepak_buffer_count \in BufferSlots .. MaxSlots, Grown(g) <= MaxSlots
  PROVE  Grown(g) \in BufferSlots .. MaxSlots /\ Grown(g) >= PagesOf[g]
BY SizesAssumption, SlotsAssumption, WindowsType DEF Grown

LEMMA LoadsPlain ==
  ASSUME IInv, NEW g \in Games, LoadPlain(g)
  PROVE  IInv'
<1>1. gamepak_buffer_count \in BufferSlots .. MaxSlots
  BY DEF IInv, Types
<1>2. QED
  BY <1>1, LoadsGame DEF LoadPlain

LEMMA LoadsZip ==
  ASSUME IInv, NEW g \in Games, LoadZip(g)
  PROVE  IInv'
<1>1. Grown(g) \in BufferSlots .. MaxSlots /\ Grown(g) >= PagesOf[g]
  BY GrownIsEnough DEF IInv, Types, LoadZip
<1>2. QED
  BY <1>1, LoadsGame DEF LoadZip

LEMMA Damaged ==
  ASSUME IInv, NEW g \in Games, NEW n \in 0 .. PagesOf[g], ZipIsDamaged(g, n)
  PROVE  IInv'
<1>1. Grown(g) \in BufferSlots .. MaxSlots
  BY GrownIsEnough DEF IInv, Types, ZipIsDamaged
<1>2. Types'
  <2>1. \A i \in 1 .. Grown(g) : i - 1 \in Slots
    BY <1>1, SlotsAssumption DEF Slots
  <2>2. Grown(g) \in Nat
    BY <1>1, SlotsAssumption
  <2>3. [i \in 1 .. Grown(g) |-> i - 1] \in Seq(Slots)
    BY <2>1, <2>2
  <2>4. memory_map_read' \in [Entries -> Slots \cup {None}]
    <3>1. memory_map_read' = [e \in Entries |->
            IF e < ClearedEnd THEN None ELSE FirstMapped(memory_map_read, n, PagesOf[g])[e]]
      BY DEF ZipIsDamaged, Cleared
    <3>2. PagesOf[g] \in 1 .. Space /\ \A p \in 0 .. n - 1 : p \in Slots
      BY <1>1, GrownIsEnough, SizesAssumption, SlotsAssumption, WindowsType
         DEF Slots, IInv, Types, ZipIsDamaged
    <3>3. \A e \in Entries : FirstMapped(memory_map_read, n, PagesOf[g])[e] \in Slots \cup {None}
      BY <3>2, MapsFirst DEF IInv, Types
    <3>4. QED
      BY <3>1, <3>3
  <2>5. QED
    BY <1>1, <2>3, <2>4, WindowsType DEF ZipIsDamaged, Types
<1>3. MapOK'
  BY LowEntries DEF ZipIsDamaged, MapOK, Cleared
<1>4. MirrorsOK' /\ SlotsOK' /\ GameOK' /\ PcOK'
  BY DEF ZipIsDamaged, MirrorsOK, SlotsOK, GameOK, PcOK, RunsPage
<1>5. GpioOK'
  BY WindowsType DEF ZipIsDamaged, IInv, GpioOK, Entries, Cleared, ClearedEnd
<1>6. QED
  BY <1>2, <1>3, <1>4, <1>5 DEF IInv

LEMMA LoadIsRefused ==
  ASSUME IInv, LoadFails
  PROVE  IInv'
<1>1. UNCHANGED <<gamepak_blk_queue, phy_rom, buffer, memory_map_read, gamepak_size, pc>>
  BY DEF LoadFails, queue
<1>2. gamepak_buffer_count' \in BufferSlots .. MaxSlots
  BY SlotsAssumption DEF LoadFails, IInv, Types
<1>3. game' = NoGame /\ pc = NoPc /\ UNCHANGED <<gpio_regs, words, written>>
  BY DEF LoadFails
<1>4. Types' /\ MapOK' /\ MirrorsOK' /\ SlotsOK' /\ GameOK' /\ PcOK' /\ GpioOK'
  BY <1>1, <1>2, <1>3 DEF IInv, Types, MapOK, MirrorsOK, SlotsOK, GameOK, PcOK, RunsPage, GpioOK
<1>5. QED
  BY <1>4 DEF IInv

(* A restart, a state that is loaded, and a file that is released.         *)
LEMMA KeepsPages ==
  ASSUME IInv, Restart \/ nspire_rom_file_release \/ \E v \in GpioValues : LoadState(v)
  PROVE  IInv'
<1>1. UNCHANGED <<game, gamepak_size, gamepak_buffer_count,
                  gamepak_blk_queue, phy_rom, buffer, memory_map_read, pc>>
  BY DEF Restart, nspire_rom_file_release, LoadState, rom, queue
<1>2. pc = NoPc
  BY DEF Restart, nspire_rom_file_release, LoadState
<1>3. Types' /\ MapOK' /\ MirrorsOK' /\ SlotsOK' /\ PcOK'
  BY <1>1, <1>2 DEF IInv, Types, MapOK, MirrorsOK, SlotsOK, PcOK, RunsPage
<1>4. GameOK'
  <2>1. CASE Restart
    <3>1. gamepak_file_large' = gamepak_file_large /\ swapping' = gamepak_must_swap
      BY <1>1, <2>1 DEF Restart, Reset, rom, gamepak_must_swap
    <3>2. AllMapped' = AllMapped /\ gamepak_must_swap' = gamepak_must_swap
      BY <1>1 DEF AllMapped, gamepak_must_swap
    <3>3. ~swapping' => ~gamepak_must_swap
      BY <3>1
    <3>4. QED
      BY <1>1, <3>1, <3>2, <3>3 DEF IInv, GameOK
  <2>2. CASE nspire_rom_file_release
    BY <1>1, <2>2 DEF nspire_rom_file_release, IInv, GameOK, AllMapped, gamepak_must_swap
  <2>3. CASE \E v \in GpioValues : LoadState(v)
    BY <1>1, <2>3 DEF LoadState, rom, IInv, GameOK, AllMapped, gamepak_must_swap
  <2>4. QED
    BY <2>1, <2>2, <2>3
<1>5. GpioOK'
  BY <1>1 DEF Restart, Reset, nspire_rom_file_release, LoadState, IInv, GpioOK
<1>6. QED
  BY <1>3, <1>4, <1>5 DEF IInv

-----------------------------------------------------------------------------

LEMMA StepCorrect == IInv /\ [Next]_vars => IInv'
<1> SUFFICES ASSUME IInv, [Next]_vars PROVE IInv'
  OBVIOUS
<1>1. CASE Run
  BY <1>1, Runs
<1>2. CASE Menu
  BY <1>2, LoadsPlain, LoadsZip, Damaged, LoadIsRefused, KeepsPages DEF Menu
<1>3. CASE UNCHANGED vars
  <2>1. UNCHANGED <<game, gamepak_size, gamepak_buffer_count, gamepak_file_large,
                    gamepak_blk_queue, phy_rom, buffer, memory_map_read, gamepak_sticky_bit,
                    pc, swapping, gpio_regs, words, written>>
    BY <1>3 DEF vars, rom, queue
  <2>2. QED
    BY <2>1 DEF IInv, Types, MapOK, MirrorsOK, SlotsOK, GameOK, AllMapped, gamepak_must_swap, PcOK, RunsPage,
                MirrorsAgree, GpioOK
<1>4. QED
  BY <1>1, <1>2, <1>3 DEF Next

LEMMA IInvHolds == Spec => []IInv
<1>1. Init => IInv
  BY InitCorrect
<1>2. IInv /\ [Next]_vars => IInv'
  BY StepCorrect
<1>3. QED
  BY <1>1, <1>2, PTL DEF Spec

(* What the emulated CPU reads through the table is the page of the        *)
(* running game that the console would show there: whatever was evicted,   *)
(* read in, replaced or released before.  Where a load clears nothing that *)
(* is so while the page is in the buffer, as all its mirrors lead to it.   *)
THEOREM ReadsRight == Spec => []ReadsAreTheRoms
<1>1. IInv => ReadsAreTheRoms
  <2> SUFFICES ASSUME IInv, game # NoGame, NEW e \in Entries,
                      memory_map_read[e] # None, MirrorsAgree(e),
                      e >= ClearedEnd => Page(e) < gamepak_size /\ memory_map_read[Page(e)] # None
               PROVE  buffer[memory_map_read[e]] = <<game, e % gamepak_size>>
    BY DEF ReadsAreTheRoms
  <2>1. gamepak_size \in 1 .. Space
    BY GameSize DEF IInv
  <2>2. ASSUME NEW s \in Slots, phy_rom[s] # None
        PROVE  buffer[s] = <<game, phy_rom[s]>> /\ phy_rom[s] \in 0 .. gamepak_size - 1
    BY <2>1, <2>2, WindowsType DEF IInv, SlotsOK, Types, Pages
  <2>3. CASE e < ClearedEnd
    <3> DEFINE s == memory_map_read[e]
    <3>1. e \in 0 .. ClearedEnd - 1 /\ s \in Slots
      BY <2>3, LowEntries DEF IInv, Types, Entries
    <3>2. phy_rom[s] # None /\ e \in Mirrors(phy_rom[s], gamepak_size)
      BY <3>1 DEF IInv, MapOK
    <3>3. phy_rom[s] = e % gamepak_size
      BY <2>1, <2>2, <3>1, <3>2, MirrorPage DEF MirrorsAgree
    <3>4. QED
      BY <2>2, <3>1, <3>2, <3>3
  <2>4. CASE e >= ClearedEnd
    <3> DEFINE p == Page(e)
               s == memory_map_read[p]
    <3>1. p < gamepak_size /\ s # None /\ Space % gamepak_size = 0
      BY <2>4, WindowsType DEF MirrorsAgree, ClearedEnd, Entries
    <3>2. /\ p \in Pages /\ p \in Entries /\ p \in 0 .. ClearedEnd - 1 /\ p < Space
          /\ p \in 0 .. gamepak_size - 1
      BY <2>1, <3>1, PageOf, WindowsType DEF Pages, Entries, ClearedEnd
    <3>3. Page(p) = p
      BY <3>2, PageOf
    <3>4. p \in Mirrors(p, gamepak_size) /\ e \in Mirrors(p, gamepak_size)
      BY <2>1, <3>1, <3>2, <3>3, OwnMirror
    <3>5. p = e % gamepak_size
      BY <2>1, <3>1, <3>2, <3>4, MirrorPage
    <3> HIDE DEF p
    <3>6. s \in Slots
      BY <3>1, <3>2 DEF IInv, Types
    <3>7. phy_rom[s] # None /\ p \in Mirrors(phy_rom[s], gamepak_size)
      BY <3>1, <3>2 DEF IInv, MapOK
    <3>8. phy_rom[s] = p
      <4>1. phy_rom[s] = p % gamepak_size
        BY <2>1, <2>2, <3>2, <3>6, <3>7, MirrorPage
      <4>2. p = p % gamepak_size
        BY <2>1, <3>2, <3>4, MirrorPage
      <4>3. QED
        BY <4>1, <4>2
    <3>9. memory_map_read[e] = s
      BY <3>1, <3>4, <3>6, <3>7, <3>8 DEF IInv, MirrorsOK
    <3>10. QED
      BY <2>2, <3>5, <3>6, <3>7, <3>8, <3>9
  <2>5. QED
    BY <2>3, <2>4, LowEntries DEF Entries
<1>2. QED
  BY <1>1, IInvHolds, PTL

(* Translated code that was built not to look for unmapped pages never     *)
(* meets one: a game that needs them is reset before it runs.              *)
THEOREM FastLoadsMapped == Spec => []FastLoadsAreMapped
<1>1. IInv => FastLoadsAreMapped
  <2> SUFFICES ASSUME IInv, game # NoGame, ~swapping, NEW e \in 0 .. ClearedEnd - 1
               PROVE  memory_map_read[e] # None
    BY DEF FastLoadsAreMapped
  <2>1. e \in Entries /\ e < ClearedEnd
    BY LowEntries
  <2>2. QED
    BY <2>1 DEF IInv, GameOK, AllMapped
<1>2. QED
  BY <1>1, IInvHolds, PTL

(* The code the interpreter runs stays in its slot for the frame, whatever *)
(* it loads.                                                               *)
THEOREM CodePageKept == Spec => []CodePageStays
<1>1. IInv => CodePageStays
  <2> SUFFICES ASSUME IInv, RunsPage
               PROVE  buffer[pc.slot] = <<game, pc.entry % gamepak_size>>
    BY DEF CodePageStays, RunsPage
  <2>1. game # NoGame /\ pc.entry \in Entries /\ pc.slot \in Slots
        /\ phy_rom[pc.slot] = Page(pc.entry)
    BY DEF IInv, PcOK, RunsPage
  <2>2. Page(pc.entry) \in Pages /\ Page(pc.entry) # None
    BY <2>1, PageOf, NoneIsApart
  <2>3. buffer[pc.slot] = <<game, Page(pc.entry)>>
    BY <2>1, <2>2 DEF IInv, SlotsOK
  <2>4. gamepak_size \in 1 .. Space
    BY <2>1, GameSize DEF IInv
  <2>5. Page(pc.entry) \in 0 .. gamepak_size - 1
    BY <2>2, <2>4, WindowsType DEF Pages, RunsPage
  <2>6. pc.entry \in Mirrors(Page(pc.entry), gamepak_size)
    BY <2>1, <2>4, OwnMirror DEF RunsPage
  <2>7. Page(pc.entry) = pc.entry % gamepak_size
    BY <2>1, <2>4, <2>5, <2>6, MirrorPage DEF RunsPage, MirrorsAgree
  <2>8. QED
    BY <2>3, <2>7
<1>2. QED
  BY <1>1, IInvHolds, PTL

(* A game reads from its clock's registers what it wrote to them, however  *)
(* often page 0 was evicted in between.                                    *)
THEOREM GpioShown == Spec => []GpioIsShown
<1>1. IInv => GpioIsShown
  BY DEF IInv, GpioOK, GpioIsShown
<1>2. QED
  BY <1>1, IInvHolds, PTL

=============================================================================

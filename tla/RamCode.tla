------------------------------ MODULE RamCode ------------------------------
(***************************************************************************)
(* Translated code of a game's work RAM, cpu_threaded.c: every halfword of *)
(* RAM has a tag that says whether it was translated, and a write to a     *)
(* tagged one throws translations away.                                    *)
(*                                                                         *)
(* Stores of the CPU flush everything (arm_stub.S).  A DMA transfer looks  *)
(* at one tag (gba_memory.c) and, with Partial SMC, drops only the run of  *)
(* tagged halfwords around it.  This is one of the two RAMs, IWRAM or      *)
(* EWRAM, as ScanEnd says, with its addresses counted in halfwords; it is  *)
(* a ring, as its mirrors follow each other.                               *)
(***************************************************************************)
EXTENDS Integers, Sequences, FiniteSetsExt

CONSTANTS
  Length,             \* of the RAM, in halfwords
  ScanEnd,            \* where IWRAM's blocks stop, Length - 8; Length for EWRAM, whose do not
  Values, Exit,       \* what a halfword can be; Exit ends a block
  StateContents,      \* what the RAM may be in a save state
  Starts,             \* <<mode, address>> of what the game may run
  MaxBlock,           \* instructions of the longest block, 1024 in the code
  Multiples,          \* <<words, address>> of the stores of several registers
  Dmas,               \* <<halfwords, address>> of the DMA writes
  FlushAlign, FlushSlack,             \* halfwords, 8 and 4 in the code
  RAM_TRANSLATION_CACHE_SIZE,         \* in units of a tag's table entry
  TRANSLATION_CACHE_LIMIT_THRESHOLD   \* likewise

Modes == {"arm", "thumb"}
Width == [arm |-> 2, thumb |-> 1]
Policies == {"partial", "classic"}
Address == 0 .. Length - 1
Place(a, i) == (a + i) % Length

(* Tags.  Their table is as high as the cache at most, so they stay above  *)
(* LAST_TAG_NUM as long as the two do not meet.                            *)
DATA == 0
LAST_TAG_NUM == 1
CODE_TAG_BLOCK16 == LAST_TAG_NUM
SMC_TAG_UB16 == 2 * RAM_TRANSLATION_CACHE_SIZE + 3
TAG_END == SMC_TAG_UB16 + 1
INITIAL_TOP_TAG == SMC_TAG_UB16 - 2
VALID_TAG(t) == t > LAST_TAG_NUM
Headers == {t \in LAST_TAG_NUM + 2 .. SMC_TAG_UB16 : t % 2 = 1}

NoBlock == [start |-> Length, mode |-> "none", code |-> <<>>]
NoOffset == 0
Offset == 0 .. RAM_TRANSLATION_CACHE_SIZE

ASSUME SizesAssumption ==
  /\ Length % 2 = 0 /\ ScanEnd \in 0 .. Length
  /\ 2 * MaxBlock <= Length                            \* 4 KB of 32 KB, or more
  /\ {Length, MaxBlock, FlushAlign, RAM_TRANSLATION_CACHE_SIZE} \subseteq Nat \ {0}
  /\ FlushSlack \in Nat /\ FlushSlack >= 2
ASSUME ThresholdAssumption ==
  TRANSLATION_CACHE_LIMIT_THRESHOLD \in 3 .. RAM_TRANSLATION_CACHE_SIZE - 2
ASSUME ContentsAssumption == Exit \in Values /\ StateContents \subseteq [Address -> Values]
ASSUME StartsAssumption ==
  \A s \in Starts : s[1] \in Modes /\ s[2] \in Address /\ s[2] % Width[s[1]] = 0
ASSUME MultiplesAssumption ==
  \A m \in Multiples : m[1] \in 1 .. 16 /\ m[2] \in Address /\ m[2] % 2 = 0
ASSUME DmasAssumption ==
  \A d \in Dmas : d[1] \in {1, 2} /\ d[2] \in Address /\ d[2] % d[1] = 0

VARIABLES
  content,                \* the RAM itself
  tag,                    \* its tags
  ram_block_tag,          \* the next tag
  entry,                  \* ramtag_type: a tag's offset_arm and offset_thumb
  ram_translation_ptr,
  cache,                  \* the blocks below ram_translation_ptr
  code_min, code_max,
  nspire_dynarec_ram_policy,
  blind,                  \* history: the blocks that changed, or can, with no look at a tag
  left                    \* history: the last flush left a block's tag at offset 0

limits == <<code_min, code_max>>
translations == <<tag, ram_block_tag, entry, ram_translation_ptr, cache, limits>>
history == <<blind, left>>
vars == <<content, translations, nspire_dynarec_ram_policy, history>>

Init ==
  /\ content \in [Address -> Values]
  /\ tag = [a \in Address |-> DATA]
  /\ ram_block_tag = INITIAL_TOP_TAG
  /\ entry = [t \in Headers |-> [m \in Modes |-> NoOffset]]
  /\ ram_translation_ptr = 0
  /\ cache = [o \in Offset |-> NoBlock]
  /\ code_min = 0 /\ code_max = Length
  /\ nspire_dynarec_ram_policy \in Policies
  /\ blind = {} /\ left = FALSE

-----------------------------------------------------------------------------
(* flush_translation_cache_ram, with the limits as they are at that time.  *)
(* What is left of the code above ram_translation_ptr is nobody's.  With a *)
(* high limit of 0, which is also that of a single instruction at offset   *)
(* 0, the tags stay.                                                       *)
ClearedTags(tags, low, high) ==
  IF high = 0 THEN tags
  ELSE IF high > low
  THEN [a \in Address |->
          IF a \in low - (low % FlushAlign) .. high + FlushSlack - 1 THEN DATA ELSE tags[a]]
  ELSE [a \in Address |-> DATA]

Flush(tags, low, high) ==
  /\ ram_translation_ptr' = 0
  /\ cache' = [o \in Offset |-> NoBlock]
  /\ tag' = ClearedTags(tags, low, high)
  /\ code_min' = Length /\ code_max' = 0
  /\ ram_block_tag' = INITIAL_TOP_TAG
  /\ blind' = {} /\ left' = VALID_TAG(tag'[0])

flush_translation_cache_ram == Flush(tag, code_min, code_max) /\ UNCHANGED entry
flush_dynarec_caches == Flush(tag, 0, Length) /\ UNCHANGED entry

(* partial_flush_ram_inner: the halfword written to and, the area being a  *)
(* ring, the runs of tags to its left and right.  0xFFFF ends the left one.*)
Left(a, d) == Place(a, Length - d)
Right(a, d) == Place(a, d)

(* Variant: the left one ends at the RAM's start.                          *)
LeftRunInside(a) ==
  {b \in 0 .. a - 1 : \A c \in b .. a - 1 : tag[c] \notin {DATA, SMC_TAG_UB16}}

LeftRun(a) ==
  {Left(a, d) : d \in {n \in 1 .. Length - 1 :
                        \A i \in 1 .. n : tag[Left(a, i)] \notin {DATA, SMC_TAG_UB16}}}
RightRun(a) ==
  {Right(a, d) : d \in {n \in 1 .. Length - 1 : \A i \in 1 .. n : tag[Right(a, i)] # DATA}}

PartialFlushed(a) == {a} \cup LeftRun(a) \cup RightRun(a)

partial_flush_ram_inner(a) ==
  /\ tag' = [b \in Address |-> IF b \in PartialFlushed(a) THEN DATA ELSE tag[b]]
  /\ UNCHANGED <<ram_block_tag, entry, ram_translation_ptr, cache, limits, history>>

partial_flush_ram_full_dma(a) ==
  \/ nspire_dynarec_ram_policy = "classic" /\ flush_dynarec_caches
  \/ nspire_dynarec_ram_policy = "partial" /\ partial_flush_ram_inner(a)

-----------------------------------------------------------------------------
(* Translating a block.                                                    *)

(* scan_block: how many instructions the block that starts at a may have.  *)
(* It ends with one that leaves it, when it is as long as it may be or, in *)
(* the first of the RAM's mirrors, at ScanEnd.                             *)
Ends(a, mode, n) == n = MaxBlock \/ content[Place(a, n * Width[mode] - 1)] = Exit

BlockSizes(a, mode) ==
  {n \in 1 .. MaxBlock : /\ Ends(a, mode, n) \/ Place(a, n * Width[mode]) = ScanEnd
                         /\ \A k \in 1 .. n - 1 : ~Ends(a, mode, k)}

(* What it spans, and what is in RAM there.                                *)
Span(a, halfwords) == {Place(a, i) : i \in 0 .. halfwords - 1}
Code(a, halfwords) == [i \in 1 .. halfwords |-> content[Place(a, i - 1)]]

(* allocate_tag_arm, allocate_tag_thumb, when the address has no tag yet.  *)
Allocated(a, mode) ==
  [b \in Address |->
     IF b = a THEN ram_block_tag
     ELSE IF mode = "arm" /\ b = a + 1 /\ tag[b] = DATA THEN CODE_TAG_BLOCK16
     ELSE tag[b]]

(* smc_write_arm_yes, smc_write_thumb_yes, at each instruction of a block: *)
(* an ARM instruction with a tag in one half gets none in the other.       *)
Instruction(b, mode) == {c \in Address : c \div Width[mode] = b \div Width[mode]}

Scanned(tags, span, mode) ==
  [b \in Address |->
     IF b \in span /\ \A c \in Instruction(b, mode) : tags[c] = DATA
     THEN CODE_TAG_BLOCK16
     ELSE tags[b]]

(* translation_cache_limit, when `next' is the next tag.                   *)
CacheLimitNoTable(next) ==
  RAM_TRANSLATION_CACHE_SIZE - TRANSLATION_CACHE_LIMIT_THRESHOLD
CacheLimit(next) ==
  RAM_TRANSLATION_CACHE_SIZE - TRANSLATION_CACHE_LIMIT_THRESHOLD - (TAG_END - next) \div 2

(* update_pc_limits, for the first n instructions of the block.            *)
Pcs(a, mode, n) == {Place(a, i * Width[mode]) : i \in 0 .. n - 1}
Lowest(a, mode, n) == Min({code_min} \cup Pcs(a, mode, n))
Highest(a, mode, n) == Max({code_max} \cup Pcs(a, mode, n))

(* block_lookup_translate_arm, block_lookup_translate_thumb: a block that  *)
(* is there changes nothing.  One that is not gets a tag and its place in  *)
(* the cache, one unit for each instruction and one for its exits.  If the *)
(* cache fills up on the way, all of it is flushed and the caller, which   *)
(* gets no block, asks again.                                              *)
Placed(t, fresh, mode) ==
  [entry EXCEPT ![t] =
     [m \in Modes |-> IF m = mode THEN ram_translation_ptr
                      ELSE IF fresh THEN NoOffset ELSE entry[t][m]]]

block_lookup_translate(mode, a, size) ==
  LET fresh == ~VALID_TAG(tag[a])
      t == IF fresh THEN ram_block_tag ELSE tag[a]
      next == IF fresh THEN ram_block_tag - 2 ELSE ram_block_tag
      span == Span(a, size * Width[mode])
      tags == Scanned(IF fresh THEN Allocated(a, mode) ELSE tag, span, mode)
      fits == Max({0, CacheLimit(next) - ram_translation_ptr})
  IN /\ <<mode, a>> \in Starts
     /\ size \in BlockSizes(a, mode)
     /\ fresh \/ entry[t][mode] = NoOffset
     /\ entry' = Placed(t, fresh, mode)
     /\ \/ /\ size <= fits
           /\ tag' = tags
           /\ ram_block_tag' = next
           /\ cache' = [cache EXCEPT ![ram_translation_ptr] =
                [start |-> a, mode |-> mode, code |-> Code(a, size * Width[mode])]]
           /\ ram_translation_ptr' = ram_translation_ptr + size + 1
           /\ code_min' = Lowest(a, mode, size) /\ code_max' = Highest(a, mode, size)
           /\ blind' = blind \cup {o \in {ram_translation_ptr} : \E b \in span : tags[b] = DATA}
           /\ UNCHANGED left
        \/ /\ size > fits
           /\ Flush(tags, Lowest(a, mode, fits + 1), Highest(a, mode, fits + 1))
     /\ UNCHANGED <<content, nspire_dynarec_ram_policy>>

-----------------------------------------------------------------------------
(* What writes to RAM.                                                     *)

Writes(written) ==
  \E v \in [written -> Values] :
    content' = [b \in Address |-> IF b \in written THEN v[b] ELSE content[b]]

(* The blocks a write changes where it does not look.                      *)
Spanned(block) == Span(block.start, Len(block.code))
Unseen(halfwords) == {o \in Offset : Spanned(cache[o]) \cap halfwords # {}}

NothingSeen(written, checked) ==
  /\ \A b \in checked : tag[b] = DATA
  /\ blind' = blind \cup Unseen(written \ checked)
  /\ UNCHANGED <<translations, left>>

StoreChecks(written, checked) ==
  \/ NothingSeen(written, checked)
  \/ (\E b \in checked : tag[b] # DATA) /\ flush_translation_cache_ram

(* execute_store_builder: a store of the CPU looks at the tags of all that *)
(* it writes.                                                              *)
Store(a, n) ==
  /\ n \in {1, 2} /\ a % n = 0
  /\ StoreChecks(Span(a, n), Span(a, n))
  /\ Writes(Span(a, n))
  /\ UNCHANGED nspire_dynarec_ram_policy

(* A store of several words checks the last one (ext_store_iwram_u32_safe).*)
StoreMultiple(a, words) ==
  /\ <<words, a>> \in Multiples
  /\ StoreChecks(Span(a, 2 * words), Span(Place(a, 2 * (words - 1)), 2))
  /\ Writes(Span(a, 2 * words))
  /\ UNCHANGED nspire_dynarec_ram_policy

(* dma_write_iwram, dma_write_ewram: only if it changes something, and the *)
(* tag of the first halfword decides.                                      *)
DmaChecks(written, a) ==
  \/ NothingSeen(written, {a})
  \/ tag[a] # DATA /\ partial_flush_ram_full_dma(a)

Dma(a, n) ==
  /\ <<n, a>> \in Dmas
  /\ DmaChecks(Span(a, n), a)
  /\ Writes(Span(a, n))
  /\ content' # content
  /\ UNCHANGED nspire_dynarec_ram_policy

(* memory_read_savestate and the flush of nspire_load_state.               *)
LoadState ==
  /\ content' \in StateContents
  /\ flush_dynarec_caches
  /\ UNCHANGED nspire_dynarec_ram_policy

(* nspire_emulator_options_apply.                                          *)
ChangePolicy ==
  /\ \E p \in Policies \ {nspire_dynarec_ram_policy} : nspire_dynarec_ram_policy' = p
  /\ flush_dynarec_caches
  /\ UNCHANGED content

Next ==
  \/ \E mode \in Modes, a \in Address, size \in 1 .. MaxBlock :
       block_lookup_translate(mode, a, size)
  \/ \E a \in Address, n \in {1, 2} : Store(a, n)
  \/ \E a \in Address, words \in 1 .. 16 : StoreMultiple(a, words)
  \/ \E a \in Address, n \in {1, 2} : Dma(a, n)
  \/ LoadState
  \/ ChangePolicy

Spec == Init /\ [][Next]_vars

-----------------------------------------------------------------------------
(* What a lookup of that address in that mode returns without translating. *)
Found(mode, a) == VALID_TAG(tag[a]) /\ entry[tag[a]][mode] # NoOffset
BlockAt(mode, a) == cache[entry[tag[a]][mode]]

(* A lookup never returns stale code: the block it finds was translated    *)
(* from that address, in that mode, and from what is in RAM now.  A block  *)
(* that is not all tagged, or that a write changed with no look at its     *)
(* tags, may be stale until the next flush; and any may, once a flush has  *)
(* left the tag at offset 0, which a later block then has too.             *)
TranslationsAreCurrent ==
  ~left =>
    \A mode \in Modes, a \in Address : Found(mode, a) =>
      LET block == BlockAt(mode, a) IN
        /\ block.start = a /\ block.mode = mode
        /\ entry[tag[a]][mode] \notin blind => block.code = Code(a, Len(block.code))

(* The blocks growing up and the tags' table growing down never meet, not  *)
(* even when the next lookup takes one more tag and emits one instruction  *)
(* before it finds the cache full.                                         *)
CacheAndTableApart ==
  ram_translation_ptr + 2 <= RAM_TRANSLATION_CACHE_SIZE - (TAG_END - ram_block_tag - 1) \div 2
=============================================================================

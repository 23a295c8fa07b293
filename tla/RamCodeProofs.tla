--------------------------- MODULE RamCodeProofs ----------------------------
(***************************************************************************)
(* Proofs about the translated code of the RAM: that the code a lookup     *)
(* finds is current, for a RAM, a cache and blocks of any size and         *)
(* whatever the game runs and writes, and that the cache and the tags'     *)
(* table never meet.                                                       *)
(***************************************************************************)
EXTENDS RamCode, FiniteSetTheorems, SequenceTheorems, WellFoundedInduction, TLAPS

Tags == {DATA, CODE_TAG_BLOCK16} \cup Headers
Blocks == {NoBlock} \cup [start : Address, mode : Modes, code : Seq(Values)]

TypeOK ==
  /\ content \in [Address -> Values]
  /\ tag \in [Address -> Tags]
  /\ ram_block_tag \in Headers
  /\ entry \in [Headers -> [Modes -> Offset]]
  /\ ram_translation_ptr \in Nat
  /\ cache \in [Offset -> Blocks]
  /\ code_min \in 0 .. Length /\ code_max \in 0 .. Length
  /\ blind \subseteq Offset /\ left \in BOOLEAN

(* The next tag's place in the table is above the cache.                   *)
RoomLeft ==
  ram_block_tag >= 7 + 2 * ram_translation_ptr /\ ram_block_tag <= INITIAL_TOP_TAG

(* The next flush goes by the limits, and they know every block's start,   *)
(* but for one that the last flush left.                                   *)
LimitsHold ==
  \A p \in Address : VALID_TAG(tag[p]) => (code_min <= p /\ p <= code_max) \/ (p = 0 /\ left)

(* The tag of an address that was translated is one already given out, and *)
(* its blocks are below the end of the cache.                              *)
TagsGiven ==
  \A a \in Address : VALID_TAG(tag[a]) =>
    /\ tag[a] > ram_block_tag /\ tag[a] <= INITIAL_TOP_TAG
    /\ \A m \in Modes : entry[tag[a]][m] # NoOffset => entry[tag[a]][m] < ram_translation_ptr

TagsDistinct ==
  \A a, b \in Address : VALID_TAG(tag[a]) /\ tag[a] = tag[b] => a = b

(* No write into a block that is not blind goes unseen: all of it is       *)
(* tagged.                                                                 *)
BlocksTagged ==
  \A mode \in Modes, a \in Address :
    Found(mode, a) /\ entry[tag[a]][mode] \notin blind =>
      \A b \in Spanned(BlockAt(mode, a)) : tag[b] # DATA

TagsOK == ~left => TagsGiven /\ TagsDistinct /\ BlocksTagged

(* What the steps preserve.  That no stale code is found cannot be seen    *)
(* from a step alone: a write finds out about a block only by the tags in  *)
(* the block, and a flush by the limits.                                   *)
IInv == TypeOK /\ RoomLeft /\ LimitsHold /\ TagsOK /\ TranslationsAreCurrent

(* Division, as the memory's ring needs it.                                *)
LEMMA DivMod ==
  ASSUME NEW n \in Nat, n > 0, NEW a \in Nat
  PROVE  /\ a = n * (a \div n) + (a % n)
         /\ a % n \in 0 .. n - 1
         /\ a \div n \in Nat
<1>1. a = n * (a \div n) + (a % n)
  BY Z3
<1>2. a % n \in 0 .. n - 1
  OBVIOUS
<1>3. a \div n \in Int
  OBVIOUS
<1>4. a \div n >= 0
  BY Z3
<1>5. QED
  BY <1>1, <1>2, <1>3, <1>4

LEMMA OneRemainder ==
  ASSUME NEW n \in Nat, n > 0, NEW q \in Int, NEW r \in Int,
         NEW b \in 0 .. n - 1, NEW c \in 0 .. n - 1, n * q + b = n * r + c
  PROVE  b = c
<1>1. n * (q - r) = c - b
  OBVIOUS
<1>2. CASE q - r >= 1
  <2>1. n * (q - r) >= n
    BY <1>2
  <2>2. QED
    BY <1>1, <2>1
<1>3. CASE q - r <= -1
  <2>1. n * (q - r) <= -n
    BY <1>3
  <2>2. QED
    BY <1>1, <2>1
<1>4. CASE q - r = 0
  BY <1>1, <1>4
<1>5. QED
  BY <1>2, <1>3, <1>4

-----------------------------------------------------------------------------
(* Every nonempty set of naturals has a least member: the intervals below  *)
(* its members are finite, and inclusion is well-founded on finite sets.   *)
LEMMA LeastNatural ==
  ASSUME NEW S, S \subseteq Nat, S # {}
  PROVE  \E m \in S : \A n \in S : m <= n
<1> DEFINE F == {0 .. n : n \in S}
<1>1. F \subseteq FiniteSubsetsOf(Nat)
  <2>1. \A n \in S : 0 .. n \in SUBSET Nat /\ IsFiniteSet(0 .. n)
    BY FS_Interval
  <2>2. QED
    BY <2>1 DEF FiniteSubsetsOf
<1>2. F # {}
  OBVIOUS
<1>3. IsWellFoundedOn(StrictSubsetOrdering(Nat), FiniteSubsetsOf(Nat))
  BY FS_StrictSubsetOrderingWellFounded
<1>4. PICK X \in F : \A Y \in F : ~(<<Y, X>> \in StrictSubsetOrdering(Nat))
  <2> HIDE DEF F
  <2> QED
    BY <1>1, <1>2, <1>3, WFMin
<1>5. PICK m \in S : X = 0 .. m
  OBVIOUS
<1>6. ASSUME NEW n \in S PROVE m <= n
  <2>1. CASE n < m
    <3>1. 0 .. n \subseteq 0 .. m /\ m \in 0 .. m /\ m \notin 0 .. n
      BY <2>1
    <3>2. 0 .. n # 0 .. m
      BY <3>1
    <3>3. 0 .. n \in F /\ 0 .. n \in SUBSET Nat /\ 0 .. m \in SUBSET Nat
      OBVIOUS
    <3>4. <<0 .. n, 0 .. m>> \in StrictSubsetOrdering(Nat)
      BY <3>1, <3>2, <3>3 DEF StrictSubsetOrdering
    <3>5. QED
      BY <1>4, <1>5, <3>3, <3>4
  <2>2. QED
    BY <2>1
<1>7. QED
  BY <1>6

LEMMA MinIsLeast ==
  ASSUME NEW S, S \subseteq Nat, S # {}
  PROVE  Min(S) \in S /\ \A n \in S : Min(S) <= n
BY LeastNatural DEF Min

LEMMA MaxOfTwo ==
  ASSUME NEW a \in Int, NEW b \in Int
  PROVE  /\ Max({a, b}) \in {a, b}
         /\ Max({a, b}) >= a /\ Max({a, b}) >= b
<1>1. \E x \in {a, b} : \A y \in {a, b} : x >= y
  OBVIOUS
<1>2. Max({a, b}) \in {a, b} /\ \A y \in {a, b} : Max({a, b}) >= y
  BY <1>1 DEF Max
<1>3. QED
  BY <1>2

LEMMA MinMaxOf ==
  ASSUME NEW S, S \subseteq 0 .. Length, S # {}
  PROVE  /\ Min(S) \in S /\ \A n \in S : Min(S) <= n
         /\ Max(S) \in S /\ \A n \in S : n <= Max(S)
<1>0. Length \in Nat
  BY SizesAssumption
<1>1. S \subseteq Nat
  BY <1>0
<1> DEFINE Down == {Length - n : n \in S}
<1>2. Down \subseteq Nat /\ Down # {}
  <2>1. PICK s : s \in S
    OBVIOUS
  <2>2. Length - s \in Down
    BY <2>1
  <2>3. \A n \in S : Length - n \in Nat
    BY <1>0
  <2>4. QED
    BY <2>2, <2>3
<1>3. PICK d \in Down : \A e \in Down : d <= e
  <2> HIDE DEF Down
  <2> QED
    BY <1>2, LeastNatural
<1>4. PICK m \in S : d = Length - m
  OBVIOUS
<1>5. ASSUME NEW n \in S PROVE n <= m
  <2>1. Length - n \in Down
    OBVIOUS
  <2>2. d <= Length - n
    BY <1>3, <2>1
  <2>3. QED
    BY <1>0, <1>1, <1>4, <2>2
<1>6. Max(S) \in S /\ \A n \in S : n <= Max(S)
  <2>1. \E x \in S : \A y \in S : x >= y
    BY <1>0, <1>1, <1>5
  <2>2. Max(S) \in S /\ \A y \in S : Max(S) >= y
    BY <2>1 DEF Max
  <2>3. QED
    BY <1>1, <2>2
<1>7. QED
  BY <1>1, <1>6, MinIsLeast

-----------------------------------------------------------------------------
(* The ring.                                                               *)

LEMMA Sizes ==
  /\ Length \in Nat \ {0} /\ Length >= 2
  /\ MaxBlock \in Nat \ {0} /\ FlushAlign \in Nat \ {0}
  /\ RAM_TRANSLATION_CACHE_SIZE \in Nat \ {0}
  /\ FlushSlack \in Nat /\ FlushSlack >= 2
  /\ Width["arm"] = 2 /\ Width["thumb"] = 1
BY SizesAssumption DEF Width

LEMMA PlaceIn ==
  ASSUME NEW a \in Address, NEW i \in Nat
  PROVE  Place(a, i) \in Address
<1>1. a + i \in Nat
  BY Sizes DEF Address
<1>2. QED
  BY <1>1, DivMod, Sizes DEF Place, Address

LEMMA Ring ==
  ASSUME NEW a \in Address, NEW d \in 0 .. Length
  PROVE  Place(a, d) = IF a + d < Length THEN a + d ELSE a + d - Length
<1> USE Sizes DEF Address
<1>1. ASSUME NEW x \in Nat, NEW r \in 0 .. Length - 1, x = r \/ x = r + Length
      PROVE  x % Length = r
  <2>1. /\ x = Length * (x \div Length) + (x % Length)
        /\ x % Length \in 0 .. Length - 1 /\ x \div Length \in Nat
    BY DivMod
  <2>2. x = Length * 0 + r \/ x = Length * 1 + r
    BY <1>1
  <2>3. QED
    BY <2>1, <2>2, OneRemainder
<1>2. QED
  BY <1>1 DEF Place

LEMMA StepBack ==
  ASSUME NEW a \in Address, NEW k \in Nat, k >= 1
  PROVE  Place(Place(a, k), Length - 1) = Place(a, k - 1)
<1> USE Sizes DEF Address
<1>1. PICK q \in Nat, r \in 0 .. Length - 1 : a + k = Length * q + r /\ r = Place(a, k)
  <2>1. a + k \in Nat
    OBVIOUS
  <2>2. /\ (a + k) = Length * ((a + k) \div Length) + ((a + k) % Length)
        /\ (a + k) % Length \in 0 .. Length - 1 /\ (a + k) \div Length \in Nat
    BY <2>1, DivMod
  <2>3. QED
    BY <2>2 DEF Place
<1>2. PICK u \in Nat, v \in 0 .. Length - 1 : a + (k - 1) = Length * u + v /\ v = Place(a, k - 1)
  <2>1. a + (k - 1) \in Nat
    OBVIOUS
  <2>2. /\ (a + (k - 1)) = Length * ((a + (k - 1)) \div Length) + ((a + (k - 1)) % Length)
        /\ (a + (k - 1)) % Length \in 0 .. Length - 1 /\ (a + (k - 1)) \div Length \in Nat
    BY <2>1, DivMod
  <2>3. QED
    BY <2>2 DEF Place
<1>3. CASE r >= 1
  <2>1. Length * q + (r - 1) = Length * u + v
    BY <1>1, <1>2
  <2>2. r - 1 = v
    BY <1>3, <2>1, OneRemainder
  <2>3. Place(r, Length - 1) = r - 1
    BY <1>3, Ring
  <2>4. QED
    BY <1>1, <1>2, <2>2, <2>3
<1>4. CASE r = 0
  <2>1. Length * (q - 1) = Length * q - Length
    OBVIOUS
  <2>2. Length * (q - 1) + (Length - 1) = Length * u + v
    BY <1>1, <1>2, <1>4, <2>1
  <2>3. Length - 1 = v
    BY <2>2, OneRemainder
  <2>4. Place(r, Length - 1) = Length - 1
    BY <1>4, Ring
  <2>5. QED
    BY <1>1, <1>2, <2>3, <2>4
<1>5. QED
  BY <1>3, <1>4

LEMMA SpanIn ==
  ASSUME NEW a \in Address, NEW n \in Nat
  PROVE  Span(a, n) \subseteq Address
BY PlaceIn DEF Span

LEMMA CodeType ==
  ASSUME NEW a \in Address, NEW n \in Nat, content \in [Address -> Values]
  PROVE  Code(a, n) \in Seq(Values) /\ Len(Code(a, n)) = n
<1>1. \A i \in 1 .. n : Place(a, i - 1) \in Address
  BY PlaceIn
<1>2. Code(a, n) = [i \in 1 .. n |-> content[Place(a, i - 1)]]
  BY DEF Code
<1>3. \A i \in 1 .. n : content[Place(a, i - 1)] \in Values
  BY <1>1
<1>4. QED
  BY <1>2, <1>3

(* Code stays the same while nobody writes into it.                        *)
LEMMA CodeKept ==
  ASSUME NEW a \in Address, NEW n \in Nat, \A b \in Span(a, n) : content'[b] = content[b]
  PROVE  Code(a, n)' = Code(a, n)
<1>1. \A i \in 1 .. n : Place(a, i - 1) \in Span(a, n)
  BY DEF Span
<1>2. QED
  BY <1>1 DEF Code

-----------------------------------------------------------------------------
(* The partial flush: runs of tags in a ring.                              *)

NoTopTag == \A a \in Address : tag[a] # SMC_TAG_UB16

(* The run goes on to a tagged halfword before one that is in it.          *)
LEMMA RunGoesOn ==
  ASSUME NoTopTag, NEW a \in Address, NEW c \in PartialFlushed(a),
         tag[Place(c, Length - 1)] # DATA
  PROVE  Place(c, Length - 1) \in PartialFlushed(a)
<1> USE Sizes
<1> DEFINE TaggedLeft(n) == \A i \in 1 .. n : tag[Left(a, i)] \notin {DATA, SMC_TAG_UB16}
           TaggedRight(n) == \A i \in 1 .. n : tag[Right(a, i)] # DATA
           b == Place(c, Length - 1)
<1>1. \A d \in 1 .. Length - 1 : TaggedLeft(d) => Left(a, d) \in PartialFlushed(a)
  BY DEF PartialFlushed, LeftRun
<1>2. \A d \in 1 .. Length - 1 : TaggedRight(d) => Right(a, d) \in PartialFlushed(a)
  BY DEF PartialFlushed, RightRun
<1>3. a \in PartialFlushed(a)
  BY DEF PartialFlushed
<1>4. c \in Address => tag[b] \notin {DATA, SMC_TAG_UB16}
  BY PlaceIn DEF NoTopTag
<1>5. CASE c = a
  <2>1. Left(a, 1) = b
    BY <1>5 DEF Left
  <2>2. TaggedLeft(1)
    BY <1>4, <1>5, <2>1
  <2>3. QED
    BY <1>1, <2>1, <2>2
<1>6. ASSUME NEW d \in 1 .. Length - 1, TaggedLeft(d), c = Left(a, d)
      PROVE  b \in PartialFlushed(a)
  <2>1. c = (IF d <= a THEN a - d ELSE a - d + Length) /\ c \in Address
    BY <1>6, Ring DEF Left, Address
  <2>2. b = IF c >= 1 THEN c - 1 ELSE Length - 1
    BY <2>1, Ring DEF Address
  <2>3. CASE d = Length - 1
    BY <1>3, <2>1, <2>2, <2>3 DEF Address
  <2>4. CASE d + 1 \in 1 .. Length - 1
    <3>1. Left(a, d + 1) = IF d + 1 <= a THEN a - (d + 1) ELSE a - (d + 1) + Length
      BY <2>4, Ring DEF Left, Address
    <3>2. Left(a, d + 1) = b
      BY <2>1, <2>2, <2>4, <3>1 DEF Address
    <3>3. TaggedLeft(d + 1)
      BY <1>4, <1>6, <2>1, <3>2
    <3>4. QED
      BY <1>1, <2>4, <3>2, <3>3
  <2>5. QED
    BY <2>3, <2>4
<1>7. ASSUME NEW d \in 1 .. Length - 1, TaggedRight(d), c = Right(a, d)
      PROVE  b \in PartialFlushed(a)
  <2>1. b = Place(a, d - 1)
    BY <1>7, StepBack DEF Right
  <2>2. CASE d = 1
    BY <1>3, <2>1, <2>2, Ring DEF Address
  <2>3. CASE d - 1 \in 1 .. Length - 1
    BY <1>2, <1>7, <2>1, <2>3 DEF Right
  <2>4. QED
    BY <2>2, <2>3
<1>8. c = a \/ c \in LeftRun(a) \/ c \in RightRun(a)
  BY DEF PartialFlushed
<1>9. QED
  BY <1>5, <1>6, <1>7, <1>8 DEF LeftRun, RightRun

(* So a block that loses one of its tags loses its own as well: going      *)
(* back from there, every halfword is tagged.                              *)
LEMMA RunReachesStart ==
  ASSUME NoTopTag, NEW a \in Address, NEW s \in Address, NEW k \in Nat,
         Place(s, k) \in PartialFlushed(a), \A i \in 0 .. k : tag[Place(s, i)] # DATA
  PROVE  s \in PartialFlushed(a)
<1> DEFINE Back == {i \in 0 .. k : Place(s, i) \in PartialFlushed(a)}
<1>1. Back \subseteq Nat /\ Back # {}
  OBVIOUS
<1>2. PICK m \in Back : \A n \in Back : m <= n
  <2> HIDE DEF Back
  <2> QED
    BY <1>1, LeastNatural
<1>3. ASSUME m >= 1 PROVE FALSE
  <2>1. Place(Place(s, m), Length - 1) = Place(s, m - 1)
    BY <1>3, StepBack
  <2>2. tag[Place(s, m - 1)] # DATA
    BY <1>3
  <2>3. Place(s, m - 1) \in PartialFlushed(a)
    BY <2>1, <2>2, RunGoesOn
  <2>4. QED
    BY <1>2, <1>3, <2>3
<1>4. m = 0 /\ Place(s, 0) = s
  BY <1>3, Ring, Sizes DEF Address
<1>5. QED
  BY <1>2, <1>4

-----------------------------------------------------------------------------
LEMMA TagFacts ==
  /\ DATA = 0 /\ CODE_TAG_BLOCK16 = 1 /\ LAST_TAG_NUM = 1
  /\ RAM_TRANSLATION_CACHE_SIZE >= 5
  /\ SMC_TAG_UB16 = 2 * RAM_TRANSLATION_CACHE_SIZE + 3
  /\ TAG_END = 2 * RAM_TRANSLATION_CACHE_SIZE + 4
  /\ INITIAL_TOP_TAG = 2 * RAM_TRANSLATION_CACHE_SIZE + 1
  /\ INITIAL_TOP_TAG \in Headers
BY Sizes, ThresholdAssumption
   DEF DATA, CODE_TAG_BLOCK16, LAST_TAG_NUM, SMC_TAG_UB16, TAG_END, INITIAL_TOP_TAG, Headers

(* Where nothing was translated, there is nothing to find.                 *)
LEMMA NothingFound ==
  ASSUME \A p \in Address : ~VALID_TAG(tag[p])
  PROVE  TagsOK /\ TranslationsAreCurrent
BY DEF TagsOK, TagsGiven, TagsDistinct, BlocksTagged, Found, TranslationsAreCurrent

LEMMA InitCorrect == Init => IInv
<1> SUFFICES ASSUME Init PROVE IInv
  OBVIOUS
<1> USE Sizes, TagFacts
<1>1. TypeOK
  <2>1. tag \in [Address -> Tags] /\ cache \in [Offset -> Blocks]
    BY DEF Init, Tags, Blocks
  <2>2. ram_block_tag \in Headers /\ NoOffset \in Offset
    BY DEF Init, NoOffset, Offset
  <2>3. entry \in [Headers -> [Modes -> Offset]]
    BY <2>2 DEF Init
  <2>4. content \in [Address -> Values] /\ blind \subseteq Offset /\ left \in BOOLEAN
    BY Zenon DEF Init
  <2>5. ram_translation_ptr \in Nat /\ code_min \in 0 .. Length /\ code_max \in 0 .. Length
    BY DEF Init
  <2>6. QED
    BY <2>1, <2>2, <2>3, <2>4, <2>5, Zenon DEF TypeOK
<1>2. RoomLeft
  BY DEF Init, RoomLeft
<1>3. \A p \in Address : ~VALID_TAG(tag[p])
  BY DEF Init, VALID_TAG
<1>4. QED
  BY <1>1, <1>2, <1>3, NothingFound DEF LimitsHold, IInv

(* A flush leaves no tag of a block but, at most, the one at offset 0: it  *)
(* goes by limits that know all others.                                    *)
LEMMA FlushClears ==
  ASSUME NEW tags \in [Address -> Tags], NEW low \in 0 .. Length, NEW high \in 0 .. Length,
         \A p \in Address : VALID_TAG(tags[p]) => (low <= p /\ p <= high) \/ p = 0
  PROVE  /\ ClearedTags(tags, low, high) \in [Address -> Tags]
         /\ \A p \in Address : VALID_TAG(ClearedTags(tags, low, high)[p]) => p = 0
<1> USE Sizes, TagFacts
<1> DEFINE cleared == ClearedTags(tags, low, high)
<1>1. CASE high = 0
  BY <1>1 DEF ClearedTags, Address
<1>2. CASE high # 0 /\ high > low
  <2>1. cleared = [a \in Address |->
          IF a \in low - (low % FlushAlign) .. high + FlushSlack - 1 THEN DATA ELSE tags[a]]
    BY <1>2 DEF ClearedTags
  <2>2. low % FlushAlign \in Nat
    BY DivMod
  <2>3. \A p \in low .. high : p \in low - (low % FlushAlign) .. high + FlushSlack - 1
    BY <2>2
  <2>4. ASSUME NEW p \in Address, VALID_TAG(cleared[p]) PROVE p = 0
    BY <2>1, <2>3, <2>4 DEF VALID_TAG, Address
  <2>5. QED
    BY <2>1, <2>4 DEF Tags
<1>3. CASE high # 0 /\ ~(high > low)
  BY <1>3 DEF ClearedTags, VALID_TAG, Tags
<1>4. QED
  BY <1>1, <1>2, <1>3

LEMMA FlushCorrect ==
  ASSUME NEW tags \in [Address -> Tags], NEW low \in 0 .. Length, NEW high \in 0 .. Length,
         \A p \in Address : VALID_TAG(tags[p]) => (low <= p /\ p <= high) \/ p = 0,
         Flush(tags, low, high), content' \in [Address -> Values],
         entry' \in [Headers -> [Modes -> Offset]]
  PROVE  IInv'
<1> USE Sizes, TagFacts
<1>1. tag' = ClearedTags(tags, low, high) /\ left' = VALID_TAG(tag'[0])
  BY DEF Flush
<1>2. /\ tag' \in [Address -> Tags]
      /\ \A p \in Address : VALID_TAG(tag'[p]) => p = 0
  BY <1>1, FlushClears
<1>3. TypeOK'
  <2>1. left' \in BOOLEAN
    BY <1>1 DEF VALID_TAG
  <2>2. cache' \in [Offset -> Blocks]
    BY DEF Flush, Blocks
  <2>3. QED
    BY <1>2, <2>1, <2>2 DEF Flush, TypeOK
<1>4. RoomLeft'
  BY DEF Flush, RoomLeft
<1>5. LimitsHold'
  BY <1>1, <1>2 DEF LimitsHold
<1>6. TagsOK' /\ TranslationsAreCurrent'
  <2>1. CASE left'
    BY <2>1 DEF TagsOK, TranslationsAreCurrent
  <2>2. CASE ~left'
    <3>1. \A p \in Address : ~VALID_TAG(tag'[p])
      BY <1>1, <1>2, <2>2
    <3>2. QED
      BY <3>1 DEF TagsOK, TagsGiven, TagsDistinct, BlocksTagged, Found, TranslationsAreCurrent
  <2>3. QED
    BY <2>1, <2>2
<1>7. QED
  BY <1>3, <1>4, <1>5, <1>6 DEF IInv

(* The flush of a store, by the limits, and the flush of all of it.        *)
LEMMA FlushesCorrect ==
  ASSUME IInv, flush_translation_cache_ram \/ flush_dynarec_caches,
         content' \in [Address -> Values]
  PROVE  IInv'
<1> USE Sizes DEF Address
<1>1. PICK tags \in [Address -> Tags], low \in 0 .. Length, high \in 0 .. Length :
        tags = tag /\ Flush(tags, low, high)
          /\ ((low = code_min /\ high = code_max) \/ (low = 0 /\ high = Length))
  BY DEF flush_translation_cache_ram, flush_dynarec_caches, IInv, TypeOK
<1>2. \A p \in Address : VALID_TAG(tags[p]) => (low <= p /\ p <= high) \/ p = 0
  BY <1>1 DEF IInv, LimitsHold
<1>3. entry' \in [Headers -> [Modes -> Offset]]
  BY DEF IInv, TypeOK, flush_translation_cache_ram, flush_dynarec_caches
<1>4. QED
  BY <1>1, <1>2, <1>3, FlushCorrect

-----------------------------------------------------------------------------
(* A block that a lookup finds is one of those below the cache's end.      *)
LEMMA FoundBlock ==
  ASSUME IInv, ~left, NEW mode \in Modes, NEW a \in Address, Found(mode, a)
  PROVE  /\ tag[a] \in Headers
         /\ entry[tag[a]][mode] \in Offset /\ entry[tag[a]][mode] < ram_translation_ptr
         /\ BlockAt(mode, a) \in [start : Address, mode : Modes, code : Seq(Values)]
         /\ BlockAt(mode, a).start = a /\ BlockAt(mode, a).mode = mode
<1> USE Sizes, TagFacts
<1>1. tag[a] \in Headers
  BY DEF IInv, TypeOK, Tags, Found, VALID_TAG
<1>2. entry[tag[a]][mode] \in Offset /\ entry[tag[a]][mode] < ram_translation_ptr
  BY <1>1 DEF IInv, TypeOK, TagsOK, TagsGiven, Found
<1>3. BlockAt(mode, a) \in Blocks
  BY <1>2 DEF IInv, TypeOK, BlockAt
<1>4. BlockAt(mode, a).start = a /\ BlockAt(mode, a).mode = mode
  BY DEF IInv, TranslationsAreCurrent
<1>5. BlockAt(mode, a) # NoBlock
  BY <1>4 DEF NoBlock, Address
<1>6. QED
  BY <1>1, <1>2, <1>3, <1>4, <1>5 DEF Blocks

(* Tags dropped, none or some, so that no block that keeps its own and is  *)
(* not blind loses another or is written into.                             *)
LEMMA TagsDropped ==
  ASSUME IInv, content' \in [Address -> Values], tag' \in [Address -> Tags],
         UNCHANGED <<ram_block_tag, entry, ram_translation_ptr, cache, limits, left>>,
         blind' \subseteq Offset, blind \subseteq blind',
         \A p \in Address : tag'[p] \in {DATA, tag[p]},
         \A mode \in Modes, a \in Address :
           ~left /\ Found(mode, a) /\ tag'[a] # DATA /\ entry[tag[a]][mode] \notin blind' =>
             \A b \in Spanned(BlockAt(mode, a)) : tag'[b] # DATA /\ content'[b] = content[b]
  PROVE  IInv'
<1> USE Sizes, TagFacts
<1>1. UNCHANGED <<code_min, code_max>>
  BY DEF limits
<1>2. TypeOK' /\ RoomLeft'
  BY <1>1 DEF IInv, TypeOK, RoomLeft
<1>3. \A p \in Address : VALID_TAG(tag'[p]) => tag'[p] = tag[p] /\ tag'[p] # DATA
  BY DEF VALID_TAG
<1>4. LimitsHold'
  BY <1>1, <1>3 DEF IInv, LimitsHold
<1>5. CASE left
  BY <1>2, <1>4, <1>5 DEF IInv, TagsOK, TranslationsAreCurrent
<1>6. CASE ~left
  <2>1. TagsGiven' /\ TagsDistinct'
    <3>1. TagsGiven /\ TagsDistinct
      BY <1>6 DEF IInv, TagsOK
    <3>2. TagsGiven'
      BY <1>3, <3>1 DEF TagsGiven
    <3>3. TagsDistinct'
      BY <1>3, <3>1 DEF TagsDistinct
    <3>4. QED
      BY <3>2, <3>3
  <2>2. ASSUME NEW mode \in Modes, NEW a \in Address, Found(mode, a)'
        PROVE  /\ Found(mode, a) /\ tag'[a] = tag[a] /\ tag'[a] # DATA
               /\ BlockAt(mode, a)' = BlockAt(mode, a)
               /\ entry'[tag'[a]][mode] = entry[tag[a]][mode]
    BY <1>3, <2>2 DEF Found, BlockAt
  <2>3. ASSUME NEW mode \in Modes, NEW a \in Address, Found(mode, a)',
               entry'[tag'[a]][mode] \notin blind'
        PROVE  /\ \A b \in Spanned(BlockAt(mode, a)') : tag'[b] # DATA
               /\ BlockAt(mode, a)'.code = Code(a, Len(BlockAt(mode, a).code))'
    <3>1. PICK block, n : block = BlockAt(mode, a) /\ n = Len(block.code)
      OBVIOUS
    <3>2. /\ Found(mode, a) /\ tag'[a] = tag[a] /\ tag'[a] # DATA
          /\ BlockAt(mode, a)' = block
          /\ entry[tag[a]][mode] \notin blind' /\ entry[tag[a]][mode] \notin blind
      BY <2>2, <2>3, <3>1
    <3>3. \A b \in Spanned(block) : tag'[b] # DATA /\ content'[b] = content[b]
      BY <1>6, <3>1, <3>2
    <3>4. n \in Nat /\ block.start = a
      BY <1>6, <3>1, <3>2, FoundBlock
    <3>5. block.code = Code(a, n)
      BY <1>6, <3>1, <3>2 DEF IInv, TranslationsAreCurrent
    <3>6. Code(a, n)' = Code(a, n)
      BY <3>1, <3>3, <3>4, CodeKept DEF Spanned
    <3>7. Len(BlockAt(mode, a)'.code) = n
      BY <3>1, <3>2
    <3>8. QED
      BY <3>2, <3>3, <3>5, <3>6, <3>7
  <2>4. BlocksTagged'
    BY <2>3 DEF BlocksTagged, Spanned
  <2>5. TranslationsAreCurrent'
    <3>1. ASSUME NEW mode \in Modes, NEW a \in Address, Found(mode, a)'
          PROVE  BlockAt(mode, a)'.start = a /\ BlockAt(mode, a)'.mode = mode
      BY <1>6, <2>2, <3>1, FoundBlock
    <3>2. QED
      BY <2>3, <3>1 DEF TranslationsAreCurrent
  <2>6. QED
    BY <1>2, <1>4, <2>1, <2>4, <2>5 DEF IInv, TagsOK
<1>7. QED
  BY <1>5, <1>6 DEF IInv, TypeOK

-----------------------------------------------------------------------------
(* Writes.                                                                 *)

LEMMA WritesWithin ==
  ASSUME content \in [Address -> Values], NEW written, Writes(written)
  PROVE  /\ content' \in [Address -> Values]
         /\ \A b \in Address : b \notin written => content'[b] = content[b]
<1>1. PICK v \in [written -> Values] :
        content' = [b \in Address |-> IF b \in written THEN v[b] ELSE content[b]]
  BY DEF Writes
<1>2. \A b \in Address : b \in written => v[b] \in Values
  OBVIOUS
<1>3. QED
  BY <1>1, <1>2

(* A write that finds no tag is into no block whose tags it could find:    *)
(* what it does not look at makes the block blind.                         *)
LEMMA NothingSeenCorrect ==
  ASSUME IInv, NEW written, Writes(written), NEW checked, NothingSeen(written, checked)
  PROVE  IInv'
<1>1. /\ content' \in [Address -> Values]
      /\ \A b \in Address : b \notin written => content'[b] = content[b]
  BY WritesWithin DEF IInv, TypeOK
<1>2. UNCHANGED <<tag, ram_block_tag, entry, ram_translation_ptr, cache, limits, left>>
  BY DEF NothingSeen, translations
<1>3. blind' = blind \cup Unseen(written \ checked) /\ \A b \in checked : tag[b] = DATA
  BY DEF NothingSeen
<1>4. blind' \subseteq Offset /\ blind \subseteq blind'
  BY <1>3 DEF IInv, TypeOK, Unseen
<1>5. ASSUME ~left, NEW mode \in Modes, NEW a \in Address, Found(mode, a),
             entry[tag[a]][mode] \notin blind',
             NEW b \in Spanned(BlockAt(mode, a))
      PROVE  tag'[b] # DATA /\ content'[b] = content[b]
  <2>1. /\ entry[tag[a]][mode] \in Offset
        /\ BlockAt(mode, a) \in [start : Address, mode : Modes, code : Seq(Values)]
    BY <1>5, FoundBlock
  <2>2. b \in Address
    <3>1. BlockAt(mode, a).start \in Address /\ Len(BlockAt(mode, a).code) \in Nat
      BY <2>1
    <3>2. QED
      BY <3>1, SpanIn DEF Spanned
  <2>3. tag[b] # DATA
    BY <1>4, <1>5 DEF IInv, TagsOK, BlocksTagged
  <2>4. b \notin written \ checked
    BY <1>3, <1>5, <2>1 DEF Unseen, BlockAt
  <2>5. b \notin written
    BY <1>3, <2>3, <2>4
  <2>6. QED
    BY <1>1, <1>2, <2>2, <2>3, <2>5
<1>6. tag' \in [Address -> Tags] /\ \A p \in Address : tag'[p] \in {DATA, tag[p]}
  BY <1>2 DEF IInv, TypeOK
<1>7. QED
  BY <1>1, <1>2, <1>4, <1>5, <1>6, TagsDropped

LEMMA StoreChecksCorrect ==
  ASSUME IInv, NEW written, Writes(written), NEW checked, StoreChecks(written, checked)
  PROVE  IInv'
<1>1. content' \in [Address -> Values]
  BY WritesWithin DEF IInv, TypeOK
<1>2. QED
  BY <1>1, NothingSeenCorrect, FlushesCorrect DEF StoreChecks

LEMMA StoreCorrect ==
  ASSUME IInv, NEW a \in Address, NEW n \in {1, 2}, Store(a, n)
  PROVE  IInv'
BY StoreChecksCorrect DEF Store

LEMMA StoreMultipleCorrect ==
  ASSUME IInv, NEW a \in Address, NEW words \in 1 .. 16, StoreMultiple(a, words)
  PROVE  IInv'
BY StoreChecksCorrect DEF StoreMultiple

LEMMA TopTagUnused ==
  ASSUME IInv, ~left
  PROVE  NoTopTag
<1> SUFFICES ASSUME NEW a \in Address, tag[a] = SMC_TAG_UB16 PROVE FALSE
  BY DEF NoTopTag
<1>1. VALID_TAG(tag[a]) /\ tag[a] > INITIAL_TOP_TAG
  BY Sizes, TagFacts DEF VALID_TAG
<1>2. QED
  BY <1>1, Sizes, TagFacts DEF IInv, TagsOK, TagsGiven

(* The partial flush drops a block's own tag if it drops any, and what was *)
(* written to is in a run, as far as it is tagged.                         *)
LEMMA PartialFlushCorrect ==
  ASSUME IInv, NEW a \in Address, NEW n \in {1, 2},
         Writes(Span(a, n)), partial_flush_ram_inner(a)
  PROVE  IInv'
<1>1. /\ content' \in [Address -> Values]
      /\ \A b \in Address : b \notin Span(a, n) => content'[b] = content[b]
  BY WritesWithin DEF IInv, TypeOK
<1>2. /\ tag' = [b \in Address |-> IF b \in PartialFlushed(a) THEN DATA ELSE tag[b]]
      /\ UNCHANGED <<ram_block_tag, entry, ram_translation_ptr, cache, limits, blind, left>>
  BY DEF partial_flush_ram_inner, history
<1>3. tag' \in [Address -> Tags] /\ \A p \in Address : tag'[p] \in {DATA, tag[p]}
  BY <1>2 DEF IInv, TypeOK, Tags
<1>4. ASSUME NEW b \in Span(a, n), tag[b] # DATA PROVE b \in PartialFlushed(a)
  <2>1. PICK i \in 0 .. n - 1 : b = Place(a, i)
    BY DEF Span
  <2>2. CASE i = 0
    BY <2>1, <2>2, Ring, Sizes DEF Address, PartialFlushed
  <2>3. CASE i = 1
    <3>1. 1 \in 1 .. Length - 1 /\ \A k \in 1 .. 1 : tag[Right(a, k)] # DATA
      BY <1>4, <2>1, <2>3, Sizes DEF Right
    <3>2. b \in RightRun(a)
      BY <2>1, <2>3, <3>1 DEF RightRun, Right
    <3>3. QED
      BY <3>2 DEF PartialFlushed
  <2>4. QED
    BY <2>1, <2>2, <2>3
<1>5. ASSUME ~left, NEW mode \in Modes, NEW c \in Address, Found(mode, c), tag'[c] # DATA,
             entry[tag[c]][mode] \notin blind',
             NEW b \in Spanned(BlockAt(mode, c))
      PROVE  tag'[b] # DATA /\ content'[b] = content[b]
  <2>1. PICK len : len = Len(BlockAt(mode, c).code)
    OBVIOUS
  <2>2. BlockAt(mode, c).start = c /\ len \in Nat
    BY <1>5, <2>1, FoundBlock
  <2>3. \A x \in Span(c, len) : tag[x] # DATA
    BY <1>2, <1>5, <2>1, <2>2 DEF IInv, TagsOK, BlocksTagged, Spanned
  <2>4. PICK k \in 0 .. len - 1 : b = Place(c, k)
    BY <1>5, <2>1, <2>2 DEF Spanned, Span
  <2>5. b \in Address /\ tag[b] # DATA
    BY <2>2, <2>3, <2>4, PlaceIn DEF Span
  <2>6. \A i \in 0 .. k : tag[Place(c, i)] # DATA
    BY <2>2, <2>3 DEF Span
  <2>7. c \notin PartialFlushed(a)
    BY <1>2, <1>5
  <2>8. b \notin PartialFlushed(a)
    BY <1>5, <2>2, <2>4, <2>6, <2>7, TopTagUnused, RunReachesStart
  <2>9. b \notin Span(a, n)
    BY <1>4, <2>5, <2>8
  <2>10. QED
    BY <1>1, <1>2, <2>5, <2>8, <2>9
<1>6. blind' \subseteq Offset /\ blind \subseteq blind'
  BY <1>2 DEF IInv, TypeOK
<1>7. QED
  BY <1>1, <1>2, <1>3, <1>5, <1>6, TagsDropped

LEMMA DmaCorrect ==
  ASSUME IInv, NEW a \in Address, NEW n \in {1, 2}, Dma(a, n)
  PROVE  IInv'
<1>1. Writes(Span(a, n)) /\ DmaChecks(Span(a, n), a)
  BY DEF Dma
<1>2. content' \in [Address -> Values]
  BY <1>1, WritesWithin DEF IInv, TypeOK
<1>3. CASE NothingSeen(Span(a, n), {a})
  BY <1>1, <1>3, NothingSeenCorrect
<1>4. CASE flush_dynarec_caches
  BY <1>2, <1>4, FlushesCorrect
<1>5. CASE partial_flush_ram_inner(a)
  BY <1>1, <1>5, PartialFlushCorrect
<1>6. QED
  BY <1>1, <1>3, <1>4, <1>5 DEF DmaChecks, partial_flush_ram_full_dma

-----------------------------------------------------------------------------
(* Translation.                                                            *)

(* The limits take in the block's first instruction.                       *)
LEMMA LimitsGrow ==
  ASSUME TypeOK, NEW mode \in Modes, NEW a \in Address, NEW n \in Nat, n >= 1
  PROVE  /\ Lowest(a, mode, n) \in 0 .. Length /\ Highest(a, mode, n) \in 0 .. Length
         /\ Lowest(a, mode, n) <= a /\ Lowest(a, mode, n) <= code_min
         /\ a <= Highest(a, mode, n) /\ code_max <= Highest(a, mode, n)
<1> USE Sizes
<1>1. Pcs(a, mode, n) \subseteq Address
  <2>1. ASSUME NEW i \in 0 .. n - 1 PROVE Place(a, i * Width[mode]) \in Address
    <3>1. i * Width[mode] \in Nat
      BY DEF Modes
    <3>2. QED
      BY <3>1, PlaceIn
  <2>2. QED
    BY <2>1 DEF Pcs
<1>2. a \in Pcs(a, mode, n)
  <2>1. 0 \in 0 .. n - 1 /\ 0 * Width[mode] = 0
    BY DEF Modes
  <2>2. Place(a, 0) = a
    BY Ring DEF Address
  <2>3. QED
    BY <2>1, <2>2 DEF Pcs
<1>3. code_min \in 0 .. Length /\ code_max \in 0 .. Length /\ Address \subseteq 0 .. Length
  BY DEF TypeOK, Address
<1>4. PICK S : S = {code_min} \cup Pcs(a, mode, n)
  OBVIOUS
<1>5. PICK T : T = {code_max} \cup Pcs(a, mode, n)
  OBVIOUS
<1>6. /\ Min(S) \in S /\ \A x \in S : Min(S) <= x
      /\ Max(T) \in T /\ \A x \in T : x <= Max(T)
  <2>1. S \subseteq 0 .. Length /\ S # {} /\ T \subseteq 0 .. Length /\ T # {}
    BY <1>1, <1>3, <1>4, <1>5
  <2>2. QED
    BY <2>1, MinMaxOf
<1>7. Lowest(a, mode, n) = Min(S) /\ Highest(a, mode, n) = Max(T)
  BY <1>4, <1>5 DEF Lowest, Highest
<1>8. QED
  BY <1>1, <1>2, <1>3, <1>4, <1>5, <1>6, <1>7

(* Scanning a block tags what had no tag, and changes no other.            *)
LEMMA Scans ==
  ASSUME TypeOK, NEW mode \in Modes, NEW a \in Address, NEW fresh,
         fresh <=> ~VALID_TAG(tag[a]), NEW span, NEW tags,
         tags = Scanned(IF fresh THEN Allocated(a, mode) ELSE tag, span, mode)
  PROVE  /\ tags \in [Address -> Tags]
         /\ tags[a] = IF fresh THEN ram_block_tag ELSE tag[a]
         /\ \A b \in Address : b # a /\ tag[b] # DATA => tags[b] = tag[b]
         /\ \A b \in Address : b # a /\ tag[b] = DATA => tags[b] \in {DATA, CODE_TAG_BLOCK16}
<1> USE Sizes, TagFacts
<1>1. PICK given : given = IF fresh THEN Allocated(a, mode) ELSE tag
  OBVIOUS
<1>2. /\ given \in [Address -> Tags]
      /\ given[a] = IF fresh THEN ram_block_tag ELSE tag[a]
      /\ \A b \in Address : b # a /\ tag[b] # DATA => given[b] = tag[b]
      /\ \A b \in Address : b # a /\ tag[b] = DATA => given[b] \in {DATA, CODE_TAG_BLOCK16}
  <2>1. CASE fresh
    <3>1. given = Allocated(a, mode)
      BY <1>1, <2>1
    <3>2. \A b \in Address : given[b] = IF b = a THEN ram_block_tag
            ELSE IF mode = "arm" /\ b = a + 1 /\ tag[b] = DATA THEN CODE_TAG_BLOCK16
            ELSE tag[b]
      BY <3>1 DEF Allocated
    <3>3. given \in [Address -> Tags]
      <4>1. \A b \in Address : given[b] \in Tags
        BY <3>2 DEF TypeOK, Tags
      <4>2. QED
        BY <3>1, <4>1 DEF Allocated
    <3>4. QED
      BY <2>1, <3>2, <3>3
  <2>2. CASE ~fresh
    BY <1>1, <2>2 DEF TypeOK
  <2>3. QED
    BY <2>1, <2>2
<1>3. given[a] # DATA
  BY <1>2 DEF TypeOK, VALID_TAG, Headers
<1>4. /\ tags = [b \in Address |->
                  IF b \in span /\ \A c \in Instruction(b, mode) : given[c] = DATA
                  THEN CODE_TAG_BLOCK16 ELSE given[b]]
  BY <1>1 DEF Scanned
<1>5. \A b \in Address : b \in Instruction(b, mode)
  BY DEF Instruction
<1>6. \A b \in Address : given[b] # DATA => tags[b] = given[b]
  BY <1>4, <1>5
<1>7. \A b \in Address : tags[b] \in {given[b], CODE_TAG_BLOCK16}
  BY <1>4
<1>8. tags \in [Address -> Tags]
  BY <1>2, <1>4, <1>7 DEF Tags
<1>9. QED
  BY <1>2, <1>3, <1>6, <1>7, <1>8

(* The cache's limit keeps a gap to the table, one tag more or not.        *)
LEMMA LimitFacts ==
  ASSUME ram_block_tag \in Headers, ram_translation_ptr \in Nat, RoomLeft,
         NEW next, next \in {ram_block_tag, ram_block_tag - 2},
         NEW size \in Nat, size >= 1, NEW fits,
         fits = Max({0, CacheLimit(next) - ram_translation_ptr})
  PROVE  /\ fits \in Nat
         /\ size <= fits =>
              next >= 7 + 2 * (ram_translation_ptr + size + 1) /\ next \in Headers
<1> USE Sizes, TagFacts
<1>1. ram_block_tag \in Headers /\ ram_translation_ptr \in Nat
  OBVIOUS
<1>2. PICK k \in Nat : next = 2 * k + 1
  <2>1. ram_block_tag \in Nat /\ ram_block_tag % 2 = 1 /\ ram_block_tag >= 7
    BY <1>1 DEF RoomLeft, Headers
  <2>2. next \in Nat /\ next % 2 = 1
    BY <2>1
  <2>3. next \div 2 \in Nat /\ next = 2 * (next \div 2) + 1
    BY <2>2
  <2>4. QED
    BY <2>3
<1>3. (TAG_END - next) \div 2 = RAM_TRANSLATION_CACHE_SIZE + 1 - k
  BY <1>2
<1>4. CacheLimit(next) = k - 1 - TRANSLATION_CACHE_LIMIT_THRESHOLD
  BY <1>3, ThresholdAssumption DEF CacheLimit
<1>5. TRANSLATION_CACHE_LIMIT_THRESHOLD \in Nat /\ TRANSLATION_CACHE_LIMIT_THRESHOLD >= 3
  BY ThresholdAssumption
<1>6. /\ fits \in {0, CacheLimit(next) - ram_translation_ptr}
      /\ fits >= 0 /\ fits >= CacheLimit(next) - ram_translation_ptr
  <2>1. PICK gap \in Int : gap = CacheLimit(next) - ram_translation_ptr
    BY <1>1, <1>4, <1>5
  <2>2. fits = Max({0, gap}) /\ 0 \in Int
    BY <2>1
  <2>3. QED
    BY <2>1, <2>2, MaxOfTwo
<1>7. fits \in Nat
  BY <1>1, <1>4, <1>5, <1>6
<1>8. ASSUME size <= fits
      PROVE  next >= 7 + 2 * (ram_translation_ptr + size + 1) /\ next \in Headers
  <2>1. fits = k - 1 - TRANSLATION_CACHE_LIMIT_THRESHOLD - ram_translation_ptr
    BY <1>4, <1>6, <1>8
  <2>2. k >= ram_translation_ptr + size + 4
    BY <1>1, <1>5, <1>8, <2>1
  <2>3. next >= 7 + 2 * (ram_translation_ptr + size + 1)
    BY <1>1, <1>2, <2>2
  <2>4. next \in Headers
    BY <1>1, <1>2, <2>3 DEF RoomLeft, Headers
  <2>5. QED
    BY <2>3, <2>4
<1>9. QED
  BY <1>7, <1>8

LEMMA TranslateCorrect ==
  ASSUME IInv, NEW mode \in Modes, NEW a \in Address, NEW size \in 1 .. MaxBlock,
         block_lookup_translate(mode, a, size)
  PROVE  IInv'
<1> USE Sizes, TagFacts
<1>1. content' = content
  BY DEF block_lookup_translate
<1>2. PICK fresh \in BOOLEAN : fresh <=> ~VALID_TAG(tag[a])
  OBVIOUS
<1>3. PICK t : t = IF fresh THEN ram_block_tag ELSE tag[a]
  OBVIOUS
<1>4. PICK next : next = IF fresh THEN ram_block_tag - 2 ELSE ram_block_tag
  OBVIOUS
<1>5. PICK len : len = size * Width[mode]
  OBVIOUS
<1>6. PICK tags : tags = Scanned(IF fresh THEN Allocated(a, mode) ELSE tag, Span(a, len), mode)
  OBVIOUS
<1>7. PICK fits : fits = Max({0, CacheLimit(next) - ram_translation_ptr})
  OBVIOUS
<1>8. PICK n, low, high : /\ n = (IF size <= fits THEN size ELSE fits + 1)
                          /\ low = Lowest(a, mode, n) /\ high = Highest(a, mode, n)
  OBVIOUS
<1>9. /\ TypeOK /\ RoomLeft /\ LimitsHold /\ TagsOK /\ TranslationsAreCurrent
      /\ content \in [Address -> Values] /\ cache \in [Offset -> Blocks]
  BY DEF IInv, TypeOK
<1>10. size \in Nat /\ size >= 1 /\ len \in Nat /\ len >= 1
  BY <1>5 DEF Modes
<1>11. /\ fits \in Nat
       /\ size <= fits => next >= 7 + 2 * (ram_translation_ptr + size + 1) /\ next \in Headers
  <2>1. next \in {ram_block_tag, ram_block_tag - 2}
    BY <1>4
  <2>2. QED
    BY <1>7, <1>9, <1>10, <2>1, LimitFacts DEF TypeOK
<1>12. /\ fresh \/ entry[t][mode] = NoOffset
       /\ entry' = Placed(t, fresh, mode)
       /\ \/ /\ size <= fits
             /\ tag' = tags
             /\ ram_block_tag' = next
             /\ cache' = [cache EXCEPT ![ram_translation_ptr] =
                            [start |-> a, mode |-> mode, code |-> Code(a, len)]]
             /\ ram_translation_ptr' = ram_translation_ptr + size + 1
             /\ code_min' = low /\ code_max' = high
             /\ blind' = blind \cup
                  {o \in {ram_translation_ptr} : \E b \in Span(a, len) : tags[b] = DATA}
             /\ left' = left
          \/ /\ ~(size <= fits)
             /\ Flush(tags, low, high)
  <2>1. /\ fresh \/ entry[t][mode] = NoOffset
        /\ entry' = Placed(t, fresh, mode)
        /\ \/ /\ size <= fits
              /\ tag' = tags
              /\ ram_block_tag' = next
              /\ cache' = [cache EXCEPT ![ram_translation_ptr] =
                             [start |-> a, mode |-> mode, code |-> Code(a, len)]]
              /\ ram_translation_ptr' = ram_translation_ptr + size + 1
              /\ code_min' = Lowest(a, mode, size) /\ code_max' = Highest(a, mode, size)
              /\ blind' = blind \cup
                   {o \in {ram_translation_ptr} : \E b \in Span(a, len) : tags[b] = DATA}
              /\ UNCHANGED left
           \/ /\ size > fits
              /\ Flush(tags, Lowest(a, mode, fits + 1), Highest(a, mode, fits + 1))
    BY <1>2, <1>3, <1>4, <1>5, <1>6, <1>7, Zenon DEF block_lookup_translate
  <2>2. CASE size <= fits
    <3>1. ~(size > fits) /\ low = Lowest(a, mode, size) /\ high = Highest(a, mode, size)
      BY <1>8, <1>10, <1>11, <2>2
    <3>2. QED
      BY <2>1, <2>2, <3>1, Zenon
  <2>3. CASE ~(size <= fits)
    <3>1. low = Lowest(a, mode, fits + 1) /\ high = Highest(a, mode, fits + 1)
      BY <1>8, <2>3
    <3>2. QED
      BY <2>1, <2>3, <3>1, Zenon
  <2>4. QED
    BY <2>2, <2>3
<1>13. /\ tags \in [Address -> Tags]
       /\ tags[a] = IF fresh THEN ram_block_tag ELSE tag[a]
       /\ \A b \in Address : b # a /\ tag[b] # DATA => tags[b] = tag[b]
       /\ \A b \in Address : b # a /\ tag[b] = DATA => tags[b] \in {DATA, CODE_TAG_BLOCK16}
  BY <1>2, <1>6, <1>9, Scans
<1>14. /\ ram_block_tag \in Headers /\ ram_block_tag \in Nat /\ ram_translation_ptr \in Nat
       /\ ram_block_tag >= 7 + 2 * ram_translation_ptr /\ ram_block_tag <= INITIAL_TOP_TAG
       /\ ram_translation_ptr \in Offset
  BY <1>9 DEF TypeOK, RoomLeft, Headers, Offset
<1>15. tags[a] = t /\ VALID_TAG(t) /\ t \in Headers
  <2>1. CASE fresh
    BY <1>3, <1>13, <1>14, <2>1 DEF VALID_TAG
  <2>2. CASE ~fresh
    <3>1. VALID_TAG(tag[a]) /\ t = tag[a]
      BY <1>2, <1>3, <2>2
    <3>2. tag[a] \in Headers
      BY <1>9, <3>1 DEF TypeOK, Tags, VALID_TAG
    <3>3. QED
      BY <1>13, <2>2, <3>1, <3>2
  <2>3. QED
    BY <2>1, <2>2
<1>16. ASSUME NEW b \in Address, b # a, VALID_TAG(tags[b])
       PROVE  tag[b] = tags[b] /\ VALID_TAG(tag[b]) /\ tag[b] \in Headers
  <2>1. tags[b] \notin {DATA, CODE_TAG_BLOCK16}
    BY <1>16 DEF VALID_TAG
  <2>2. tags[b] = tag[b]
    BY <1>13, <1>16, <2>1
  <2>3. QED
    BY <1>9, <1>16, <2>1, <2>2 DEF TypeOK, Tags
<1>17. /\ entry' \in [Headers -> [Modes -> Offset]]
       /\ \A u \in Headers : u # t => entry'[u] = entry[u]
       /\ entry'[t][mode] = ram_translation_ptr
       /\ \A m \in Modes : m # mode => entry'[t][m] = IF fresh THEN NoOffset ELSE entry[t][m]
  <2>1. entry \in [Headers -> [Modes -> Offset]] /\ NoOffset \in Offset
    BY <1>9 DEF TypeOK, Offset, NoOffset
  <2>2. PICK offsets \in [Modes -> Offset] :
          offsets = [m \in Modes |-> IF m = mode THEN ram_translation_ptr
                                     ELSE IF fresh THEN NoOffset ELSE entry[t][m]]
    BY <1>14, <1>15, <2>1
  <2>3. entry' = [entry EXCEPT ![t] = offsets]
    BY <1>12, <2>2 DEF Placed
  <2>4. QED
    BY <1>15, <2>1, <2>2, <2>3
<1>18. /\ low \in 0 .. Length /\ high \in 0 .. Length
       /\ low <= a /\ low <= code_min /\ a <= high /\ code_max <= high
  <2>1. n \in Nat /\ n >= 1
    BY <1>8, <1>10, <1>11
  <2>2. QED
    BY <1>8, <1>9, <2>1, LimitsGrow
<1>19. ASSUME NEW p \in Address, VALID_TAG(tags[p])
       PROVE  (low <= p /\ p <= high) \/ (p = 0 /\ left)
  <2>1. CASE p = a
    BY <1>18, <2>1
  <2>2. CASE p # a
    <3>1. (code_min <= p /\ p <= code_max) \/ (p = 0 /\ left)
      BY <1>9, <1>16, <1>19, <2>2 DEF LimitsHold
    <3>2. code_min \in 0 .. Length /\ code_max \in 0 .. Length
      BY <1>9 DEF TypeOK
    <3>3. QED
      BY <1>18, <3>1, <3>2 DEF Address
  <2>3. QED
    BY <2>1, <2>2
<1>20. content' \in [Address -> Values]
  BY <1>1, <1>9
<1>21. CASE ~(size <= fits) /\ Flush(tags, low, high)
  BY <1>13, <1>17, <1>18, <1>19, <1>20, <1>21, FlushCorrect
<1>22. CASE /\ size <= fits
            /\ tag' = tags
            /\ ram_block_tag' = next
            /\ cache' = [cache EXCEPT ![ram_translation_ptr] =
                           [start |-> a, mode |-> mode, code |-> Code(a, len)]]
            /\ ram_translation_ptr' = ram_translation_ptr + size + 1
            /\ code_min' = low /\ code_max' = high
            /\ blind' = blind \cup
                 {o \in {ram_translation_ptr} : \E b \in Span(a, len) : tags[b] = DATA}
            /\ left' = left
  <2>1. Code(a, len) \in Seq(Values) /\ Len(Code(a, len)) = len
    BY <1>9, <1>10, CodeType
  <2>2. TypeOK'
    <3>1. cache' \in [Offset -> Blocks]
      BY <1>9, <1>22, <2>1 DEF Blocks
    <3>2. blind' \subseteq Offset /\ left' \in BOOLEAN
      BY <1>9, <1>14, <1>22 DEF TypeOK
    <3>3. ram_translation_ptr' \in Nat /\ ram_block_tag' \in Headers
      BY <1>10, <1>11, <1>14, <1>22
    <3>4. tag' \in [Address -> Tags] /\ code_min' \in 0 .. Length /\ code_max' \in 0 .. Length
      BY <1>13, <1>18, <1>22
    <3>5. QED
      BY <1>17, <1>20, <3>1, <3>2, <3>3, <3>4, Zenon DEF TypeOK
  <2>3. RoomLeft'
    BY <1>4, <1>11, <1>14, <1>22 DEF RoomLeft
  <2>4. LimitsHold'
    BY <1>19, <1>22 DEF LimitsHold
  <2>5. CASE left
    BY <1>22, <2>2, <2>3, <2>4, <2>5 DEF IInv, TagsOK, TranslationsAreCurrent
  <2>6. CASE ~left
    <3>1. TagsGiven /\ TagsDistinct /\ BlocksTagged
      BY <1>9, <2>6 DEF TagsOK
    <3>2. t <= INITIAL_TOP_TAG /\ t > next
      <4>1. CASE fresh
        BY <1>3, <1>4, <1>14, <4>1
      <4>2. CASE ~fresh
        BY <1>2, <1>3, <1>4, <3>1, <4>2 DEF TagsGiven
      <4>3. QED
        BY <4>1, <4>2
    <3>3. ASSUME NEW b \in Address, b # a, VALID_TAG(tags[b]) PROVE tags[b] # t
      <4>1. CASE fresh
        <5>1. tag[b] = tags[b] /\ tag[b] > ram_block_tag /\ tag[b] \in Headers
          BY <1>16, <3>1, <3>3 DEF TagsGiven
        <5>2. QED
          BY <1>3, <1>14, <4>1, <5>1 DEF Headers
      <4>2. CASE ~fresh
        BY <1>2, <1>3, <1>16, <3>1, <3>3, <4>2 DEF TagsDistinct
      <4>3. QED
        BY <4>1, <4>2
    <3>4. ASSUME NEW m \in Modes, NEW b \in Address, Found(m, b)'
          PROVE  \/ m = mode /\ b = a
                 \/ /\ Found(m, b) /\ tags[b] = tag[b] /\ tag[b] \in Headers
                    /\ entry'[tag[b]][m] = entry[tag[b]][m]
      <4>1. VALID_TAG(tags[b]) /\ entry'[tags[b]][m] # NoOffset
        BY <1>22, <3>4 DEF Found
      <4>2. CASE b # a
        <5>1. tags[b] = tag[b] /\ VALID_TAG(tag[b]) /\ tag[b] \in Headers /\ tag[b] # t
          BY <1>16, <3>3, <4>1, <4>2
        <5>2. entry'[tag[b]] = entry[tag[b]]
          BY <1>17, <5>1
        <5>3. QED
          BY <4>1, <5>1, <5>2 DEF Found
      <4>3. CASE b = a /\ m # mode
        <5>1. ~fresh /\ t = tag[a] /\ entry'[t][m] = entry[t][m]
          BY <1>3, <1>15, <1>17, <4>1, <4>3
        <5>2. QED
          BY <1>2, <1>15, <4>1, <4>3, <5>1 DEF Found
      <4>4. QED
        BY <4>2, <4>3
    <3>5. TagsGiven'
      <4>1. ASSUME NEW b \in Address, VALID_TAG(tags[b])
            PROVE  tags[b] > next /\ tags[b] <= INITIAL_TOP_TAG
        <5>1. CASE b = a
          BY <1>15, <3>2, <5>1
        <5>2. CASE b # a
          <6>1. /\ tag[b] = tags[b] /\ tag[b] \in Headers
                /\ tag[b] > ram_block_tag /\ tag[b] <= INITIAL_TOP_TAG
            BY <1>16, <3>1, <4>1, <5>2 DEF TagsGiven
          <6>2. QED
            BY <1>4, <1>14, <6>1 DEF Headers
        <5>3. QED
          BY <5>1, <5>2
      <4>2. ASSUME NEW b \in Address, VALID_TAG(tags[b]),
                   NEW m \in Modes, entry'[tags[b]][m] # NoOffset
            PROVE  entry'[tags[b]][m] < ram_translation_ptr + size + 1
        <5>1. Found(m, b)'
          BY <1>22, <4>2 DEF Found
        <5>2. CASE m = mode /\ b = a
          BY <1>10, <1>14, <1>15, <1>17, <5>2
        <5>3. CASE /\ Found(m, b) /\ tags[b] = tag[b] /\ tag[b] \in Headers
                   /\ entry'[tag[b]][m] = entry[tag[b]][m]
          <6>1. entry[tag[b]][m] < ram_translation_ptr
            BY <3>1, <5>3 DEF TagsGiven, Found
          <6>2. entry[tag[b]] \in [Modes -> Offset]
            BY <1>9, <5>3 DEF TypeOK
          <6>3. entry[tag[b]][m] \in Nat
            BY <6>2 DEF Offset
          <6>4. QED
            BY <1>10, <1>14, <5>3, <6>1, <6>3
        <5>4. QED
          BY <3>4, <5>1, <5>2, <5>3
      <4>3. QED
        BY <1>22, <4>1, <4>2 DEF TagsGiven
    <3>6. TagsDistinct'
      <4>1. ASSUME NEW b \in Address, NEW c \in Address, VALID_TAG(tags[b]), tags[b] = tags[c]
            PROVE  b = c
        BY <1>15, <1>16, <3>1, <3>3, <4>1 DEF TagsDistinct
      <4>2. QED
        BY <1>22, <4>1 DEF TagsDistinct
    <3>7. ASSUME NEW m \in Modes, NEW b \in Address, Found(m, b)'
          PROVE  \E block :
                   /\ block = BlockAt(m, b)' /\ block.start = b /\ block.mode = m
                   /\ entry'[tag'[b]][m] \notin blind' =>
                        /\ block.code = Code(b, Len(block.code))'
                        /\ \A x \in Span(b, Len(block.code)) : tags[x] # DATA
      <4>1. CASE m = mode /\ b = a
        <5>1. entry'[tag'[b]][m] = ram_translation_ptr
          BY <1>15, <1>17, <1>22, <4>1
        <5>2. BlockAt(m, b)' = cache'[ram_translation_ptr]
          BY <5>1 DEF BlockAt
        <5>3. BlockAt(m, b)' = [start |-> a, mode |-> mode, code |-> Code(a, len)]
          BY <1>9, <1>14, <1>22, <5>2
        <5>4. Code(a, len)' = Code(a, len)
          BY <1>1 DEF Code
        <5>5. entry'[tag'[b]][m] \notin blind' => \A x \in Span(a, len) : tags[x] # DATA
          BY <1>22, <5>1
        <5>6. PICK block : block = BlockAt(m, b)'
          OBVIOUS
        <5>7. /\ block.start = a /\ block.mode = mode
              /\ block.code = Code(a, len) /\ Len(block.code) = len
          BY <2>1, <5>3, <5>6
        <5>8. QED
          BY <4>1, <5>4, <5>5, <5>6, <5>7
      <4>2. CASE /\ Found(m, b) /\ tags[b] = tag[b] /\ tag[b] \in Headers
                 /\ entry'[tag[b]][m] = entry[tag[b]][m]
        <5>1. PICK k, old : k = entry[tag[b]][m] /\ old = BlockAt(m, b)
          OBVIOUS
        <5>2. /\ k \in Offset /\ k < ram_translation_ptr
              /\ old \in [start : Address, mode : Modes, code : Seq(Values)]
              /\ old.start = b /\ old.mode = m
          BY <2>6, <4>2, <5>1, FoundBlock
        <5>3. k # ram_translation_ptr
          BY <1>14, <5>2 DEF Offset
        <5>4. BlockAt(m, b)' = old /\ entry'[tag'[b]][m] = k
          BY <1>9, <1>22, <4>2, <5>1, <5>2, <5>3 DEF BlockAt
        <5>5. ASSUME k \notin blind'
              PROVE  /\ old.code = Code(b, Len(old.code))
                     /\ \A x \in Span(b, Len(old.code)) : tags[x] # DATA
          <6>1. k \notin blind
            BY <1>22, <5>5
          <6>2. old.code = Code(b, Len(old.code))
            BY <1>9, <2>6, <4>2, <5>1, <6>1 DEF TranslationsAreCurrent
          <6>3. \A x \in Span(b, Len(old.code)) : tag[x] # DATA
            BY <3>1, <4>2, <5>1, <5>2, <6>1 DEF BlocksTagged, Spanned
          <6>4. Span(b, Len(old.code)) \subseteq Address
            BY <5>2, SpanIn
          <6>5. t # DATA
            BY <1>15 DEF VALID_TAG
          <6>6. \A x \in Span(b, Len(old.code)) : tags[x] # DATA
            BY <1>13, <1>15, <6>3, <6>4, <6>5
          <6>7. QED
            BY <6>2, <6>6
        <5>6. PICK size2 : size2 = Len(old.code)
          OBVIOUS
        <5>7. Code(b, size2)' = Code(b, size2)
          BY <1>1 DEF Code
        <5>8. QED
          BY <5>2, <5>4, <5>5, <5>6, <5>7
      <4>3. QED
        BY <3>4, <3>7, <4>1, <4>2
    <3>8. BlocksTagged' /\ TranslationsAreCurrent'
      <4>1. BlocksTagged'
        BY <1>22, <3>7 DEF BlocksTagged, Spanned
      <4>2. TranslationsAreCurrent'
        <5>1. ASSUME NEW m \in Modes, NEW b \in Address, Found(m, b)'
              PROVE  LET block == BlockAt(m, b)' IN
                       /\ block.start = b /\ block.mode = m
                       /\ entry'[tag'[b]][m] \notin blind' =>
                            block.code = [i \in 1 .. Len(block.code) |-> content'[Place(b, i - 1)]]
          <6>1. PICK block :
                  /\ block = BlockAt(m, b)' /\ block.start = b /\ block.mode = m
                  /\ entry'[tag'[b]][m] \notin blind' => block.code = Code(b, Len(block.code))'
            BY <3>7, <5>1
          <6>2. PICK k : k = Len(block.code)
            OBVIOUS
          <6>3. Code(b, k)' = [i \in 1 .. k |-> content'[Place(b, i - 1)]]
            BY DEF Code
          <6>4. QED
            BY <6>1, <6>2, <6>3
        <5>2. QED
          BY <5>1 DEF TranslationsAreCurrent, Code
      <4>3. QED
        BY <4>1, <4>2
    <3>9. QED
      BY <2>2, <2>3, <2>4, <3>5, <3>6, <3>8 DEF IInv, TagsOK
  <2>7. QED
    BY <2>5, <2>6
<1>23. QED
  BY <1>12, <1>21, <1>22

LEMMA StepCorrect ==
  ASSUME IInv, [Next]_vars
  PROVE  IInv'
<1>1. CASE \E mode \in Modes, a \in Address, size \in 1 .. MaxBlock :
             block_lookup_translate(mode, a, size)
  BY <1>1, TranslateCorrect
<1>2. CASE \E a \in Address, n \in {1, 2} : Store(a, n)
  BY <1>2, StoreCorrect
<1>3. CASE \E a \in Address, words \in 1 .. 16 : StoreMultiple(a, words)
  BY <1>3, StoreMultipleCorrect
<1>4. CASE \E a \in Address, n \in {1, 2} : Dma(a, n)
  BY <1>4, DmaCorrect
<1>5. CASE LoadState
  BY <1>5, FlushesCorrect, ContentsAssumption DEF LoadState
<1>6. CASE ChangePolicy
  BY <1>6, FlushesCorrect DEF ChangePolicy, IInv, TypeOK
<1>7. CASE UNCHANGED vars
  <2>1. /\ UNCHANGED <<tag, ram_block_tag, entry, ram_translation_ptr, cache, limits, left>>
        /\ content' = content /\ blind' = blind
    BY <1>7 DEF vars, translations, history
  <2>2. ASSUME ~left, NEW mode \in Modes, NEW c \in Address, Found(mode, c),
               entry[tag[c]][mode] \notin blind',
               NEW b \in Spanned(BlockAt(mode, c))
        PROVE  tag'[b] # DATA /\ content'[b] = content[b]
    BY <2>1, <2>2 DEF IInv, TagsOK, BlocksTagged
  <2>3. /\ content' \in [Address -> Values] /\ tag' \in [Address -> Tags]
        /\ blind' \subseteq Offset /\ blind \subseteq blind'
        /\ \A p \in Address : tag'[p] \in {DATA, tag[p]}
    BY <2>1 DEF IInv, TypeOK
  <2>4. QED
    BY <2>1, <2>2, <2>3, TagsDropped
<1>8. QED
  BY <1>1, <1>2, <1>3, <1>4, <1>5, <1>6, <1>7 DEF Next

(* The block that a lookup finds is of that address and mode and, if it is *)
(* all tagged and no write passed by its tags, of what is in RAM now:      *)
(* whatever is written, translated, flushed and loaded in whatever order,  *)
(* in a RAM and a cache of any size, with blocks of any length, ARM and    *)
(* Thumb in the same place, and stores of any number of words; from one    *)
(* flush to the next, unless the first left a block's tag at offset 0.     *)
THEOREM CodeIsCurrent == Spec => []TranslationsAreCurrent
<1>1. IInv /\ [Next]_vars => IInv'
  BY StepCorrect
<1>2. IInv => TranslationsAreCurrent
  BY DEF IInv
<1>3. QED
  BY <1>1, <1>2, InitCorrect, PTL DEF Spec

-----------------------------------------------------------------------------
(* The cache and its table need none of that: only that tags are given one *)
(* by one from the top, and that the cache's limit is kept.                *)
RoomIInv == ram_block_tag \in Headers /\ ram_translation_ptr \in Nat /\ RoomLeft

LEMMA RoomAfterFlush ==
  ASSUME NEW tags, NEW low, NEW high, Flush(tags, low, high)
  PROVE  RoomIInv'
BY Sizes, TagFacts DEF Flush, RoomIInv, RoomLeft

LEMMA RoomStep == RoomIInv /\ [Next]_vars => RoomIInv'
<1> SUFFICES ASSUME RoomIInv, [Next]_vars PROVE RoomIInv'
  OBVIOUS
<1>1. ASSUME UNCHANGED <<ram_block_tag, ram_translation_ptr>> PROVE RoomIInv'
  BY <1>1 DEF RoomIInv, RoomLeft
<1>2. ASSUME UNCHANGED translations PROVE RoomIInv'
  BY <1>1, <1>2 DEF translations
<1>3. ASSUME flush_translation_cache_ram \/ flush_dynarec_caches PROVE RoomIInv'
  BY <1>3, RoomAfterFlush DEF flush_translation_cache_ram, flush_dynarec_caches
<1>4. ASSUME NEW mode \in Modes, NEW a \in Address, NEW size \in 1 .. MaxBlock,
             block_lookup_translate(mode, a, size)
      PROVE  RoomIInv'
  <2>2. PICK fresh \in BOOLEAN : fresh <=> ~VALID_TAG(tag[a])
    OBVIOUS
  <2>3. PICK next : next = IF fresh THEN ram_block_tag - 2 ELSE ram_block_tag
    OBVIOUS
  <2>5. PICK fits : fits = Max({0, CacheLimit(next) - ram_translation_ptr})
    OBVIOUS
  <2>6. size \in Nat /\ size >= 1
    BY Sizes
  <2>7. size <= fits => next >= 7 + 2 * (ram_translation_ptr + size + 1) /\ next \in Headers
    <3>1. next \in {ram_block_tag, ram_block_tag - 2}
      BY <2>3
    <3>2. QED
      BY <2>5, <2>6, <3>1, LimitFacts DEF RoomIInv
  <2>8. \/ /\ size <= fits
           /\ ram_block_tag' = next
           /\ ram_translation_ptr' = ram_translation_ptr + size + 1
        \/ \E tags, low, high : Flush(tags, low, high)
    BY <1>4, <2>2, <2>3, <2>5 DEF block_lookup_translate
  <2>9. CASE /\ size <= fits
             /\ ram_block_tag' = next
             /\ ram_translation_ptr' = ram_translation_ptr + size + 1
    <3>1. next <= INITIAL_TOP_TAG
      BY <2>3, Sizes, TagFacts DEF RoomIInv, RoomLeft, Headers
    <3>2. QED
      BY <2>6, <2>7, <2>9, <3>1 DEF RoomIInv, RoomLeft
  <2>10. QED
    BY <2>8, <2>9, RoomAfterFlush
<1>5. CASE \E a \in Address, n \in {1, 2} : Store(a, n)
  BY <1>2, <1>3, <1>5 DEF Store, StoreChecks, NothingSeen
<1>6. CASE \E a \in Address, words \in 1 .. 16 : StoreMultiple(a, words)
  BY <1>2, <1>3, <1>6 DEF StoreMultiple, StoreChecks, NothingSeen
<1>7. CASE \E a \in Address, n \in {1, 2} : Dma(a, n)
  BY <1>1, <1>2, <1>3, <1>7
     DEF Dma, DmaChecks, NothingSeen, partial_flush_ram_full_dma, partial_flush_ram_inner
<1>8. CASE LoadState \/ ChangePolicy
  BY <1>3, <1>8 DEF LoadState, ChangePolicy
<1>9. CASE UNCHANGED vars
  BY <1>2, <1>9 DEF vars
<1>10. QED
  BY <1>4, <1>5, <1>6, <1>7, <1>8, <1>9 DEF Next

(* The blocks growing up and the tags' table growing down never meet, in a *)
(* cache of any size from five units on and with no assumption on what the *)
(* game runs and writes.                                                   *)
THEOREM TableNeverMet == Spec => []CacheAndTableApart
<1>1. Init => RoomIInv
  BY Sizes, TagFacts DEF Init, RoomIInv, RoomLeft
<1>2. RoomIInv => CacheAndTableApart
  <2> SUFFICES ASSUME RoomIInv PROVE CacheAndTableApart
    OBVIOUS
  <2> USE Sizes, TagFacts
  <2>1. PICK k \in Nat : ram_block_tag = 2 * k + 1
    <3>1. ram_block_tag \in Nat /\ ram_block_tag % 2 = 1
      BY DEF RoomIInv, Headers
    <3>2. ram_block_tag \div 2 \in Nat /\ ram_block_tag = 2 * (ram_block_tag \div 2) + 1
      BY <3>1
    <3>3. QED
      BY <3>2
  <2>2. (TAG_END - ram_block_tag - 1) \div 2 = RAM_TRANSLATION_CACHE_SIZE + 1 - k
    BY <2>1
  <2>3. k >= ram_translation_ptr + 3
    BY <2>1 DEF RoomIInv, RoomLeft
  <2>4. QED
    BY <2>1, <2>2, <2>3 DEF CacheAndTableApart, RoomIInv
<1>3. QED
  BY <1>1, <1>2, RoomStep, PTL DEF Spec
=============================================================================

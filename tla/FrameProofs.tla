---------------------------- MODULE FrameProofs -----------------------------
(***************************************************************************)
(* Proofs about frames: the screen buffers, for any number of buffers      *)
(* above one, and the pace of frames, for a counter of any width, any      *)
(* period and any fraction of a tick.                                      *)
(***************************************************************************)
EXTENDS ScreenFlip, FramePacing, TLAPS

-----------------------------------------------------------------------------
(* The screen buffers.                                                     *)

(* The buffer drawn into is never the one the LCD was told to read, nor,   *)
(* once drawing has begun, the one whose lines it is reading.              *)
Apart ==
  /\ base # drawing
  /\ pc = "draw" => reading # drawing \/ porch
  /\ \A s \in Screens : buffers[s].whole \/ (s = drawing /\ pc = "draw")

(* The buffer the LCD takes next holds the last frame flipped.             *)
LastIsNext == buffers[base].frame = frame

(* A valid cache entry says what is in the buffer's bands.                 *)
CacheIsTrue == \A s \in Screens : shown[s].valid => buffers[s].bands = shown[s].text

(* While a flip waits, the time runs out only after a refresh, which took  *)
(* the LCD to the buffer just flipped.                                     *)
WaitSeesRefresh == pc = "wait" /\ waited > 0 => reading = base

IInv ==
  /\ TypeOK
  /\ Apart
  /\ LastIsNext
  /\ CacheIsTrue
  /\ BandsSayTheText
  /\ WaitSeesRefresh

LEMMA NextScreenIsAnother ==
  ASSUME NEW s \in Screens
  PROVE  NextScreen(s) \in Screens /\ NextScreen(s) # s
<1>1. CASE s + 1 < SCREENS
  <2>1. (s + 1) % SCREENS = s + 1
    BY <1>1, ScreensAssumption DEF Screens
  <2>2. QED
    BY <1>1, <2>1, ScreensAssumption DEF NextScreen, Screens
<1>2. CASE s + 1 = SCREENS
  <2>1. (s + 1) % SCREENS = 0
    BY <1>2, ScreensAssumption DEF Screens
  <2>2. QED
    BY <1>2, <2>1, ScreensAssumption DEF NextScreen, Screens
<1>3. QED
  BY <1>1, <1>2, ScreensAssumption DEF Screens

LEMMA InitInv == Init => IInv
<1> SUFFICES ASSUME Init PROVE IInv
  OBVIOUS
<1>1. 0 \in Screens /\ 1 \in Screens
  BY ScreensAssumption DEF Screens
<1>2. full \in BOOLEAN /\ porch \in BOOLEAN
  BY Zenon DEF Init
<1>3. buffers \in [Screens -> Buffer]
  BY DEF Init, Buffer, Kinds
<1>4. shown \in [Screens -> Cache]
  BY DEF Init, Cache
<1>5. TypeOK
  <2>1. drawing \in Screens /\ base \in Screens /\ text \in Texts
    BY <1>1 DEF Init
  <2>2. clears \in Int /\ frame \in Nat /\ latched \in Nat /\ waited \in Nat
    BY DEF Init
  <2>3. reading = Elsewhere /\ pc = "draw" /\ mode = "menu"
    BY DEF Init
  <2>4. QED
    BY <1>2, <1>3, <1>4, <2>1, <2>2, <2>3, Zenon DEF TypeOK
<1>6. Apart /\ LastIsNext
  BY <1>1 DEF Init, Apart, LastIsNext, Elsewhere
<1>7. CacheIsTrue /\ BandsSayTheText /\ WaitSeesRefresh
  BY DEF Init, CacheIsTrue, BandsSayTheText, WaitSeesRefresh
<1>8. QED
  BY <1>5, <1>6, <1>7 DEF IInv

LEMMA RefreshStep == IInv /\ Refresh => IInv'
<1> SUFFICES ASSUME IInv, Refresh PROVE IInv'
  OBVIOUS
<1>1. base \in Screens /\ buffers[base] \in Buffer
  BY DEF IInv, TypeOK
<1>2. TypeOK'
  <2>1. full' \in BOOLEAN /\ porch' \in BOOLEAN
    BY Zenon DEF IInv, TypeOK, Refresh
  <2>2. latched' \in Nat /\ waited' \in Nat
    BY <1>1 DEF IInv, TypeOK, Refresh, Buffer
  <2>3. QED
    BY <1>1, <2>1, <2>2 DEF IInv, TypeOK, Refresh
<1>3. (Apart /\ LastIsNext /\ WaitSeesRefresh)'
  BY <1>1 DEF IInv, TypeOK, Apart, LastIsNext, WaitSeesRefresh, Refresh
<1>4. (CacheIsTrue /\ BandsSayTheText)'
  BY DEF IInv, CacheIsTrue, BandsSayTheText, Refresh
<1>5. QED
  BY <1>2, <1>3, <1>4 DEF IInv

(* Steps that touch neither the buffers nor where the LCD reads.           *)
LEMMA AsideStep ==
  IInv /\ (LinesDone \/ LeaveMenu \/ NewText \/ UNCHANGED vars) => IInv'
<1> SUFFICES ASSUME IInv, LinesDone \/ LeaveMenu \/ NewText \/ UNCHANGED vars
             PROVE  IInv'
  OBVIOUS
<1>1. /\ UNCHANGED <<drawing, base, reading, pc, waited, buffers, shown, frame, latched>>
      /\ porch => porch'
  BY DEF LinesDone, LeaveMenu, NewText, vars, lcd
<1>2. TypeOK'
  <2>1. full' \in BOOLEAN /\ porch' \in BOOLEAN
    BY Zenon DEF IInv, TypeOK, LinesDone, LeaveMenu, NewText, vars, lcd
  <2>2. mode' \in {"game", "menu", "clearing"} /\ clears' \in Int /\ text' \in Texts
    BY ClearsAssumption
       DEF IInv, TypeOK, LinesDone, LeaveMenu, NewText, vars, lcd
  <2>3. QED
    BY <1>1, <2>1, <2>2 DEF IInv, TypeOK
<1>3. QED
  BY <1>1, <1>2
     DEF IInv, Apart, LastIsNext, CacheIsTrue, BandsSayTheText, WaitSeesRefresh

LEMMA PaintStep == IInv /\ Paint => IInv'
<1> SUFFICES ASSUME IInv, Paint PROVE IInv'
  OBVIOUS
<1>1. buffers[drawing] \in Buffer
  BY DEF IInv, TypeOK
<1>2. [buffers[drawing] EXCEPT !.whole = FALSE] \in Buffer
  BY <1>1 DEF Buffer
<1>3. buffers' = [buffers EXCEPT ![drawing] = [buffers[drawing] EXCEPT !.whole = FALSE]]
  BY <1>1 DEF IInv, TypeOK, Paint
<1>4. TypeOK'
  BY <1>2, <1>3 DEF IInv, TypeOK, Paint, lcd
<1>5. QED
  BY <1>1, <1>2, <1>3, <1>4
     DEF IInv, TypeOK, Apart, LastIsNext, CacheIsTrue, BandsSayTheText, WaitSeesRefresh,
         Paint, lcd, Buffer

LEMMA FlipDoneStep == IInv /\ FlipDone => IInv'
<1> SUFFICES ASSUME IInv, FlipDone PROVE IInv'
  OBVIOUS
<1>1. reading # drawing \/ porch
  BY BoundsAssumption
     DEF IInv, TypeOK, Apart, WaitSeesRefresh, FlipDone, Current, Elsewhere
<1>2. QED
  BY <1>1 DEF IInv, TypeOK, Apart, LastIsNext, CacheIsTrue, BandsSayTheText, WaitSeesRefresh,
              FlipDone, lcd

(* Whatever is flipped, its bands must be what its cache entry says, and   *)
(* an inset picture's what it was to say.                                  *)
LEMMA FlipStep ==
  ASSUME IInv, NEW content \in Buffer, NEW caches \in [Screens -> Cache],
         Flip(content, caches), mode' \in {"game", "menu", "clearing"}, clears' \in Int,
         content.whole, content.frame = frame + 1,
         content.kind = "inset" => content.bands = content.wanted,
         caches[drawing].valid => content.bands = caches[drawing].text,
         \A s \in Screens \ {drawing} :
           caches[s].valid => shown[s].valid /\ caches[s].text = shown[s].text
  PROVE  IInv'
<1>1. drawing \in Screens /\ drawing' \in Screens /\ drawing' # drawing
  BY NextScreenIsAnother DEF IInv, TypeOK, Flip
<1>2. TypeOK'
  BY <1>1 DEF IInv, TypeOK, Flip, lcd
<1>3. Apart'
  BY <1>1 DEF IInv, TypeOK, Apart, Flip, lcd
<1>4. (LastIsNext /\ WaitSeesRefresh)'
  BY <1>1 DEF IInv, TypeOK, LastIsNext, WaitSeesRefresh, Flip, lcd
<1>5. (CacheIsTrue /\ BandsSayTheText)'
  BY <1>1 DEF IInv, TypeOK, CacheIsTrue, BandsSayTheText, Flip
<1>6. QED
  BY <1>2, <1>3, <1>4, <1>5 DEF IInv

LEMMA PresentInsetStep == IInv /\ PresentInset => IInv'
<1> SUFFICES ASSUME IInv, PresentInset PROVE IInv'
  OBVIOUS
<1> DEFINE bands == IF BandsDiffer(drawing) THEN text ELSE buffers[drawing].bands
           content == [frame |-> frame + 1, whole |-> TRUE, kind |-> "inset",
                       wanted |-> text, bands |-> bands,
                       borders |-> buffers[drawing].borders]
           caches == [shown EXCEPT ![drawing] = [valid |-> TRUE, text |-> text]]
<1>1. buffers[drawing] \in Buffer /\ text \in Texts /\ frame \in Nat
      /\ drawing \in Screens /\ shown \in [Screens -> Cache]
  BY DEF IInv, TypeOK
<1>2. bands = text
  BY <1>1 DEF BandsDiffer, IInv, CacheIsTrue
<1>3. buffers[drawing].borders \in {Black, Picture}
  BY <1>1 DEF Buffer
<1>4. caches \in [Screens -> Cache]
      /\ caches[drawing] = [valid |-> TRUE, text |-> text]
      /\ \A s \in Screens \ {drawing} : caches[s] = shown[s]
  BY <1>1 DEF Cache
<1>5. Flip(content, caches) /\ UNCHANGED <<mode, clears>>
  BY DEF PresentInset
<1> HIDE DEF bands
<1>6. content \in Buffer /\ content.whole /\ content.frame = frame + 1
      /\ content.bands = text /\ content.wanted = text
  BY <1>1, <1>2, <1>3 DEF Buffer, Kinds
<1> HIDE DEF content, caches
<1>7. QED
  BY <1>4, <1>5, <1>6, FlipStep DEF IInv, TypeOK

LEMMA PresentFillingStep == IInv /\ PresentFilling => IInv'
<1> SUFFICES ASSUME IInv, PresentFilling PROVE IInv'
  OBVIOUS
<1> DEFINE content == [frame |-> frame + 1, whole |-> TRUE, kind |-> "filling",
                       wanted |-> text, bands |-> Picture, borders |-> Picture]
           caches == [shown EXCEPT ![drawing] = [shown[drawing] EXCEPT !.valid = FALSE]]
<1>1. text \in Texts /\ frame \in Nat /\ drawing \in Screens
      /\ shown \in [Screens -> Cache] /\ shown[drawing] \in Cache
  BY DEF IInv, TypeOK
<1>2. content \in Buffer /\ content.whole /\ content.frame = frame + 1
      /\ content.kind # "inset"
  BY <1>1 DEF Buffer, Kinds
<1>3. caches \in [Screens -> Cache]
      /\ ~caches[drawing].valid
      /\ \A s \in Screens \ {drawing} : caches[s] = shown[s]
  BY <1>1 DEF Cache
<1>4. Flip(content, caches) /\ UNCHANGED <<mode, clears>>
  BY <1>1 DEF PresentFilling
<1> HIDE DEF content, caches
<1>5. QED
  BY <1>2, <1>3, <1>4, FlipStep DEF IInv, TypeOK

LEMMA FlipScreenStep ==
  ASSUME IInv, NEW bands \in {Black, Picture}, FlipScreen(bands),
         mode' \in {"game", "menu", "clearing"}, clears' \in Int
  PROVE  IInv'
<1> DEFINE content == [frame |-> frame + 1, whole |-> TRUE, kind |-> "menu",
                       wanted |-> Black, bands |-> bands, borders |-> bands]
           caches == [s \in Screens |-> [shown[s] EXCEPT !.valid = FALSE]]
<1>1. frame \in Nat /\ drawing \in Screens /\ shown \in [Screens -> Cache]
  BY DEF IInv, TypeOK
<1>2. content \in Buffer /\ content.whole /\ content.frame = frame + 1
      /\ content.kind # "inset"
  BY <1>1 DEF Buffer, Kinds
<1>3. caches \in [Screens -> Cache] /\ \A s \in Screens : ~caches[s].valid
  BY <1>1 DEF Cache
<1>4. Flip(content, caches)
  BY DEF FlipScreen
<1> HIDE DEF content, caches
<1>5. QED
  BY <1>1, <1>2, <1>3, <1>4, FlipStep

LEMMA InvStep == IInv /\ [Next]_vars => IInv'
<1> SUFFICES ASSUME IInv, [Next]_vars PROVE IInv'
  OBVIOUS
<1>1. CASE MenuFrame
  BY <1>1, FlipScreenStep DEF MenuFrame, IInv, TypeOK
<1>2. CASE OpenMenu
  BY <1>2, FlipScreenStep DEF OpenMenu, IInv, TypeOK
<1>3. CASE ClearedFrame
  <2>1. mode' \in {"game", "menu", "clearing"} /\ clears' \in Int
    BY <1>3 DEF ClearedFrame, IInv, TypeOK
  <2>2. QED
    BY <1>3, <2>1, FlipScreenStep DEF ClearedFrame
<1>4. QED
  BY <1>1, <1>2, <1>3, RefreshStep, AsideStep, PaintStep, FlipDoneStep, PresentInsetStep,
     PresentFillingStep DEF Next

LEMMA Invariance == Spec => []IInv
BY InitInv, InvStep, PTL DEF Spec

(* Every variable has its type.                                            *)
THEOREM TypeCorrect == Spec => []TypeOK
<1>1. IInv => TypeOK
  BY DEF IInv
<1>2. QED
  BY <1>1, Invariance, PTL

(* The picture is never torn, with any number of buffers above one.        *)
THEOREM TearingFree == Spec => []NoTearing
<1>1. IInv => NoTearing
  BY DEF IInv, TypeOK, Apart, NoTearing, Elsewhere
<1>2. QED
  BY <1>1, Invariance, PTL

(* Every refresh takes the last frame that was flipped, and no older one.  *)
THEOREM LastFrameTaken == Spec => LastIsTaken
<1>1. IInv /\ [Next]_vars => [Refresh => latched' = frame]_vars
  BY DEF IInv, LastIsNext, Refresh
<1>2. QED
  BY <1>1, Invariance, PTL DEF Spec, LastIsTaken

(* The text in the bands is right although it is drawn only when the cache *)
(* says so.                                                                *)
THEOREM BandsCorrect == Spec => []BandsSayTheText
<1>1. IInv => BandsSayTheText
  BY DEF IInv
<1>2. QED
  BY <1>1, Invariance, PTL

-----------------------------------------------------------------------------
(* The borders.                                                            *)

(* How many frames ago a buffer was flipped, at least.                     *)
Ago(s) == IF s < drawing THEN drawing - s ELSE drawing + SCREENS - s

(* On leaving the menus the cleared frames reach every buffer in turn, and *)
(* until the menus open again nothing but the game's picture comes there.  *)
BordersCleared ==
  /\ mode = "clearing" => clears \in 1 .. CLEARS
  /\ mode = "clearing" =>
       \A s \in Screens : Ago(s) <= CLEARS - clears => buffers[s].borders = Black
  /\ mode = "game" /\ ~full => \A s \in Screens : buffers[s].borders = Black
  /\ BordersAreBlack

LEMMA AgoNext ==
  ASSUME drawing \in Screens, drawing' = NextScreen(drawing)
  PROVE  /\ \A s \in Screens \ {drawing} : Ago(s)' = Ago(s) + 1
         /\ \A s \in Screens : Ago(s) \in 1 .. SCREENS /\ Ago(s)' \in 1 .. SCREENS
<1>1. CASE drawing + 1 < SCREENS
  <2>1. drawing' = drawing + 1
    BY <1>1, ScreensAssumption DEF NextScreen, Screens
  <2>2. QED
    BY <1>1, <2>1, ScreensAssumption DEF Ago, Screens
<1>2. CASE drawing + 1 = SCREENS
  <2>1. drawing' = 0
    BY <1>2, ScreensAssumption DEF NextScreen, Screens
  <2>2. QED
    BY <1>2, <2>1, ScreensAssumption DEF Ago, Screens
<1>3. QED
  BY <1>1, <1>2, ScreensAssumption DEF Screens

LEMMA InitBorders == Init => BordersCleared
BY DEF Init, BordersCleared, BordersAreBlack

(* Steps that flip nothing.                                                *)
LEMMA NoFlipBorders ==
  ASSUME IInv, BordersCleared,
         Refresh \/ LinesDone \/ Paint \/ FlipDone \/ LeaveMenu \/ NewText \/ UNCHANGED vars
  PROVE  BordersCleared'
<1>1. CASE LeaveMenu
  <2>1. /\ mode' = "clearing" /\ clears' = CLEARS
        /\ UNCHANGED <<drawing, buffers>>
    BY <1>1 DEF LeaveMenu
  <2>2. \A s \in Screens : Ago(s)' \in 1 .. SCREENS
    BY <2>1, ScreensAssumption DEF Ago, Screens, IInv, TypeOK
  <2>3. \A s \in Screens : ~(Ago(s)' <= CLEARS - clears')
    BY <2>1, <2>2, ClearsAssumption, ScreensAssumption
  <2>4. clears' \in 1 .. CLEARS
    BY <2>1, ClearsAssumption, ScreensAssumption
  <2>5. BordersAreBlack'
    BY <2>1 DEF BordersCleared, BordersAreBlack
  <2>6. QED
    BY <2>1, <2>3, <2>4, <2>5 DEF BordersCleared
<1>2. CASE Paint
  <2>0. buffers[drawing] \in Buffer /\ drawing \in Screens
    BY DEF IInv, TypeOK
  <2>1. buffers' = [buffers EXCEPT ![drawing] = [buffers[drawing] EXCEPT !.whole = FALSE]]
    BY <1>2, <2>0 DEF Paint, IInv, TypeOK
  <2>2. /\ UNCHANGED <<drawing, mode, clears, full>>
        /\ \A s \in Screens : /\ buffers'[s].borders = buffers[s].borders
                              /\ buffers'[s].kind = buffers[s].kind
                              /\ buffers'[s].whole => buffers[s].whole
    BY <1>2, <2>0, <2>1 DEF Paint, IInv, TypeOK, Buffer
  <2>3. QED
    BY <2>2 DEF BordersCleared, BordersAreBlack, Ago
<1>3. CASE Refresh \/ LinesDone \/ FlipDone \/ NewText \/ UNCHANGED vars
  <2>1. UNCHANGED <<drawing, mode, clears, full, buffers>>
    BY <1>3 DEF Refresh, LinesDone, FlipDone, NewText, vars, lcd
  <2>2. QED
    BY <2>1 DEF BordersCleared, BordersAreBlack, Ago
<1>4. QED
  BY <1>1, <1>2, <1>3

(* What a flip changes of the buffers.                                     *)
LEMMA FlipBuffers ==
  ASSUME IInv, NEW content, NEW caches, Flip(content, caches)
  PROVE  /\ drawing \in Screens /\ drawing' = NextScreen(drawing) /\ full' = full
         /\ buffers'[drawing] = content
         /\ \A s \in Screens \ {drawing} : buffers'[s] = buffers[s]
BY DEF Flip, IInv, TypeOK

LEMMA PresentBorders ==
  ASSUME IInv, BordersCleared, PresentInset \/ PresentFilling
  PROVE  BordersCleared'
<1>1. mode = "game" /\ mode' = "game"
  BY DEF PresentInset, PresentFilling
<1>2. CASE PresentInset
  <2>1. ~full /\ buffers[drawing].borders = Black
    BY <1>1, <1>2 DEF PresentInset, BordersCleared, IInv, TypeOK
  <2>2. /\ drawing \in Screens /\ full' = full
        /\ buffers'[drawing].borders = Black
        /\ \A s \in Screens \ {drawing} : buffers'[s] = buffers[s]
    BY <1>2, <2>1, FlipBuffers DEF PresentInset
  <2>3. QED
    BY <1>1, <2>1, <2>2 DEF BordersCleared, BordersAreBlack
<1>3. CASE PresentFilling
  <2> DEFINE content == [frame |-> frame + 1, whole |-> TRUE, kind |-> "filling",
                         wanted |-> text, bands |-> Picture, borders |-> Picture]
             caches == [shown EXCEPT ![drawing] = [shown[drawing] EXCEPT !.valid = FALSE]]
  <2>1. drawing \in Screens /\ shown \in [Screens -> Cache]
    BY DEF IInv, TypeOK
  <2>2. full /\ Flip(content, caches)
    BY <1>3, <2>1 DEF PresentFilling
  <2>3. content.kind = "filling"
    OBVIOUS
  <2> HIDE DEF content, caches
  <2>4. /\ full' = full /\ buffers'[drawing] = content
        /\ \A s \in Screens \ {drawing} : buffers'[s] = buffers[s]
    BY <2>2, FlipBuffers
  <2>5. QED
    BY <1>1, <2>1, <2>2, <2>3, <2>4 DEF BordersCleared, BordersAreBlack
<1>4. QED
  BY <1>2, <1>3

LEMMA MenuBorders ==
  ASSUME IInv, BordersCleared, MenuFrame \/ OpenMenu
  PROVE  BordersCleared'
<1>1. mode' = "menu" /\ FlipScreen(Picture)
  BY DEF MenuFrame, OpenMenu
<1>2. /\ drawing \in Screens
      /\ buffers'[drawing].kind = "menu"
      /\ \A s \in Screens \ {drawing} : buffers'[s] = buffers[s]
  BY <1>1, FlipBuffers DEF FlipScreen
<1>3. QED
  BY <1>1, <1>2 DEF BordersCleared, BordersAreBlack

(* Each cleared frame is one buffer more, and the last one the last.       *)
LEMMA ClearedBorders ==
  ASSUME IInv, BordersCleared, ClearedFrame
  PROVE  BordersCleared'
<1>1. /\ mode = "clearing" /\ clears' = clears - 1
      /\ mode' = IF clears = 1 THEN "game" ELSE "clearing"
      /\ FlipScreen(Black)
  BY DEF ClearedFrame
<1>2. /\ drawing \in Screens /\ drawing' = NextScreen(drawing)
      /\ buffers'[drawing].borders = Black
      /\ \A s \in Screens \ {drawing} : buffers'[s] = buffers[s]
  BY <1>1, FlipBuffers DEF FlipScreen
<1>3. clears \in 1 .. CLEARS /\ CLEARS \in Nat /\ SCREENS \in Nat /\ CLEARS >= SCREENS
  BY <1>1, ClearsAssumption, ScreensAssumption DEF BordersCleared
<1>4. \A s \in Screens : Ago(s)' <= CLEARS - clears' => buffers'[s].borders = Black
  <2> SUFFICES ASSUME NEW s \in Screens, Ago(s)' <= CLEARS - clears'
               PROVE  buffers'[s].borders = Black
    OBVIOUS
  <2>1. CASE s = drawing
    BY <1>2, <2>1
  <2>2. CASE s # drawing
    <3>1. Ago(s)' = Ago(s) + 1 /\ Ago(s) \in 1 .. SCREENS
      BY <1>2, <2>2, AgoNext
    <3>2. Ago(s) <= CLEARS - clears
      BY <1>1, <1>3, <3>1
    <3>3. QED
      BY <1>1, <1>2, <2>2, <3>2 DEF BordersCleared
  <2>3. QED
    BY <2>1, <2>2
<1>5. mode' = "game" => \A s \in Screens : buffers'[s].borders = Black
  <2>1. \A s \in Screens : Ago(s)' \in 1 .. SCREENS
    BY <1>2, AgoNext
  <2>2. clears = 1 => \A s \in Screens : Ago(s)' <= CLEARS - clears'
    BY <1>1, <1>3, <2>1
  <2>3. QED
    BY <1>1, <1>4, <2>2
<1>6. mode' = "clearing" => clears' \in 1 .. CLEARS
  BY <1>1, <1>3
<1>7. BordersAreBlack'
  BY <1>2 DEF BordersCleared, BordersAreBlack
<1>8. QED
  BY <1>4, <1>5, <1>6, <1>7 DEF BordersCleared

LEMMA BordersStep == IInv /\ BordersCleared /\ [Next]_vars => BordersCleared'
<1> SUFFICES ASSUME IInv, BordersCleared, [Next]_vars PROVE BordersCleared'
  OBVIOUS
<1>1. QED
  BY NoFlipBorders, PresentBorders, MenuBorders, ClearedBorders DEF Next

(* Nothing of a menu or of a larger picture is left beside the game's, with *)
(* any number of buffers: the cleared frames reach them all.               *)
THEOREM BordersCorrect == Spec => []BordersAreBlack
<1>1. BordersCleared => BordersAreBlack
  BY DEF BordersCleared
<1>2. QED
  BY <1>1, InitBorders, BordersStep, Invariance, PTL DEF Spec

-----------------------------------------------------------------------------
(* The pace of frames.                                                     *)

LEMMA Modulus ==
  ASSUME NEW a \in Int, NEW m \in Nat, m > 0
  PROVE  /\ a % m \in 0 .. m - 1
         /\ a \div m \in Int
         /\ a = (a \div m) * m + (a % m)
<1>1. a % m \in 0 .. m - 1
  BY SMT
<1>2. a \div m \in Int
  BY SMT
<1>3. a = m * (a \div m) + (a % m)
  BY SMT
<1>4. m * (a \div m) = (a \div m) * m
  BY <1>2
<1>5. QED
  BY <1>1, <1>2, <1>3, <1>4

LEMMA Remainder ==
  ASSUME NEW m \in Nat, m > 0, NEW r \in 0 .. m - 1, NEW k \in Int
  PROVE  (k * m + r) % m = r
<1> DEFINE a == k * m + r
<1>1. /\ a \in Int /\ a % m \in 0 .. m - 1 /\ a \div m \in Int
      /\ a = (a \div m) * m + (a % m)
  <2>1. k * m \in Int
    OBVIOUS
  <2>2. a \in Int
    BY <2>1
  <2> HIDE DEF a
  <2>3. QED
    BY <2>2, Modulus
<1>2. ASSUME NEW p \in Int, NEW q \in 0 .. m - 1, k * m + r = p * m + q
      PROVE  q = r
  <2>1. (k - p) * m = q - r
    BY <1>2, Z3
  <2>2. -m < (k - p) * m /\ (k - p) * m < m
    BY <2>1, Z3
  <2>3. k - p = 0
    <3>1. ASSUME NEW i \in Int, -m < i * m, i * m < m
          PROVE  i = 0
      <4>1. CASE i >= 1
        <5>1. i * m >= m
          BY <4>1, Z3
        <5>2. QED
          BY <5>1, <3>1
      <4>2. CASE i <= -1
        <5>1. i * m <= -m
          BY <4>2, Z3
        <5>2. QED
          BY <5>1, <3>1
      <4>3. QED
        BY <4>1, <4>2
    <3>2. QED
      BY <2>2, <3>1
  <2>4. (k - p) * m = 0
    BY <2>3
  <2>5. QED
    BY <2>1, <2>4
<1>3. QED
  BY <1>1, <1>2

LEMMA Period ==
  /\ Wrap \in Nat /\ Wrap > 0 /\ Wrap % 2 = 0
  /\ Fraction \in Nat /\ Fraction > 0
  /\ Late \in Nat /\ FRAME_PERIOD \in Nat /\ FRAME_TICKS \in Nat /\ FRAME_TICKS > 0
  /\ NSPIRE_TICK_HZ \in Nat /\ FRAME_TICKS < NSPIRE_TICK_HZ
  /\ FRAME_PERIOD = FRAME_TICKS * Fraction + (FRAME_PERIOD % Fraction)
  /\ FRAME_PERIOD % Fraction \in 0 .. Fraction - 1
<1>1. Fraction \in Nat /\ Fraction > 0 /\ Late \in Nat /\ FRAME_PERIOD \in Nat
  BY PeriodAssumption
<1>2. /\ FRAME_TICKS \in Int
      /\ FRAME_PERIOD = FRAME_TICKS * Fraction + (FRAME_PERIOD % Fraction)
      /\ FRAME_PERIOD % Fraction \in 0 .. Fraction - 1
  BY <1>1, Modulus DEF FRAME_TICKS
<1>3. FRAME_TICKS > 0 /\ NSPIRE_TICK_HZ \in Nat /\ FRAME_TICKS < NSPIRE_TICK_HZ
  BY PeriodAssumption, SecondAssumption
<1>4. Wrap \in Nat /\ Wrap % 2 = 0
  BY WrapAssumption
<1>5. Wrap > 0
  <2>1. 0 + (Late + 1) * (FRAME_TICKS + 1) < Wrap \div 2
    BY WrapAssumption
  <2>2. (Late + 1) * (FRAME_TICKS + 1) \in Nat
    BY <1>1, <1>2, <1>3
  <2>3. QED
    BY <1>4, <2>1, <2>2, Z3
<1>6. QED
  BY <1>1, <1>2, <1>3, <1>4, <1>5

LEMMA LongWrap == FRAME_TICKS + 1 < Wrap
<1>1. 0 + (Late + 1) * (FRAME_TICKS + 1) < Wrap \div 2
  BY WrapAssumption
<1>2. (Late + 1) * (FRAME_TICKS + 1) = Late * (FRAME_TICKS + 1) + FRAME_TICKS + 1
  BY Period, Z3
<1>3. Late * (FRAME_TICKS + 1) \in Nat
  BY Period
<1>4. Wrap \div 2 \in Nat /\ Wrap \div 2 <= Wrap
  BY Period, Z3
<1>5. QED
  BY <1>1, <1>2, <1>3, <1>4, Period

-----------------------------------------------------------------------------
Counter == 0 .. Wrap - 1

(* next_frame is x ticks behind: by no more than can be made up for while  *)
(* a frame runs, and by one frame's running more between frames.  The      *)
(* credit covers it, unless that was cut to the most it can be.            *)
Behind(x) ==
  /\ ticks = (next_frame + x) % Wrap
  /\ \E d \in RunTicks \cup {0} : x <= Late * FRAME_TICKS + d
  /\ where = "running" => x <= Late * FRAME_TICKS
  /\ credit >= x * Fraction - next_frame_frac \/ credit >= Most

PacingInv ==
  /\ ticks \in Counter /\ next_frame \in Counter
  /\ next_frame_frac \in 0 .. Fraction - 1
  /\ credit \in Int
  /\ \E x \in Nat : Behind(x)

LEMMA MostIsNat == Most \in Nat /\ Most = Late * FRAME_TICKS * Fraction + FRAME_PERIOD
<1>1. Late * FRAME_TICKS \in Nat
  BY Period
<1>2. Late * FRAME_TICKS * Fraction \in Nat
  BY <1>1, Period
<1>3. QED
  BY <1>2, Period DEF Most

LEMMA InCounter ==
  ASSUME NEW a \in Int
  PROVE  a % Wrap \in Counter
BY Period, Modulus DEF Counter

LEMMA Itself ==
  ASSUME NEW a \in Counter
  PROVE  (a + 0) % Wrap = a
<1>1. (0 * Wrap + a) % Wrap = a
  BY Period, Remainder DEF Counter
<1>2. 0 * Wrap + a = a + 0
  BY Period DEF Counter
<1>3. QED
  BY <1>1, <1>2

LEMMA NothingBehind ==
  ASSUME NEW t \in Counter
  PROVE  /\ t = (t + 0) % Wrap
         /\ \E d \in RunTicks \cup {0} : 0 <= Late * FRAME_TICKS + d
         /\ 0 <= Late * FRAME_TICKS
         /\ 0 * Fraction = 0
<1>1. t = (t + 0) % Wrap
  BY Itself
<1>2. 0 <= Late * FRAME_TICKS /\ Late * FRAME_TICKS \in Nat
  BY Period
<1>3. 0 \in RunTicks \cup {0} /\ 0 <= Late * FRAME_TICKS + 0
  BY <1>2
<1>4. 0 * Fraction = 0
  BY Period
<1>5. QED
  BY <1>1, <1>2, <1>3, <1>4

(* A frame that is due now.                                                *)
LEMMA OnTime ==
  ASSUME ticks' \in Counter, next_frame' = ticks', next_frame_frac' \in 0 .. Fraction - 1,
         credit' \in Int, credit' >= -next_frame_frac'
  PROVE  PacingInv'
<1>1. credit' >= 0 * Fraction - next_frame_frac'
  <2>1. 0 * Fraction = 0
    BY Period
  <2>2. 0 - next_frame_frac' = -next_frame_frac'
    BY Period
  <2>3. QED
    BY <2>1, <2>2
<1>2. Behind(0)'
  BY <1>1, NothingBehind DEF Behind
<1>3. QED
  BY <1>2 DEF PacingInv

LEMMA PacingInitInv == PacingInit => PacingInv
<1> SUFFICES ASSUME PacingInit PROVE PacingInv
  OBVIOUS
<1>1. 0 \in Counter /\ 0 \in 0 .. Fraction - 1
  BY Period DEF Counter
<1>2. Behind(0)
  BY <1>1, NothingBehind DEF PacingInit, Behind
<1>3. QED
  BY <1>1, <1>2 DEF PacingInit, PacingInv

(* The frame's own time: a frame, and the ticks and the fraction that the  *)
(* last one left over.                                                     *)
DueTicks == DueFrac \div Fraction

LEMMA DueFacts ==
  ASSUME next_frame_frac \in 0 .. Fraction - 1
  PROVE  /\ DueTicks \in Nat /\ DueTicks <= FRAME_TICKS + 1
         /\ DueFrac % Fraction \in 0 .. Fraction - 1
         /\ next_frame_frac + FRAME_PERIOD = DueTicks * Fraction + (DueFrac % Fraction)
<1> DEFINE g == FRAME_PERIOD % Fraction
           f == DueFrac % Fraction
<1>1. DueFrac \in Nat
  BY Period DEF DueFrac
<1>2. /\ f \in 0 .. Fraction - 1 /\ DueTicks \in Int
      /\ DueFrac = DueTicks * Fraction + f
  BY <1>1, Period, Modulus DEF DueTicks
<1>3. /\ g \in 0 .. Fraction - 1 /\ FRAME_PERIOD = FRAME_TICKS * Fraction + g
  BY Period
<1>4. next_frame_frac + FRAME_PERIOD = DueTicks * Fraction + f
  BY <1>2 DEF DueFrac
<1> HIDE DEF f, g
<1>5. DueTicks * Fraction < (FRAME_TICKS + 2) * Fraction
  BY <1>2, <1>3, <1>4, Period, Z3
<1>6. DueTicks * Fraction > (-1) * Fraction
  BY <1>2, <1>4, Period, Z3
<1>7. DueTicks < FRAME_TICKS + 2
  <2>1. CASE DueTicks >= FRAME_TICKS + 2
    BY <2>1, <1>2, <1>5, Period, Z3
  <2>2. QED
    BY <2>1, <1>2, Period
<1>8. DueTicks > -1
  <2>1. CASE DueTicks <= -1
    BY <2>1, <1>2, <1>6, Period, Z3
  <2>2. QED
    BY <2>1, <1>2
<1>9. QED
  BY <1>2, <1>4, <1>7, <1>8, Period DEF f

(* The sign of the difference of two counts is right as long as they are   *)
(* less than half the counter apart, wherever it wrapped.                  *)
LEMMA SignedDifference ==
  ASSUME NEW n \in Counter, NEW x \in Nat, NEW d \in Nat,
         x - d < Wrap \div 2, d - x < Wrap \div 2
  PROVE  Signed(((n + x) % Wrap) - ((n + d) % Wrap)) = x - d
<1> DEFINE a == (n + x) % Wrap
           b == (n + d) % Wrap
           p == (n + x) \div Wrap
           q == (n + d) \div Wrap
<1>1. a \in Int /\ p \in Int /\ n + x = p * Wrap + a
  BY Period, Modulus DEF Counter
<1>2. b \in Int /\ q \in Int /\ n + d = q * Wrap + b
  BY Period, Modulus DEF Counter
<1>3. Wrap \div 2 \in Nat /\ Wrap = (Wrap \div 2) + (Wrap \div 2)
  BY Period, Z3
<1> HIDE DEF a, b, p, q
<1>4. a - b = (q - p) * Wrap + (x - d)
  BY <1>1, <1>2, Period, Z3 DEF Counter
<1>5. CASE x - d >= 0
  <2>1. x - d \in 0 .. Wrap - 1
    BY <1>3, <1>5, Period
  <2>2. (a - b) % Wrap = x - d
    <3>1. q - p \in Int
      BY <1>1, <1>2
    <3>2. ((q - p) * Wrap + (x - d)) % Wrap = x - d
      BY <3>1, <2>1, Period, Remainder
    <3>3. QED
      BY <3>2, <1>4
  <2>3. Signed(a - b) = x - d
    BY <2>2, <1>3, <1>5, <2>1 DEF Signed
  <2>4. QED
    BY <2>3 DEF a, b
<1>6. CASE x - d < 0
  <2>1. x - d + Wrap \in 0 .. Wrap - 1 /\ ~ (x - d + Wrap < Wrap \div 2)
    BY <1>3, <1>6, Period
  <2>2. a - b = (q - p - 1) * Wrap + (x - d + Wrap)
    BY <1>1, <1>2, <1>4, Period, Z3
  <2>3. (a - b) % Wrap = x - d + Wrap
    <3>1. q - p - 1 \in Int
      BY <1>1, <1>2
    <3>2. QED
      BY <3>1, <2>1, <2>2, Period, Remainder
  <2>4. (x - d + Wrap) - Wrap = x - d
    BY Period
  <2>5. Signed(a - b) = x - d
    <3>1. ~ ((a - b) % Wrap < Wrap \div 2)
      BY <2>1, <2>3
    <3>2. Signed(a - b) = ((a - b) % Wrap) - Wrap
      BY <3>1 DEF Signed
    <3>3. ((a - b) % Wrap) - Wrap = (x - d + Wrap) - Wrap
      BY <2>3
    <3>4. QED
      BY <3>2, <3>3, <2>4
  <2>6. QED
    BY <2>5 DEF a, b
<1>7. QED
  BY <1>5, <1>6

-----------------------------------------------------------------------------
(* What a frame at normal speed begins with: it is late by what is behind, *)
(* less its own time.                                                      *)
LEMMA Lateness ==
  ASSUME PacingInv, NEW x \in Nat, Behind(x)
  PROVE  Signed(ticks - Due) = x - DueTicks
<1>1. DueTicks \in Nat /\ DueTicks <= FRAME_TICKS + 1
  BY DueFacts DEF PacingInv
<1>2. PICK d \in RunTicks \cup {0} : x <= Late * FRAME_TICKS + d
  BY DEF Behind
<1>3. d \in Nat /\ d + (Late + 1) * (FRAME_TICKS + 1) < Wrap \div 2
  BY WrapAssumption
<1>4. Late * FRAME_TICKS \in Nat /\ Wrap \div 2 \in Int
  BY Period, Modulus
<1>5. (Late + 1) * (FRAME_TICKS + 1) = Late * FRAME_TICKS + Late + FRAME_TICKS + 1
  BY Period, Z3
<1>6. x - DueTicks < Wrap \div 2 /\ DueTicks - x < Wrap \div 2
  BY <1>1, <1>2, <1>3, <1>4, <1>5, Period
<1>7. Signed(((next_frame + x) % Wrap) - ((next_frame + DueTicks) % Wrap)) = x - DueTicks
  BY <1>1, <1>6, SignedDifference DEF PacingInv
<1>8. QED
  BY <1>7 DEF Behind, Due, DueTicks

LEMMA Waited ==
  ASSUME PacingInv, NEW x \in Nat, Behind(x), x < DueTicks
  PROVE  Waits(x - DueTicks) = DueTicks - x
<1>1. DueTicks \in Nat /\ DueTicks <= FRAME_TICKS + 1
  BY DueFacts DEF PacingInv
<1>2. -(x - DueTicks) = DueTicks - x /\ ~ (DueTicks - x > NSPIRE_TICK_HZ)
  BY <1>1, Period
<1>3. QED
  BY <1>2 DEF Waits

(* Running for d ticks, or waiting, moves the counter by d.                *)
LEMMA Later ==
  ASSUME NEW n \in Counter, NEW x \in Nat, NEW d \in Nat
  PROVE  (((n + x) % Wrap) + d) % Wrap = (n + (x + d)) % Wrap
<1> DEFINE a == (n + x) % Wrap
           p == (n + x) \div Wrap
           b == (n + (x + d)) % Wrap
           q == (n + (x + d)) \div Wrap
<1>1. a \in Int /\ p \in Int /\ n + x = p * Wrap + a
  BY Period, Modulus DEF Counter
<1>2. b \in 0 .. Wrap - 1 /\ q \in Int /\ n + (x + d) = q * Wrap + b
  BY Period, Modulus DEF Counter
<1> HIDE DEF a, b, p, q
<1>3. a + d = (q - p) * Wrap + b
  BY <1>1, <1>2, Period, Z3 DEF Counter
<1>4. q - p \in Int
  BY <1>1, <1>2
<1>5. ((q - p) * Wrap + b) % Wrap = b
  BY <1>2, <1>4, Period, Remainder
<1>6. (a + d) % Wrap = b
  BY <1>3, <1>5
<1>7. QED
  BY <1>6 DEF a, b

LEMMA CreditedFacts ==
  ASSUME credit \in Int, NEW d \in Nat
  PROVE  /\ Credited(d) \in Int
         /\ Credited(d) = credit + d * Fraction \/ Credited(d) = Most
         /\ Credited(d) = Most \/ credit + d * Fraction < Most
         /\ credit >= Most => Credited(d) = Most
<1>1. Most \in Nat /\ d * Fraction \in Nat
  BY MostIsNat, Period
<1>2. QED
  BY <1>1 DEF Credited

(* A frame runs.                                                           *)
LEMMA RunFrameStep == PacingInv /\ RunFrame => PacingInv'
<1> SUFFICES ASSUME PacingInv, RunFrame PROVE PacingInv'
  OBVIOUS
<1>1. PICK x \in Nat : Behind(x)
  BY DEF PacingInv
<1>2. PICK d \in RunTicks : ticks' = (ticks + d) % Wrap /\ credit' = Credited(d)
  BY DEF RunFrame
<1>3. d \in Nat
  BY WrapAssumption
<1>4. /\ next_frame' = next_frame /\ next_frame_frac' = next_frame_frac
      /\ where = "running" /\ where' = "between"
  BY DEF RunFrame, timing
<1>5. credit \in Int /\ credit' \in Int
  BY <1>2, <1>3, CreditedFacts DEF PacingInv
<1>6. ticks' \in Counter
  <2>1. ticks + d \in Int
    BY <1>3, Period DEF PacingInv, Counter
  <2>2. QED
    BY <1>2, <2>1, InCounter
<1>7. Behind(x + d)'
  <2>1. ticks' = (next_frame' + (x + d)) % Wrap
    <3>1. ticks = (next_frame + x) % Wrap
      BY <1>1 DEF Behind
    <3>2. (((next_frame + x) % Wrap) + d) % Wrap = (next_frame + (x + d)) % Wrap
      BY <1>3, Later DEF PacingInv
    <3>3. QED
      BY <1>2, <1>4, <3>1, <3>2
  <2>2. x + d <= Late * FRAME_TICKS + d
    <3>1. x <= Late * FRAME_TICKS /\ Late * FRAME_TICKS \in Nat
      BY <1>1, <1>4, Period DEF Behind
    <3>2. QED
      BY <1>3, <3>1
  <2>3. credit' >= (x + d) * Fraction - next_frame_frac' \/ credit' >= Most
    <3>1. CASE credit' = Most
      BY <3>1, MostIsNat
    <3>2. CASE credit' # Most
      <4>1. credit' = credit + d * Fraction /\ ~ (credit >= Most)
        BY <1>2, <1>3, <1>5, <3>2, CreditedFacts
      <4>2. credit >= x * Fraction - next_frame_frac
        BY <1>1, <4>1 DEF Behind
      <4>3. x * Fraction \in Nat /\ d * Fraction \in Nat /\ next_frame_frac \in Int
        BY <1>3, Period DEF PacingInv
      <4>4. (x + d) * Fraction = x * Fraction + d * Fraction
        BY <1>3, Period, Z3
      <4>5. QED
        BY <1>4, <1>5, <4>1, <4>2, <4>3, <4>4
    <3>3. QED
      BY <3>1, <3>2
  <2>4. d \in RunTicks \cup {0}
    BY <1>2
  <2>5. QED
    BY <1>4, <2>1, <2>2, <2>3, <2>4 DEF Behind
<1>8. x + d \in Nat
  BY <1>3
<1>9. QED
  BY <1>4, <1>5, <1>6, <1>7, <1>8 DEF PacingInv

-----------------------------------------------------------------------------
(* The frames that begin.                                                  *)

LEMMA BeginUnthrottledStep == PacingInv /\ BeginUnthrottled => PacingInv'
<1> SUFFICES ASSUME PacingInv, BeginUnthrottled PROVE PacingInv'
  OBVIOUS
<1>1. /\ ticks' \in Counter /\ next_frame' = ticks' /\ next_frame_frac' = 0
      /\ credit' = 0
  BY DEF PacingInv, BeginUnthrottled
<1>2. QED
  BY <1>1, Period, OnTime

(* The three ways: the frame is early and waits, it is late and begins at  *)
(* once, or it is too late and the timing is set again.                    *)
LEMMA BeginPacedStep == PacingInv /\ BeginPaced => PacingInv'
<1> SUFFICES ASSUME PacingInv, BeginPaced PROVE PacingInv'
  OBVIOUS
<1> DEFINE f == DueFrac % Fraction
<1>1. PICK x \in Nat : Behind(x)
  BY DEF PacingInv
<1>2. Signed(ticks - Due) = x - DueTicks
  BY <1>1, Lateness
<1>3. /\ DueTicks \in Nat /\ DueTicks <= FRAME_TICKS + 1
      /\ f \in 0 .. Fraction - 1
      /\ next_frame_frac + FRAME_PERIOD = DueTicks * Fraction + f
  BY DueFacts DEF PacingInv
<1>4. where' = "running"
  BY DEF BeginPaced, Decided
<1>5. /\ credit \in Int /\ next_frame_frac \in Int /\ Most \in Nat
      /\ Most = Late * FRAME_TICKS * Fraction + FRAME_PERIOD
      /\ Late * FRAME_TICKS \in Nat /\ Late * FRAME_TICKS * Fraction \in Nat
  <2>1. Late * FRAME_TICKS \in Nat
    BY Period
  <2>2. Late * FRAME_TICKS * Fraction \in Nat
    BY <2>1, Period
  <2>3. QED
    BY <2>1, <2>2, MostIsNat, Period DEF PacingInv
<1>6. Due = (next_frame + DueTicks) % Wrap /\ Due \in Counter
  <2>1. Due = (next_frame + DueTicks) % Wrap
    BY DEF Due, DueTicks
  <2>2. next_frame + DueTicks \in Int
    BY <1>3, Period DEF PacingInv, Counter
  <2>3. QED
    BY <2>1, <2>2, InCounter
<1>7. x * Fraction \in Nat /\ DueTicks * Fraction \in Nat
  BY <1>3, Period
<1> HIDE DEF f
<1>8. CASE x < DueTicks
  <2>1. x - DueTicks < 0 /\ ~ (x - DueTicks > FRAME_TICKS * Late)
    BY <1>3, <1>5, <1>8, Period, Z3
  <2>2. Waits(x - DueTicks) = DueTicks - x /\ DueTicks - x \in Nat
    BY <1>1, <1>3, <1>8, Waited
  <2>3. /\ ticks' = (ticks + (DueTicks - x)) % Wrap
        /\ next_frame' = Due /\ next_frame_frac' = f
        /\ credit' = Credited(DueTicks - x) - FRAME_PERIOD
    BY <1>2, <2>1, <2>2 DEF BeginPaced, GivesUp, f
  <2>4. ticks' = Due
    <3>1. (((next_frame + x) % Wrap) + (DueTicks - x)) % Wrap
          = (next_frame + (x + (DueTicks - x))) % Wrap
      BY <2>2, Later DEF PacingInv
    <3>2. x + (DueTicks - x) = DueTicks
      BY <1>3
    <3>3. QED
      BY <1>1, <1>6, <2>3, <3>1, <3>2 DEF Behind
  <2>5. credit' \in Int /\ credit' >= -f
    <3>1. CASE Credited(DueTicks - x) = Most
      BY <1>3, <1>5, <2>3, <3>1, Period
    <3>2. CASE Credited(DueTicks - x) # Most
      <4>1. /\ Credited(DueTicks - x) = credit + (DueTicks - x) * Fraction
            /\ credit >= x * Fraction - next_frame_frac
        BY <1>1, <1>5, <2>2, <3>2, CreditedFacts DEF Behind
      <4>2. (DueTicks - x) * Fraction = DueTicks * Fraction - x * Fraction
        BY <1>3, Period, Z3
      <4>3. QED
        BY <1>3, <1>5, <1>7, <2>3, <4>1, <4>2, Period
    <3>3. QED
      BY <3>1, <3>2
  <2>6. QED
    BY <1>3, <1>4, <1>6, <2>3, <2>4, <2>5, OnTime
<1>9. CASE ~ (x < DueTicks)
  <2>1. x - DueTicks \in Nat /\ ~ (x - DueTicks < 0)
    BY <1>3, <1>9
  <2>2. /\ ticks' = (ticks + 0) % Wrap
        /\ credit' = Credited(0) - FRAME_PERIOD
        /\ next_frame' = IF GivesUp(x - DueTicks) THEN ticks ELSE Due
        /\ next_frame_frac' = IF GivesUp(x - DueTicks) THEN 0 ELSE f
    BY <1>2, <2>1 DEF BeginPaced, f
  <2>3. ticks' = ticks /\ ticks \in Counter
    BY <2>2, Itself DEF PacingInv
  <2>4. /\ credit' \in Int
        /\ credit' >= (x - DueTicks) * Fraction - f
           \/ credit' >= Late * FRAME_TICKS * Fraction
    <3>1. CASE Credited(0) = Most
      BY <1>5, <2>2, <3>1, Period
    <3>2. CASE Credited(0) # Most
      <4>1. /\ Credited(0) = credit + 0 * Fraction
            /\ credit >= x * Fraction - next_frame_frac
        BY <1>1, <1>5, <3>2, CreditedFacts DEF Behind
      <4>2. (x - DueTicks) * Fraction = x * Fraction - DueTicks * Fraction
        BY <1>3, Period, Z3
      <4>3. QED
        BY <1>3, <1>5, <1>7, <2>2, <4>1, <4>2, Period
    <3>3. QED
      BY <3>1, <3>2
  <2>5. FRAME_TICKS * Late = Late * FRAME_TICKS
    BY Period
  <2>6. CASE GivesUp(x - DueTicks)
    <3>1. next_frame' = ticks /\ next_frame_frac' = 0
      BY <2>2, <2>6
    <3>2. x - DueTicks > Late * FRAME_TICKS
      BY <2>5, <2>6 DEF GivesUp
    <3>3. (x - DueTicks) * Fraction >= Fraction
      BY <1>5, <2>1, <3>2, Period, Z3
    <3>4. credit' >= -next_frame_frac'
      BY <1>3, <1>5, <2>1, <2>4, <3>1, <3>3, Period
    <3>5. QED
      BY <1>4, <2>3, <2>4, <3>1, <3>4, Period, OnTime
  <2>7. CASE ~ GivesUp(x - DueTicks)
    <3>1. next_frame' = Due /\ next_frame_frac' = f
      BY <2>2, <2>7
    <3>2. x - DueTicks <= Late * FRAME_TICKS
      BY <1>5, <2>1, <2>5, <2>7 DEF GivesUp
    <3>3. (x - DueTicks) * Fraction <= Late * FRAME_TICKS * Fraction
      BY <1>5, <2>1, <3>2, Period, Z3
    <3>4. credit' >= (x - DueTicks) * Fraction - next_frame_frac'
      <4>1. (x - DueTicks) * Fraction \in Nat
        BY <2>1, Period
      <4>2. QED
        BY <1>3, <1>5, <2>4, <3>1, <3>3, <4>1
    <3>5. ticks' = (next_frame' + (x - DueTicks)) % Wrap
      <4>1. (((next_frame + DueTicks) % Wrap) + (x - DueTicks)) % Wrap
            = (next_frame + (DueTicks + (x - DueTicks))) % Wrap
        BY <1>3, <2>1, Later DEF PacingInv
      <4>2. DueTicks + (x - DueTicks) = x
        BY <1>3
      <4>3. QED
        BY <1>1, <1>6, <2>3, <3>1, <4>1, <4>2 DEF Behind
    <3>6. PICK y \in Nat : y = x - DueTicks
      BY <2>1
    <3>7. Behind(y)'
      <4>1. 0 \in RunTicks \cup {0} /\ y <= Late * FRAME_TICKS + 0
        BY <1>5, <3>2, <3>6
      <4>2. \E d \in RunTicks \cup {0} : y <= Late * FRAME_TICKS + d
        BY <4>1, Zenon
      <4>3. /\ y <= Late * FRAME_TICKS
            /\ ticks' = (next_frame' + y) % Wrap
            /\ credit' >= y * Fraction - next_frame_frac'
        BY <3>2, <3>4, <3>5, <3>6
      <4>4. QED
        BY <4>2, <4>3 DEF Behind
    <3>8. QED
      BY <1>3, <1>6, <2>3, <2>4, <3>1, <3>7 DEF PacingInv
  <2>8. QED
    BY <2>6, <2>7
<1>10. QED
  BY <1>8, <1>9

-----------------------------------------------------------------------------
(* The rest sets the timing again, or leaves it alone.                     *)

LEMMA ResetStep ==
  ASSUME ticks' \in Counter, nspire_reset_timing
  PROVE  PacingInv'
BY Period, OnTime DEF nspire_reset_timing

LEMMA AwayStep ==
  ASSUME PacingInv, Away
  PROVE  ticks' \in Counter
<1>1. PICK d \in AwayTicks : ticks' = (ticks + d) % Wrap
  BY DEF Away
<1>2. ticks + d \in Int
  BY WrapAssumption, Period DEF PacingInv, Counter
<1>3. QED
  BY <1>1, <1>2, InCounter

LEMMA BehindStays ==
  ASSUME PacingInv, UNCHANGED <<ticks, timing, credit>>, where' # "running"
  PROVE  PacingInv'
<1>1. PICK x \in Nat : Behind(x)
  BY DEF PacingInv
<1>2. /\ ticks' = ticks /\ next_frame' = next_frame
      /\ next_frame_frac' = next_frame_frac /\ credit' = credit
  BY DEF timing
<1>3. Behind(x)'
  BY <1>1, <1>2 DEF Behind, Most, FRAME_TICKS
<1>4. QED
  BY <1>2, <1>3 DEF PacingInv

LEMMA PacingStep == PacingInv /\ [PacingNext]_pacing_vars => PacingInv'
<1> SUFFICES ASSUME PacingInv, [PacingNext]_pacing_vars PROVE PacingInv'
  OBVIOUS
<1>1. ticks \in Counter
  BY DEF PacingInv
<1>2. CASE BeginUnthrottled
  BY <1>2, BeginUnthrottledStep
<1>3. CASE BeginPaced
  BY <1>3, BeginPacedStep
<1>4. CASE RunFrame
  BY <1>4, RunFrameStep
<1>5. CASE ToggleFastForward
  BY <1>1, <1>5, ResetStep DEF ToggleFastForward
<1>6. CASE UseHotkey
  BY <1>6, AwayStep, ResetStep DEF UseHotkey
<1>7. CASE EnterMenu
  BY <1>7, BehindStays DEF EnterMenu
<1>8. CASE ChangeSettings
  BY <1>8, BehindStays DEF ChangeSettings
<1>9. CASE CloseMenu
  BY <1>9, AwayStep, ResetStep DEF CloseMenu
<1>10. CASE TestPart
  BY <1>1, <1>10, ResetStep DEF TestPart
<1>11. CASE TestEnds
  BY <1>11, AwayStep, ResetStep DEF TestEnds
<1>12. CASE UNCHANGED pacing_vars
  <2>1. UNCHANGED <<ticks, where, timing, credit>>
    BY <1>12 DEF pacing_vars
  <2>2. /\ ticks' = ticks /\ where' = where /\ next_frame' = next_frame
        /\ next_frame_frac' = next_frame_frac /\ credit' = credit
    BY <2>1 DEF timing
  <2>3. PICK x \in Nat : Behind(x)
    BY DEF PacingInv
  <2>4. Behind(x)'
    BY <2>2, <2>3 DEF Behind, Most, FRAME_TICKS
  <2>5. QED
    BY <2>2, <2>4 DEF PacingInv
<1>13. QED
  BY <1>2, <1>3, <1>4, <1>5, <1>6, <1>7, <1>8, <1>9, <1>10, <1>11, <1>12 DEF PacingNext

LEMMA PacingInvariance == PacingSpec => []PacingInv
BY PacingInitInv, PacingStep, PTL DEF PacingSpec

(* At normal speed no more frames begin than the time is worth and the few *)
(* that are made up for: what the game is behind covers what it may run    *)
(* ahead by, and a frame that waits is behind by nothing.                  *)
THEOREM NeverFaster == PacingSpec => []NeverTooFast
<1>1. ASSUME PacingInv
      PROVE  NeverTooFast
  <2>1. PICK x \in Nat : credit >= x * Fraction - next_frame_frac \/ credit >= Most
    BY <1>1 DEF PacingInv, Behind
  <2>2. x * Fraction \in Nat /\ Most \in Nat
    BY Period, MostIsNat
  <2>3. next_frame_frac \in 0 .. Fraction - 1 /\ credit \in Int
    BY <1>1 DEF PacingInv
  <2>4. QED
    BY <2>1, <2>2, <2>3, Period DEF NeverTooFast
<1>2. PacingInv => NeverTooFast
  BY <1>1
<1>3. QED
  BY <1>2, PacingInvariance, PTL

(* And no wait is longer than a frame, wherever the counter wraps.         *)
THEOREM WaitsShort == PacingSpec => WaitsAreShort
<1>1. ASSUME PacingInv, BeginPaced
      PROVE  (ticks' - ticks) % Wrap <= FRAME_TICKS + 1
  <2>1. PICK x \in Nat : Behind(x)
    BY <1>1 DEF PacingInv
  <2>2. Signed(ticks - Due) = x - DueTicks
    BY <1>1, <2>1, Lateness
  <2>3. DueTicks \in Nat /\ DueTicks <= FRAME_TICKS + 1
    BY <1>1, DueFacts DEF PacingInv
  <2>4. PICK w \in 0 .. FRAME_TICKS + 1 : ticks' = (ticks + w) % Wrap
    <3>1. CASE x < DueTicks
      <4>1. Waits(x - DueTicks) = DueTicks - x /\ x - DueTicks < 0
        BY <1>1, <2>1, <2>3, <3>1, Waited
      <4>2. ticks' = (ticks + (DueTicks - x)) % Wrap
        BY <1>1, <2>2, <4>1 DEF BeginPaced
      <4>3. DueTicks - x \in 0 .. FRAME_TICKS + 1
        BY <2>3, <3>1, Period
      <4>4. QED
        BY <4>2, <4>3
    <3>2. CASE ~ (x < DueTicks)
      <4>1. ~ (x - DueTicks < 0)
        BY <2>3, <3>2
      <4>2. ticks' = (ticks + 0) % Wrap
        BY <1>1, <2>2, <4>1 DEF BeginPaced
      <4>3. 0 \in 0 .. FRAME_TICKS + 1
        BY Period
      <4>4. QED
        BY <4>2, <4>3
    <3>3. QED
      BY <3>1, <3>2
  <2>5. ticks \in Counter /\ w \in Nat /\ w <= FRAME_TICKS + 1 /\ w < Wrap
    BY <1>1, <2>4, LongWrap, Period DEF PacingInv
  <2>6. (ticks' - ticks) % Wrap = w
    <3>1. /\ ticks + w \in Int /\ (ticks + w) \div Wrap \in Int
          /\ ticks + w = ((ticks + w) \div Wrap) * Wrap + ((ticks + w) % Wrap)
      <4>1. ticks + w \in Int
        BY <2>5, Period DEF Counter
      <4>2. QED
        BY <4>1, Period, Modulus
    <3>2. PICK k \in Int : k = (ticks + w) \div Wrap
      BY <3>1
    <3>3. ticks' - ticks = (-k) * Wrap + w
      <4>1. ticks + w = k * Wrap + ticks'
        BY <2>4, <3>1, <3>2
      <4>2. ticks' \in Int
        BY <2>4, <3>1, InCounter, Period DEF Counter
      <4>3. k * Wrap \in Int /\ ticks \in Int
        BY <2>5, Period DEF Counter
      <4>4. ticks' - ticks = w - k * Wrap
        BY <2>5, <4>1, <4>2, <4>3
      <4>5. (-k) * Wrap + w = w - k * Wrap
        BY <2>5, Period, Z3
      <4>6. QED
        BY <4>4, <4>5
    <3>4. ((-k) * Wrap + w) % Wrap = w
      <4>1. -k \in Int /\ w \in 0 .. Wrap - 1
        BY <2>5, Period
      <4>2. QED
        BY <4>1, Period, Remainder
    <3>5. QED
      BY <3>3, <3>4
  <2>7. QED
    BY <2>5, <2>6
<1>2. PacingInv /\ [PacingNext]_pacing_vars => [BeginPaced => (ticks' - ticks) % Wrap <= FRAME_TICKS + 1]_pacing_vars
  BY <1>1
<1>3. QED
  BY <1>2, PacingInvariance, PTL DEF PacingSpec, WaitsAreShort
=============================================================================

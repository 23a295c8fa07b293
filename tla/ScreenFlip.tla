----------------------------- MODULE ScreenFlip -----------------------------
(***************************************************************************)
(* The screen buffers, the LCD that reads them and the text bands in them: *)
(* nspire/nspire.c, nspire_video_present.c and nspire_video_ui.c, on the   *)
(* portrait LCD.                                                           *)
(*                                                                         *)
(* The LCD runs by itself: at each refresh it takes the address it was     *)
(* last given, reads the lines of that buffer and then rests in its porch. *)
(* The program draws into one buffer while the LCD reads another, and a    *)
(* flip hands the drawn one to the LCD and moves on to the next buffer,    *)
(* waiting while the LCD is still reading that one.                        *)
(*                                                                         *)
(* A game's picture that does not fill the screen leaves alone the bands   *)
(* above and below it and the borders beside it, which must already hold   *)
(* the right text and black: the bands are drawn again only when a cache   *)
(* says that the buffer's text differs, and the borders only on leaving    *)
(* the menus, by flipping cleared frames into every buffer.                *)
(***************************************************************************)
EXTENDS Integers

CONSTANTS
  SCREENS,          \* how many buffers take turns (3 in the code)
  CLEARS,           \* how many cleared frames video_resolution_small flips (3)
  RefreshesInWait,  \* refreshes that surely come in the time a flip waits
  Texts,            \* what the bands can have to say
  Black,            \* a band or border that was cleared
  Picture,          \* a band or border covered by a picture or a menu
  MaxFrames         \* bound: the last frame drawn

Screens == 0 .. SCREENS - 1

Elsewhere == -1     \* the OS's own screen

ASSUME ScreensAssumption == SCREENS \in Nat \ {0, 1}
ASSUME ClearsAssumption == CLEARS \in Nat /\ CLEARS >= SCREENS
ASSUME BoundsAssumption == MaxFrames \in Nat /\ RefreshesInWait \in Nat \ {0}
ASSUME MarkersAssumption == Black \notin Texts /\ Picture \notin Texts /\ Black # Picture

VARIABLES
  drawing,   \* drawing_screen: the buffer being drawn into
  base,      \* the buffer the LCD was told to read
  reading,   \* the buffer the LCD took at its last refresh
  porch,     \* the LCD has read that buffer's lines and rests
  pc,        \* "draw": a frame is being drawn; "wait": in nspire_flip's loop
  waited,    \* refreshes since that loop began
  mode,      \* "game", "menu" or "clearing" (leaving the menus)
  clears,    \* cleared frames still to flip
  full,      \* the game's picture fills the screen
  text,      \* what the bands are to say
  buffers,   \* what each buffer holds
  shown,     \* bands_shown: what the bands of each buffer are taken to hold
  frame,     \* the last frame flipped
  latched    \* history: the newest frame the LCD has taken

lcd == <<reading, porch>>
vars == <<drawing, base, reading, porch, pc, waited, mode, clears, full, text,
          buffers, shown, frame, latched>>

Kinds == {"inset", "filling", "menu"}

Buffer == [frame : Nat, whole : BOOLEAN, kind : Kinds, wanted : Texts \cup {Black},
           bands : Texts \cup {Black, Picture}, borders : {Black, Picture}]

Cache == [valid : BOOLEAN, text : Texts \cup {Black}]

(* The buffer that HW_LCD_CURRENT points into.  The buffers follow each    *)
(* other in memory, so the end of one is the start of the next.            *)
Current == IF porch /\ reading # Elsewhere THEN reading + 1 ELSE reading

NextScreen(s) == (s + 1) % SCREENS

Init ==
  /\ drawing = 1
  /\ base = 0
  /\ reading = Elsewhere
  /\ porch = FALSE
  /\ pc = "draw"
  /\ waited = 0
  /\ mode = "menu"
  /\ clears = 0
  /\ full \in BOOLEAN
  /\ text \in Texts
  /\ buffers = [s \in Screens |-> [frame |-> 0, whole |-> TRUE, kind |-> "menu",
                                   wanted |-> Black, bands |-> Black, borders |-> Black]]
  /\ shown = [s \in Screens |-> [valid |-> FALSE, text |-> Black]]
  /\ frame = 0
  /\ latched = 0

-----------------------------------------------------------------------------
(* The LCD.                                                                *)

(* At a refresh it takes the address it was last given.                    *)
Refresh ==
  /\ porch \/ reading = Elsewhere
  /\ reading' = base
  /\ porch' = FALSE
  /\ latched' = buffers[base].frame
  /\ waited' = IF pc = "wait" /\ waited < RefreshesInWait THEN waited + 1 ELSE waited
  /\ UNCHANGED <<drawing, base, pc, mode, clears, full, text, buffers, shown, frame>>

LinesDone ==
  /\ reading # Elsewhere
  /\ ~porch
  /\ porch' = TRUE
  /\ UNCHANGED <<drawing, base, reading, pc, waited, mode, clears, full, text, buffers,
                 shown, frame, latched>>

-----------------------------------------------------------------------------
(* The program.                                                            *)

(* The first pixels of a frame: from here to its flip it is not whole.     *)
Paint ==
  /\ pc = "draw"
  /\ buffers[drawing].whole
  /\ buffers' = [buffers EXCEPT ![drawing].whole = FALSE]
  /\ UNCHANGED <<drawing, base, lcd, pc, waited, mode, clears, full, text, shown, frame,
                 latched>>

(* Variant: a flip that goes on to draw without waiting.                   *)
FlipAtOnce(content, caches) ==
  /\ pc = "draw"
  /\ frame < MaxFrames
  /\ ~buffers[drawing].whole
  /\ frame' = frame + 1
  /\ buffers' = [buffers EXCEPT ![drawing] = content]
  /\ shown' = caches
  /\ base' = drawing
  /\ drawing' = NextScreen(drawing)
  /\ UNCHANGED <<lcd, full, text, latched, pc, waited>>

(* Variant: the buffer to draw into is moved on before the LCD is told.    *)
FlipMovedOn(content, caches) ==
  /\ pc = "draw"
  /\ frame < MaxFrames
  /\ ~buffers[drawing].whole
  /\ frame' = frame + 1
  /\ buffers' = [buffers EXCEPT ![drawing] = content]
  /\ shown' = caches
  /\ drawing' = NextScreen(drawing)
  /\ base' = drawing'
  /\ pc' = "wait"
  /\ waited' = 0
  /\ UNCHANGED <<lcd, full, text, latched>>

(* nspire_flip: the frame is finished and handed to the LCD.               *)
Flip(content, caches) ==
  /\ pc = "draw"
  /\ frame < MaxFrames
  /\ ~buffers[drawing].whole
  /\ frame' = frame + 1
  /\ buffers' = [buffers EXCEPT ![drawing] = content]
  /\ shown' = caches
  /\ base' = drawing
  /\ drawing' = NextScreen(drawing)
  /\ pc' = "wait"
  /\ waited' = 0
  /\ UNCHANGED <<lcd, full, text, latched>>

(* Variant: no end to the time.                                            *)
FlipDoneUntimed ==
  /\ pc = "wait"
  /\ Current # drawing
  /\ pc' = "draw"
  /\ UNCHANGED <<drawing, base, lcd, waited, mode, clears, full, text, buffers, shown,
                 frame, latched>>

(* The loop ends when the LCD is not in the buffer to draw into next, or   *)
(* when the time is over.                                                  *)
FlipDone ==
  /\ pc = "wait"
  /\ Current # drawing \/ waited = RefreshesInWait
  /\ pc' = "draw"
  /\ UNCHANGED <<drawing, base, lcd, waited, mode, clears, full, text, buffers, shown,
                 frame, latched>>

(* Variant: the cache is believed whether it is valid or not.              *)
BandsStale(s) == shown[s].text # text

(* draw_text_portrait: the bands are drawn when the cache says they hold   *)
(* something else, or nothing is known of them.                            *)
BandsDiffer(s) == ~shown[s].valid \/ shown[s].text # text

(* A frame of the game that does not fill the screen.                      *)
PresentInset ==
  /\ mode = "game" /\ ~full
  /\ Flip([frame |-> frame + 1, whole |-> TRUE, kind |-> "inset", wanted |-> text,
           bands |-> IF BandsDiffer(drawing) THEN text ELSE buffers[drawing].bands,
           borders |-> buffers[drawing].borders],
          [shown EXCEPT ![drawing] = [valid |-> TRUE, text |-> text]])
  /\ UNCHANGED <<mode, clears>>

(* A frame of the game that does, under its text.                          *)
PresentFilling ==
  /\ mode = "game" /\ full
  /\ Flip([frame |-> frame + 1, whole |-> TRUE, kind |-> "filling", wanted |-> text,
           bands |-> Picture, borders |-> Picture],
          [shown EXCEPT ![drawing].valid = FALSE])
  /\ UNCHANGED <<mode, clears>>

(* flip_screen turns a menu's frame into the whole buffer and forgets what *)
(* the bands of every buffer hold.                                         *)
FlipScreen(bands) ==
  Flip([frame |-> frame + 1, whole |-> TRUE, kind |-> "menu", wanted |-> Black,
        bands |-> bands, borders |-> bands],
       [s \in Screens |-> [shown[s] EXCEPT !.valid = FALSE]])

MenuFrame ==
  /\ mode = "menu"
  /\ FlipScreen(Picture)
  /\ UNCHANGED <<mode, clears>>

(* video_resolution_large flips what the menus drew last.                  *)
OpenMenu ==
  /\ mode = "game"
  /\ FlipScreen(Picture)
  /\ mode' = "menu"
  /\ UNCHANGED clears

(* video_resolution_small, after the menus may have changed the scale.     *)
LeaveMenu ==
  /\ pc = "draw" /\ mode = "menu"
  /\ buffers[drawing].whole
  /\ mode' = "clearing"
  /\ clears' = CLEARS
  /\ full' \in BOOLEAN
  /\ UNCHANGED <<drawing, base, lcd, pc, waited, text, buffers, shown, frame, latched>>

(* Variant: one cleared frame fewer.                                       *)
ClearedFrameFewer ==
  /\ mode = "clearing"
  /\ FlipScreen(Black)
  /\ clears' = clears - 1
  /\ mode' = IF clears <= 2 THEN "game" ELSE "clearing"

ClearedFrame ==
  /\ mode = "clearing"
  /\ FlipScreen(Black)
  /\ clears' = clears - 1
  /\ mode' = IF clears = 1 THEN "game" ELSE "clearing"

(* Counters and messages come and go between frames.                       *)
NewText ==
  /\ pc = "draw" /\ mode = "game"
  /\ buffers[drawing].whole
  /\ text' \in Texts \ {text}
  /\ UNCHANGED <<drawing, base, lcd, pc, waited, mode, clears, full, buffers, shown, frame,
                 latched>>

Next ==
  \/ Refresh \/ LinesDone
  \/ Paint
  \/ PresentInset \/ PresentFilling \/ MenuFrame \/ ClearedFrame
  \/ FlipDone
  \/ OpenMenu \/ LeaveMenu
  \/ NewText

(* The LCD refreshes as long as it has power, and the loop in nspire_flip  *)
(* is only ever left running.                                              *)
Fairness == WF_vars(Refresh) /\ WF_vars(LinesDone) /\ WF_vars(FlipDone)

Spec == Init /\ [][Next]_vars /\ Fairness

-----------------------------------------------------------------------------
(* The values each variable can have.                                      *)
TypeOK ==
  /\ drawing \in Screens /\ base \in Screens
  /\ reading \in Screens \cup {Elsewhere}
  /\ porch \in BOOLEAN
  /\ pc \in {"draw", "wait"}
  /\ waited \in Nat
  /\ mode \in {"game", "menu", "clearing"}
  /\ clears \in Int
  /\ full \in BOOLEAN
  /\ text \in Texts
  /\ buffers \in [Screens -> Buffer]
  /\ shown \in [Screens -> Cache]
  /\ frame \in Nat /\ latched \in Nat

(* No tearing: while the LCD reads a buffer's lines, that buffer holds one *)
(* whole frame and nothing is drawn into it.                               *)
NoTearing == reading # Elsewhere /\ ~porch => buffers[reading].whole

(* What the LCD takes at a refresh is the last frame that was flipped.     *)
LastIsTaken == [][Refresh => latched' = frame]_vars

(* A finished frame that does not fill the screen has the text it was to   *)
(* have in its bands, although they are drawn only when the cache says so. *)
BandsSayTheText ==
  \A s \in Screens :
    buffers[s].whole /\ buffers[s].kind = "inset" => buffers[s].bands = buffers[s].wanted

(* ... and black borders: nothing of a menu or of a larger picture is left *)
(* beside it, in whichever buffer it comes.                                *)
BordersAreBlack ==
  \A s \in Screens :
    buffers[s].whole /\ buffers[s].kind = "inset" => buffers[s].borders = Black

(* A frame that was flipped is shown, or a later one is.                   *)
FramesAreShown == \A n \in 1 .. MaxFrames : frame >= n ~> latched >= n

(* The wait in nspire_flip always ends.                                    *)
FlipEnds == pc = "wait" ~> pc = "draw"
=============================================================================

---------------------------- MODULE FramePacing ----------------------------
(***************************************************************************)
(* When frames begin and which are drawn: nspire_frameskip.c, with what    *)
(* nspire_host_main.c and the menus do between frames, and the wait of     *)
(* nspire/nspire.c.                                                        *)
(*                                                                         *)
(* Frames are paced by a 32-bit counter that wraps.  The time at which the *)
(* next frame is due is kept in whole ticks and 16 bits of fraction; it is *)
(* set to now where the game has been away, and where it is too late to    *)
(* make up for.                                                            *)
(***************************************************************************)
EXTENDS Integers

CONSTANTS
  Wrap,                 \* the ticks of the counter, 2^32 in the code
  Fraction,             \* of a tick, 2^16
  FRAME_PERIOD,         \* in fractions
  NSPIRE_TICK_HZ,       \* a second, in ticks
  FAST_FORWARD_DRAW_EVERY,
  Late,                 \* frames that are made up for, 6
  MaxSkip,              \* the largest frameskip_value
  RunTicks,             \* how long running a frame can take
  AwayTicks             \* and how long the game can be away

FRAME_TICKS == FRAME_PERIOD \div Fraction

ASSUME PeriodAssumption ==
  /\ Fraction \in Nat \ {0} /\ FRAME_PERIOD \in Nat \ {0} /\ Late \in Nat
  /\ NSPIRE_TICK_HZ \in Nat /\ FRAME_TICKS > 0
(* A frame is shorter than a second.                                       *)
ASSUME SecondAssumption == FRAME_TICKS < NSPIRE_TICK_HZ
ASSUME SkipAssumption == FAST_FORWARD_DRAW_EVERY \in Nat \ {0} /\ MaxSkip \in Nat
(* Running one frame takes less than half the counter, 18 hours.           *)
ASSUME WrapAssumption ==
  /\ Wrap \in Nat /\ Wrap % 2 = 0 /\ RunTicks \cup AwayTicks \subseteq Nat
  /\ \A d \in RunTicks \cup {0} : d + (Late + 1) * (FRAME_TICKS + 1) < Wrap \div 2

Types == {"no", "auto", "manual"}

VARIABLES
  ticks,                \* nspire_ticks
  where,                \* "between" frames, "running" one, or in the "menu"
  next_frame, next_frame_frac,
  skipped_frames, manual_counter, fast_forward_counter,
  skip_next_frame,
  current_frameskip_type, frameskip_value, random_skip, synchronize_flag,
  nspire_pace,          \* "normal", or "all" or "none" drawn in the speed test
  credit                \* history: the time the game may still run ahead by, in fractions

timing == <<next_frame, next_frame_frac, skipped_frames>>
counters == <<manual_counter, fast_forward_counter>>
settings == <<current_frameskip_type, frameskip_value, random_skip, synchronize_flag,
              nspire_pace>>
pacing_vars == <<ticks, where, timing, counters, skip_next_frame, settings, credit>>

Signed(t) == IF t % Wrap < Wrap \div 2 THEN t % Wrap ELSE (t % Wrap) - Wrap

(* No more than Late frames can be made up for.                            *)
Most == Late * FRAME_TICKS * Fraction + FRAME_PERIOD
Credited(d) == IF credit + d * Fraction < Most THEN credit + d * Fraction ELSE Most

Away == \E d \in AwayTicks : ticks' = (ticks + d) % Wrap

nspire_reset_timing ==
  /\ next_frame' = ticks'
  /\ next_frame_frac' = 0
  /\ skipped_frames' = 0
  /\ credit' = 0

PacingInit ==
  /\ ticks = 0 /\ where = "between"
  /\ next_frame = 0 /\ next_frame_frac = 0 /\ skipped_frames = 0
  /\ manual_counter = 0 /\ fast_forward_counter = 0
  /\ skip_next_frame = FALSE
  /\ current_frameskip_type \in Types /\ frameskip_value \in 0 .. MaxSkip
  /\ random_skip \in BOOLEAN
  /\ synchronize_flag = TRUE /\ nspire_pace = "normal"
  /\ credit = 0

-----------------------------------------------------------------------------
(* nspire_frameskip_begin_frame.                                           *)

(* The skipped frames are counted up to MaxSkip: only automatic frameskip  *)
(* looks at them, to see whether they are as many as frameskip_value.      *)
Decided(draw) ==
  /\ skip_next_frame' = ~draw
  /\ skipped_frames' = IF draw THEN 0
                       ELSE IF skipped_frames < MaxSkip THEN skipped_frames + 1 ELSE MaxSkip
  /\ where' = "running"

BeginUnthrottled ==
  /\ where = "between"
  /\ nspire_pace # "normal" \/ ~synchronize_flag
  /\ IF nspire_pace # "normal" \/ current_frameskip_type = "no"
       THEN Decided(nspire_pace # "none") /\ UNCHANGED fast_forward_counter
       ELSE /\ Decided(fast_forward_counter = 0)
            /\ fast_forward_counter' = (fast_forward_counter + 1) % FAST_FORWARD_DRAW_EVERY
  /\ next_frame' = ticks /\ next_frame_frac' = 0
  /\ credit' = 0
  /\ UNCHANGED <<ticks, manual_counter, settings>>

(* When this frame is due: the ticks, which wrap, and the fraction.        *)
DueFrac == next_frame_frac + FRAME_PERIOD
Due == (next_frame + DueFrac \div Fraction) % Wrap

Drawn(late) ==
  CASE current_frameskip_type = "auto" -> {late <= 0 \/ skipped_frames >= frameskip_value}
    [] current_frameskip_type = "manual" ->
         IF random_skip THEN {manual_counter' = r : r \in 0 .. frameskip_value}
         ELSE {manual_counter' = 0}
    [] OTHER -> {TRUE}

(* nspire_wait_until: not for what is more than a second away.             *)
Waits(late) == IF -late > NSPIRE_TICK_HZ THEN 0 ELSE -late

(* Variant: a game that is far behind catches up.                          *)
GivesUpNever(late) == FALSE

GivesUp(late) == late > FRAME_TICKS * Late

BeginPaced ==
  /\ where = "between"
  /\ nspire_pace = "normal" /\ synchronize_flag
  /\ manual_counter' = IF current_frameskip_type = "manual"
                         THEN (manual_counter + 1) % (frameskip_value + 1) ELSE manual_counter
  /\ LET late == Signed(ticks - Due)
         wait == IF late < 0 THEN Waits(late) ELSE 0
     IN /\ \E draw \in Drawn(late) : Decided(draw)
        /\ ticks' = (ticks + wait) % Wrap
        /\ next_frame' = IF GivesUp(late) THEN ticks ELSE Due
        /\ next_frame_frac' = IF GivesUp(late) THEN 0 ELSE DueFrac % Fraction
        /\ credit' = Credited(wait) - FRAME_PERIOD
  /\ UNCHANGED <<fast_forward_counter, settings>>

(* run_frame: the frame is run, drawn if it is to be, and counted.         *)
RunFrame ==
  /\ where = "running"
  /\ where' = "between"
  /\ \E d \in RunTicks : ticks' = (ticks + d) % Wrap /\ credit' = Credited(d)
  /\ UNCHANGED <<timing, counters, skip_next_frame, settings>>

-----------------------------------------------------------------------------
(* Between frames.                                                         *)

ToggleFastForward ==
  /\ where = "between"
  /\ nspire_pace = "normal"
  /\ synchronize_flag' = ~synchronize_flag
  /\ UNCHANGED ticks
  /\ nspire_reset_timing
  /\ UNCHANGED <<where, counters, skip_next_frame, current_frameskip_type, frameskip_value,
                 random_skip, nspire_pace>>

(* The hotkeys that save and load states and restart the game.             *)
UseHotkey ==
  /\ where = "between"
  /\ nspire_pace = "normal"
  /\ Away
  /\ nspire_reset_timing
  /\ UNCHANGED <<where, counters, skip_next_frame, settings>>

EnterMenu ==
  /\ where = "between"
  /\ nspire_pace = "normal"
  /\ where' = "menu"
  /\ UNCHANGED <<ticks, timing, counters, skip_next_frame, settings, credit>>

(* In the menu: settings; a game started there begins at normal speed.     *)
ChangeSettings ==
  /\ where = "menu"
  /\ current_frameskip_type' \in Types /\ frameskip_value' \in 0 .. MaxSkip
  /\ random_skip' \in BOOLEAN
  /\ synchronize_flag' \in {synchronize_flag, TRUE}
  /\ UNCHANGED <<ticks, where, timing, counters, skip_next_frame, nspire_pace, credit>>

(* Variant: the timing is left as it was.                                  *)
CloseMenuOnly ==
  /\ where = "menu"
  /\ where' = "between"
  /\ Away
  /\ UNCHANGED <<timing, counters, skip_next_frame, settings, credit>>

(* open_menu, when the player leaves the menu, whenever that is.           *)
CloseMenu ==
  /\ where = "menu"
  /\ where' = "between"
  /\ Away
  /\ nspire_reset_timing
  /\ UNCHANGED <<counters, skip_next_frame, settings>>

(* nspire_speed_test, from the menu: each of its parts, and its end.       *)
TestPart ==
  /\ where = "menu" \/ (where = "between" /\ nspire_pace # "normal")
  /\ where' = "between"
  /\ nspire_pace' \in {"all", "none"}
  /\ current_frameskip_type' = "no" /\ synchronize_flag' = TRUE
  /\ UNCHANGED ticks
  /\ nspire_reset_timing
  /\ UNCHANGED <<counters, skip_next_frame, frameskip_value, random_skip>>

TestEnds ==
  /\ where = "between"
  /\ nspire_pace # "normal"
  /\ where' = "menu"
  /\ nspire_pace' = "normal"
  /\ current_frameskip_type' \in Types /\ synchronize_flag' \in BOOLEAN
  /\ Away
  /\ nspire_reset_timing
  /\ UNCHANGED <<counters, skip_next_frame, frameskip_value, random_skip>>

PacingNext ==
  \/ BeginUnthrottled \/ BeginPaced \/ RunFrame
  \/ ToggleFastForward \/ UseHotkey
  \/ EnterMenu \/ ChangeSettings \/ CloseMenu
  \/ TestPart \/ TestEnds

PacingSpec == PacingInit /\ [][PacingNext]_pacing_vars

-----------------------------------------------------------------------------
(* At normal speed a game runs no faster than the console: over any        *)
(* stretch of time, however its frames, stalls and menus fall in it, no    *)
(* more frames begin than the time is worth, and the few that are made up  *)
(* for.  The rounding of the period, the counter that wraps and the places *)
(* that reset the timing must all agree for that.                          *)
NeverTooFast == credit > -Fraction

(* The program never waits for longer than a frame takes, however long the *)
(* game was away: a frame that would be due later was due before the       *)
(* counter wrapped.                                                        *)
WaitsAreShort ==
  [][BeginPaced => (ticks' - ticks) % Wrap <= FRAME_TICKS + 1]_pacing_vars

=============================================================================

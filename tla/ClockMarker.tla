---------------------------- MODULE ClockMarker ----------------------------
(***************************************************************************)
(* The CPU's clock and the marker file that remembers a freeze:            *)
(* nspire_clock.c with nspire_host_main.c, around the settings, which say  *)
(* how fast each game runs.                                                *)
(*                                                                         *)
(* The clock is raised only while a game runs: menus, saving and leaving   *)
(* put it back first.  Before it is raised a marker file names the game;   *)
(* leaving gpSP removes it, and a start that finds it knows that the       *)
(* calculator froze.                                                       *)
(***************************************************************************)
EXTENDS GameConfig

VARIABLES
  playing,         \* a game runs: not in the menus, not saving a state
  raised,          \* clock_raised
  marker,          \* the game gpsp_clock.tns names, or None
  marker_written,
  failed,          \* failed_multiplier: a speed that was not reached
  frozeIn,         \* history: the game the calculator froze in, until it
                   \* is opened again or gpSP ends again
  clean            \* history: gpSP last ended by leaving it

clock == <<playing, raised, marker, marker_written, failed, frozeIn, clean>>
allVars == <<vars, clock>>

ClockInit ==
  /\ Init
  /\ playing = FALSE /\ raised = FALSE
  /\ marker = None /\ marker_written = FALSE
  /\ failed = 0
  /\ frozeIn = NoGame /\ clean = TRUE

-----------------------------------------------------------------------------
(* The multiplier nspire_clock_game asks for: a raise that failed is not   *)
(* tried again until another speed is chosen.                              *)
Wanted == IF live.settings.speed = failed THEN 0 ELSE live.settings.speed

(* Variant: a marker that could not be written is not missed.              *)
ClockGameUnmarked ==
  /\ \/ /\ Wanted # 0 /\ ~marker_written
        /\ marker' = open /\ marker_written' = TRUE
     \/ UNCHANGED <<marker, marker_written>>
  /\ IF Wanted # 0
       THEN \/ raised' = TRUE /\ failed' = 0
            \/ raised' = FALSE /\ failed' = Wanted
       ELSE /\ raised' = FALSE
            /\ failed' = IF live.settings.speed = failed THEN failed ELSE 0

(* nspire_clock_game: no marker, no raised speed.                          *)
ClockGame ==
  /\ \/ /\ Wanted # 0 /\ ~marker_written
        /\ marker' = open /\ marker_written' = TRUE
     \/ UNCHANGED <<marker, marker_written>>
  /\ IF Wanted # 0 /\ marker_written'
       THEN \/ raised' = TRUE /\ failed' = 0
            \/ raised' = FALSE /\ failed' = Wanted
       ELSE /\ raised' = FALSE
            /\ failed' = IF live.settings.speed = failed THEN failed ELSE 0

(* The game runs: after it was started, after the menus, after a save.     *)
Play ==
  /\ Ready
  /\ open # NoGame
  /\ ~playing
  /\ playing' = TRUE
  /\ ClockGame
  /\ UNCHANGED <<vars, frozeIn, clean>>

(* open_menu, nspire_save_state_now, game_stopped: nspire_clock_normal     *)
(* first.                                                                  *)
Pause ==
  /\ playing
  /\ playing' = FALSE
  /\ raised' = FALSE
  /\ UNCHANGED <<vars, marker, marker_written, failed, frozeIn, clean>>

(* What the settings do they do between games or in the menus.             *)
Settle ==
  /\ ~playing
  /\ \/ Start
     \/ CloseGame \/ ChangeSettings
     \/ \E p \in Parts : SettingsForThisGame(p) \/ SettingsForAllGames(p)
     \/ StartSave \/ WriteCopy \/ WriteProgram \/ WriteOwn
     \/ NewProgram
  /\ UNCHANGED clock

Resume ==
  /\ \E g \in Games :
       /\ OpenGame(g)
       /\ frozeIn' = IF g = frozeIn THEN NoGame ELSE frozeIn
  /\ UNCHANGED <<playing, raised, marker, marker_written, failed, clean>>

(* A marker that is still there at the start.                              *)
CheckMarker ==
  /\ CheckCrash(IF marker = None THEN NoGame ELSE marker)
  /\ marker' = None
  /\ UNCHANGED <<playing, raised, marker_written, failed, frozeIn, clean>>

(* Variant: the marker of a speed that is not raised now stays.            *)
QuitMarked ==
  /\ Ready
  /\ open = NoGame
  /\ Stop
  /\ marker' = IF raised THEN None ELSE marker
  /\ marker_written' = FALSE
  /\ failed' = 0
  /\ frozeIn' = NoGame /\ clean' = TRUE
  /\ UNCHANGED <<playing, raised>>

(* quit, after nspire_leave_game: nspire_clock_left_game.                  *)
Quit ==
  /\ Ready
  /\ open = NoGame
  /\ Stop
  /\ marker' = IF marker_written THEN None ELSE marker
  /\ marker_written' = FALSE
  /\ failed' = 0
  /\ frozeIn' = NoGame /\ clean' = TRUE
  /\ UNCHANGED <<playing, raised>>

(* The calculator: it freezes at a raised speed, or loses power.           *)
Halt ==
  /\ Stop
  /\ playing' = FALSE /\ raised' = FALSE /\ marker_written' = FALSE /\ failed' = 0
  /\ clean' = FALSE
  /\ UNCHANGED marker

Freeze == raised /\ Halt /\ frozeIn' = open

PowerLoss == Halt /\ frozeIn' = NoGame

ClockNext ==
  \/ Play \/ Pause
  \/ Settle \/ Resume \/ CheckMarker
  \/ Quit \/ Freeze \/ PowerLoss

ClockSpec == ClockInit /\ [][ClockNext]_allVars

-----------------------------------------------------------------------------
(* The values each variable can have.                                      *)
ClockTypeOK ==
  /\ TypeOK
  /\ playing \in BOOLEAN /\ raised \in BOOLEAN /\ marker_written \in BOOLEAN
  /\ marker \in Games \cup {None}
  /\ failed \in 0 .. CPU_SPEEDS - 1
  /\ frozeIn \in Games \cup {NoGame} /\ clean \in BOOLEAN

(* The clock is never raised without a marker on disk, whatever game came  *)
(* before and whatever could not be written or reached.                    *)
RaisedIsMarked == raised => marker # None

(* Saving, menus and leaving run at the calculator's own speed.            *)
RaisedOnlyInGame == raised => playing

(* Leaving gpSP leaves no marker, of whichever game it was: only after     *)
(* another end does a start find one.                                      *)
QuitLeavesNoMarker == running = "off" /\ clean => marker = None

(* The marker file names the game while it runs at a raised speed, so that *)
(* after a freeze its next start goes back to normal (README.md:218,       *)
(* nspire_clock.c:14-17).                                                  *)
FreezeGoesBackToNormal ==
  [][\A g \in Games : frozeIn = g /\ open = NoGame /\ open' = g
                      => live'.settings.speed = 0]_allVars
=============================================================================

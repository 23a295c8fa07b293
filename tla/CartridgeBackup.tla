-------------------------- MODULE CartridgeBackup --------------------------
(***************************************************************************)
(* In-game saves: the cartridge's memory and its files, nspire_backup.c,   *)
(* with what nspire_host_main.c and the save manager make of them.         *)
(*                                                                         *)
(* A save is kept in one of two forms, plain or gzipped.  It is written in *)
(* place, some frames after the game last wrote to its memory and again    *)
(* when the game is left; writing one form removes the other, and loading  *)
(* takes the newer of the two.  Power can go between any two steps.        *)
(***************************************************************************)
EXTENDS Integers

CONSTANTS
  Games, NoGame,
  None,                 \* no file, or nothing being written
  Blank,                \* memory with nothing in it: all 0xFF
  Torn,                 \* what a write that did not end leaves in a file
  WRITE_BACKUP_DELAY,   \* frames, 10 in the code
  MaxWrites,            \* bound: how often the games write to their memory
  MaxTime               \* bound: the file times

Forms == {"plain", "packed"}
Other(form) == IF form = "plain" THEN "packed" ELSE "plain"

(* What is in a cartridge's memory: the game that wrote it, and when.      *)
Contents == [by : Games, at : 1 .. MaxWrites] \cup {Blank}
File == [holds : Contents \cup {Torn}, time : 0 .. MaxTime]
Files == [Forms -> File \cup {None}]

(* write_backup_as: the form, and whether it is still being written or     *)
(* the other one is to be removed.                                         *)
Write == [form : Forms, step : {"writing", "removing"}]

Idle == WRITE_BACKUP_DELAY + 1

ASSUME GamesAssumption == NoGame \notin Games
ASSUME NoneAssumption == None \notin File \cup Write
ASSUME ContentsAssumption == Torn \notin Contents
ASSUME BoundsAssumption ==
  WRITE_BACKUP_DELAY \in Nat \ {0} /\ MaxWrites \in Nat /\ MaxTime \in Nat

VARIABLES
  game,                   \* gamepak_filename
  leaving,                \* "no", to "close" the game, to "quit" gpSP, or its "exit"
  memory,                 \* gamepak_backup
  typed,                  \* backup_type is known
  backup_update_count, backup_deleted,
  nspire_compress_saves, update_backup_flag,   \* settings
  write,                  \* the write_backup_as under way
  file,                   \* a game's two files
  now,                    \* the calculator's clock
  writes,                 \* for MaxWrites
  missed                  \* history: why the last write did not succeed

session == <<game, leaving>>
settings == <<nspire_compress_saves, update_backup_flag>>
vars == <<session, memory, typed, backup_update_count, backup_deleted, settings, write,
          file, now, writes, missed>>

Playing == game # NoGame /\ leaving = "no" /\ write = None

Init ==
  /\ game = NoGame /\ leaving = "no"
  /\ memory = Blank /\ typed = FALSE
  /\ backup_update_count = Idle /\ backup_deleted = FALSE
  /\ nspire_compress_saves \in BOOLEAN /\ update_backup_flag \in BOOLEAN
  /\ write = None
  /\ file = [g \in Games |-> [f \in Forms |-> None]]
  /\ now = 0 /\ writes = 0 /\ missed = "no"

-----------------------------------------------------------------------------
(* Writing: write_backup_as.                                               *)

With(form, f) == [file EXCEPT ![game] = [@ EXCEPT ![form] = f]]

(* Variant: the other form is removed first.                               *)
EmptiedAlone(form) ==
  [file EXCEPT ![game] = [f \in Forms |-> IF f = form THEN [holds |-> Torn, time |-> now']
                                          ELSE None]]

(* Opening the file for writing empties it.                                *)
Emptied(form) == With(form, [holds |-> Torn, time |-> now'])

(* Nothing is written without a type, or if the file cannot be opened.     *)
StartWriting(form) ==
  \/ /\ typed
     /\ now' \in now .. MaxTime
     /\ file' = Emptied(form)
     /\ write' = [form |-> form, step |-> "writing"]
     /\ UNCHANGED missed
  \/ /\ missed' = IF typed THEN "failed" ELSE "untyped"
     /\ UNCHANGED <<now, file, write>>

(* save_backup, save_packed_backup: all of it is written, or too little.   *)
FinishWriting ==
  /\ write # None
  /\ write.step = "writing"
  /\ \/ /\ file' = With(write.form, [holds |-> memory, time |-> file[game][write.form].time])
        /\ write' = [form |-> write.form, step |-> "removing"]
        /\ missed' = "no"
     \/ /\ write' = None
        /\ missed' = "failed"
        /\ UNCHANGED file
  /\ UNCHANGED <<session, memory, typed, backup_update_count, backup_deleted, settings, now,
                 writes>>

RemoveOther ==
  /\ write # None
  /\ write.step = "removing"
  /\ file' = With(Other(write.form), None)
  /\ write' = None
  /\ UNCHANGED <<session, memory, typed, backup_update_count, backup_deleted, settings, now,
                 writes, missed>>

-----------------------------------------------------------------------------
(* A game is started.                                                      *)

(* The newer of its files.                                                 *)
Newer(g) ==
  IF file[g]["packed"] = None \/ /\ file[g]["plain"] # None
                                 /\ file[g]["plain"].time > file[g]["packed"].time
    THEN "plain" ELSE "packed"

Held(g, form) ==
  IF file[g][form] = None \/ file[g][form].holds = Torn THEN Blank ELSE file[g][form].holds

(* nspire_load_cartridge_backup: the newer file; the plain one, too, if    *)
(* the gzipped one is damaged, but not the other way round.                *)
Loads(g) ==
  IF Newer(g) = "packed" /\ file[g]["packed"] # None /\ file[g]["packed"].holds # Torn
    THEN Held(g, "packed") ELSE Held(g, "plain")

(* Variant: a save that does not load leaves the memory as it was.         *)
InMemoryOver(g) == IF Loads(g) = Blank THEN memory ELSE Loads(g)

InMemory(g) == Loads(g)

(* nspire_start_game: the type comes from the save's size, or is known     *)
(* from the ROM, or not yet.                                               *)
Start(g) ==
  /\ game = NoGame
  /\ game' = g
  /\ memory' = InMemory(g)
  /\ typed' \in {TRUE, Loads(g) # Blank}
  /\ backup_update_count' = Idle /\ backup_deleted' = FALSE
  /\ missed' = "no"
  /\ UNCHANGED <<leaving, settings, write, file, now, writes>>

-----------------------------------------------------------------------------
(* The game runs.                                                          *)

(* Variant: a kind of memory whose writes do not mark it.                  *)
GameWritesUnmarked ==
  /\ Playing
  /\ writes < MaxWrites
  /\ writes' = writes + 1
  /\ memory' = [by |-> game, at |-> writes']
  /\ typed' = TRUE
  /\ UNCHANGED <<session, settings, write, file, now, missed, backup_update_count, backup_deleted>>

(* write_backup, write_eeprom                                              *)
GameWrites ==
  /\ Playing
  /\ writes < MaxWrites
  /\ writes' = writes + 1
  /\ memory' = [by |-> game, at |-> writes']
  /\ typed' = TRUE
  /\ backup_update_count' = WRITE_BACKUP_DELAY
  /\ backup_deleted' = FALSE
  /\ UNCHANGED <<session, settings, write, file, now, missed>>

Form == IF nspire_compress_saves THEN "packed" ELSE "plain"

(* update_backup, at the end of a frame                                    *)
Frame ==
  /\ Playing
  /\ update_backup_flag
  /\ backup_update_count # Idle
  /\ IF backup_update_count = 1
       THEN StartWriting(Form) /\ backup_update_count' = Idle
       ELSE /\ backup_update_count' = backup_update_count - 1
            /\ UNCHANGED <<now, file, write, missed>>
  /\ UNCHANGED <<session, memory, typed, backup_deleted, settings, writes>>

(* memory_read_savestate: a state's type of backup comes with it, its      *)
(* memory does not.                                                        *)
LoadState ==
  /\ Playing
  /\ typed' \in BOOLEAN
  /\ UNCHANGED <<session, memory, backup_update_count, backup_deleted, settings, write, file,
                 now, writes, missed>>

-----------------------------------------------------------------------------
(* The menus.                                                              *)

ChangeSettings ==
  /\ write = None /\ leaving = "no"
  /\ nspire_compress_saves' \in BOOLEAN /\ update_backup_flag' \in BOOLEAN
  /\ settings' # settings
  /\ UNCHANGED <<session, memory, typed, backup_update_count, backup_deleted, write, file, now,
                 writes, missed>>

(* nspire_backup_set_compressed                                            *)
SetCompressed(form) ==
  /\ Playing
  /\ \E f \in Forms : file[game][f] # None
  /\ Newer(game) # form
  /\ StartWriting(form)
  /\ UNCHANGED <<session, memory, typed, backup_update_count, backup_deleted, settings, writes>>

(* nspire_backup_delete                                                    *)
Delete ==
  /\ Playing
  /\ \E f \in Forms : file[game][f] # None
  /\ file' = [file EXCEPT ![game] = [f \in Forms |-> None]]
  /\ backup_deleted' = TRUE
  /\ backup_update_count' = Idle
  /\ UNCHANGED <<session, memory, typed, settings, write, now, writes, missed>>

-----------------------------------------------------------------------------
(* The game is left.                                                       *)

(* Variant: a deleted save is written back.                                *)
UpdateForceDeleted == StartWriting(Form) /\ backup_update_count' = Idle

(* Variant: only if saves are written automatically.                       *)
UpdateForceAuto ==
  IF backup_deleted \/ ~update_backup_flag
    THEN UNCHANGED <<now, file, write, missed, backup_update_count>>
    ELSE StartWriting(Form) /\ backup_update_count' = Idle

(* update_backup_force                                                     *)
UpdateForce ==
  IF backup_deleted
    THEN UNCHANGED <<now, file, write, missed, backup_update_count>>
    ELSE StartWriting(Form) /\ backup_update_count' = Idle

(* nspire_leave_game, game_stopped, nspire_quit_game                       *)
Leave ==
  /\ Playing
  /\ leaving' \in {"close", "quit"}
  /\ UpdateForce
  /\ UNCHANGED <<game, memory, typed, backup_deleted, settings, writes>>

(* quit: after nspire_leave_game once more                                 *)
Quit ==
  /\ leaving = "quit" /\ write = None
  /\ leaving' = "exit"
  /\ UpdateForce
  /\ UNCHANGED <<game, memory, typed, backup_deleted, settings, writes>>

(* Another game can be started, or gpSP has ended.                         *)
Left ==
  /\ leaving \in {"close", "exit"} /\ write = None
  /\ game' = NoGame /\ leaving' = "no"
  /\ IF leaving = "exit" THEN memory' = Blank /\ typed' = FALSE
                         ELSE UNCHANGED <<memory, typed>>
  /\ UNCHANGED <<backup_update_count, backup_deleted, settings, write, file, now, writes,
                 missed>>

(* The calculator loses power, or resets, which restarts its clock.        *)
PowerLoss ==
  /\ game # NoGame
  /\ game' = NoGame /\ leaving' = "no" /\ write' = None
  /\ memory' = Blank /\ typed' = FALSE
  /\ now' \in {now, 0}
  /\ UNCHANGED <<backup_update_count, backup_deleted, settings, file, writes, missed>>

Next ==
  \/ FinishWriting \/ RemoveOther
  \/ \E g \in Games : Start(g)
  \/ GameWrites \/ Frame \/ LoadState
  \/ ChangeSettings \/ (\E form \in Forms : SetCompressed(form)) \/ Delete
  \/ Leave \/ Quit \/ Left
  \/ PowerLoss

Spec == Init /\ [][Next]_vars

-----------------------------------------------------------------------------
(* The values each variable can have.                                      *)
TypeOK ==
  /\ game \in Games \cup {NoGame} /\ leaving \in {"no", "close", "quit", "exit"}
  /\ memory \in Contents /\ typed \in BOOLEAN
  /\ backup_update_count \in 1 .. Idle /\ backup_deleted \in BOOLEAN
  /\ nspire_compress_saves \in BOOLEAN /\ update_backup_flag \in BOOLEAN
  /\ write \in Write \cup {None}
  /\ file \in [Games -> Files]
  /\ now \in 0 .. MaxTime /\ writes \in 0 .. MaxWrites /\ missed \in {"no", "untyped", "failed"}

(* A game's files hold nothing that another game wrote: the memory is one  *)
(* array, and the files' names follow gamepak_filename.                    *)
SavesAreTheGames ==
  \A g \in Games, f \in Forms :
    Held(g, f) # Blank => Held(g, f).by = g

(* Once the count has run out, what would be loaded is what is in memory,  *)
(* whatever forms, times and files from before are there.                  *)
NoWriteIsForgotten ==
  Playing /\ backup_update_count = Idle /\ missed = "no" /\ ~backup_deleted
  => Loads(game) = memory

(* A save that the player deleted does not come back until the game saves. *)
DeletedStaysDeleted ==
  game # NoGame /\ backup_deleted => \A f \in Forms : file[game][f] = None

(* A game that is left keeps its in-game save, unless the player deleted   *)
(* it or it could not be written.                                          *)
LeavingSavesTheGame ==
  [][Left => backup_deleted \/ missed # "no" \/ Loads(game) = memory]_vars

(* Packing a plain save never leaves the game without one, wherever the    *)
(* power goes.                                                             *)
PackingKeepsASave ==
  [][\A g \in Games :
       /\ write' # None \/ write # None
       /\ (IF write # None THEN write ELSE write').form = "packed"
       /\ g = game /\ Held(g, "plain") # Blank
       => Loads(g)' # Blank \/ memory = Blank]_vars
=============================================================================

---------------------------- MODULE GameConfig -----------------------------
(***************************************************************************)
(* gpSP's settings and keys: nspire_config.c, and where the program file   *)
(* keeps them, nspire_selfstore.c.                                         *)
(*                                                                         *)
(* The settings and keys in use are variables of the program.  While a     *)
(* game with its own is open, the ones for all games wait in               *)
(* global_values and global_keys; "Settings for" and "Keys for" switch     *)
(* between the two at any time.  The ones for all games are in the program *)
(* file with a copy in the saves folder, a game's own in a file of its     *)
(* own, with the version of the build that wrote it.                       *)
(***************************************************************************)
EXTENDS Integers

CONSTANTS
  Games, NoGame,
  None,          \* no file, or a part that a file does not have
  Scales, Raw,   \* the picture's sizes, and the one older builds showed
  Speeds,        \* the CPU speeds a player chooses from
  Choices,       \* the rest of the key bindings
  OldFiles,      \* game files that other builds left
  MaxChanges     \* bound: changes a player makes

CPU_SPEEDS == 10
GAME_FILE_VERSION == 3
Parts == {"settings", "keys"}

Settings == [scale : Scales, speed : 0 .. CPU_SPEEDS - 1]

(* Key bindings tell apart whether the keys of the slot actions are free,  *)
(* bound to them, or bound to something else.                              *)
Keys == [others : Choices, slots : {"free", "bound", "taken"}]

Values == [settings : Settings, keys : Keys]
GameFile == [version : 1 .. GAME_FILE_VERSION,
             settings : Settings \cup {None}, keys : Keys \cup {None}]

ASSUME GamesAssumption == NoGame \notin Games
ASSUME NoneAssumption == None \notin Settings \cup Keys \cup Values \cup GameFile \cup Games
ASSUME ChoicesAssumption ==
  Raw \in Scales /\ Speeds \subseteq 0 .. CPU_SPEEDS - 1 /\ Choices # {}
ASSUME OldFilesAssumption == OldFiles \subseteq GameFile \cup {None}
ASSUME BoundAssumption == MaxChanges \in Nat

VARIABLES
  running,        \* "off", "starting" or "on"
  saving,         \* how far nspire_config_save is: "no", "copying", "copied", "written"
  open,           \* game_open, game_file
  live,           \* the settings and keys in use
  globals,        \* global_values, global_keys
  own,            \* the parts with own_settings, own_keys
  crashedRom,     \* nspire_clock_crashed_rom
  program, copy,  \* the values for all games in the two files
  gameFile,       \* each game's "<ROM name>.settings.tns"
  changes         \* for MaxChanges

memory == <<open, live, globals, own, crashedRom>>
disk == <<program, copy, gameFile>>
vars == <<running, saving, memory, disk, changes>>

Ready == running = "on" /\ saving = "no"

Defaults == [settings |-> [scale |-> Raw, speed |-> 0],
             keys |-> [others |-> CHOOSE c \in Choices : TRUE, slots |-> "bound"]]

(* read_settings: the program file's, else the copy's.                     *)
Loaded == IF program # None THEN program ELSE IF copy # None THEN copy ELSE Defaults

(* cpu_speed_from_qol1                                                     *)
SpeedFromQol1(old) == CASE old % 4 = 0 -> 0 [] old % 4 = 1 -> 3
                        [] old % 4 = 2 -> 5 [] old % 4 = 3 -> 7

(* keys_add_default_if_free, for both slot actions                         *)
WithSlotKeys(keys) == [keys EXCEPT !.slots = IF @ = "free" THEN "bound" ELSE @]

(* What a game's file says of its settings or keys, for this build.        *)
InFile(file, part) ==
  IF file = None \/ file[part] = None THEN None
  ELSE IF file.version = GAME_FILE_VERSION THEN file[part]
  ELSE IF part = "keys" THEN WithSlotKeys(file.keys)
  ELSE [scale |-> Raw, speed |-> SpeedFromQol1(file.settings.speed)]

OwnInFile(g) == {p \in Parts : InFile(gameFile[g], p) # None}

Slowed(values) ==
  [settings |-> [values.settings EXCEPT !.speed = 0], keys |-> values.keys]

(* What belongs to all games: what is in use, but for the open game's own. *)
Shared == [p \in Parts |-> IF p \in own THEN globals[p] ELSE live[p]]

Init ==
  /\ running = "off" /\ saving = "no"
  /\ open = NoGame /\ own = {} /\ crashedRom = NoGame
  /\ live = Defaults /\ globals = Defaults
  /\ program \in {None, Defaults} /\ copy \in {None, Defaults}
  /\ gameFile \in [Games -> OldFiles]
  /\ changes = 0

-----------------------------------------------------------------------------
(* Starting gpSP.                                                          *)

(* nspire_config_load; settings found elsewhere are put into the program   *)
(* file right away.                                                        *)
Start ==
  /\ running = "off"
  /\ running' = "starting"
  /\ live' = Loaded
  /\ saving' = IF program = None /\ copy # None THEN "copying" ELSE "no"
  /\ copy' = IF saving' = "copying" THEN None ELSE copy
  /\ UNCHANGED <<open, globals, own, crashedRom, program, gameFile, changes>>

(* nspire_clock_check_crash, once that is done: if a marker names a game,  *)
(* the speed is back to normal.                                            *)
CheckCrash(g) ==
  /\ running = "starting" /\ saving = "no"
  /\ running' = "on"
  /\ crashedRom' = g
  /\ live' = IF g # NoGame THEN Slowed(live) ELSE live
  /\ UNCHANGED <<saving, open, globals, own, disk, changes>>

-----------------------------------------------------------------------------
(* Games.                                                                  *)

(* write_game_file, of the game that is open: a game with nothing of its   *)
(* own has no file.                                                        *)
GameFileNow(values, parts) ==
  IF parts = {} THEN None
  ELSE [version |-> GAME_FILE_VERSION,
        settings |-> IF "settings" \in parts THEN values.settings ELSE None,
        keys |-> IF "keys" \in parts THEN values.keys ELSE None]

WriteGameFile(g, values, parts) ==
  gameFile' \in {gameFile, [gameFile EXCEPT ![g] = GameFileNow(values, parts)]}

(* Variant: only the settings are put in use.                              *)
InUseSettings(g) ==
  [live EXCEPT !.settings = IF "settings" \in OwnInFile(g) THEN InFile(gameFile[g], "settings")
                            ELSE @]

(* nspire_config_open_game: the game's own values come in use.             *)
InUse(g) ==
  [p \in Parts |-> IF p \in OwnInFile(g) THEN InFile(gameFile[g], p) ELSE live[p]]

(* Variant: that the speed for all games is back to normal is enough.      *)
OpenGameUnslowed(g) ==
  /\ Ready
  /\ open = NoGame
  /\ open' = g
  /\ globals' = live
  /\ own' = OwnInFile(g)
  /\ live' = InUse(g)
  /\ crashedRom' = IF crashedRom = g THEN NoGame ELSE crashedRom
  /\ UNCHANGED <<running, saving, disk, changes>>

OpenGame(g) ==
  /\ Ready
  /\ open = NoGame
  /\ open' = g
  /\ globals' = live
  /\ own' = OwnInFile(g)
  /\ IF crashedRom = g
       THEN /\ live' = Slowed(InUse(g))
            /\ crashedRom' = NoGame
            /\ WriteGameFile(g, live', own')
       ELSE /\ live' = InUse(g)
            /\ UNCHANGED <<crashedRom, gameFile>>
  /\ UNCHANGED <<running, saving, program, copy, changes>>

(* nspire_config_close_game: leaving a game, or one that did not load.     *)
CloseGame ==
  /\ Ready
  /\ open # NoGame
  /\ WriteGameFile(open, live, own)
  /\ live' = Shared
  /\ globals' = Shared
  /\ open' = NoGame
  /\ own' = {}
  /\ UNCHANGED <<running, saving, crashedRom, program, copy, changes>>

-----------------------------------------------------------------------------
(* Menus and hotkeys.                                                      *)

ChangeSettings ==
  /\ Ready
  /\ changes < MaxChanges
  /\ changes' = changes + 1
  /\ \/ \E scale \in Scales, speed \in Speeds :
          live' = [live EXCEPT !.settings = [scale |-> scale, speed |-> speed]]
     \/ \E keys \in Keys : live' = [live EXCEPT !.keys = keys]
  /\ live' # live
  /\ UNCHANGED <<running, saving, open, globals, own, crashedRom, disk>>

(* Variant: a part that becomes the game's own leaves what all games had   *)
(* when the game opened.                                                   *)
SettingsForThisGameStale(part) ==
  /\ Ready
  /\ open # NoGame
  /\ part \notin own
  /\ own' = own \cup {part}
  /\ UNCHANGED <<running, saving, open, globals, live, crashedRom, disk, changes>>

(* nspire_config_settings_for_changed, nspire_config_keys_for_changed: to  *)
(* this game, from the values in use ...                                   *)
SettingsForThisGame(part) ==
  /\ Ready
  /\ open # NoGame
  /\ part \notin own
  /\ globals' = [globals EXCEPT ![part] = live[part]]
  /\ own' = own \cup {part}
  /\ UNCHANGED <<running, saving, open, live, crashedRom, disk, changes>>

(* ... and back to all games.                                              *)
SettingsForAllGames(part) ==
  /\ Ready
  /\ part \in own
  /\ own' = own \ {part}
  /\ live' = [live EXCEPT ![part] = globals[part]]
  /\ UNCHANGED <<running, saving, open, globals, crashedRom, disk, changes>>

-----------------------------------------------------------------------------
(* nspire_config_save: the copy, the program file, the open game's file.   *)

(* Opening the copy for writing empties it, if it can be opened.           *)
StartSave ==
  /\ Ready
  /\ saving' = "copying"
  /\ globals' = Shared
  /\ copy' \in {copy, None}
  /\ UNCHANGED <<running, open, live, own, crashedRom, program, gameFile, changes>>

WriteCopy ==
  /\ saving = "copying"
  /\ saving' = "copied"
  /\ copy' \in {copy, Shared}
  /\ UNCHANGED <<running, memory, program, gameFile, changes>>

(* selfstore_write                                                         *)
WriteProgram ==
  /\ saving = "copied"
  /\ saving' = IF open = NoGame THEN "no" ELSE "written"
  /\ program' \in {program, Shared}
  /\ UNCHANGED <<running, memory, copy, gameFile, changes>>

WriteOwn ==
  /\ saving = "written"
  /\ saving' = "no"
  /\ WriteGameFile(open, live, own)
  /\ UNCHANGED <<running, memory, program, copy, changes>>

-----------------------------------------------------------------------------
(* The calculator: gpSP ends, at any point of a save, and a new _gpSP.tns  *)
(* is put over the old one.                                                *)

Stop ==
  /\ running # "off"
  /\ running' = "off" /\ saving' = "no"
  /\ open' = NoGame /\ own' = {} /\ crashedRom' = NoGame
  /\ live' = Defaults /\ globals' = Defaults
  /\ UNCHANGED <<disk, changes>>

NewProgram ==
  /\ running = "off"
  /\ program # None
  /\ program' = None
  /\ UNCHANGED <<running, saving, memory, copy, gameFile, changes>>

Next ==
  \/ Start
  \/ \E g \in Games \cup {NoGame} : CheckCrash(g)
  \/ \E g \in Games : OpenGame(g)
  \/ CloseGame
  \/ ChangeSettings
  \/ \E p \in Parts : SettingsForThisGame(p) \/ SettingsForAllGames(p)
  \/ StartSave \/ WriteCopy \/ WriteProgram \/ WriteOwn
  \/ Stop \/ NewProgram

Spec == Init /\ [][Next]_vars

-----------------------------------------------------------------------------
(* The values each variable can have.                                      *)
TypeOK ==
  /\ running \in {"off", "starting", "on"} /\ saving \in {"no", "copying", "copied", "written"}
  /\ open \in Games \cup {NoGame} /\ crashedRom \in Games \cup {NoGame}
  /\ live \in Values /\ globals \in Values
  /\ own \in SUBSET Parts
  /\ program \in Values \cup {None} /\ copy \in Values \cup {None}
  /\ gameFile \in [Games -> GameFile \cup {None}]
  /\ changes \in 0 .. MaxChanges

(* The game that froze the calculator does not come back at a raised       *)
(* speed, whether the speed is its own or all games'.                      *)
FrozenGameIsSlowed ==
  [][\A g \in Games : crashedRom = g /\ open' = g => live'.settings.speed = 0]_vars

(* What the module keeps of each part, as SettingsStore sees it.           *)
OwnOf(part) ==
  [g \in Games |-> IF g = open THEN IF part \in own THEN live[part] ELSE None
                   ELSE InFile(gameFile[g], part)]

SharedNow(part) == IF running = "off" THEN Loaded[part] ELSE Shared[part]

SavedOwn(part) == [g \in Games |-> InFile(gameFile[g], part)]

SettingsStored ==
  INSTANCE SettingsStore WITH
    Values <- Settings, shared <- SharedNow("settings"), own <- OwnOf("settings"),
    current <- open, savedShared <- Loaded.settings, savedOwn <- SavedOwn("settings"),
    inProgram <- program # None,
    SlowedTo <- [v \in Settings |-> [v EXCEPT !.speed = 0]]

KeysStored ==
  INSTANCE SettingsStore WITH
    Values <- Keys, shared <- SharedNow("keys"), own <- OwnOf("keys"),
    current <- open, savedShared <- Loaded.keys, savedOwn <- SavedOwn("keys"),
    inProgram <- program # None, SlowedTo <- [v \in Keys |-> v]

(* A change goes to the settings in use and to no others, in memory and on *)
(* disk: a game's own never become another game's or all games', and back. *)
SettingsAreKept == SettingsStored!Spec

(* The same of the keys.                                                   *)
KeysAreKept == KeysStored!Spec
=============================================================================

----------------------- MODULE SettingsAndClockProofs -----------------------
(***************************************************************************)
(* Proofs about the settings and keys, for any games, any old files and    *)
(* any number of changes; and about the clock and its marker, which add to *)
(* them: every step of the clock's specification is one of the settings',  *)
(* or leaves them alone.                                                   *)
(***************************************************************************)
EXTENDS ClockMarker, TLAPS

(* What is a game's own belongs to an open game, and nothing is open while *)
(* gpSP is off or starting.  The game that froze is not open.              *)
OwnIsOpen ==
  /\ own # {} => open # NoGame
  /\ open # NoGame => running = "on"
  /\ saving = "written" => open # NoGame
  /\ saving # "no" => running # "off"
  /\ open # NoGame => crashedRom # open

IInv == TypeOK /\ OwnIsOpen

LEMMA DefaultsInValues == Defaults \in Values
<1>1. (CHOOSE c \in Choices : TRUE) \in Choices
  BY ChoicesAssumption
<1>2. QED
  BY <1>1, ChoicesAssumption DEF Defaults, Values, Settings, Keys, CPU_SPEEDS

LEMMA LoadedInValues == TypeOK => Loaded \in Values
BY DefaultsInValues DEF TypeOK, Loaded

LEMMA SpeedsConvert ==
  ASSUME NEW s \in 0 .. CPU_SPEEDS - 1
  PROVE  SpeedFromQol1(s) \in 0 .. CPU_SPEEDS - 1
<1>1. s % 4 \in 0 .. 3
  BY DEF CPU_SPEEDS
<1>2. QED
  BY <1>1 DEF SpeedFromQol1, CPU_SPEEDS

LEMMA SlotKeysInKeys ==
  ASSUME NEW keys \in Keys
  PROVE  WithSlotKeys(keys) \in Keys
BY DEF WithSlotKeys, Keys

(* What is read from a game's file has the type of its part.               *)
LEMMA InFileType ==
  ASSUME NEW file \in GameFile \cup {None}
  PROVE  /\ InFile(file, "settings") \in Settings \cup {None}
         /\ InFile(file, "keys") \in Keys \cup {None}
<1>1. CASE file = None
  BY <1>1 DEF InFile
<1>2. CASE file \in GameFile /\ file # None
  <2>1. file.settings \in Settings \cup {None} /\ file.keys \in Keys \cup {None}
    BY <1>2 DEF GameFile
  <2>2. InFile(file, "keys") \in Keys \cup {None}
    <3>1. CASE file.keys = None
      BY <3>1 DEF InFile
    <3>2. CASE file.keys # None
      BY <2>1, <3>2, SlotKeysInKeys DEF InFile
    <3>3. QED
      BY <3>1, <3>2
  <2>3. InFile(file, "settings") \in Settings \cup {None}
    <3>1. CASE file.settings = None
      BY <3>1 DEF InFile
    <3>2. CASE file.settings # None
      <4>1. file.settings \in Settings
        BY <2>1, <3>2
      <4>2. [scale |-> Raw, speed |-> SpeedFromQol1(file.settings.speed)] \in Settings
        BY <4>1, SpeedsConvert, ChoicesAssumption DEF Settings
      <4>3. QED
        BY <1>2, <3>2, <4>1, <4>2 DEF InFile
    <3>3. QED
      BY <3>1, <3>2
  <2>4. QED
    BY <2>2, <2>3
<1>3. QED
  BY <1>1, <1>2

LEMMA SharedInValues == TypeOK => Shared \in Values
<1> SUFFICES ASSUME TypeOK PROVE Shared \in Values
  OBVIOUS
<1>1. /\ live.settings \in Settings /\ globals.settings \in Settings
      /\ live.keys \in Keys /\ globals.keys \in Keys
  BY DEF TypeOK, Values
<1>2. Shared.settings \in Settings /\ Shared.keys \in Keys
  BY <1>1 DEF Shared, Parts
<1>3. Shared = [settings |-> Shared.settings, keys |-> Shared.keys]
  BY DEF Shared, Parts
<1>4. QED
  BY <1>2, <1>3 DEF Values

LEMMA InUseInValues ==
  ASSUME TypeOK, NEW g \in Games
  PROVE  InUse(g) \in Values
<1>1. live.settings \in Settings /\ live.keys \in Keys
  BY DEF TypeOK, Values
<1>2. gameFile[g] \in GameFile \cup {None}
  BY DEF TypeOK
<1>3. InUse(g).settings \in Settings /\ InUse(g).keys \in Keys
  BY <1>1, <1>2, InFileType DEF InUse, OwnInFile, Parts
<1>4. InUse(g) = [settings |-> InUse(g).settings, keys |-> InUse(g).keys]
  BY DEF InUse, Parts
<1>5. QED
  BY <1>3, <1>4 DEF Values

LEMMA SlowedInValues ==
  ASSUME NEW v \in Values
  PROVE  Slowed(v) \in Values /\ Slowed(v).settings.speed = 0 /\ Slowed(v).keys = v.keys
<1>1. v.settings \in Settings /\ v.keys \in Keys
  BY DEF Values
<1>2. [v.settings EXCEPT !.speed = 0] \in Settings
      /\ [v.settings EXCEPT !.speed = 0].speed = 0
  BY <1>1 DEF Settings, CPU_SPEEDS
<1>3. QED
  BY <1>1, <1>2 DEF Slowed, Values

LEMMA GameFileNowType ==
  ASSUME NEW v \in Values, NEW parts \in SUBSET Parts
  PROVE  GameFileNow(v, parts) \in GameFile \cup {None}
BY DEF GameFileNow, GameFile, GAME_FILE_VERSION, Values

LEMMA WriteGameFileType ==
  ASSUME TypeOK, NEW g \in Games, NEW v \in Values, NEW parts \in SUBSET Parts,
         WriteGameFile(g, v, parts)
  PROVE  gameFile' \in [Games -> GameFile \cup {None}]
BY GameFileNowType DEF TypeOK, WriteGameFile

-----------------------------------------------------------------------------
LEMMA InitInv == Init => IInv
<1> SUFFICES ASSUME Init PROVE IInv
  OBVIOUS
<1>1. gameFile \in [Games -> GameFile \cup {None}]
  BY OldFilesAssumption DEF Init
<1>2. QED
  BY <1>1, DefaultsInValues, BoundAssumption DEF Init, IInv, TypeOK, OwnIsOpen

LEMMA InvStep == IInv /\ [Next]_vars => IInv'
<1> SUFFICES ASSUME IInv, [Next]_vars PROVE IInv'
  OBVIOUS
<1> USE DEF IInv
<1>1. CASE Start
  BY <1>1, LoadedInValues DEF TypeOK, OwnIsOpen, Start
<1>2. ASSUME NEW g \in Games \cup {NoGame}, CheckCrash(g) PROVE IInv'
  BY <1>2, SlowedInValues DEF TypeOK, OwnIsOpen, CheckCrash, disk
<1>3. ASSUME NEW g \in Games, OpenGame(g) PROVE IInv'
  <2>1. live' \in Values
    BY <1>3, InUseInValues, SlowedInValues DEF OpenGame
  <2>2. own' \in SUBSET Parts
    BY <1>3 DEF OpenGame, OwnInFile
  <2>3. gameFile' \in [Games -> GameFile \cup {None}]
    <3>1. CASE crashedRom = g
      BY <1>3, <2>1, <2>2, <3>1, WriteGameFileType DEF OpenGame
    <3>2. CASE crashedRom # g
      BY <1>3, <3>2 DEF OpenGame, TypeOK
    <3>3. QED
      BY <3>1, <3>2
  <2>4. crashedRom' \in Games \cup {NoGame} /\ globals' = live /\ open' = g
    BY <1>3 DEF OpenGame, TypeOK
  <2>5. QED
    BY <1>3, <2>1, <2>2, <2>3, <2>4, GamesAssumption DEF OpenGame, Ready, TypeOK, OwnIsOpen
<1>4. CASE CloseGame
  <2>1. gameFile' \in [Games -> GameFile \cup {None}]
    BY <1>4, WriteGameFileType DEF CloseGame, TypeOK
  <2>2. QED
    BY <1>4, <2>1, SharedInValues DEF CloseGame, Ready, TypeOK, OwnIsOpen
<1>5. CASE ChangeSettings
  <2>1. live' \in Values
    <3>1. CASE \E scale \in Scales, speed \in Speeds :
                 live' = [live EXCEPT !.settings = [scale |-> scale, speed |-> speed]]
      BY <3>1, ChoicesAssumption DEF TypeOK, Values, Settings
    <3>2. CASE \E keys \in Keys : live' = [live EXCEPT !.keys = keys]
      BY <3>2 DEF TypeOK, Values
    <3>3. QED
      BY <1>5, <3>1, <3>2 DEF ChangeSettings
  <2>2. changes' \in 0 .. MaxChanges
    BY <1>5, BoundAssumption DEF ChangeSettings, TypeOK
  <2>3. QED
    BY <1>5, <2>1, <2>2 DEF ChangeSettings, TypeOK, OwnIsOpen, disk
<1>6. ASSUME NEW p \in Parts, SettingsForThisGame(p) PROVE IInv'
  <2>1. globals' \in Values
    BY <1>6 DEF SettingsForThisGame, TypeOK, Values, Parts
  <2>2. QED
    BY <1>6, <2>1 DEF SettingsForThisGame, TypeOK, OwnIsOpen, disk
<1>7. ASSUME NEW p \in Parts, SettingsForAllGames(p) PROVE IInv'
  <2>1. live' \in Values
    BY <1>7 DEF SettingsForAllGames, TypeOK, Values, Parts
  <2>2. QED
    BY <1>7, <2>1 DEF SettingsForAllGames, Ready, TypeOK, OwnIsOpen, disk
<1>8. CASE StartSave
  BY <1>8, SharedInValues DEF StartSave, Ready, TypeOK, OwnIsOpen
<1>9. CASE WriteCopy
  BY <1>9, SharedInValues DEF WriteCopy, TypeOK, OwnIsOpen, memory
<1>10. CASE WriteProgram
  BY <1>10, SharedInValues DEF WriteProgram, TypeOK, OwnIsOpen, memory
<1>11. CASE WriteOwn
  <2>1. gameFile' \in [Games -> GameFile \cup {None}]
    BY <1>11, WriteGameFileType DEF WriteOwn, TypeOK, OwnIsOpen
  <2>2. QED
    BY <1>11, <2>1 DEF WriteOwn, TypeOK, OwnIsOpen, memory
<1>12. CASE Stop
  BY <1>12, DefaultsInValues DEF Stop, TypeOK, OwnIsOpen, disk
<1>13. CASE NewProgram
  BY <1>13 DEF NewProgram, TypeOK, OwnIsOpen, memory
<1>14. CASE UNCHANGED vars
  BY <1>14 DEF vars, memory, disk, TypeOK, OwnIsOpen
<1>15. QED
  BY <1>1, <1>2, <1>3, <1>4, <1>5, <1>6, <1>7, <1>8, <1>9, <1>10, <1>11, <1>12, <1>13,
     <1>14 DEF Next

LEMMA Invariance == Spec => []IInv
BY InitInv, InvStep, PTL DEF Spec

(* Every variable has its type.                                            *)
THEOREM TypeCorrect == Spec => []TypeOK
<1>1. IInv => TypeOK
  BY DEF IInv
<1>2. QED
  BY <1>1, Invariance, PTL

(* A game that froze the calculator opens at the normal speed, whatever    *)
(* its own settings say.                                                   *)
THEOREM FrozenSlowed == Spec => FrozenGameIsSlowed
<1> DEFINE Step == \A g \in Games : crashedRom = g /\ open' = g => live'.settings.speed = 0
<1>1. IInv /\ [Next]_vars => [Step]_vars
  <2> SUFFICES ASSUME IInv, Next, NEW g \in Games, crashedRom = g, open' = g
               PROVE  live'.settings.speed = 0
    OBVIOUS
  <2>1. open = NoGame /\ open' # open
    BY GamesAssumption
       DEF Next, IInv, OwnIsOpen, Start, CheckCrash, OpenGame, CloseGame, ChangeSettings,
           SettingsForThisGame, SettingsForAllGames, StartSave, WriteCopy, WriteProgram,
           WriteOwn, Stop, NewProgram, memory
  <2>2. OpenGame(g)
    BY <2>1
       DEF Next, Start, CheckCrash, OpenGame, CloseGame, ChangeSettings,
           SettingsForThisGame, SettingsForAllGames, StartSave, WriteCopy, WriteProgram,
           WriteOwn, Stop, NewProgram, memory
  <2>3. live' = Slowed(InUse(g))
    BY <2>2 DEF OpenGame
  <2>4. QED
    BY <2>3, InUseInValues, SlowedInValues DEF IInv
<1>2. QED
  BY <1>1, Invariance, PTL DEF Spec, FrozenGameIsSlowed

-----------------------------------------------------------------------------
(* The settings and the keys are each a SettingsStore.  The proof is the   *)
(* same for both: it is about any part of the values.                      *)

ValuesOf(part) == IF part = "settings" THEN Settings ELSE Keys

BackToNormal(part) ==
  [v \in ValuesOf(part) |-> IF part = "settings" THEN [v EXCEPT !.speed = 0] ELSE v]

Stored(part) ==
  INSTANCE SettingsStore WITH
    Values <- ValuesOf(part), shared <- SharedNow(part), own <- OwnOf(part),
    current <- open, savedShared <- Loaded[part], savedOwn <- SavedOwn(part),
    inProgram <- program # None, SlowedTo <- BackToNormal(part)

StoreStep(part) == Stored(part)!Next \/ UNCHANGED Stored(part)!store

LEMMA PartType ==
  ASSUME NEW part \in Parts, NEW v \in Values
  PROVE  v[part] \in ValuesOf(part) /\ v[part] # None
BY NoneAssumption DEF Parts, Values, ValuesOf

LEMMA SlowedPart ==
  ASSUME NEW part \in Parts, NEW v \in Values
  PROVE  Slowed(v)[part] = BackToNormal(part)[v[part]]
<1>1. v[part] \in ValuesOf(part)
  BY PartType
<1>2. CASE part = "settings"
  BY <1>1, <1>2 DEF Slowed, BackToNormal, ValuesOf
<1>3. CASE part = "keys"
  BY <1>1, <1>3 DEF Slowed, BackToNormal, ValuesOf
<1>4. QED
  BY <1>2, <1>3 DEF Parts

LEMMA FilePartType ==
  ASSUME NEW part \in Parts, NEW f \in GameFile \cup {None}
  PROVE  InFile(f, part) \in ValuesOf(part) \cup {None}
BY InFileType DEF Parts, ValuesOf

(* What is written to a game's file is what is read back.                  *)
LEMMA FileNow ==
  ASSUME NEW part \in Parts, NEW v \in Values, NEW parts \in SUBSET Parts
  PROVE  InFile(GameFileNow(v, parts), part) = IF part \in parts THEN v[part] ELSE None
<1>1. CASE parts = {}
  BY <1>1 DEF InFile, GameFileNow
<1>2. CASE parts # {}
  <2> DEFINE f == GameFileNow(v, parts)
  <2>1. f = [version |-> GAME_FILE_VERSION,
             settings |-> IF "settings" \in parts THEN v.settings ELSE None,
             keys |-> IF "keys" \in parts THEN v.keys ELSE None]
    BY <1>2 DEF GameFileNow
  <2>2. f \in GameFile \cup {None}
    BY GameFileNowType
  <2>3. f \in GameFile
    BY <2>1 DEF GameFile, Values, GAME_FILE_VERSION
  <2>4. f # None
    BY <2>3, NoneAssumption
  <2>5. f.version = GAME_FILE_VERSION /\ f[part] = IF part \in parts THEN v[part] ELSE None
    BY <2>1 DEF Parts
  <2> HIDE DEF f
  <2>6. InFile(f, part) = f[part]
    BY <2>4, <2>5 DEF InFile
  <2>7. QED
    BY <2>5, <2>6 DEF f
<1>3. QED
  BY <1>1, <1>2

(* What a store has of the variables.                                      *)
LEMMA StoreNow ==
  ASSUME NEW part \in Parts, IInv
  PROVE  /\ SharedNow(part) \in ValuesOf(part) /\ Loaded[part] \in ValuesOf(part)
         /\ OwnOf(part) \in [Games -> ValuesOf(part) \cup {None}]
         /\ SavedOwn(part) \in [Games -> ValuesOf(part) \cup {None}]
         /\ Stored(part)!HasOwn <=> part \in own
         /\ open # NoGame => open \in Games
         /\ running # "off" => SharedNow(part) = IF part \in own THEN globals[part] ELSE live[part]
         /\ running = "off" => SharedNow(part) = Loaded[part]
<1>1. Shared \in Values /\ Loaded \in Values /\ live \in Values /\ globals \in Values
  BY SharedInValues, LoadedInValues DEF IInv, TypeOK
<1>2. \A g \in Games : InFile(gameFile[g], part) \in ValuesOf(part) \cup {None}
  BY FilePartType DEF IInv, TypeOK
<1>3. live[part] \in ValuesOf(part) /\ live[part] # None
  BY <1>1, PartType
<1>4. Shared[part] = IF part \in own THEN globals[part] ELSE live[part]
  BY DEF Shared
<1>5. Stored(part)!HasOwn <=> part \in own
  BY <1>3, GamesAssumption DEF Stored!HasOwn, OwnOf, IInv, TypeOK, OwnIsOpen
<1>6. SharedNow(part) \in ValuesOf(part) /\ Loaded[part] \in ValuesOf(part)
  BY <1>1, PartType DEF SharedNow
<1>7. QED
  BY <1>2, <1>3, <1>4, <1>5, <1>6 DEF OwnOf, SavedOwn, SharedNow, IInv, TypeOK

LEMMA StoreInit ==
  ASSUME NEW part \in Parts, Init
  PROVE  Stored(part)!Init
<1>1. IInv
  BY InitInv
<1>2. running = "off" /\ open = NoGame /\ open \notin Games
  BY GamesAssumption DEF Init
<1>3. OwnOf(part) = SavedOwn(part)
  BY <1>2 DEF OwnOf, SavedOwn
<1>4. QED
  BY <1>1, <1>2, <1>3, StoreNow, Zenon DEF Stored!Init

(* Steps that move values between memory and the program's files.          *)
LEMMA StoreSaves ==
  ASSUME NEW part \in Parts, IInv, IInv',
         Start \/ StartSave \/ WriteCopy \/ WriteProgram \/ NewProgram \/ Stop
  PROVE  StoreStep(part)
<1>1. /\ SharedNow(part) \in ValuesOf(part) /\ Loaded[part] \in ValuesOf(part)
      /\ running = "off" => SharedNow(part) = Loaded[part]
      /\ running # "off" => SharedNow(part) = Shared[part]
  BY StoreNow DEF SharedNow
<1>2. /\ Loaded'[part] \in ValuesOf(part)
      /\ running' = "off" => SharedNow(part)' = Loaded'[part]
      /\ running' # "off" => SharedNow(part)' = Shared'[part]
  <2>1. Loaded' \in Values
    BY DefaultsInValues DEF Loaded, IInv, TypeOK
  <2>2. QED
    BY <2>1, PartType DEF SharedNow
<1>3. Shared \in Values /\ Shared # None
  BY SharedInValues, NoneAssumption DEF IInv
<1>4. SavedOwn(part)' = SavedOwn(part)
  BY DEF Start, StartSave, WriteCopy, WriteProgram, NewProgram, Stop, disk, SavedOwn
<1>5. CASE Start
  <2>1. open = NoGame /\ own = {} /\ open' = open /\ own' = own /\ gameFile' = gameFile
    BY <1>5 DEF Start, IInv, OwnIsOpen
  <2>2. OwnOf(part)' = OwnOf(part)
    BY <2>1, GamesAssumption DEF OwnOf
  <2>3. SharedNow(part)' = SharedNow(part)
    BY <1>1, <1>2, <1>5, <2>1 DEF Start, Shared
  <2>4. UNCHANGED <<Loaded, program>> \/ (program = None /\ UNCHANGED program)
    BY <1>5 DEF Start, Loaded
  <2>5. CASE UNCHANGED <<Loaded, program>>
    BY <1>4, <2>1, <2>2, <2>3, <2>5, Zenon DEF StoreStep, Stored!store
  <2>6. CASE program = None /\ UNCHANGED program
    <3>1. Stored(part)!LoseShared
      BY <1>2, <1>4, <2>1, <2>2, <2>3, <2>6, Zenon DEF Stored!LoseShared
    <3>2. QED
      BY <3>1 DEF StoreStep, Stored!Next
  <2>7. QED
    BY <2>4, <2>5, <2>6
<1>6. CASE StartSave
  <2>1. UNCHANGED <<open, live, own, gameFile, program, running>> /\ globals' = Shared
        /\ running # "off"
    BY <1>6 DEF StartSave, Ready
  <2>2. OwnOf(part)' = OwnOf(part)
    BY <2>1 DEF OwnOf
  <2>3. SharedNow(part)' = SharedNow(part)
    BY <1>1, <1>2, <2>1 DEF Shared
  <2>4. UNCHANGED Loaded \/ program = None
    BY <1>6, <2>1 DEF StartSave, Loaded
  <2>5. CASE UNCHANGED Loaded
    BY <1>4, <2>1, <2>2, <2>3, <2>5, Zenon DEF StoreStep, Stored!store
  <2>6. CASE program = None
    <3>1. Stored(part)!LoseShared
      BY <1>2, <1>4, <2>1, <2>2, <2>3, <2>6, Zenon DEF Stored!LoseShared
    <3>2. QED
      BY <3>1 DEF StoreStep, Stored!Next
  <2>7. QED
    BY <2>4, <2>5, <2>6
<1>7. CASE WriteCopy \/ WriteProgram
  <2>1. UNCHANGED <<open, live, globals, own, gameFile, running>> /\ running # "off"
    BY <1>7 DEF WriteCopy, WriteProgram, memory, IInv, OwnIsOpen
  <2>2. OwnOf(part)' = OwnOf(part)
    BY <2>1 DEF OwnOf
  <2>3. SharedNow(part)' = SharedNow(part)
    BY <1>1, <1>2, <2>1 DEF Shared
  <2>4. UNCHANGED <<Loaded, program>> \/ Loaded' = Shared
    BY <1>3, <1>7 DEF WriteCopy, WriteProgram, Loaded
  <2>5. (program' # None) \in {program # None, TRUE}
    BY <1>3, <1>7 DEF WriteCopy, WriteProgram
  <2>6. CASE UNCHANGED <<Loaded, program>>
    BY <1>4, <2>1, <2>2, <2>3, <2>6, Zenon DEF StoreStep, Stored!store
  <2>7. CASE Loaded' = Shared
    <3>1. Loaded'[part] = SharedNow(part)
      BY <1>1, <2>1, <2>7
    <3>2. Stored(part)!SaveShared
      BY <1>4, <2>1, <2>2, <2>3, <2>5, <3>1, Zenon DEF Stored!SaveShared
    <3>3. QED
      BY <3>2 DEF StoreStep, Stored!Next
  <2>8. QED
    BY <2>4, <2>6, <2>7
<1>8. CASE NewProgram
  <2>1. UNCHANGED <<open, live, own, gameFile, running>> /\ running = "off" /\ program' = None
    BY <1>8 DEF NewProgram, memory
  <2>2. OwnOf(part)' = OwnOf(part)
    BY <2>1 DEF OwnOf
  <2>3. SharedNow(part)' = Loaded'[part]
    BY <1>2, <2>1
  <2>4. (program' # None) = FALSE
    BY <2>1
  <2>5. Stored(part)!NewProgram
    BY <1>2, <1>4, <2>1, <2>2, <2>3, <2>4, Zenon DEF Stored!NewProgram
  <2>6. QED
    BY <2>5 DEF StoreStep, Stored!Next
<1>9. CASE Stop
  <2>1. UNCHANGED <<program, copy, gameFile>> /\ running' = "off" /\ open' = NoGame
    BY <1>9 DEF Stop, disk
  <2>2. Loaded' = Loaded
    BY <2>1 DEF Loaded
  <2>3. OwnOf(part)' = SavedOwn(part)
    BY <2>1, GamesAssumption DEF OwnOf, SavedOwn
  <2>4. Stored(part)!Restart
    BY <1>2, <1>4, <2>1, <2>2, <2>3, Zenon DEF Stored!Restart
  <2>5. QED
    BY <2>4 DEF StoreStep, Stored!Next
<1>10. QED
  BY <1>5, <1>6, <1>7, <1>8, <1>9

(* Steps that change the values in use.                                    *)
LEMMA StoreChanges ==
  ASSUME NEW part \in Parts, IInv, IInv',
         \/ \E g \in Games \cup {NoGame} : CheckCrash(g)
         \/ ChangeSettings
  PROVE  StoreStep(part)
<1>1. /\ UNCHANGED <<open, globals, own, program, copy, gameFile>>
      /\ running # "off" /\ running' # "off"
      /\ part \in own => running = "on"
  BY DEF CheckCrash, ChangeSettings, Ready, disk, IInv, OwnIsOpen
<1>2. Loaded' = Loaded /\ SavedOwn(part)' = SavedOwn(part)
  BY <1>1 DEF Loaded, SavedOwn
<1>3. SharedNow(part) = IF part \in own THEN globals[part] ELSE live[part]
  BY <1>1 DEF SharedNow, Shared
<1>4. SharedNow(part)' = IF part \in own THEN globals[part] ELSE live'[part]
  BY <1>1 DEF SharedNow, Shared
<1>5. live'[part] \in ValuesOf(part)
  BY PartType DEF IInv, TypeOK
<1>6. Stored(part)!HasOwn <=> part \in own
  BY StoreNow
<1>7. CASE part \in own
  <2>1. OwnOf(part)' = [OwnOf(part) EXCEPT ![open] = live'[part]]
    BY <1>1, <1>7 DEF OwnOf
  <2>2. SharedNow(part)' = SharedNow(part)
    BY <1>3, <1>4, <1>7
  <2>3. Stored(part)!Edit(live'[part])
    BY <1>6, <1>7, <2>1, <2>2, Zenon DEF Stored!Edit
  <2>4. Stored(part)!Change
    BY <1>1, <1>2, <1>5, <2>3, Zenon DEF Stored!Change
  <2>5. QED
    BY <2>4 DEF StoreStep, Stored!Next
<1>8. CASE part \notin own
  <2>1. OwnOf(part)' = OwnOf(part)
    BY <1>1, <1>8 DEF OwnOf
  <2>2. SharedNow(part)' = live'[part]
    BY <1>4, <1>8
  <2>3. Stored(part)!Edit(live'[part])
    BY <1>6, <1>8, <2>1, <2>2, Zenon DEF Stored!Edit
  <2>4. Stored(part)!Change
    BY <1>1, <1>2, <1>5, <2>3, Zenon DEF Stored!Change
  <2>5. QED
    BY <2>4 DEF StoreStep, Stored!Next
<1>9. QED
  BY <1>7, <1>8

(* "Settings for" and "Keys for".                                          *)
LEMMA StoreOwns ==
  ASSUME NEW part \in Parts, IInv, IInv', NEW p \in Parts,
         SettingsForThisGame(p) \/ SettingsForAllGames(p)
  PROVE  StoreStep(part)
<1>1. /\ UNCHANGED <<open, program, copy, gameFile, running>>
      /\ running # "off"
  BY DEF SettingsForThisGame, SettingsForAllGames, Ready, disk
<1>2. Loaded' = Loaded /\ SavedOwn(part)' = SavedOwn(part)
  BY <1>1 DEF Loaded, SavedOwn
<1>3. SharedNow(part) = IF part \in own THEN globals[part] ELSE live[part]
  BY <1>1 DEF SharedNow, Shared
<1>4. SharedNow(part)' = IF part \in own' THEN globals'[part] ELSE live'[part]
  BY <1>1 DEF SharedNow, Shared
<1>5. Stored(part)!HasOwn <=> part \in own
  BY StoreNow
<1>6. live = [settings |-> live.settings, keys |-> live.keys]
      /\ globals = [settings |-> globals.settings, keys |-> globals.keys]
  BY DEF IInv, TypeOK, Values
<1>7. CASE part # p
  <2>1. live'[part] = live[part] /\ globals'[part] = globals[part]
        /\ (part \in own' <=> part \in own)
    BY <1>6, <1>7 DEF SettingsForThisGame, SettingsForAllGames, Parts
  <2>2. OwnOf(part)' = OwnOf(part)
    BY <1>1, <2>1 DEF OwnOf
  <2>3. SharedNow(part)' = SharedNow(part)
    BY <1>3, <1>4, <2>1
  <2>4. QED
    BY <1>1, <1>2, <2>2, <2>3, Zenon DEF StoreStep, Stored!store
<1>8. CASE part = p /\ SettingsForThisGame(p)
  <2>1. /\ part \notin own /\ part \in own' /\ open # NoGame
        /\ live' = live /\ globals'[part] = live[part]
    BY <1>6, <1>8 DEF SettingsForThisGame, Parts
  <2>2. SharedNow(part) = live[part] /\ SharedNow(part)' = SharedNow(part)
    BY <1>3, <1>4, <2>1
  <2>3. OwnOf(part)' = [OwnOf(part) EXCEPT ![open] = SharedNow(part)]
    BY <1>1, <2>1, <2>2 DEF OwnOf
  <2>4. Stored(part)!MakeOwn
    BY <1>1, <1>2, <1>5, <2>1, <2>2, <2>3, Zenon DEF Stored!MakeOwn
  <2>5. QED
    BY <2>4 DEF StoreStep, Stored!Next
<1>9. CASE part = p /\ SettingsForAllGames(p)
  <2>1. /\ part \in own /\ part \notin own'
        /\ globals' = globals /\ live'[part] = globals[part]
    BY <1>6, <1>9 DEF SettingsForAllGames, Parts
  <2>2. SharedNow(part)' = SharedNow(part)
    BY <1>3, <1>4, <2>1
  <2>3. OwnOf(part)' = [OwnOf(part) EXCEPT ![open] = None]
    BY <1>1, <2>1 DEF OwnOf
  <2>4. Stored(part)!DropOwn
    BY <1>1, <1>2, <1>5, <2>1, <2>2, <2>3, Zenon DEF Stored!DropOwn
  <2>5. QED
    BY <2>4 DEF StoreStep, Stored!Next
<1>10. QED
  BY <1>7, <1>8, <1>9

(* What a game's file holds after it was written, or could not be.         *)
LEMMA StoreFile ==
  ASSUME NEW part \in Parts, IInv, NEW g \in Games, NEW v \in Values,
         NEW parts \in SUBSET Parts, WriteGameFile(g, v, parts)
  PROVE  /\ \A h \in Games \ {g} : gameFile'[h] = gameFile[h]
         /\ \/ gameFile' = gameFile
            \/ InFile(gameFile'[g], part) = IF part \in parts THEN v[part] ELSE None
<1>1. CASE gameFile' = gameFile
  BY <1>1
<1>2. CASE gameFile' = [gameFile EXCEPT ![g] = GameFileNow(v, parts)]
  <2>1. gameFile'[g] = GameFileNow(v, parts) /\ \A h \in Games \ {g} : gameFile'[h] = gameFile[h]
    BY <1>2 DEF IInv, TypeOK
  <2>2. QED
    BY <2>1, FileNow
<1>3. QED
  BY <1>1, <1>2 DEF WriteGameFile

LEMMA StoreOpens ==
  ASSUME NEW part \in Parts, IInv, IInv', NEW g \in Games, OpenGame(g)
  PROVE  StoreStep(part)
<1>1. /\ UNCHANGED <<program, copy, running>> /\ running # "off"
      /\ open = NoGame /\ own = {} /\ open' = g /\ own' = OwnInFile(g) /\ globals' = live
  BY DEF OpenGame, Ready, IInv, OwnIsOpen
<1>2. Loaded' = Loaded
  BY <1>1 DEF Loaded
<1>3. SharedNow(part) = live[part]
  BY <1>1 DEF SharedNow, Shared
<1>4. SharedNow(part)' = IF part \in own' THEN live[part] ELSE live'[part]
  BY <1>1 DEF SharedNow, Shared
<1>5. \A h \in Games : OwnOf(part)[h] = InFile(gameFile[h], part)
  BY <1>1, GamesAssumption DEF OwnOf
<1>6. part \in own' <=> OwnOf(part)[g] # None
  BY <1>1, <1>5 DEF OwnInFile
<1>7. InUse(g) \in Values
  BY InUseInValues DEF IInv
<1>8. InUse(g)[part] = IF part \in own' THEN OwnOf(part)[g] ELSE live[part]
  BY <1>1, <1>5 DEF InUse
<1>9. CASE crashedRom # g
  <2>1. live' = InUse(g) /\ gameFile' = gameFile
    BY <1>9 DEF OpenGame
  <2>2. SharedNow(part)' = SharedNow(part)
    BY <1>3, <1>4, <1>8, <2>1
  <2>3. SavedOwn(part)' = SavedOwn(part)
    BY <2>1 DEF SavedOwn
  <2>4. OwnOf(part)' = OwnOf(part)
    <3>1. \A h \in Games : OwnOf(part)'[h] = OwnOf(part)[h]
      BY <1>1, <1>5, <1>6, <1>8, <2>1 DEF OwnOf
    <3>2. QED
      BY <3>1 DEF OwnOf
  <2>5. Stored(part)!Open
    BY <1>1, <1>2, <2>2, <2>3, <2>4, Zenon DEF Stored!Open
  <2>6. QED
    BY <2>5 DEF StoreStep, Stored!Next
<1>10. CASE crashedRom = g
  <2>1. live' = Slowed(InUse(g)) /\ WriteGameFile(g, live', own')
    BY <1>10 DEF OpenGame
  <2>2. live'[part] = BackToNormal(part)[InUse(g)[part]]
    BY <1>7, <2>1, SlowedPart
  <2>3. live' \in Values /\ own' \in SUBSET Parts
    BY DEF IInv, TypeOK
  <2>4. /\ \A h \in Games \ {g} : gameFile'[h] = gameFile[h]
        /\ \/ gameFile' = gameFile
           \/ InFile(gameFile'[g], part) = IF part \in own' THEN live'[part] ELSE None
    BY <2>1, <2>3, StoreFile
  <2>5. \A h \in Games : OwnOf(part)'[h] =
          IF h = g THEN IF part \in own' THEN live'[part] ELSE None ELSE OwnOf(part)[h]
    BY <1>1, <1>5, <2>4 DEF OwnOf
  <2>6. SavedOwn(part)' \in {SavedOwn(part), OwnOf(part)'}
    <3>1. CASE gameFile' = gameFile
      BY <3>1 DEF SavedOwn
    <3>2. CASE InFile(gameFile'[g], part) = IF part \in own' THEN live'[part] ELSE None
      <4>1. \A h \in Games : SavedOwn(part)'[h] = OwnOf(part)'[h]
        BY <1>1, <3>2 DEF SavedOwn, OwnOf
      <4>2. QED
        BY <4>1 DEF SavedOwn, OwnOf
    <3>3. QED
      BY <2>4, <3>1, <3>2
  <2>7. CASE part \in own'
    <3>1. SharedNow(part)' = SharedNow(part)
      BY <1>3, <1>4, <2>7
    <3>2. OwnOf(part)' = [OwnOf(part) EXCEPT ![g] = BackToNormal(part)[@]]
      <4>1. \A h \in Games : OwnOf(part)'[h] =
              IF h = g THEN BackToNormal(part)[OwnOf(part)[g]] ELSE OwnOf(part)[h]
        BY <1>8, <2>2, <2>5, <2>7
      <4>2. QED
        BY <4>1 DEF OwnOf
    <3>3. Stored(part)!OpenFrozen
      BY <1>1, <1>2, <1>6, <2>6, <2>7, <3>1, <3>2, Zenon DEF Stored!OpenFrozen
    <3>4. QED
      BY <3>3 DEF StoreStep, Stored!Next
  <2>8. CASE part \notin own'
    <3>1. SharedNow(part)' = BackToNormal(part)[SharedNow(part)]
      BY <1>3, <1>4, <1>8, <2>2, <2>8
    <3>2. OwnOf(part)' = OwnOf(part)
      <4>1. \A h \in Games : OwnOf(part)'[h] = OwnOf(part)[h]
        BY <1>6, <2>5, <2>8
      <4>2. QED
        BY <4>1 DEF OwnOf
    <3>3. OwnOf(part) = SavedOwn(part)
      BY <1>1, <1>5 DEF OwnOf, SavedOwn
    <3>4. SavedOwn(part)' = SavedOwn(part)
      BY <2>6, <3>2, <3>3
    <3>5. Stored(part)!OpenFrozen
      BY <1>1, <1>2, <1>6, <2>8, <3>1, <3>2, <3>4, Zenon DEF Stored!OpenFrozen
    <3>6. QED
      BY <3>5 DEF StoreStep, Stored!Next
  <2>9. QED
    BY <2>7, <2>8
<1>11. QED
  BY <1>9, <1>10

LEMMA StoreCloses ==
  ASSUME NEW part \in Parts, IInv, IInv', CloseGame \/ WriteOwn
  PROVE  StoreStep(part)
<1>1. /\ UNCHANGED <<program, copy, running>> /\ running # "off"
      /\ open # NoGame /\ open \in Games
      /\ WriteGameFile(open, live, own)
  BY DEF CloseGame, WriteOwn, Ready, memory, IInv, TypeOK, OwnIsOpen
<1>2. Loaded' = Loaded
  BY <1>1 DEF Loaded
<1>3. /\ \A h \in Games \ {open} : gameFile'[h] = gameFile[h]
      /\ \/ gameFile' = gameFile
         \/ InFile(gameFile'[open], part) = IF part \in own THEN live[part] ELSE None
  <2>1. live \in Values /\ own \in SUBSET Parts
    BY DEF IInv, TypeOK
  <2>2. QED
    BY <1>1, <2>1, StoreFile
<1>4. OwnOf(part)[open] = IF part \in own THEN live[part] ELSE None
  BY <1>1 DEF OwnOf
<1>5. \/ SavedOwn(part)' = SavedOwn(part) /\ gameFile' = gameFile
      \/ /\ SavedOwn(part)' = [SavedOwn(part) EXCEPT ![open] = OwnOf(part)[open]]
         /\ InFile(gameFile'[open], part) = OwnOf(part)[open]
  <2>1. CASE gameFile' = gameFile
    BY <2>1 DEF SavedOwn
  <2>2. CASE InFile(gameFile'[open], part) = OwnOf(part)[open]
    <3>1. \A h \in Games : SavedOwn(part)'[h] =
            IF h = open THEN OwnOf(part)[open] ELSE SavedOwn(part)[h]
      BY <1>3, <2>2 DEF SavedOwn
    <3>2. QED
      BY <2>2, <3>1 DEF SavedOwn
  <2>3. QED
    BY <1>3, <1>4, <2>1, <2>2
<1>6. CASE CloseGame
  <2>1. open' = NoGame /\ own' = {} /\ live' = Shared
    BY <1>6 DEF CloseGame
  <2>2. SharedNow(part)' = SharedNow(part)
    BY <1>1, <2>1 DEF SharedNow, Shared
  <2>3. \A h \in Games : OwnOf(part)'[h] = InFile(gameFile'[h], part)
    BY <2>1, GamesAssumption DEF OwnOf
  <2>4. \/ SavedOwn(part)' = [SavedOwn(part) EXCEPT ![open] = OwnOf(part)[open]]
           /\ OwnOf(part)' = OwnOf(part)
        \/ OwnOf(part)' = [OwnOf(part) EXCEPT ![open] = SavedOwn(part)[open]]
           /\ SavedOwn(part)' = SavedOwn(part)
    <3>1. CASE gameFile' = gameFile /\ SavedOwn(part)' = SavedOwn(part)
      <4>1. \A h \in Games : OwnOf(part)'[h] =
              IF h = open THEN SavedOwn(part)[open] ELSE OwnOf(part)[h]
        BY <2>3, <3>1 DEF OwnOf, SavedOwn
      <4>2. QED
        BY <3>1, <4>1 DEF OwnOf
    <3>2. CASE /\ SavedOwn(part)' = [SavedOwn(part) EXCEPT ![open] = OwnOf(part)[open]]
               /\ InFile(gameFile'[open], part) = OwnOf(part)[open]
      <4>1. \A h \in Games : OwnOf(part)'[h] = OwnOf(part)[h]
        BY <1>3, <2>3, <3>2 DEF OwnOf
      <4>2. QED
        BY <3>2, <4>1 DEF OwnOf
    <3>3. QED
      BY <1>5, <3>1, <3>2
  <2>5. Stored(part)!Close
    BY <1>1, <1>2, <2>1, <2>2, <2>4, Zenon DEF Stored!Close
  <2>6. QED
    BY <2>5 DEF StoreStep, Stored!Next
<1>7. CASE WriteOwn
  <2>1. UNCHANGED <<open, own, live, globals>>
    BY <1>7 DEF WriteOwn, memory
  <2>2. SharedNow(part)' = SharedNow(part)
    BY <1>1, <2>1 DEF SharedNow, Shared
  <2>3. OwnOf(part)' = OwnOf(part)
    BY <1>3, <2>1 DEF OwnOf
  <2>4. CASE SavedOwn(part)' = SavedOwn(part)
    BY <1>1, <1>2, <2>1, <2>2, <2>3, <2>4, Zenon DEF StoreStep, Stored!store
  <2>5. CASE SavedOwn(part)' = [SavedOwn(part) EXCEPT ![open] = OwnOf(part)[open]]
    <3>1. Stored(part)!SaveOwn
      BY <1>1, <1>2, <2>1, <2>2, <2>3, <2>5, Zenon DEF Stored!SaveOwn
    <3>2. QED
      BY <3>1 DEF StoreStep, Stored!Next
  <2>6. QED
    BY <1>5, <2>4, <2>5
<1>8. QED
  BY <1>6, <1>7

LEMMA StoreRests ==
  ASSUME NEW part \in Parts, UNCHANGED vars
  PROVE  StoreStep(part)
<1>1. UNCHANGED <<running, open, live, globals, own, program, copy, gameFile>>
  BY DEF vars, memory, disk
<1>2. /\ Loaded' = Loaded /\ SharedNow(part)' = SharedNow(part)
      /\ OwnOf(part)' = OwnOf(part) /\ SavedOwn(part)' = SavedOwn(part)
  BY <1>1 DEF Loaded, SharedNow, Shared, OwnOf, SavedOwn
<1>3. QED
  BY <1>1, <1>2, Zenon DEF StoreStep, Stored!store

LEMMA StoreSteps ==
  ASSUME NEW part \in Parts, IInv, IInv', [Next]_vars
  PROVE  StoreStep(part)
BY StoreSaves, StoreChanges, StoreOwns, StoreOpens, StoreCloses, StoreRests DEF Next

(* The two stores of the properties.                                       *)
LEMMA SettingsStoreStep ==
  ASSUME IInv, IInv', [Next]_vars
  PROVE  [SettingsStored!Next]_(SettingsStored!store)
<1>1. "settings" \in Parts
  BY DEF Parts
<1>2. StoreStep("settings")
  BY <1>1, StoreSteps
<1>3. ValuesOf("settings") = Settings
  BY DEF ValuesOf
<1>4. BackToNormal("settings") = [v \in Settings |-> [v EXCEPT !.speed = 0]]
  BY DEF BackToNormal, ValuesOf
<1>5. CASE UNCHANGED Stored("settings")!store
  BY <1>5 DEF Stored!store, SettingsStored!store
<1>6. CASE Stored("settings")!Next
  BY <1>3, <1>4, <1>6, Zenon
     DEF Stored!Next, Stored!Change, Stored!Edit, Stored!HasOwn, Stored!MakeOwn, Stored!DropOwn,
         Stored!Open, Stored!OpenFrozen, Stored!Close, Stored!SaveOwn, Stored!SaveShared,
         Stored!LoseShared, Stored!Restart, Stored!NewProgram,
         SettingsStored!Next, SettingsStored!Change, SettingsStored!Edit, SettingsStored!HasOwn,
         SettingsStored!MakeOwn, SettingsStored!DropOwn, SettingsStored!Open,
         SettingsStored!OpenFrozen, SettingsStored!Close, SettingsStored!SaveOwn,
         SettingsStored!SaveShared, SettingsStored!LoseShared, SettingsStored!Restart,
         SettingsStored!NewProgram
<1>7. QED
  BY <1>2, <1>5, <1>6 DEF StoreStep

LEMMA KeysStoreStep ==
  ASSUME IInv, IInv', [Next]_vars
  PROVE  [KeysStored!Next]_(KeysStored!store)
<1>1. "keys" \in Parts
  BY DEF Parts
<1>2. StoreStep("keys")
  BY <1>1, StoreSteps
<1>3. ValuesOf("keys") = Keys
  BY DEF ValuesOf
<1>4. BackToNormal("keys") = [v \in Keys |-> v]
  BY DEF BackToNormal, ValuesOf
<1>5. CASE UNCHANGED Stored("keys")!store
  BY <1>5 DEF Stored!store, KeysStored!store
<1>6. CASE Stored("keys")!Next
  BY <1>3, <1>4, <1>6, Zenon
     DEF Stored!Next, Stored!Change, Stored!Edit, Stored!HasOwn, Stored!MakeOwn, Stored!DropOwn,
         Stored!Open, Stored!OpenFrozen, Stored!Close, Stored!SaveOwn, Stored!SaveShared,
         Stored!LoseShared, Stored!Restart, Stored!NewProgram,
         KeysStored!Next, KeysStored!Change, KeysStored!Edit, KeysStored!HasOwn,
         KeysStored!MakeOwn, KeysStored!DropOwn, KeysStored!Open, KeysStored!OpenFrozen,
         KeysStored!Close, KeysStored!SaveOwn, KeysStored!SaveShared, KeysStored!LoseShared,
         KeysStored!Restart, KeysStored!NewProgram
<1>7. QED
  BY <1>2, <1>5, <1>6 DEF StoreStep

(* The settings for all games and each game's own stay apart, in memory    *)
(* and on disk, through failed writes and lost power: the files implement  *)
(* SettingsStore, for any games and old files.                             *)
THEOREM SettingsKept == Spec => SettingsAreKept
<1>1. Init => SettingsStored!Init
  <2> SUFFICES ASSUME Init PROVE SettingsStored!Init
    OBVIOUS
  <2>1. Stored("settings")!Init
    BY StoreInit DEF Parts
  <2>2. QED
    BY <2>1 DEF Stored!Init, SettingsStored!Init, ValuesOf
<1>2. QED
  BY <1>1, SettingsStoreStep, Invariance, PTL DEF Spec, SettingsAreKept, SettingsStored!Spec

(* And so do the keys.                                                     *)
THEOREM KeysKept == Spec => KeysAreKept
<1>1. Init => KeysStored!Init
  <2> SUFFICES ASSUME Init PROVE KeysStored!Init
    OBVIOUS
  <2>1. Stored("keys")!Init
    BY StoreInit DEF Parts
  <2>2. QED
    BY <2>1 DEF Stored!Init, KeysStored!Init, ValuesOf
<1>2. QED
  BY <1>1, KeysStoreStep, Invariance, PTL DEF Spec, KeysAreKept, KeysStored!Spec

-----------------------------------------------------------------------------
(* The clock and its marker.                                               *)

(* The flag and the marker file agree once the start has looked for one,   *)
(* and a raised clock has both.                                            *)
MarkerKnown ==
  /\ marker_written => marker # None /\ running = "on"
  /\ running = "on" /\ ~marker_written => marker = None
  /\ raised => playing /\ marker_written
  /\ playing => running = "on" /\ open # NoGame
  /\ QuitLeavesNoMarker

CInv == IInv /\ ClockTypeOK /\ MarkerKnown

LEMMA ClockInitInv == ClockInit => CInv
<1> SUFFICES ASSUME ClockInit PROVE CInv
  OBVIOUS
<1>1. IInv /\ TypeOK
  BY InitInv DEF ClockInit, IInv
<1>2. ClockTypeOK
  <2>1. playing \in BOOLEAN /\ raised \in BOOLEAN /\ marker_written \in BOOLEAN
        /\ clean \in BOOLEAN
    BY Zenon DEF ClockInit
  <2>2. marker \in Games \cup {None} /\ failed \in 0 .. CPU_SPEEDS - 1
        /\ frozeIn \in Games \cup {NoGame}
    BY DEF ClockInit, CPU_SPEEDS
  <2>3. QED
    BY <1>1, <2>1, <2>2, Zenon DEF ClockTypeOK
<1>3. MarkerKnown
  BY DEF ClockInit, Init, MarkerKnown, QuitLeavesNoMarker
<1>4. QED
  BY <1>1, <1>2, <1>3 DEF CInv

LEMMA SettingsStep == CInv /\ ClockNext => [Next]_vars
<1> SUFFICES ASSUME CInv, ClockNext PROVE Next \/ UNCHANGED vars
  OBVIOUS
<1>1. CASE Play \/ Pause
  BY <1>1, Zenon DEF Play, Pause
<1>2. CASE Settle
  BY <1>2, Zenon DEF Settle, Next
<1>3. CASE Resume
  BY <1>3, Zenon DEF Resume, Next
<1>4. CASE CheckMarker
  <2>1. (IF marker = None THEN NoGame ELSE marker) \in Games \cup {NoGame}
    BY DEF CInv, ClockTypeOK
  <2>2. QED
    BY <1>4, <2>1, Zenon DEF CheckMarker, Next
<1>5. CASE Quit \/ Freeze \/ PowerLoss
  BY <1>5, Zenon DEF Quit, Freeze, PowerLoss, Halt, Next
<1>6. QED
  BY <1>1, <1>2, <1>3, <1>4, <1>5, Zenon DEF ClockNext

(* The speed nspire_clock_game asks for is one of the list.                *)
LEMMA WantedType == TypeOK => Wanted \in 0 .. CPU_SPEEDS - 1
BY DEF TypeOK, Values, Settings, Wanted, CPU_SPEEDS

LEMMA ClockTypeStep == CInv /\ [ClockNext]_allVars => ClockTypeOK'
<1> SUFFICES ASSUME CInv, [ClockNext]_allVars PROVE ClockTypeOK'
  OBVIOUS
<1>1. TypeOK'
  BY SettingsStep, InvStep DEF CInv, IInv, allVars
<1>2. playing' \in BOOLEAN /\ raised' \in BOOLEAN /\ marker_written' \in BOOLEAN
      /\ clean' \in BOOLEAN
  BY Zenon DEF CInv, ClockTypeOK, ClockNext, Play, ClockGame, Pause, Settle, Resume,
     CheckMarker, Quit, Halt, Freeze, PowerLoss, allVars, clock
<1>3. marker' \in Games \cup {None} /\ frozeIn' \in Games \cup {NoGame}
  BY DEF CInv, IInv, TypeOK, ClockTypeOK, ClockNext, Play, ClockGame, Pause, Settle, Resume,
     CheckMarker, Quit, Halt, Freeze, PowerLoss, allVars, clock
<1>4. failed' \in 0 .. CPU_SPEEDS - 1
  BY WantedType
     DEF CInv, IInv, ClockTypeOK, ClockNext, Play, ClockGame, Pause, Settle, Resume,
         CheckMarker, Quit, Halt, Freeze, PowerLoss, allVars, clock, CPU_SPEEDS
<1>5. QED
  BY <1>1, <1>2, <1>3, <1>4, Zenon DEF ClockTypeOK

LEMMA MarkerStep == CInv /\ [ClockNext]_allVars => MarkerKnown'
<1> SUFFICES ASSUME CInv, [ClockNext]_allVars PROVE MarkerKnown'
  OBVIOUS
<1> USE DEF CInv, MarkerKnown, QuitLeavesNoMarker
<1>1. CASE Play
  <2>1. running' = "on" /\ open' # NoGame /\ open # None
    BY <1>1, NoneAssumption DEF Play, Ready, vars, memory, IInv, TypeOK
  <2>2. marker_written' => marker' # None
    <3>1. CASE marker' = open /\ marker_written' = TRUE
      BY <2>1, <3>1
    <3>2. CASE UNCHANGED <<marker, marker_written>>
      BY <3>2, Zenon
    <3>3. QED
      BY <1>1, <3>1, <3>2, Zenon DEF Play, ClockGame
  <2>3. ~marker_written' => marker' = None
    <3>1. CASE marker_written' = TRUE
      BY <3>1
    <3>2. CASE UNCHANGED <<marker, marker_written>>
      BY <1>1, <3>2, Zenon DEF Play, Ready
    <3>3. QED
      BY <1>1, <3>1, <3>2, Zenon DEF Play, ClockGame
  <2>4. raised' => marker_written'
    BY <1>1, Zenon DEF Play, ClockGame
  <2>5. playing' = TRUE
    BY <1>1 DEF Play
  <2>6. QED
    BY <2>1, <2>2, <2>3, <2>4, <2>5
<1>2. CASE Pause
  BY <1>2 DEF Pause, vars, memory
<1>3. CASE Settle
  BY <1>3
     DEF Settle, clock, Start, CloseGame, ChangeSettings, SettingsForThisGame,
         SettingsForAllGames, StartSave, WriteCopy, WriteProgram, WriteOwn, NewProgram
<1>4. CASE Resume
  BY <1>4, GamesAssumption DEF Resume, OpenGame
<1>5. CASE CheckMarker
  BY <1>5 DEF CheckMarker, CheckCrash
<1>6. CASE Quit
  BY <1>6 DEF Quit, Stop, Ready
<1>7. CASE Freeze \/ PowerLoss
  BY <1>7 DEF Freeze, PowerLoss, Halt, Stop
<1>8. CASE UNCHANGED allVars
  BY <1>8, Zenon DEF allVars, vars, memory, clock
<1>9. QED
  BY <1>1, <1>2, <1>3, <1>4, <1>5, <1>6, <1>7, <1>8 DEF ClockNext

LEMMA ClockInvStep == CInv /\ [ClockNext]_allVars => CInv'
<1>1. CInv /\ [ClockNext]_allVars => IInv'
  BY SettingsStep, InvStep DEF CInv, allVars
<1>2. QED
  BY <1>1, ClockTypeStep, MarkerStep DEF CInv

LEMMA ClockInvariance == ClockSpec => []CInv
BY ClockInitInv, ClockInvStep, PTL DEF ClockSpec

(* Every variable of the clock, and of the settings under it, has its type *)
(* whatever was saved, frozen or cut off.                                  *)
THEOREM ClockTypeCorrect == ClockSpec => []ClockTypeOK
<1>1. CInv => ClockTypeOK
  BY DEF CInv
<1>2. QED
  BY <1>1, ClockInvariance, PTL

(* The clock is raised only with a marker on disk.                         *)
THEOREM RaisedMarked == ClockSpec => []RaisedIsMarked
<1>1. CInv => RaisedIsMarked
  BY DEF CInv, MarkerKnown, RaisedIsMarked
<1>2. QED
  BY <1>1, ClockInvariance, PTL

(* It is raised only while a game runs.                                    *)
THEOREM RaisedInGame == ClockSpec => []RaisedOnlyInGame
<1>1. CInv => RaisedOnlyInGame
  BY DEF CInv, MarkerKnown, RaisedOnlyInGame
<1>2. QED
  BY <1>1, ClockInvariance, PTL

(* Leaving gpSP leaves no marker behind.                                   *)
THEOREM QuitClean == ClockSpec => []QuitLeavesNoMarker
<1>1. CInv => QuitLeavesNoMarker
  BY DEF CInv, MarkerKnown
<1>2. QED
  BY <1>1, ClockInvariance, PTL

(* What is said of the settings holds beside the clock as well: a step of  *)
(* the clock is one of theirs or changes nothing of them.                  *)
THEOREM ClockKeepsGameConfig == ClockSpec => Spec
<1>1. ClockInit => Init
  BY DEF ClockInit
<1>2. CInv /\ [ClockNext]_allVars => [Next]_vars
  BY SettingsStep DEF allVars
<1>3. QED
  BY <1>1, <1>2, ClockInvariance, PTL DEF ClockSpec, Spec
=============================================================================

---------------------------- MODULE BackupProofs ----------------------------
(***************************************************************************)
(* Proofs about the in-game saves: first their files, for any games, any   *)
(* delay and any number of writes, then the chips of the cartridges, for   *)
(* banks, sectors, EEPROMs and commands of any size and any addresses.     *)
(***************************************************************************)
EXTENDS CartridgeBackup, BackupChips, TLAPS

(* Only an open game is left or written, and its memory is its own.        *)
OpenGame ==
  /\ game = NoGame => leaving = "no" /\ write = None
  /\ game # NoGame /\ memory # Blank => memory.by = game

(* A file being written is there, of no use until it is written, and then  *)
(* it holds the memory.                                                    *)
Writing ==
  write # None =>
    /\ ~backup_deleted
    /\ file[game][write.form] # None
    /\ write.step = "writing" => file[game][write.form].holds = Torn
    /\ write.step = "removing" => file[game][write.form].holds = memory

(* Nothing waits to be written in a game that is left or whose save was    *)
(* deleted.                                                                *)
Waiting ==
  game # NoGame /\ (leaving # "no" \/ backup_deleted) => backup_update_count = Idle

(* NoWriteIsForgotten, while the game is left too.                         *)
Written ==
  game # NoGame /\ write = None /\ backup_update_count = Idle /\ missed = "no"
  /\ ~backup_deleted => Loads(game) = memory

IInv == /\ TypeOK /\ OpenGame /\ SavesAreTheGames /\ DeletedStaysDeleted
        /\ Writing /\ Waiting /\ Written

-----------------------------------------------------------------------------
LEMMA FormsDiffer ==
  ASSUME NEW form \in Forms
  PROVE  Other(form) \in Forms /\ Other(form) # form
         /\ \A f \in Forms : f = form \/ f = Other(form)
BY DEF Forms, Other

(* What changing one of the open game's files does.                        *)
LEMMA WithFile ==
  ASSUME TypeOK, game \in Games, NEW form \in Forms, NEW f \in File \cup {None}
  PROVE  /\ With(form, f) \in [Games -> Files]
         /\ With(form, f)[game][form] = f
         /\ \A e \in Forms \ {form} : With(form, f)[game][e] = file[game][e]
         /\ \A g \in Games \ {game} : With(form, f)[g] = file[g]
<1>1. file \in [Games -> Files] /\ file[game] \in Files
  BY DEF TypeOK
<1>2. [file[game] EXCEPT ![form] = f] \in Files
  BY <1>1 DEF Files
<1>3. With(form, f)[game] = [file[game] EXCEPT ![form] = f]
  BY <1>1 DEF With
<1>4. QED
  BY <1>1, <1>2, <1>3 DEF With, Files

(* A save without its other form is what is loaded.                        *)
LEMMA OnlyForm ==
  ASSUME NEW g \in Games, NEW form \in Forms,
         file[g][form] # None, file[g][form].holds # Torn, file[g][Other(form)] = None
  PROVE  Loads(g) = file[g][form].holds
BY DEF Loads, Newer, Held, Forms, Other

(* What is loaded was written by the game itself.                          *)
LEMMA LoadsOwn ==
  ASSUME TypeOK, SavesAreTheGames, NEW g \in Games
  PROVE  Loads(g) \in Contents /\ (Loads(g) # Blank => Loads(g).by = g)
<1>1. \A f \in Forms : file[g][f] \in File \cup {None}
  BY DEF TypeOK, Files
<1>2. Blank \in Contents
  BY DEF Contents
<1>3. \A f \in Forms : Held(g, f) \in Contents
  BY <1>1, <1>2 DEF Held, File
<1>4. Loads(g) \in {Held(g, "packed"), Held(g, "plain")}
  BY DEF Loads
<1>5. QED
  BY <1>3, <1>4 DEF SavesAreTheGames, Forms

LEMMA InitInv == Init => IInv
<1> SUFFICES ASSUME Init PROVE IInv
  OBVIOUS
<1>1. file \in [Games -> Files]
  BY DEF Init, Files
<1>2. typed \in BOOLEAN /\ backup_deleted \in BOOLEAN
      /\ nspire_compress_saves \in BOOLEAN /\ update_backup_flag \in BOOLEAN
  BY Zenon DEF Init
<1>3. TypeOK
  BY <1>1, <1>2, BoundsAssumption DEF Init, TypeOK, Contents, Idle
<1>4. SavesAreTheGames
  BY DEF Init, SavesAreTheGames, Held
<1>5. QED
  BY <1>3, <1>4
     DEF Init, IInv, OpenGame, DeletedStaysDeleted, Writing, Waiting, Written

(* Starting to write keeps what holds of the files, whatever form it is.   *)
LEMMA StartKeeps ==
  ASSUME TypeOK, SavesAreTheGames, game \in Games, write = None,
         NEW form \in Forms, StartWriting(form)
  PROVE  /\ now' \in 0 .. MaxTime /\ file' \in [Games -> Files]
         /\ write' \in Write \cup {None} /\ missed' \in {"no", "untyped", "failed"}
         /\ \A g \in Games, f \in Forms :
              file'[g][f] # None /\ file'[g][f].holds # Torn => file'[g][f] = file[g][f]
         /\ write' # None => /\ write'.step = "writing"
                             /\ file'[game][write'.form] # None
                             /\ file'[game][write'.form].holds = Torn
                             /\ \A f \in Forms \ {write'.form} : file'[game][f] = file[game][f]
         /\ write' = None => missed' # "no"
<1>1. CASE /\ missed' = IF typed THEN "failed" ELSE "untyped"
           /\ UNCHANGED <<now, file, write>>
  BY <1>1 DEF TypeOK
<1>2. CASE /\ now' \in now .. MaxTime
           /\ file' = Emptied(form)
           /\ write' = [form |-> form, step |-> "writing"]
           /\ UNCHANGED missed
  <2> DEFINE torn == [holds |-> Torn, time |-> now']
  <2>1. now' \in 0 .. MaxTime
    BY <1>2, BoundsAssumption DEF TypeOK
  <2>2. torn \in File /\ torn # None /\ torn.holds = Torn
    BY <2>1, NoneAssumption DEF File
  <2>3. file' = With(form, torn)
    BY <1>2 DEF Emptied
  <2>4. write' \in Write /\ write'.step = "writing" /\ write'.form = form
        /\ write' # None
    BY <1>2, NoneAssumption DEF Write
  <2> HIDE DEF torn
  <2>5. file' \in [Games -> Files] /\ file'[game][form] = torn
        /\ (\A e \in Forms \ {form} : file'[game][e] = file[game][e])
        /\ \A g \in Games \ {game} : file'[g] = file[g]
    BY <2>2, <2>3, WithFile
  <2>6. \A g \in Games, f \in Forms :
          file'[g][f] # None /\ file'[g][f].holds # Torn => file'[g][f] = file[g][f]
    BY <2>2, <2>5
  <2>7. missed' \in {"no", "untyped", "failed"}
    BY <1>2 DEF TypeOK
  <2>8. QED
    BY <2>1, <2>2, <2>4, <2>5, <2>6, <2>7
<1>3. QED
  BY <1>1, <1>2, Zenon DEF StartWriting

(* The files stay the games' own if a step only takes away, or writes what *)
(* is in memory into the open game's.                                      *)
LEMMA SavesStay ==
  ASSUME IInv,
         \A g \in Games, f \in Forms :
           file'[g][f] # None /\ file'[g][f].holds # Torn
           => \/ file'[g][f] = file[g][f]
              \/ g = game /\ file'[g][f].holds = memory
  PROVE  SavesAreTheGames'
<1> SUFFICES ASSUME NEW g \in Games, NEW f \in Forms, Held(g, f)' # Blank
             PROVE  Held(g, f)'.by = g
  BY DEF SavesAreTheGames
<1>1. file'[g][f] # None /\ file'[g][f].holds # Torn /\ Held(g, f)' = file'[g][f].holds
  BY DEF Held
<1>2. CASE file'[g][f] = file[g][f]
  BY <1>1, <1>2 DEF IInv, SavesAreTheGames, Held
<1>3. CASE g = game /\ file'[g][f].holds = memory
  BY <1>1, <1>3, GamesAssumption DEF IInv, OpenGame
<1>4. QED
  BY <1>1, <1>2, <1>3

(* A write that starts, in whatever step, leaves these as they were.       *)
LEMMA StartStep ==
  ASSUME IInv, game # NoGame, write = None, NEW form \in Forms, StartWriting(form),
         ~backup_deleted, UNCHANGED <<game, memory, backup_deleted>>
  PROVE  SavesAreTheGames' /\ DeletedStaysDeleted' /\ Writing'
<1> USE DEF IInv
<1>1. game \in Games
  BY DEF TypeOK
<1>2. SavesAreTheGames'
  BY <1>1, StartKeeps, SavesStay
<1>3. DeletedStaysDeleted'
  BY DEF DeletedStaysDeleted
<1>4. Writing'
  BY <1>1, StartKeeps DEF Writing
<1>5. QED
  BY <1>2, <1>3, <1>4

LEMMA ForceStep ==
  ASSUME IInv, game # NoGame, write = None, UpdateForce,
         UNCHANGED <<game, memory, typed, backup_deleted, settings, writes>>,
         leaving' \in {"close", "quit", "exit"}
  PROVE  IInv'
<1> USE DEF IInv
<1>1. game \in Games /\ Form \in Forms
  BY DEF TypeOK, Form, Forms
<1>2. /\ typed' \in BOOLEAN /\ backup_deleted' \in BOOLEAN
      /\ nspire_compress_saves' \in BOOLEAN /\ update_backup_flag' \in BOOLEAN
  BY Zenon DEF TypeOK, settings
<1>3. CASE backup_deleted
  <2>1. UNCHANGED <<now, file, write, missed, backup_update_count>>
    BY <1>3, Zenon DEF UpdateForce
  <2>2. backup_deleted'
    BY <1>3
  <2>3. TypeOK'
    BY <1>2, <2>1 DEF TypeOK
  <2>4. SavesAreTheGames' /\ DeletedStaysDeleted' /\ Writing'
    BY <1>3, <2>1 DEF SavesAreTheGames, DeletedStaysDeleted, Writing, Held
  <2>5. OpenGame' /\ Waiting' /\ Written'
    BY <1>3, <2>1, <2>2 DEF OpenGame, Waiting, Written
  <2>6. QED
    BY <2>3, <2>4, <2>5
<1>4. CASE ~backup_deleted
  <2>1. StartWriting(Form) /\ backup_update_count' = Idle
    BY <1>4, Zenon DEF UpdateForce
  <2>2. TypeOK'
    BY <1>1, <1>2, <2>1, StartKeeps, BoundsAssumption DEF TypeOK, Idle
  <2>3. SavesAreTheGames' /\ DeletedStaysDeleted' /\ Writing'
    BY <1>1, <1>4, <2>1, StartStep
  <2>4. OpenGame' /\ Waiting'
    BY <2>1 DEF OpenGame, Waiting
  <2>5. Written'
    BY <1>1, <2>1, StartKeeps DEF Written
  <2>6. QED
    BY <2>2, <2>3, <2>4, <2>5
<1>5. QED
  BY <1>3, <1>4

LEMMA InvStep == IInv /\ [Next]_vars => IInv'
<1> SUFFICES ASSUME IInv, [Next]_vars PROVE IInv'
  OBVIOUS
<1> USE DEF IInv
<1>1. CASE FinishWriting
  <2> USE <1>1
  <2>1. game \in Games /\ game # NoGame /\ write.form \in Forms /\ write.step = "writing"
    BY GamesAssumption DEF FinishWriting, OpenGame, TypeOK, Write
  <2>2. /\ UNCHANGED <<game, memory, backup_deleted, backup_update_count, leaving>>
        /\ ~backup_deleted
    BY Zenon DEF FinishWriting, Writing, session
  <2>3. /\ typed' \in BOOLEAN /\ backup_deleted' \in BOOLEAN
        /\ nspire_compress_saves' \in BOOLEAN /\ update_backup_flag' \in BOOLEAN
    BY Zenon DEF FinishWriting, TypeOK, settings
  <2>4. CASE write' = None /\ missed' = "failed" /\ UNCHANGED file
    <3>1. TypeOK'
      BY <2>2, <2>3, <2>4 DEF FinishWriting, TypeOK
    <3>2. SavesAreTheGames' /\ OpenGame' /\ DeletedStaysDeleted' /\ Writing' /\ Waiting'
          /\ Written'
      BY <2>2, <2>4 DEF OpenGame, SavesAreTheGames, Held, DeletedStaysDeleted, Writing, Waiting,
         Written
    <3>3. QED
      BY <3>1, <3>2
  <2>5. CASE /\ file' = With(write.form, [holds |-> memory, time |-> file[game][write.form].time])
             /\ write' = [form |-> write.form, step |-> "removing"]
             /\ missed' = "no"
    <3> DEFINE saved == [holds |-> memory, time |-> file[game][write.form].time]
    <3>1. file[game][write.form] \in File
      BY <2>1 DEF TypeOK, Files, Writing, FinishWriting
    <3>2. saved \in File /\ saved # None /\ saved.holds = memory
      BY <3>1, NoneAssumption DEF File, TypeOK
    <3> HIDE DEF saved
    <3>3. /\ file' \in [Games -> Files] /\ file'[game][write.form] = saved
          /\ \A e \in Forms \ {write.form} : file'[game][e] = file[game][e]
          /\ \A g \in Games \ {game} : file'[g] = file[g]
      BY <2>1, <2>5, <3>2, WithFile DEF saved
    <3>4. write' \in Write /\ write' # None /\ write'.form = write.form
      BY <2>1, <2>5, NoneAssumption DEF Write
    <3>5. TypeOK'
      BY <2>2, <2>3, <2>5, <3>3, <3>4 DEF FinishWriting, TypeOK
    <3>6. SavesAreTheGames'
      BY <3>2, <3>3, SavesStay
    <3>7. OpenGame' /\ DeletedStaysDeleted' /\ Waiting' /\ Written'
      BY <2>1, <2>2, <3>4 DEF OpenGame, DeletedStaysDeleted, Waiting, Written
    <3>8. Writing'
      BY <2>2, <2>5, <3>2, <3>3, <3>4 DEF Writing
    <3>9. QED
      BY <3>5, <3>6, <3>7, <3>8
  <2>6. QED
    BY <2>4, <2>5, Zenon DEF FinishWriting
<1>2. CASE RemoveOther
  <2> USE <1>2
  <2> DEFINE form == write.form  gone == Other(form)
  <2>1. game \in Games /\ game # NoGame /\ form \in Forms /\ gone \in Forms /\ gone # form
        /\ file[game][form] # None /\ file[game][form].holds = memory
    BY GamesAssumption, FormsDiffer DEF RemoveOther, OpenGame, TypeOK, Write, Writing
  <2> HIDE DEF form
  <2>2. /\ file' \in [Games -> Files] /\ file'[game][gone] = None
        /\ file'[game][form] = file[game][form]
        /\ \A g \in Games \ {game} : file'[g] = file[g]
    BY <2>1, WithFile DEF RemoveOther, form
  <2>3. /\ UNCHANGED <<game, memory, backup_deleted, backup_update_count, leaving, missed>>
        /\ ~backup_deleted /\ write' = None
    BY Zenon DEF RemoveOther, Writing, session
  <2>4. /\ typed' \in BOOLEAN /\ backup_deleted' \in BOOLEAN
        /\ nspire_compress_saves' \in BOOLEAN /\ update_backup_flag' \in BOOLEAN
    BY Zenon DEF RemoveOther, TypeOK, settings
  <2>5. TypeOK'
    BY <2>2, <2>3, <2>4 DEF RemoveOther, TypeOK
  <2>6. SavesAreTheGames'
    BY <2>1, <2>2, FormsDiffer, SavesStay
  <2>7. memory # Torn
    BY ContentsAssumption DEF TypeOK
  <2>8. Loads(game)' = memory'
    BY <2>1, <2>2, <2>3, <2>7, OnlyForm DEF Loads, Newer, Held, Forms, Other
  <2>9. OpenGame' /\ DeletedStaysDeleted' /\ Waiting' /\ Writing' /\ Written'
    BY <2>3, <2>8 DEF OpenGame, DeletedStaysDeleted, Waiting, Writing, Written
  <2>10. QED
    BY <2>5, <2>6, <2>9
<1>3. ASSUME NEW g \in Games, Start(g) PROVE IInv'
  <2> USE <1>3
  <2>1. memory' = Loads(g) /\ game' = g /\ file' = file /\ game = NoGame
        /\ backup_update_count' = Idle /\ missed' = "no" /\ write' = write /\ leaving' = leaving
        /\ now' = now /\ writes' = writes
    BY DEF Start, InMemory
  <2>2. typed' \in BOOLEAN /\ backup_deleted' = FALSE /\ backup_deleted' \in BOOLEAN
        /\ nspire_compress_saves' \in BOOLEAN /\ update_backup_flag' \in BOOLEAN
    BY Zenon DEF Start, TypeOK, settings
  <2>3. TypeOK'
    BY <2>1, <2>2, LoadsOwn, BoundsAssumption DEF TypeOK, Idle
  <2>4. SavesAreTheGames'
    BY <2>1, SavesStay
  <2>5. Loads(g)' = Loads(g)
    BY <2>1 DEF Loads, Newer, Held
  <2>6. OpenGame' /\ DeletedStaysDeleted' /\ Writing' /\ Waiting' /\ Written'
    BY <2>1, <2>2, <2>5, LoadsOwn, GamesAssumption
       DEF OpenGame, DeletedStaysDeleted, Writing, Waiting, Written
  <2>7. QED
    BY <2>3, <2>4, <2>6
<1>4. CASE GameWrites
  <2> USE <1>4
  <2>1. /\ memory' = [by |-> game, at |-> writes + 1] /\ writes' = writes + 1
        /\ writes < MaxWrites /\ backup_update_count' = WRITE_BACKUP_DELAY
        /\ game # NoGame /\ leaving = "no" /\ write = None
        /\ UNCHANGED <<game, leaving, write, file, now, missed>>
    BY DEF GameWrites, Playing, session
  <2>2. typed' \in BOOLEAN /\ backup_deleted' = FALSE /\ backup_deleted' \in BOOLEAN
        /\ nspire_compress_saves' \in BOOLEAN /\ update_backup_flag' \in BOOLEAN
    BY Zenon DEF GameWrites, TypeOK, settings
  <2>3. game \in Games /\ writes + 1 \in 1 .. MaxWrites
    BY <2>1, BoundsAssumption DEF TypeOK
  <2>4. WRITE_BACKUP_DELAY \in 1 .. Idle /\ WRITE_BACKUP_DELAY # Idle
    BY BoundsAssumption DEF Idle
  <2>5. memory' \in Contents /\ memory'.by = game
    BY <2>1, <2>3 DEF Contents
  <2>6. TypeOK'
    BY <2>1, <2>2, <2>3, <2>4, <2>5 DEF TypeOK
  <2>7. SavesAreTheGames'
    BY <2>1, SavesStay
  <2>8. OpenGame' /\ DeletedStaysDeleted' /\ Writing' /\ Waiting' /\ Written'
    BY <2>1, <2>2, <2>4, <2>5 DEF OpenGame, DeletedStaysDeleted, Writing, Waiting, Written
  <2>9. QED
    BY <2>6, <2>7, <2>8
<1>5. CASE Frame
  <2> USE <1>5
  <2>1. /\ game # NoGame /\ leaving = "no" /\ write = None /\ backup_update_count # Idle
        /\ UNCHANGED <<game, leaving, memory, writes>>
    BY DEF Frame, Playing, session
  <2>2. backup_deleted' = backup_deleted /\ typed' \in BOOLEAN /\ backup_deleted' \in BOOLEAN
        /\ nspire_compress_saves' \in BOOLEAN /\ update_backup_flag' \in BOOLEAN
    BY Zenon DEF Frame, TypeOK, settings
  <2>3. ~backup_deleted
    BY <2>1 DEF Waiting
  <2>4. CASE StartWriting(Form) /\ backup_update_count' = Idle
    <3>1. game \in Games /\ Form \in Forms
      BY <2>1 DEF TypeOK, Form, Forms
    <3>2. TypeOK'
      BY <2>1, <2>2, <2>4, <3>1, StartKeeps, BoundsAssumption DEF TypeOK, Idle
    <3>3. SavesAreTheGames' /\ DeletedStaysDeleted' /\ Writing'
      BY <2>1, <2>2, <2>3, <2>4, <3>1, StartStep
    <3>4. OpenGame' /\ Waiting' /\ Written'
      BY <2>1, <2>4, <3>1, StartKeeps DEF OpenGame, Waiting, Written
    <3>5. QED
      BY <3>2, <3>3, <3>4
  <2>5. CASE /\ backup_update_count # 1 /\ backup_update_count' = backup_update_count - 1
             /\ UNCHANGED <<now, file, write, missed>>
    <3>1. backup_update_count' \in 1 .. Idle /\ backup_update_count' # Idle
      BY <2>5, BoundsAssumption DEF TypeOK, Idle
    <3>2. TypeOK'
      BY <2>1, <2>2, <2>5, <3>1 DEF TypeOK
    <3>3. SavesAreTheGames'
      BY <2>5, SavesStay
    <3>4. OpenGame' /\ DeletedStaysDeleted' /\ Writing' /\ Waiting' /\ Written'
      BY <2>1, <2>2, <2>3, <2>5, <3>1
         DEF OpenGame, DeletedStaysDeleted, Writing, Waiting, Written
    <3>5. QED
      BY <3>2, <3>3, <3>4
  <2>6. QED
    BY <2>4, <2>5, Zenon DEF Frame
<1>6. CASE LoadState
  <2>1. TypeOK'
    <3>1. UNCHANGED <<game, leaving, memory, backup_update_count, write, file, now, writes,
                      missed>>
      BY <1>6 DEF LoadState, session
    <3>2. typed' \in BOOLEAN /\ backup_deleted' \in BOOLEAN
          /\ nspire_compress_saves' \in BOOLEAN /\ update_backup_flag' \in BOOLEAN
      BY <1>6, Zenon DEF LoadState, TypeOK, settings
    <3>3. QED
      BY <3>1, <3>2 DEF TypeOK
  <2>2. UNCHANGED <<game, leaving, memory, backup_update_count, backup_deleted, write, file,
                    missed>>
    BY <1>6, Zenon DEF LoadState, session
  <2>3. QED
    BY <2>1, <2>2, SavesStay
       DEF OpenGame, DeletedStaysDeleted, Writing, Waiting, Written, Loads, Newer, Held
<1>7. CASE ChangeSettings
  <2>1. UNCHANGED <<game, leaving, memory, typed, backup_update_count, backup_deleted, write, file,
                    now, writes, missed>>
    BY <1>7, Zenon DEF ChangeSettings, session
  <2>2. typed' \in BOOLEAN /\ backup_deleted' \in BOOLEAN
        /\ nspire_compress_saves' \in BOOLEAN /\ update_backup_flag' \in BOOLEAN
    BY <1>7, <2>1, Zenon DEF ChangeSettings, TypeOK
  <2>3. TypeOK'
    BY <2>1, <2>2 DEF TypeOK
  <2>4. QED
    BY <2>1, <2>3, SavesStay
       DEF OpenGame, DeletedStaysDeleted, Writing, Waiting, Written, Loads, Newer, Held
<1>8. ASSUME NEW form \in Forms, SetCompressed(form) PROVE IInv'
  <2> USE <1>8
  <2>1. /\ game # NoGame /\ leaving = "no" /\ write = None /\ StartWriting(form)
        /\ UNCHANGED <<game, leaving, memory, writes, backup_update_count>>
        /\ \E f \in Forms : file[game][f] # None
    BY DEF SetCompressed, Playing, session
  <2>2. backup_deleted' = backup_deleted /\ typed' \in BOOLEAN /\ backup_deleted' \in BOOLEAN
        /\ nspire_compress_saves' \in BOOLEAN /\ update_backup_flag' \in BOOLEAN
    BY Zenon DEF SetCompressed, TypeOK, settings
  <2>3. ~backup_deleted /\ game \in Games
    BY <2>1 DEF DeletedStaysDeleted, TypeOK
  <2>4. TypeOK'
    BY <2>1, <2>2, <2>3, StartKeeps DEF TypeOK
  <2>5. SavesAreTheGames' /\ DeletedStaysDeleted' /\ Writing'
    BY <2>1, <2>2, <2>3, StartStep
  <2>6. OpenGame' /\ Waiting' /\ Written'
    BY <2>1, <2>2, <2>3, StartKeeps DEF OpenGame, Waiting, Written
  <2>7. QED
    BY <2>4, <2>5, <2>6
<1>9. CASE Delete
  <2> USE <1>9
  <2>1. /\ game # NoGame /\ leaving = "no" /\ write = None /\ backup_update_count' = Idle
        /\ UNCHANGED <<game, leaving, memory, writes, write, now, missed>>
        /\ file' = [file EXCEPT ![game] = [f \in Forms |-> None]]
    BY DEF Delete, Playing, session
  <2>2. backup_deleted' = TRUE /\ typed' \in BOOLEAN
        /\ nspire_compress_saves' \in BOOLEAN /\ update_backup_flag' \in BOOLEAN
    BY Zenon DEF Delete, TypeOK, settings
  <2>3. game \in Games /\ [f \in Forms |-> None] \in Files
    BY <2>1 DEF TypeOK, Files
  <2>4. TypeOK'
    BY <2>1, <2>2, <2>3, BoundsAssumption DEF TypeOK, Idle
  <2>5. \A f \in Forms : file'[game][f] = None
    BY <2>1, <2>3 DEF TypeOK
  <2>6. \A g \in Games \ {game} : file'[g] = file[g]
    BY <2>1 DEF TypeOK
  <2>7. SavesAreTheGames'
    BY <2>5, <2>6, SavesStay
  <2>8. OpenGame' /\ DeletedStaysDeleted' /\ Writing' /\ Waiting' /\ Written'
    BY <2>1, <2>2, <2>5 DEF OpenGame, DeletedStaysDeleted, Writing, Waiting, Written
  <2>9. QED
    BY <2>4, <2>7, <2>8
<1>10. CASE Leave \/ Quit
  <2>1. game # NoGame /\ write = None
    BY <1>10 DEF Leave, Quit, Playing, OpenGame
  <2>2. UpdateForce /\ leaving' \in {"close", "quit", "exit"}
        /\ UNCHANGED <<game, memory, typed, backup_deleted, settings, writes>>
    BY <1>10, Zenon DEF Leave, Quit
  <2>3. QED
    BY <2>1, <2>2, ForceStep
<1>11. CASE Left \/ PowerLoss
  <2>1. /\ game' = NoGame /\ leaving' = "no" /\ write' = None /\ memory' \in {memory, Blank}
        /\ now' \in {now, 0} /\ UNCHANGED <<backup_update_count, file, writes, missed>>
    BY <1>11 DEF Left, PowerLoss
  <2>2. typed' \in BOOLEAN /\ backup_deleted' \in BOOLEAN
        /\ nspire_compress_saves' \in BOOLEAN /\ update_backup_flag' \in BOOLEAN
    BY <1>11, Zenon DEF Left, PowerLoss, TypeOK, settings
  <2>3. TypeOK'
    BY <2>1, <2>2, BoundsAssumption DEF TypeOK, Contents
  <2>4. SavesAreTheGames'
    BY <2>1, SavesStay
  <2>5. QED
    BY <2>1, <2>3, <2>4 DEF OpenGame, DeletedStaysDeleted, Writing, Waiting, Written
<1>12. CASE UNCHANGED vars
  <2>1. UNCHANGED <<game, leaving, memory, typed, backup_update_count, backup_deleted, write,
                    file, now, writes, missed, nspire_compress_saves, update_backup_flag>>
    BY <1>12, Zenon DEF vars, session, settings
  <2>2. QED
    BY <2>1, SavesStay
       DEF TypeOK, OpenGame, DeletedStaysDeleted, Writing, Waiting, Written, Loads, Newer, Held
<1>13. QED
  BY <1>1, <1>2, <1>3, <1>4, <1>5, <1>6, <1>7, <1>8, <1>9, <1>10, <1>11, <1>12 DEF Next

LEMMA Invariance == Spec => []IInv
BY InitInv, InvStep, PTL DEF Spec

(* Every variable has its type.                                            *)
THEOREM TypeCorrect == Spec => []TypeOK
<1>1. IInv => TypeOK
  BY DEF IInv
<1>2. QED
  BY <1>1, Invariance, PTL

(* No game's file ever holds what another game wrote.                      *)
THEOREM OwnSaves == Spec => []SavesAreTheGames
<1>1. IInv => SavesAreTheGames
  BY DEF IInv
<1>2. QED
  BY <1>1, Invariance, PTL

(* A deleted save stays deleted until the game saves.                      *)
THEOREM DeletedGone == Spec => []DeletedStaysDeleted
<1>1. IInv => DeletedStaysDeleted
  BY DEF IInv
<1>2. QED
  BY <1>1, Invariance, PTL

(* When the count has run out, the files hold what is in memory.           *)
THEOREM AllWritten == Spec => []NoWriteIsForgotten
<1>1. IInv => NoWriteIsForgotten
  BY DEF IInv, Written, NoWriteIsForgotten, Playing
<1>2. QED
  BY <1>1, Invariance, PTL

(* A game that is left has its save, if it could be written.               *)
THEOREM LeavingSaves == Spec => LeavingSavesTheGame
<1>1. IInv /\ [Next]_vars
      => [Left => backup_deleted \/ missed # "no" \/ Loads(game) = memory]_vars
  BY DEF IInv, Left, OpenGame, Waiting, Written
<1>2. QED
  BY <1>1, Invariance, PTL DEF Spec, LeavingSavesTheGame

(* Wherever the power goes while a save is packed, the plain one or the    *)
(* packed one is loaded at the next start.                                 *)
THEOREM PackingSafe == Spec => PackingKeepsASave
<1> DEFINE Safe ==
      \A g \in Games :
        /\ write' # None \/ write # None
        /\ (IF write # None THEN write ELSE write').form = "packed"
        /\ g = game /\ Held(g, "plain") # Blank
        => Loads(g)' # Blank \/ memory = Blank
<1>1. IInv /\ IInv' /\ [Next]_vars => [Safe]_vars
  <2> SUFFICES ASSUME IInv, IInv', Next, NEW g \in Games, g = game, Held(g, "plain") # Blank,
                      write' # None \/ write # None,
                      (IF write # None THEN write ELSE write').form = "packed",
                      memory # Blank
               PROVE  Loads(g)' # Blank
    OBVIOUS
  <2>1. /\ memory \in Contents /\ memory # Torn /\ game # NoGame /\ game \in Games
        /\ "packed" \in Forms /\ "plain" \in Forms /\ "plain" # "packed"
    BY ContentsAssumption, GamesAssumption DEF IInv, TypeOK, Forms
  <2>2. CASE write = None
    <3>1. PICK form \in Forms : StartWriting(form)
      BY <2>2, Zenon
         DEF Next, FinishWriting, RemoveOther, Start, GameWrites, Frame, LoadState,
             ChangeSettings, SetCompressed, Delete, Leave, Quit, UpdateForce, Left, PowerLoss,
             Form, Forms
    <3>2. /\ file'[g]["packed"].holds = Torn /\ file'[g]["plain"] = file[g]["plain"]
      BY <2>1, <2>2, <3>1, StartKeeps DEF IInv
    <3>3. QED
      BY <3>2 DEF Loads, Newer, Held
  <2>3. CASE write # None
    <3>1. /\ write.form = "packed" /\ file[g]["packed"] # None
          /\ write.step \in {"writing", "removing"}
          /\ file[g]["packed"].holds = IF write.step = "writing" THEN Torn ELSE memory
      BY <2>1, <2>3 DEF IInv, TypeOK, Write, Writing
    <3>2. CASE FinishWriting \/ RemoveOther
      <4>1. CASE FinishWriting /\ UNCHANGED file
        BY <2>1, <3>1, <4>1 DEF Loads, Newer, Held
      <4>2. CASE FinishWriting /\ ~UNCHANGED file
        <5> DEFINE saved == [holds |-> memory, time |-> file[g]["packed"].time]
        <5>1. file' = With("packed", saved)
          BY <3>1, <4>2 DEF FinishWriting
        <5>2. file[g]["packed"] \in File
          BY <2>1, <3>1 DEF IInv, TypeOK, Files
        <5>3. saved \in File /\ saved.holds = memory
          BY <2>1, <5>2 DEF File
        <5> HIDE DEF saved
        <5>4. file'[g]["packed"] = saved /\ file'[g]["plain"] = file[g]["plain"]
          BY <2>1, <5>1, <5>3, WithFile DEF IInv
        <5>5. QED
          BY <2>1, <5>3, <5>4 DEF Loads, Newer, Held
      <4>3. CASE RemoveOther
        <5>1. write.step = "removing" /\ file' = With("plain", None)
          BY <3>1, <4>3 DEF RemoveOther, Other
        <5>2. file'[g]["packed"] = file[g]["packed"] /\ file'[g]["plain"] = None
          BY <2>1, <5>1, WithFile DEF IInv
        <5>3. QED
          BY <2>1, <3>1, <5>1, <5>2 DEF Loads, Newer, Held
      <4>4. QED
        BY <3>2, <4>1, <4>2, <4>3
    <3>3. CASE file' = file
      BY <2>1, <3>1, <3>3 DEF Loads, Newer, Held
    <3>4. FinishWriting \/ RemoveOther \/ file' = file
      BY <2>1, <2>3, Zenon
         DEF Next, Start, GameWrites, Frame, LoadState, ChangeSettings, SetCompressed, Delete,
             Leave, Quit, Left, PowerLoss, Playing
    <3>5. QED
      BY <3>2, <3>3, <3>4
  <2>4. QED
    BY <2>2, <2>3
<1>2. QED
  BY <1>1, Invariance, PTL DEF Spec, PackingKeepsASave
-----------------------------------------------------------------------------
(***************************************************************************)
(* The chips.                                                              *)
(***************************************************************************)

(* The shapes of things.                                                   *)
Bytes == 0 .. 255
Types == {"unknown", "sram", "flash", "eeprom"}
EepromModes == {"base", "address", "writeAddress", "addressFooter", "readHeader", "read",
                "write", "writeFooter"}
Chip == [type : Types, flash_mode : {"base", "id", "erase", "write", "bankswitch"},
         position : 0 .. 2, bank : 0 .. 1, flash_bank_cnt : {"64K", "128K"},
         eeprom_size : {"b512", "b8K"}, eeprom_mode : EepromModes,
         eeprom_address : Nat, eeprom_counter : Nat]
Access == [do : {"write"}, at : Nat, value : Nat] \cup [do : {"read"}, at : Nat]
            \cup [do : {"out"}, bit : 0 .. 1] \cup [do : {"in"}]
            \cup [do : {"dma"}, units : Nat, toChip : BOOLEAN]
Operation == [what : {"nothing", "store", "program", "sector", "chip", "bank", "id", "byte",
                      "put", "get"}, at : Nat, value : Nat]
Cpu == [op : Operation, todo : Seq(Access), bank : 0 .. 1, heard : Nat]
SizeOf == [sram |-> {"b32K"}, flash64 |-> {"b32K", "b64K", "b128K"},
           flash128 |-> {"b32K", "b64K", "b128K"}, eeprom512 |-> {"b512"},
           eeprom8K |-> {"b512", "b8K"}]
TypeOf == [sram |-> {"unknown", "sram"}, flash64 |-> {"unknown", "sram", "flash"},
           flash128 |-> {"unknown", "sram", "flash"}, eeprom512 |-> {"unknown", "eeprom"},
           eeprom8K |-> {"unknown", "eeprom"}]
Saves(size) == [size : {size}, cells : [0 .. CellsOf[size] - 1 -> Nat]]

(* How far an operation is.                                                *)
Made(c) == Len(Accesses(c.op)) - Len(c.todo)
IsTheRest(c) ==
  /\ c.op \in Ops
  /\ Len(c.todo) <= Len(Accesses(c.op))
  /\ \A j \in 1 .. Len(c.todo) : c.todo[j] = Accesses(c.op)[Made(c) + j]
InBits(c) == c.todo # <<>> /\ Head(c.todo).do \in {"out", "in"}

AtRest(h) ==
  /\ h.flash_mode = "base" /\ h.position = 0
  /\ h.eeprom_mode = "base" /\ h.eeprom_counter = 0 /\ h.eeprom_address % 8 = 0

(* A flash chip after made accesses of an operation.                       *)
ModeAfter(what) ==
  CASE what = "program" -> "write" [] what \in {"sector", "chip"} -> "erase"
    [] what = "bank" -> "bankswitch" [] what = "id" -> "id" [] OTHER -> "base"
PositionAfter(what, made) ==
  IF made < 3 THEN made
  ELSE IF what = "id" THEN (IF made < 5 THEN 0 ELSE made - 5)
  ELSE made - 3
FlashAt(what, made, h) ==
  /\ made > 0 => h.type = "flash"
  /\ h.flash_mode = IF made < 3 THEN "base" ELSE ModeAfter(what)
  /\ h.position = PositionAfter(what, made)
  /\ what = "bank" /\ made = 3 => h.flash_bank_cnt = "128K"

(* And an EEPROM.                                                          *)
OwnSize == IF kind = "eeprom512" THEN "b512" ELSE "b8K"
EepromStep(op, made, mode, counter) ==
  LET n == AddressBits
      put == op.what = "put"
  IN /\ mode = IF made < 3 THEN "base"
               ELSE IF made < n + 3 THEN (IF put THEN "writeAddress" ELSE "address")
               ELSE IF put THEN (IF made < n + 11 THEN "write" ELSE "writeFooter")
               ELSE IF made < n + 4 THEN "addressFooter"
               ELSE IF made < n + 9 THEN "readHeader" ELSE "read"
     /\ counter = IF made < 2 THEN 0
                  ELSE IF made = 2 THEN 1
                  ELSE IF made < n + 3 THEN made - 3
                  ELSE IF put THEN (IF made < n + 11 THEN made - n - 3 ELSE 0)
                  ELSE IF made < n + 5 THEN 0
                  ELSE IF made < n + 9 THEN made - n - 5 ELSE made - n - 9
EepromAt(op, made, h) ==
  LET n == AddressBits IN
  /\ made > 0 => h.eeprom_size = OwnSize
  /\ made > 1 => h.type = "eeprom"
  /\ EepromStep(op, made, h.eeprom_mode, h.eeprom_counter)
  /\ made \in {0, 1} => h.eeprom_address % 8 = 0
  /\ made = 2 => h.eeprom_address % 4 = 2
  /\ made \in 3 .. n + 2 => h.eeprom_address = op.at \div 2 ^ (n - (made - 3))
  /\ made >= n + 3 => h.eeprom_address = 8 * op.at

(* Where the chip is for where the game is.                                *)
Fits(c, h) ==
  /\ c \in Cpu /\ h \in Chip
  /\ h.type \in TypeOf[kind]
  /\ h.bank = c.bank
  /\ h.bank = 1 => h.type = "flash" /\ h.flash_bank_cnt = "128K"
  /\ kind = "eeprom512" => h.eeprom_size = "b512"
  /\ IF c.todo = <<>> THEN AtRest(h)
     ELSE /\ IsTheRest(c)
          /\ kind = "sram" => AtRest(h)
          /\ Flash => FlashAt(c.op.what, Made(c), h)
                      /\ h.eeprom_mode = "base" /\ h.eeprom_counter = 0 /\ h.eeprom_address % 8 = 0
          /\ Eeprom => EepromAt(c.op, Made(c), h) /\ h.flash_mode = "base" /\ h.position = 0
                       /\ (c.op.what = "get" /\ Made(c) < AddressBits + 9 => c.heard = 0)

(* What the memory holds while a byte is put into an EEPROM: its first     *)
(* bits; and what the game has heard of one.                               *)
High(v, n) == (v \div 2 ^ (8 - n)) * 2 ^ (8 - n)
Putting(c) ==
  Eeprom /\ c.todo # <<>> /\ c.op.what = "put" /\ Made(c) >= AddressBits + 3
Present(c, p) ==
  IF Putting(c) THEN [p EXCEPT ![c.op.at] = High(c.op.value, Made(c) - (AddressBits + 3))]
  ELSE p
Getting(c) ==
  Eeprom /\ c.todo # <<>> /\ c.op.what = "get" /\ Made(c) >= AddressBits + 9
HeardFits(c, p) ==
  Getting(c) => c.heard = p[c.op.at] \div 2 ^ (8 - (Made(c) - (AddressBits + 9)))
MustBeMarked(c) == Putting(c) /\ Made(c) = AddressBits + 11

TypesFit ==
  /\ kind \in Kinds /\ listed \in BOOLEAN
     /\ (listed => kind \in {"flash128", "eeprom512", "eeprom8K"})
  /\ Fits(cpu, chip)
  /\ backup_type_reset \in TypeOf[kind]
  /\ gamepak_backup \in [Cells -> Nat] /\ promise \in [Cells -> Bytes]
  /\ marked \in BOOLEAN /\ cut \in BOOLEAN /\ had \in Nat /\ ops \in Nat
  /\ save = Absent \/ \E size \in SizeOf[kind] : save \in Saves(size)
  /\ state = Absent \/ (Fits(state.cpu, state.chip) /\ ~InBits(state.cpu))

MemoryFits ==
  /\ MustBeMarked(cpu) => marked
  /\ ~cut =>
       /\ gamepak_backup = Present(cpu, promise)
       /\ \A c \in Cells : promise[c] # Erased => c < had
       /\ marked => had > 0
       /\ ~marked => Holds(save)
       /\ HeardFits(cpu, promise)

CInv == TypesFit /\ MemoryFits

-----------------------------------------------------------------------------
(* Arithmetic: halves and bits.                                            *)

LEMMA Quotient ==
  ASSUME NEW n \in Nat \ {0}, NEW a \in Nat
  PROVE  /\ a = n * (a \div n) + (a % n)
         /\ a % n \in 0 .. n - 1
         /\ a \div n \in Nat
<1>1. a = n * (a \div n) + (a % n)
  BY Z3
<1>2. a % n \in 0 .. n - 1
  OBVIOUS
<1>3. a \div n \in Int
  OBVIOUS
<1>4. a \div n >= 0
  BY Z3
<1>5. QED
  BY <1>1, <1>2, <1>3, <1>4

LEMMA OneQuotient ==
  ASSUME NEW n \in Nat \ {0}, NEW q \in Nat, NEW b \in 0 .. n - 1, NEW a \in Nat, a = n * q + b
  PROVE  a \div n = q /\ a % n = b
<1> DEFINE r == a \div n
           c == a % n
<1>1. a = n * r + c /\ c \in 0 .. n - 1 /\ r \in Nat
  BY Quotient
<1> HIDE DEF r, c
<1>2. n * (q - r) = c - b
  BY <1>1
<1>3. ASSUME q - r >= 1 PROVE FALSE
  <2>1. n * (q - r) >= n
    BY <1>1, <1>3
  <2>2. QED
    BY <1>1, <1>2, <2>1
<1>4. ASSUME q - r <= -1 PROVE FALSE
  <2>1. n * (q - r) <= -n
    BY <1>1, <1>4
  <2>2. QED
    BY <1>1, <1>2, <2>1
<1>5. q = r
  BY <1>1, <1>3, <1>4
<1>6. c = b
  BY <1>1, <1>2, <1>5
<1>7. QED
  BY <1>5, <1>6 DEF r, c

(* One more bit of a number.                                               *)
LEMMA OneMoreBit ==
  ASSUME NEW p \in Nat \ {0}, NEW a \in Nat
  PROVE  /\ a \div p = 2 * (a \div (2 * p)) + ((a \div p) % 2)
         /\ (a \div p) % 2 \in 0 .. 1
         /\ a \div (2 * p) \in Nat
<1> DEFINE q == a \div p
           r == a % p
           k == q \div 2
           e == q % 2
<1>1. a = p * q + r /\ r \in 0 .. p - 1 /\ q \in Nat
  BY Quotient
<1>2. q = 2 * k + e /\ e \in 0 .. 1 /\ k \in Nat
  BY <1>1, Quotient, 2 \in Nat \ {0}
<1> HIDE DEF q, r, k, e
<1>3. a = (2 * p) * k + (p * e + r)
  <2>1. p * q = p * (2 * k) + p * e
    BY <1>1, <1>2
  <2>2. p * (2 * k) = (2 * p) * k
    BY <1>2
  <2>3. QED
    BY <1>1, <1>2, <2>1, <2>2
<1>4. p * e + r \in 0 .. 2 * p - 1
  <2>1. e = 0 \/ e = 1
    BY <1>2
  <2>2. QED
    BY <1>1, <2>1
<1>5. a \div (2 * p) = k
  <2> DEFINE m == 2 * p
             b == p * e + r
  <2>1. m \in Nat \ {0} /\ b \in 0 .. m - 1 /\ a = m * k + b
    BY <1>3, <1>4
  <2> HIDE DEF m, b
  <2>2. a \div m = k
    BY <2>1, <1>2, OneQuotient
  <2>3. QED
    BY <2>2 DEF m
<1>6. QED
  BY <1>2, <1>5 DEF q, e

LEMMA NoBits ==
  ASSUME NEW p \in Nat \ {0}, NEW a \in 0 .. p - 1
  PROVE  a \div p = 0
<1>1. a = p * 0 + a /\ a \in Nat
  OBVIOUS
<1>2. QED
  BY <1>1, OneQuotient

LEMMA AllBits ==
  ASSUME NEW a \in Nat
  PROVE  a \div 2 ^ 0 = a
<1>1. a = 1 * a + 0 /\ 1 \in Nat \ {0} /\ 0 \in 0 .. 1 - 1
  OBVIOUS
<1>2. a \div 1 = a
  BY <1>1, OneQuotient
<1>3. QED
  BY <1>2, PowersAssumption

LEMMA Eighth ==
  ASSUME NEW a \in Nat
  PROVE  /\ (8 * a) \div 8 = a /\ (8 * a) % 8 = 0
         /\ \A b \in 0 .. 3 : (8 * a + b) % 4 = b
<1>1. 8 * a = 8 * a + 0 /\ 8 \in Nat \ {0} /\ 0 \in 0 .. 8 - 1 /\ 8 * a \in Nat
  OBVIOUS
<1>2. (8 * a) \div 8 = a /\ (8 * a) % 8 = 0
  BY <1>1, OneQuotient
<1>3. ASSUME NEW b \in 0 .. 3 PROVE (8 * a + b) % 4 = b
  <2>1. 8 * a + b = 4 * (2 * a) + b /\ 4 \in Nat \ {0} /\ b \in 0 .. 4 - 1
        /\ 2 * a \in Nat /\ 8 * a + b \in Nat
    OBVIOUS
  <2>2. QED
    BY <2>1, OneQuotient
<1>4. QED
  BY <1>2, <1>3

(* The powers of two that are used.                                        *)
LEMMA Powers ==
  /\ \A n \in 0 .. Bits8K + 8 : 2 ^ n \in Nat \ {0} /\ 2 ^ (n + 1) = 2 * 2 ^ n
  /\ \A n \in 0 .. 8 : n \in 0 .. Bits8K + 8
  /\ 2 ^ 0 = 1 /\ 2 ^ 1 = 2 /\ 2 ^ 8 = 256
<1>1. Bits8K \in Nat
  BY BitsAssumption
<1>2. \A n \in 0 .. 8 : n \in 0 .. Bits8K + 8
  BY <1>1
<1>3. /\ 2 ^ (0 + 1) = 2 * 2 ^ 0 /\ 2 ^ (1 + 1) = 2 * 2 ^ 1 /\ 2 ^ (2 + 1) = 2 * 2 ^ 2
      /\ 2 ^ (3 + 1) = 2 * 2 ^ 3 /\ 2 ^ (4 + 1) = 2 * 2 ^ 4 /\ 2 ^ (5 + 1) = 2 * 2 ^ 5
      /\ 2 ^ (6 + 1) = 2 * 2 ^ 6 /\ 2 ^ (7 + 1) = 2 * 2 ^ 7
  BY <1>2, PowersAssumption
<1>4. QED
  BY <1>2, <1>3, PowersAssumption

LEMMA Doubled ==
  ASSUME NEW p \in Nat \ {0}, NEW h \in Nat, NEW bit \in 0 .. 1
  PROVE  /\ h * (2 * p) \in Nat
         /\ ((h * (2 * p)) \div p) % 2 = 0
         /\ h * (2 * p) + bit * p = (2 * h + bit) * p
<1>1. h * (2 * p) = p * (2 * h) + 0 /\ h * (2 * p) \in Nat /\ 2 * h \in Nat /\ 0 \in 0 .. p - 1
  OBVIOUS
<1>2. (h * (2 * p)) \div p = 2 * h
  BY <1>1, OneQuotient
<1>3. (2 * h) % 2 = 0
  OBVIOUS
<1>4. h * (2 * p) + bit * p = (2 * h + bit) * p
  OBVIOUS
<1>5. QED
  BY <1>1, <1>2, <1>3, <1>4

(* What a byte's first bits are, and the next one.                         *)
LEMMA NextBit ==
  ASSUME NEW v \in Nat, NEW k \in 0 .. 7
  PROVE  LET x == High(v, k)
             p == 2 ^ (7 - k)
             bit == (v \div p) % 2
         IN /\ x \in Nat /\ p \in Nat \ {0} /\ bit \in 0 .. 1
            /\ (x \div p) % 2 = 0
            /\ x + bit * p = High(v, k + 1)
            /\ 2 * (v \div 2 ^ (8 - k)) + bit = v \div 2 ^ (8 - (k + 1))
<1> DEFINE p == 2 ^ (7 - k)
           bit == (v \div p) % 2
           h == v \div (2 * p)
<1>1. p \in Nat \ {0} /\ 2 ^ (8 - k) = 2 * p
  <2>1. 7 - k \in 0 .. 8 /\ (7 - k) + 1 = 8 - k
    OBVIOUS
  <2>2. QED
    BY <2>1, Powers
<1>2. 2 ^ (8 - (k + 1)) = p
  <2>1. 8 - (k + 1) = 7 - k
    OBVIOUS
  <2>2. QED
    BY <2>1
<1> HIDE DEF p
<1>3. v \div p = 2 * h + bit /\ bit \in 0 .. 1 /\ h \in Nat
  BY <1>1, OneMoreBit
<1>4. High(v, k) = h * (2 * p) /\ High(v, k + 1) = (v \div p) * p
  BY <1>1, <1>2 DEF High
<1> HIDE DEF bit, h
<1>9. High(v, k) \in Nat /\ (High(v, k) \div p) % 2 = 0
      /\ High(v, k) + bit * p = High(v, k + 1)
  BY <1>1, <1>3, <1>4, Doubled
<1>10. 2 * (v \div 2 ^ (8 - k)) + bit = v \div 2 ^ (8 - (k + 1))
  BY <1>1, <1>2, <1>3 DEF h
<1>11. QED
  BY <1>1, <1>3, <1>9, <1>10 DEF p, bit

LEMMA EndsOfAByte ==
  ASSUME NEW v \in Bytes
  PROVE  High(v, 0) = 0 /\ High(v, 8) = v /\ v \div 2 ^ (8 - 0) = 0 /\ v \div 2 ^ (8 - 8) = v
<1>1. v \div 256 = 0 /\ v \div 1 = v
  BY DEF Bytes
<1>2. 8 - 0 = 8 /\ 8 - 8 = 0 /\ v \in Nat
  BY DEF Bytes
<1>3. QED
  BY <1>1, <1>2, Powers DEF High

-----------------------------------------------------------------------------
(* Sequences.                                                              *)

LEMMA Joined ==
  ASSUME NEW S, NEW s \in Seq(S), NEW t \in Seq(S)
  PROVE  /\ s \o t \in Seq(S) /\ Len(s \o t) = Len(s) + Len(t)
         /\ \A i \in 1 .. Len(s) + Len(t) :
              (s \o t)[i] = IF i <= Len(s) THEN s[i] ELSE t[i - Len(s)]
OBVIOUS

IsJoined(S, s, t, u) ==
  /\ u \in Seq(S) /\ Len(u) = Len(s) + Len(t)
  /\ \A i \in 1 .. Len(s) : u[i] = s[i]
  /\ \A i \in 1 .. Len(t) : u[Len(s) + i] = t[i]

LEMMA JoinedParts ==
  ASSUME NEW S, NEW s \in Seq(S), NEW t \in Seq(S)
  PROVE  IsJoined(S, s, t, s \o t)
<1> DEFINE m == Len(s)
           n == Len(t)
<1>1. s \o t \in Seq(S) /\ Len(s \o t) = m + n /\ m \in Nat /\ n \in Nat
  BY Joined
<1>2. \A i \in 1 .. m + n : (s \o t)[i] = IF i <= m THEN s[i] ELSE t[i - m]
  BY Joined
<1> HIDE DEF m, n
<1>3. ASSUME NEW i \in 1 .. m PROVE (s \o t)[i] = s[i]
  <2>1. i \in 1 .. m + n /\ i <= m
    BY <1>1
  <2>2. QED
    BY <1>2, <2>1
<1>4. ASSUME NEW i \in 1 .. n PROVE (s \o t)[m + i] = t[i]
  <2> DEFINE j == m + i
  <2>1. j \in 1 .. m + n /\ ~(j <= m) /\ j - m = i
    BY <1>1
  <2> HIDE DEF j
  <2>2. (s \o t)[j] = t[j - m]
    BY <1>2, <2>1
  <2>3. QED
    BY <2>1, <2>2 DEF j
<1>5. QED
  BY <1>1, <1>3, <1>4 DEF m, n, IsJoined

(* Three accesses, n, and the rest in two parts, as an EEPROM has them.    *)
AreJoined(S, h, b, d, e, s) ==
  LET n == Len(b)
      k == Len(d)
      l == Len(e)
  IN /\ s \in Seq(S) /\ Len(s) = n + 3 + k + l
     /\ \A i \in 1 .. 3 : s[i] = h[i]
     /\ \A i \in 1 .. n : s[3 + i] = b[i]
     /\ \A i \in 1 .. k : s[n + 3 + i] = d[i]
     /\ \A i \in 1 .. l : s[n + 3 + k + i] = e[i]

LEMMA FourJoined ==
  ASSUME NEW S, NEW h \in Seq(S), NEW b \in Seq(S), NEW d \in Seq(S), NEW e \in Seq(S),
         Len(h) = 3
  PROVE  AreJoined(S, h, b, d, e, ((h \o b) \o d) \o e)
<1> DEFINE hb == h \o b
           hbd == hb \o d
           s == hbd \o e
           n == Len(b)
           k == Len(d)
           l == Len(e)
<1>1. IsJoined(S, h, b, hb)
  BY JoinedParts
<1> HIDE DEF hb
<1>2. IsJoined(S, hb, d, hbd)
  <2>1. hb \in Seq(S)
    BY <1>1 DEF IsJoined
  <2>2. QED
    BY <2>1, JoinedParts
<1> HIDE DEF hbd
<1>3. IsJoined(S, hbd, e, s)
  <2>1. hbd \in Seq(S)
    BY <1>2 DEF IsJoined
  <2>2. QED
    BY <2>1, JoinedParts
<1> HIDE DEF s
<1>4. /\ n \in Nat /\ k \in Nat /\ l \in Nat
      /\ Len(hb) = n + 3 /\ Len(hbd) = n + 3 + k /\ Len(s) = n + 3 + k + l
  <2>1. n \in Nat /\ k \in Nat /\ l \in Nat
    OBVIOUS
  <2>2. QED
    BY <1>1, <1>2, <1>3, <2>1 DEF IsJoined
<1> HIDE DEF n, k, l
<1>5. \A i \in 1 .. 3 : s[i] = h[i]
  <2>1. \A i \in 1 .. 3 : i \in 1 .. Len(h) /\ i \in 1 .. Len(hb) /\ i \in 1 .. Len(hbd)
    BY <1>4
  <2>2. QED
    BY <1>1, <1>2, <1>3, <2>1 DEF IsJoined
<1>6. ASSUME NEW i \in 1 .. n PROVE s[3 + i] = b[i]
  <2>0. i \in 1 .. Len(b) /\ 3 + i = Len(h) + i
    BY <1>4 DEF n
  <2>1. 3 + i \in 1 .. Len(hb) /\ 3 + i \in 1 .. Len(hbd)
    BY <1>4
  <2>2. s[3 + i] = hbd[3 + i] /\ hbd[3 + i] = hb[3 + i] /\ hb[3 + i] = b[i]
    BY <1>1, <1>2, <1>3, <2>0, <2>1 DEF IsJoined
  <2>3. QED
    BY <2>2
<1>7. ASSUME NEW i \in 1 .. k PROVE s[n + 3 + i] = d[i]
  <2>0. i \in 1 .. Len(d)
    BY DEF k
  <2>1. n + 3 + i \in 1 .. Len(hbd) /\ n + 3 + i = Len(hb) + i
    BY <1>4
  <2>2. s[n + 3 + i] = hbd[n + 3 + i] /\ hbd[n + 3 + i] = d[i]
    BY <1>2, <1>3, <2>0, <2>1 DEF IsJoined
  <2>3. QED
    BY <2>2
<1>8. ASSUME NEW i \in 1 .. l PROVE s[n + 3 + k + i] = e[i]
  <2>1. n + 3 + k + i = Len(hbd) + i /\ i \in 1 .. Len(e)
    BY <1>4 DEF l
  <2>2. QED
    BY <1>3, <2>1 DEF IsJoined
<1>9. /\ s \in Seq(S) /\ Len(s) = n + 3 + k + l
      /\ (\A i \in 1 .. 3 : s[i] = h[i])
      /\ (\A i \in 1 .. n : s[3 + i] = b[i])
      /\ (\A i \in 1 .. k : s[n + 3 + i] = d[i])
      /\ \A i \in 1 .. l : s[n + 3 + k + i] = e[i]
  BY <1>3, <1>4, <1>5, <1>6, <1>7, <1>8 DEF IsJoined
<1>10. QED
  BY <1>9 DEF AreJoined, s, hbd, hb, n, k, l

LEMMA Appended ==
  ASSUME NEW S, NEW s \in Seq(S), NEW e \in S
  PROVE  /\ Append(s, e) \in Seq(S) /\ Len(Append(s, e)) = Len(s) + 1
         /\ \A i \in 1 .. Len(s) + 1 : Append(s, e)[i] = IF i <= Len(s) THEN s[i] ELSE e
OBVIOUS

LEMMA TailOf ==
  ASSUME NEW S, NEW s \in Seq(S), s # <<>>
  PROVE  /\ Tail(s) \in Seq(S) /\ Len(s) \in Nat \ {0} /\ Len(Tail(s)) = Len(s) - 1
         /\ Head(s) = s[1] /\ s[1] \in S
         /\ \A j \in 1 .. Len(s) - 1 : Tail(s)[j] = s[j + 1]
         /\ (Tail(s) = <<>>) <=> (Len(s) = 1)
<1>1. Len(s) \in Nat \ {0}
  OBVIOUS
<1>2. Tail(s) \in Seq(S) /\ Len(Tail(s)) = Len(s) - 1
      /\ \A j \in 1 .. Len(s) - 1 : Tail(s)[j] = s[j + 1]
  OBVIOUS
<1>3. Head(s) = s[1] /\ s[1] \in S
  OBVIOUS
<1>4. Tail(s) = <<>> <=> Len(Tail(s)) = 0
  <2>1. \A t \in Seq(S) : t = <<>> <=> Len(t) = 0
    OBVIOUS
  <2>2. QED
    BY <1>2, <2>1, Zenon
<1>5. Len(s) - 1 = 0 <=> Len(s) = 1
  BY <1>1
<1>6. QED
  BY <1>1, <1>2, <1>3, <1>4, <1>5

(* The constants.                                                          *)
LEMMA Constants ==
  /\ BankSize \in Nat \ {0} /\ SectorSize \in Nat \ {0}
  /\ Cmd1 \in Nat \ {0} /\ Cmd2 \in Nat \ {0} /\ Cmd1 # Cmd2 /\ Cmd1 < BankSize
  /\ Cmd1 % SectorSize # 0 /\ BankSize % SectorSize = 0
  /\ Bits512 \in Nat \ {0} /\ Bits8K \in Nat \ {0} /\ Bits512 < Bits8K
  /\ Data \subseteq Bytes /\ Addresses \subseteq 0 .. BankSize - 1
BY AddressesAssumption, BitsAssumption, DataAssumption DEF Bytes

LEMMA AddressBitsAre ==
  /\ AddressBits \in Nat \ {0} /\ AddressBits <= Bits8K
  /\ \A n \in 0 .. AddressBits : 2 ^ n \in Nat \ {0}
  /\ 2 ^ AddressBits <= 2 * BankSize
  /\ 2 ^ AddressBits \in Nat \ {0}
<1>1. AddressBits \in Nat \ {0} /\ AddressBits <= Bits8K
  BY Constants DEF AddressBits
<1>2. 2 ^ Bits512 \in Nat \ {0} /\ 2 ^ Bits8K \in Nat \ {0}
  <2>1. Bits512 \in 0 .. Bits8K + 8 /\ Bits8K \in 0 .. Bits8K + 8
    BY Constants
  <2>2. QED
    BY <2>1, Powers
<1>3. 2 ^ AddressBits <= 2 * BankSize /\ 2 ^ AddressBits \in Nat \ {0}
  BY <1>2, Constants, BitsAssumption, PowersAssumption DEF AddressBits
<1>4. ASSUME NEW n \in 0 .. AddressBits PROVE 2 ^ n \in Nat \ {0}
  <2>1. n \in 0 .. Bits8K + 8
    BY <1>1, Constants
  <2>2. QED
    BY <2>1, Powers
<1>5. QED
  BY <1>1, <1>3, <1>4

(* What a size stands for.                                                 *)
LEMMA SizesAre ==
  /\ DOMAIN CellsOf = {"none", "b512", "b8K", "b32K", "b64K", "b128K"}
  /\ CellsOf["none"] = 0
  /\ CellsOf["b512"] = 2 ^ Bits512 /\ CellsOf["b8K"] = 2 ^ Bits8K
  /\ CellsOf["b32K"] = BankSize /\ CellsOf["b64K"] = BankSize /\ CellsOf["b128K"] = 2 * BankSize
  /\ \A s \in DOMAIN CellsOf : CellsOf[s] \in Nat
  /\ \A s \in DOMAIN CellsOf \ {"none"} : CellsOf[s] > 0 /\ CellsOf[s] <= 2 * BankSize
<1>1. 2 ^ Bits512 \in Nat \ {0} /\ 2 ^ Bits8K \in Nat \ {0}
  <2>1. Bits512 \in 0 .. Bits8K + 8 /\ Bits8K \in 0 .. Bits8K + 8
    BY Constants
  <2>2. QED
    BY <2>1, Powers
<1>2. 2 ^ Bits512 <= 2 * BankSize /\ 2 ^ Bits8K <= 2 * BankSize
  BY <1>1, Constants, BitsAssumption, PowersAssumption
<1>3. /\ DOMAIN CellsOf = {"none", "b512", "b8K", "b32K", "b64K", "b128K"}
      /\ CellsOf["none"] = 0
      /\ CellsOf["b512"] = 2 ^ Bits512 /\ CellsOf["b8K"] = 2 ^ Bits8K
      /\ CellsOf["b32K"] = BankSize /\ CellsOf["b64K"] = BankSize /\ CellsOf["b128K"] = 2 * BankSize
  BY DEF CellsOf
<1>4. QED
  BY <1>1, <1>2, <1>3, Constants

-----------------------------------------------------------------------------
(* The game's operations, and their accesses.                              *)

LEMMA OpsAre ==
  ASSUME kind \in Kinds, NEW op \in Ops
  PROVE  /\ op = Op(op.what, op.at, op.value) /\ op \in Operation
         /\ op.what # "nothing" /\ op.at \in Nat /\ op.value \in Nat
         /\ kind = "sram" =>
              \/ op.what = "store" /\ op.at \in Addresses /\ op.value \in Data
                 /\ ~ (op.at = Cmd1 /\ op.value = 170)
              \/ op.what = "byte" /\ op.at \in Addresses
         /\ Flash =>
              \/ op.what = "program" /\ op.at \in Addresses /\ op.value \in Data
              \/ op.what = "byte" /\ op.at \in Addresses
              \/ op.what = "sector" /\ op.at \in 0 .. BankSize - 1 /\ op.at % SectorSize = 0
              \/ op.what \in {"chip", "id"}
              \/ op.what = "bank" /\ op.at \in 0 .. 1
         /\ Eeprom =>
              /\ op.what \in {"put", "get"} /\ op.at \in Addresses
              /\ op.at \in 0 .. 2 ^ AddressBits - 1
              /\ op.what = "put" => op.value \in Data
<1>1. CASE kind = "sram"
  <2>0. Ops = ({Op("store", a, v) : a \in Addresses, v \in Data} \ {Op("store", Cmd1, 170)})
                \cup {Op("byte", a, 0) : a \in Addresses}
    BY <1>1 DEF Ops, Flash, Eeprom
  <2>1. \/ \E a \in Addresses, v \in Data : op = Op("store", a, v) /\ op # Op("store", Cmd1, 170)
        \/ \E a \in Addresses : op = Op("byte", a, 0)
    BY <2>0
  <2>2. CASE \E a \in Addresses, v \in Data : op = Op("store", a, v) /\ op # Op("store", Cmd1, 170)
    BY <1>1, <2>2, Constants DEF Op, Operation, Flash, Eeprom, Bytes
  <2>3. CASE \E a \in Addresses : op = Op("byte", a, 0)
    BY <1>1, <2>3, Constants DEF Op, Operation, Flash, Eeprom, Bytes
  <2>4. QED
    BY <2>1, <2>2, <2>3
<1>2. CASE Flash
  <2>1. kind # "sram" /\ ~Eeprom
    BY <1>2 DEF Flash, Eeprom
  <2>2. \/ \E a \in Addresses, v \in Data : op = Op("program", a, v)
        \/ \E a \in Addresses : op = Op("byte", a, 0)
        \/ \E a \in 0 .. BankSize - 1 : a % SectorSize = 0 /\ op = Op("sector", a, 0)
        \/ op = Op("chip", 0, 0) \/ op = Op("id", 0, 0)
        \/ \E b \in 0 .. 1 : op = Op("bank", b, 0)
    BY <1>2, <2>1 DEF Ops
  <2>3. CASE \E a \in Addresses, v \in Data : op = Op("program", a, v)
    BY <2>1, <2>3, Constants DEF Op, Operation, Bytes
  <2>4. CASE \E a \in Addresses : op = Op("byte", a, 0)
    BY <2>1, <2>4, Constants DEF Op, Operation, Bytes
  <2>5. CASE \E a \in 0 .. BankSize - 1 : a % SectorSize = 0 /\ op = Op("sector", a, 0)
    BY <2>1, <2>5, Constants DEF Op, Operation
  <2>6. CASE op = Op("chip", 0, 0) \/ op = Op("id", 0, 0)
    BY <2>1, <2>6 DEF Op, Operation
  <2>7. CASE \E b \in 0 .. 1 : op = Op("bank", b, 0)
    BY <2>1, <2>7 DEF Op, Operation
  <2>8. QED
    BY <2>2, <2>3, <2>4, <2>5, <2>6, <2>7
<1>3. CASE Eeprom
  <2>1. kind # "sram" /\ ~Flash
    BY <1>3 DEF Flash, Eeprom
  <2>2. \/ \E a \in Addresses \cap 0 .. 2 ^ AddressBits - 1, v \in Data : op = Op("put", a, v)
        \/ \E a \in Addresses \cap 0 .. 2 ^ AddressBits - 1 : op = Op("get", a, 0)
    BY <1>3, <2>1 DEF Ops
  <2>3. CASE \E a \in Addresses \cap 0 .. 2 ^ AddressBits - 1, v \in Data : op = Op("put", a, v)
    BY <2>1, <2>3, Constants DEF Op, Operation, Bytes
  <2>4. CASE \E a \in Addresses \cap 0 .. 2 ^ AddressBits - 1 : op = Op("get", a, 0)
    BY <2>1, <2>4, Constants DEF Op, Operation, Bytes
  <2>5. QED
    BY <2>2, <2>3, <2>4
<1>4. QED
  BY <1>1, <1>2, <1>3 DEF Kinds, Flash, Eeprom

LEMMA AccessTypes ==
  /\ \A a, v \in Nat : W(a, v) \in Access
  /\ \A a \in Nat : R(a) \in Access
  /\ \A b \in 0 .. 1 : Bit(b) \in Access
  /\ In \in Access
  /\ \A u \in Nat, t \in BOOLEAN : Dma(u, t) \in Access
BY DEF Access, W, R, Bit, In, Dma

LEMMA CommandIs ==
  ASSUME NEW v \in Nat
  PROVE  /\ Command(v) \in Seq(Access) /\ Len(Command(v)) = 3
         /\ Command(v)[1] = W(Cmd1, 170) /\ Command(v)[2] = W(Cmd2, 85)
         /\ Command(v)[3] = W(Cmd1, v)
<1>1. W(Cmd1, 170) \in Access /\ W(Cmd2, 85) \in Access /\ W(Cmd1, v) \in Access
  BY Constants, AccessTypes
<1>2. /\ Unlock \in Seq(Access) /\ Len(Unlock) = 2
      /\ Unlock[1] = W(Cmd1, 170) /\ Unlock[2] = W(Cmd2, 85)
  BY <1>1 DEF Unlock
<1> DEFINE u == Unlock
           e == W(Cmd1, v)
<1>3. u \in Seq(Access) /\ e \in Access
  BY <1>1, <1>2
<1>4. Len(u) = 2 /\ u[1] = W(Cmd1, 170) /\ u[2] = W(Cmd2, 85)
  BY <1>2
<1> HIDE DEF u, e
<1>5. /\ Append(u, e) \in Seq(Access) /\ Len(Append(u, e)) = Len(u) + 1
      /\ \A i \in 1 .. Len(u) + 1 : Append(u, e)[i] = IF i <= Len(u) THEN u[i] ELSE e
  BY <1>3, Appended
<1>6. /\ Append(u, e) \in Seq(Access) /\ Len(Append(u, e)) = 3
      /\ Append(u, e)[1] = W(Cmd1, 170) /\ Append(u, e)[2] = W(Cmd2, 85) /\ Append(u, e)[3] = e
  BY <1>4, <1>5
<1>7. QED
  BY <1>6 DEF Command, u, e

LEMMA UnlockIs ==
  /\ Unlock \in Seq(Access) /\ Len(Unlock) = 2
  /\ Unlock[1] = W(Cmd1, 170) /\ Unlock[2] = W(Cmd2, 85)
<1>1. W(Cmd1, 170) \in Access /\ W(Cmd2, 85) \in Access
  BY Constants, AccessTypes
<1>2. QED
  BY <1>1 DEF Unlock

LEMMA One ==
  ASSUME NEW S, NEW e \in S
  PROVE  <<e>> \in Seq(S) /\ Len(<<e>>) = 1 /\ <<e>>[1] = e
OBVIOUS

LEMMA CommandThen ==
  ASSUME NEW v \in Nat, NEW e \in Access
  PROVE  LET s == Command(v) \o <<e>>
         IN /\ s \in Seq(Access) /\ Len(s) = 4
            /\ s[1] = W(Cmd1, 170) /\ s[2] = W(Cmd2, 85) /\ s[3] = W(Cmd1, v) /\ s[4] = e
<1> DEFINE c == Command(v)
           t == <<e>>
<1>1. /\ c \in Seq(Access) /\ Len(c) = 3
      /\ c[1] = W(Cmd1, 170) /\ c[2] = W(Cmd2, 85) /\ c[3] = W(Cmd1, v)
  BY CommandIs
<1>2. t \in Seq(Access) /\ Len(t) = 1 /\ t[1] = e
  BY One
<1> HIDE DEF c, t
<1>3s. c \in Seq(Access) /\ t \in Seq(Access)
  BY <1>1, <1>2
<1>3. /\ c \o t \in Seq(Access) /\ Len(c \o t) = Len(c) + Len(t)
      /\ \A i \in 1 .. Len(c) + Len(t) :
           (c \o t)[i] = IF i <= Len(c) THEN c[i] ELSE t[i - Len(c)]
  BY <1>3s, Joined
<1>4. (c \o t)[1] = c[1] /\ (c \o t)[2] = c[2] /\ (c \o t)[3] = c[3] /\ (c \o t)[4] = t[1]
      /\ Len(c \o t) = 4
  BY <1>1, <1>2, <1>3
<1>5. QED
  BY <1>1, <1>2, <1>3, <1>4 DEF c, t

(* The accesses of the operations of a flash chip.                         *)
FlashAccesses(op, s) ==
  /\ s \in Seq(Access)
  /\ op.what = "byte" => Len(s) = 1 /\ s[1] = R(op.at)
  /\ op.what # "byte" => Len(s) >= 4 /\ s[1] = W(Cmd1, 170) /\ s[2] = W(Cmd2, 85)
  /\ op.what = "program" => Len(s) = 4 /\ s[3] = W(Cmd1, 160) /\ s[4] = W(op.at, op.value)
  /\ op.what = "bank" => Len(s) = 4 /\ s[3] = W(Cmd1, 176) /\ s[4] = W(0, op.at)
  /\ op.what = "sector" => Len(s) = 6 /\ s[3] = W(Cmd1, 128) /\ s[4] = W(Cmd1, 170)
                           /\ s[5] = W(Cmd2, 85) /\ s[6] = W(op.at, 48)
  /\ op.what = "chip" => Len(s) = 6 /\ s[3] = W(Cmd1, 128) /\ s[4] = W(Cmd1, 170)
                         /\ s[5] = W(Cmd2, 85) /\ s[6] = W(Cmd1, 16)
  /\ op.what = "id" => Len(s) = 8 /\ s[3] = W(Cmd1, 144) /\ s[4] = R(0) /\ s[5] = R(1)
                       /\ s[6] = W(Cmd1, 170) /\ s[7] = W(Cmd2, 85) /\ s[8] = W(Cmd1, 240)

LEMMA AccessesOfFlash ==
  ASSUME kind \in Kinds, Flash, NEW op \in Ops
  PROVE  FlashAccesses(op, Accesses(op))
<1>0. /\ op.at \in Nat /\ op.value \in Nat
      /\ op.what \in {"program", "byte", "sector", "chip", "id", "bank"}
  BY OpsAre
<1>1. CASE op.what = "byte"
  <2>1. Accesses(op) = <<R(op.at)>> /\ R(op.at) \in Access
    BY <1>0, <1>1, AccessTypes DEF Accesses
  <2>2. QED
    BY <1>1, <2>1, One DEF FlashAccesses
<1>2. CASE op.what = "program"
  <2>1. Accesses(op) = Command(160) \o <<W(op.at, op.value)>> /\ W(op.at, op.value) \in Access
    BY <1>0, <1>2, AccessTypes DEF Accesses
  <2>2. QED
    BY <1>2, <2>1, CommandThen, 160 \in Nat DEF FlashAccesses
<1>3. CASE op.what = "bank"
  <2>1. Accesses(op) = Command(176) \o <<W(0, op.at)>> /\ W(0, op.at) \in Access
    BY <1>0, <1>3, AccessTypes DEF Accesses
  <2>2. QED
    BY <1>3, <2>1, CommandThen, 176 \in Nat DEF FlashAccesses
<1>4. CASE op.what = "sector"
  <2> DEFINE c == Command(128)
             u == c \o Unlock
             t == <<W(op.at, 48)>>
  <2>1. Accesses(op) = u \o t /\ W(op.at, 48) \in Access
    BY <1>0, <1>4, AccessTypes DEF Accesses
  <2>2. t \in Seq(Access) /\ Len(t) = 1 /\ t[1] = W(op.at, 48)
    BY <2>1, One
  <2>3. /\ c \in Seq(Access) /\ Len(c) = 3
        /\ c[1] = W(Cmd1, 170) /\ c[2] = W(Cmd2, 85) /\ c[3] = W(Cmd1, 128)
    BY CommandIs
  <2> HIDE DEF c, t
  <2>4s. c \in Seq(Access) /\ Unlock \in Seq(Access)
    BY <2>3, UnlockIs
  <2>4. /\ u \in Seq(Access) /\ Len(u) = Len(c) + Len(Unlock)
        /\ \A i \in 1 .. Len(c) + Len(Unlock) :
             u[i] = IF i <= Len(c) THEN c[i] ELSE Unlock[i - Len(c)]
    BY <2>4s, Joined
  <2> HIDE DEF u
  <2>5s. u \in Seq(Access) /\ t \in Seq(Access)
    BY <2>2, <2>4
  <2>5. /\ u \o t \in Seq(Access) /\ Len(u \o t) = Len(u) + Len(t)
        /\ \A i \in 1 .. Len(u) + Len(t) :
             (u \o t)[i] = IF i <= Len(u) THEN u[i] ELSE t[i - Len(u)]
    BY <2>5s, Joined
  <2>6. /\ (u \o t)[1] = W(Cmd1, 170) /\ (u \o t)[2] = W(Cmd2, 85) /\ (u \o t)[3] = W(Cmd1, 128)
        /\ (u \o t)[4] = W(Cmd1, 170) /\ (u \o t)[5] = W(Cmd2, 85) /\ (u \o t)[6] = W(op.at, 48)
        /\ Len(u \o t) = 6
    <3>1. Len(u) = 5 /\ u[4] = W(Cmd1, 170) /\ u[5] = W(Cmd2, 85)
      BY <2>3, <2>4, UnlockIs
    <3>2. u[1] = W(Cmd1, 170) /\ u[2] = W(Cmd2, 85) /\ u[3] = W(Cmd1, 128)
      BY <2>3, <2>4, UnlockIs
    <3>3. (u \o t)[6] = W(op.at, 48) /\ Len(u \o t) = 6
      BY <2>2, <2>5, <3>1
    <3>4. \A i \in 1 .. 5 : (u \o t)[i] = u[i]
      BY <2>2, <2>5, <3>1
    <3>5. 1 \in 1 .. 5 /\ 2 \in 1 .. 5 /\ 3 \in 1 .. 5 /\ 4 \in 1 .. 5 /\ 5 \in 1 .. 5
      OBVIOUS
    <3>6. QED
      BY <3>1, <3>2, <3>3, <3>4, <3>5
  <2>7. QED
    BY <1>4, <2>1, <2>5, <2>6 DEF FlashAccesses
<1>5. CASE op.what = "chip"
  <2> DEFINE c == Command(128)
             t == Command(16)
  <2>1. Accesses(op) = c \o t
    BY <1>5 DEF Accesses
  <2>2. /\ t \in Seq(Access) /\ Len(t) = 3
        /\ t[1] = W(Cmd1, 170) /\ t[2] = W(Cmd2, 85) /\ t[3] = W(Cmd1, 16)
    BY CommandIs
  <2>3. /\ c \in Seq(Access) /\ Len(c) = 3
        /\ c[1] = W(Cmd1, 170) /\ c[2] = W(Cmd2, 85) /\ c[3] = W(Cmd1, 128)
    BY CommandIs
  <2> HIDE DEF c, t
  <2>4s. c \in Seq(Access) /\ t \in Seq(Access)
    BY <2>2, <2>3
  <2>4. /\ c \o t \in Seq(Access) /\ Len(c \o t) = Len(c) + Len(t)
        /\ \A i \in 1 .. Len(c) + Len(t) :
             (c \o t)[i] = IF i <= Len(c) THEN c[i] ELSE t[i - Len(c)]
    BY <2>4s, Joined
  <2>5. /\ (c \o t)[1] = W(Cmd1, 170) /\ (c \o t)[2] = W(Cmd2, 85) /\ (c \o t)[3] = W(Cmd1, 128)
        /\ (c \o t)[4] = W(Cmd1, 170) /\ (c \o t)[5] = W(Cmd2, 85) /\ (c \o t)[6] = W(Cmd1, 16)
        /\ Len(c \o t) = 6
    BY <2>2, <2>3, <2>4
  <2>6. QED
    BY <1>5, <2>1, <2>4, <2>5 DEF FlashAccesses
<1>6. CASE op.what = "id"
  <2> DEFINE c == Command(144)
             u == c \o <<R(0), R(1)>>
             t == Command(240)
  <2>1. Accesses(op) = u \o t /\ R(0) \in Access /\ R(1) \in Access
    BY <1>6, AccessTypes DEF Accesses
  <2> DEFINE r == <<R(0), R(1)>>
  <2>2. r \in Seq(Access) /\ Len(r) = 2 /\ r[1] = R(0) /\ r[2] = R(1)
    BY <2>1
  <2>3. /\ c \in Seq(Access) /\ Len(c) = 3
        /\ c[1] = W(Cmd1, 170) /\ c[2] = W(Cmd2, 85) /\ c[3] = W(Cmd1, 144)
    BY CommandIs
  <2>4. /\ t \in Seq(Access) /\ Len(t) = 3
        /\ t[1] = W(Cmd1, 170) /\ t[2] = W(Cmd2, 85) /\ t[3] = W(Cmd1, 240)
    BY CommandIs
  <2>5. u = c \o r
    OBVIOUS
  <2> HIDE DEF c, t, r, u
  <2>6s. c \in Seq(Access) /\ r \in Seq(Access)
    BY <2>2, <2>3, <2>5
  <2>6. /\ u \in Seq(Access) /\ Len(u) = Len(c) + Len(r)
        /\ \A i \in 1 .. Len(c) + Len(r) :
             u[i] = IF i <= Len(c) THEN c[i] ELSE r[i - Len(c)]
    BY <2>6s, <2>5, Joined
  <2>7s. u \in Seq(Access) /\ t \in Seq(Access)
    BY <2>4, <2>6
  <2>7. IsJoined(Access, u, t, u \o t)
    BY <2>7s, JoinedParts
  <2>7u. /\ u[1] = W(Cmd1, 170) /\ u[2] = W(Cmd2, 85) /\ u[3] = W(Cmd1, 144)
         /\ u[4] = R(0) /\ u[5] = R(1) /\ Len(u) = 5
    BY <2>2, <2>3, <2>6
  <2>8. /\ (u \o t)[1] = W(Cmd1, 170) /\ (u \o t)[2] = W(Cmd2, 85) /\ (u \o t)[3] = W(Cmd1, 144)
        /\ (u \o t)[4] = R(0) /\ (u \o t)[5] = R(1)
        /\ (u \o t)[6] = W(Cmd1, 170) /\ (u \o t)[7] = W(Cmd2, 85) /\ (u \o t)[8] = W(Cmd1, 240)
        /\ Len(u \o t) = 8
    <3>1. \A i \in 1 .. 5 : (u \o t)[i] = u[i]
      BY <2>7u, <2>7 DEF IsJoined
    <3>2. 1 \in 1 .. 5 /\ 2 \in 1 .. 5 /\ 3 \in 1 .. 5 /\ 4 \in 1 .. 5 /\ 5 \in 1 .. 5
      OBVIOUS
    <3>3. /\ 1 \in 1 .. Len(t) /\ 2 \in 1 .. Len(t) /\ 3 \in 1 .. Len(t)
          /\ Len(u) + 1 = 6 /\ Len(u) + 2 = 7 /\ Len(u) + 3 = 8
      BY <2>4, <2>7u
    <3>4. Len(u \o t) = 8 /\ (u \o t)[6] = t[1] /\ (u \o t)[7] = t[2] /\ (u \o t)[8] = t[3]
      BY <2>4, <2>7u, <2>7, <3>3 DEF IsJoined
    <3>5. QED
      BY <2>4, <2>7u, <3>1, <3>2, <3>4
  <2>9. QED
    BY <1>6, <2>1, <2>7, <2>8 DEF FlashAccesses, IsJoined
<1>7. QED
  BY <1>0, <1>1, <1>2, <1>3, <1>4, <1>5, <1>6

(* Of an SRAM.                                                             *)
LEMMA AccessesOfSram ==
  ASSUME kind = "sram", NEW op \in Ops
  PROVE  LET s == Accesses(op)
         IN /\ s \in Seq(Access) /\ Len(s) = 1
            /\ op.what = "store" => s[1] = W(op.at, op.value)
            /\ op.what = "byte" => s[1] = R(op.at)
            /\ op.what \in {"store", "byte"}
<1>1. op.at \in Nat /\ op.value \in Nat /\ op.what \in {"store", "byte"}
  BY OpsAre DEF Kinds
<1>2. CASE op.what = "store"
  <2>1. Accesses(op) = <<W(op.at, op.value)>> /\ W(op.at, op.value) \in Access
    BY <1>1, <1>2, AccessTypes DEF Accesses
  <2>2. QED
    BY <1>2, <2>1, One
<1>3. CASE op.what = "byte"
  <2>1. Accesses(op) = <<R(op.at)>> /\ R(op.at) \in Access
    BY <1>1, <1>3, AccessTypes DEF Accesses
  <2>2. QED
    BY <1>3, <2>1, One
<1>4. QED
  BY <1>1, <1>2, <1>3

(* Of an EEPROM.                                                           *)
LEMMA BitsAre ==
  ASSUME NEW v \in Nat, NEW n \in Nat, \A j \in 0 .. n : 2 ^ j \in Nat \ {0}
  PROVE  /\ BitsOf(v, n) \in Seq(Access) /\ Len(BitsOf(v, n)) = n
         /\ \A i \in 1 .. n : BitsOf(v, n)[i] = Bit((v \div 2 ^ (n - i)) % 2)
<1>1. ASSUME NEW i \in 1 .. n PROVE Bit((v \div 2 ^ (n - i)) % 2) \in Access
  <2>1. 2 ^ (n - i) \in Nat \ {0}
    <3>1. n - i \in 0 .. n
      OBVIOUS
    <3>2. QED
      BY <3>1
  <2>2. (v \div 2 ^ (n - i)) % 2 \in 0 .. 1
    BY <2>1, OneMoreBit
  <2>3. QED
    BY <2>2, AccessTypes
<1> DEFINE b(i) == Bit((v \div 2 ^ (n - i)) % 2)
<1>2. \A i \in 1 .. n : b(i) \in Access
  BY <1>1
<1>3. BitsOf(v, n) = [i \in 1 .. n |-> b(i)]
  BY DEF BitsOf
<1> HIDE DEF b
<1>4. [i \in 1 .. n |-> b(i)] \in Seq(Access) /\ Len([i \in 1 .. n |-> b(i)]) = n
  BY <1>2
<1>5. \A i \in 1 .. n : BitsOf(v, n)[i] = b(i)
  BY <1>3
<1>6. QED
  BY <1>3, <1>4, <1>5 DEF b

EepromAccesses(op, s) ==
  LET n == AddressBits
      put == op.what = "put"
  IN /\ s \in Seq(Access)
     /\ Len(s) = IF put THEN n + 12 ELSE n + 17
     /\ s[1].do = "dma" /\ s[1].toChip /\ (s[1].units % 32 = 17 <=> kind = "eeprom8K")
     /\ s[2] = Bit(1) /\ s[3] = Bit(IF put THEN 0 ELSE 1)
     /\ \A i \in 4 .. n + 3 : s[i] = Bit((op.at \div 2 ^ (n + 3 - i)) % 2)
     /\ put => (\A i \in n + 4 .. n + 11 : s[i] = Bit((op.value \div 2 ^ (n + 11 - i)) % 2))
               /\ s[n + 12] = Bit(0)
     /\ ~put => s[n + 4] = Bit(0) /\ s[n + 5] = Dma(68, FALSE)
                /\ \A i \in n + 6 .. n + 17 : s[i] = In

LEMMA UnitsAre ==
  ASSUME Eeprom
  PROVE  /\ Units(64) \in Nat /\ Units(0) \in Nat
         /\ (Units(64) % 32 = 17 <=> kind = "eeprom8K")
         /\ (Units(0) % 32 = 17 <=> kind = "eeprom8K")
BY DEF Units, Eeprom

LEMMA Three ==
  ASSUME NEW S, NEW a \in S, NEW b \in S, NEW c \in S
  PROVE  LET s == <<a, b, c>> IN s \in Seq(S) /\ Len(s) = 3 /\ s[1] = a /\ s[2] = b /\ s[3] = c
OBVIOUS

LEMMA Two ==
  ASSUME NEW S, NEW a \in S, NEW b \in S
  PROVE  LET s == <<a, b>> IN s \in Seq(S) /\ Len(s) = 2 /\ s[1] = a /\ s[2] = b
OBVIOUS

LEMMA AccessesOfEeprom ==
  ASSUME kind \in Kinds, Eeprom, NEW op \in Ops
  PROVE  EepromAccesses(op, Accesses(op))
<1> DEFINE n == AddressBits
<1>0. op.at \in Nat /\ op.value \in Nat /\ op.what \in {"put", "get"}
  BY OpsAre
<1>1. n \in Nat \ {0} /\ \A j \in 0 .. n : 2 ^ j \in Nat \ {0}
  BY AddressBitsAre
<1>2. \A j \in 0 .. 8 : 2 ^ j \in Nat \ {0}
  BY Powers
<1> DEFINE b == BitsOf(op.at, n)
<1>3. b \in Seq(Access)
  BY <1>0, <1>1, BitsAre
<1>4. Len(b) = n /\ \A i \in 1 .. n : b[i] = Bit((op.at \div 2 ^ (n - i)) % 2)
  BY <1>0, <1>1, BitsAre
<1>5. CASE op.what = "put"
  <2> DEFINE h == <<Dma(Units(64), TRUE), Bit(1), Bit(0)>>
             d == BitsOf(op.value, 8)
             e == <<Bit(0)>>
             hb == h \o b
             hbd == hb \o d
  <2>1. Accesses(op) = hbd \o e
    BY <1>5 DEF Accesses
  <2>2. Dma(Units(64), TRUE) \in Access /\ Bit(0) \in Access /\ Bit(1) \in Access
    <3>1. Units(64) \in Nat /\ TRUE \in BOOLEAN /\ 0 \in 0 .. 1 /\ 1 \in 0 .. 1
      BY UnitsAre
    <3>2. QED
      BY <3>1, AccessTypes
  <2>3. h \in Seq(Access)
    BY <2>2, Three
  <2>4. Len(h) = 3 /\ h[1] = Dma(Units(64), TRUE) /\ h[2] = Bit(1) /\ h[3] = Bit(0)
    BY <2>2, Three
  <2>5. d \in Seq(Access)
    BY <1>0, <1>2, BitsAre
  <2>6. Len(d) = 8 /\ \A i \in 1 .. 8 : d[i] = Bit((op.value \div 2 ^ (8 - i)) % 2)
    BY <1>0, <1>2, BitsAre
  <2>7. e \in Seq(Access)
    BY <2>2, One
  <2>8. Len(e) = 1 /\ e[1] = Bit(0)
    BY <2>2, One
  <2> DEFINE s == hbd \o e
  <2> HIDE DEF n, b, h, d, e
  <2>9. n \in Nat
    BY <1>1
  <2>10. /\ s \in Seq(Access) /\ Len(s) = n + 3 + 8 + 1
         /\ (\A i \in 1 .. 3 : s[i] = h[i])
         /\ (\A i \in 1 .. n : s[3 + i] = b[i])
         /\ (\A i \in 1 .. 8 : s[n + 3 + i] = d[i])
         /\ \A i \in 1 .. 1 : s[n + 3 + 8 + i] = e[i]
    <3>1. AreJoined(Access, h, b, d, e, s)
      <4>1. Len(h) = 3
        BY <2>4
      <4>2. QED
        BY <1>3, <2>3, <2>5, <2>7, <4>1, FourJoined
    <3> HIDE DEF hb, hbd, s
    <3>2. Len(b) = n /\ Len(d) = 8 /\ Len(e) = 1
      BY <1>4, <2>6, <2>8
    <3>3. QED
      BY <3>1, <3>2 DEF AreJoined
  <2>11. Accesses(op) = s
    BY <2>1
  <2> HIDE DEF hb, hbd, s
  <2>15. \A i \in 1 .. 3 : s[i] = h[i]
    BY <2>10
  <2>16. \A i \in 4 .. n + 3 : s[i] = b[i - 3]
    <3>1. \A i \in 4 .. n + 3 : i - 3 \in 1 .. n /\ 3 + (i - 3) = i
      BY <2>9
    <3>2. QED
      BY <2>10, <3>1
  <2>17. \A i \in n + 4 .. n + 11 : s[i] = d[i - (n + 3)]
    <3>1. \A i \in n + 4 .. n + 11 : i - (n + 3) \in 1 .. 8 /\ n + 3 + (i - (n + 3)) = i
      BY <2>9
    <3>2. QED
      BY <2>10, <3>1
  <2>18. s[n + 12] = e[1]
    <3>1. 1 \in 1 .. 1 /\ n + 3 + 8 + 1 = n + 12
      BY <2>9
    <3>2. QED
      BY <2>10, <3>1
  <2>19. s \in Seq(Access) /\ Len(s) = n + 12 /\ Accesses(op) = s
    BY <2>9, <2>10, <2>11
  <2>20. s[1] = Dma(Units(64), TRUE) /\ s[2] = Bit(1) /\ s[3] = Bit(0) /\ s[n + 12] = Bit(0)
    BY <2>4, <2>8, <2>15, <2>18, 1 \in 1 .. 3, 2 \in 1 .. 3, 3 \in 1 .. 3
  <2>21. \A i \in 4 .. n + 3 : s[i] = Bit((op.at \div 2 ^ (n + 3 - i)) % 2)
    <3>1. ASSUME NEW i \in 4 .. n + 3 PROVE s[i] = Bit((op.at \div 2 ^ (n + 3 - i)) % 2)
      <4>1. i - 3 \in 1 .. n /\ n - (i - 3) = n + 3 - i
        BY <1>1
      <4>2. QED
        BY <1>4, <2>16, <4>1
    <3>2. QED
      BY <3>1
  <2>22. \A i \in n + 4 .. n + 11 : s[i] = Bit((op.value \div 2 ^ (n + 11 - i)) % 2)
    <3>1. ASSUME NEW i \in n + 4 .. n + 11
          PROVE  s[i] = Bit((op.value \div 2 ^ (n + 11 - i)) % 2)
      <4>1. i - (n + 3) \in 1 .. 8 /\ 8 - (i - (n + 3)) = n + 11 - i
        BY <1>1
      <4>2. QED
        BY <2>6, <2>17, <4>1
    <3>2. QED
      BY <3>1
  <2>23. s[1].do = "dma" /\ s[1].toChip /\ s[1].units = Units(64)
    BY <2>20 DEF Dma
  <2>24. QED
    BY <1>5, <2>19, <2>20, <2>21, <2>22, <2>23, UnitsAre DEF EepromAccesses, n
<1>6. CASE op.what = "get"
  <2> DEFINE h == <<Dma(Units(0), TRUE), Bit(1), Bit(1)>>
             d == <<Bit(0), Dma(68, FALSE)>>
             e == [i \in 1 .. 12 |-> In]
             hb == h \o b
             hbd == hb \o d
  <2>1. Accesses(op) = hbd \o e
    BY <1>6 DEF Accesses
  <2>2. /\ Dma(Units(0), TRUE) \in Access /\ Bit(0) \in Access /\ Bit(1) \in Access
        /\ Dma(68, FALSE) \in Access /\ In \in Access
    <3>1. /\ Units(0) \in Nat /\ 68 \in Nat /\ TRUE \in BOOLEAN /\ FALSE \in BOOLEAN
          /\ 0 \in 0 .. 1 /\ 1 \in 0 .. 1
      BY UnitsAre
    <3>2. QED
      BY <3>1, AccessTypes
  <2>3. h \in Seq(Access)
    BY <2>2, Three
  <2>4. Len(h) = 3 /\ h[1] = Dma(Units(0), TRUE) /\ h[2] = Bit(1) /\ h[3] = Bit(1)
    BY <2>2, Three
  <2>5a. \A x, y \in Access : LET s == <<x, y>> IN
           s \in Seq(Access) /\ Len(s) = 2 /\ s[1] = x /\ s[2] = y
    BY Two
  <2>5. d \in Seq(Access)
    BY <2>2, <2>5a
  <2>6. Len(d) = 2 /\ d[1] = Bit(0) /\ d[2] = Dma(68, FALSE)
    BY <2>2, <2>5a
  <2>7. e \in Seq(Access)
    BY <2>2
  <2>8. Len(e) = 12 /\ \A i \in 1 .. 12 : e[i] = In
    BY <2>2
  <2> DEFINE s == hbd \o e
  <2> HIDE DEF n, b, h, d, e
  <2>9. n \in Nat
    BY <1>1
  <2>10. /\ s \in Seq(Access) /\ Len(s) = n + 3 + 2 + 12
         /\ (\A i \in 1 .. 3 : s[i] = h[i])
         /\ (\A i \in 1 .. n : s[3 + i] = b[i])
         /\ (\A i \in 1 .. 2 : s[n + 3 + i] = d[i])
         /\ \A i \in 1 .. 12 : s[n + 3 + 2 + i] = e[i]
    <3>1. AreJoined(Access, h, b, d, e, s)
      <4>1. Len(h) = 3
        BY <2>4
      <4>2. QED
        BY <1>3, <2>3, <2>5, <2>7, <4>1, FourJoined
    <3> HIDE DEF hb, hbd, s
    <3>2. Len(b) = n /\ Len(d) = 2 /\ Len(e) = 12
      BY <1>4, <2>6, <2>8
    <3>3. QED
      BY <3>1, <3>2 DEF AreJoined
  <2>11. Accesses(op) = s
    BY <2>1
  <2> HIDE DEF hb, hbd, s
  <2>15. \A i \in 1 .. 3 : s[i] = h[i]
    BY <2>10
  <2>16. \A i \in 4 .. n + 3 : s[i] = b[i - 3]
    <3>1. \A i \in 4 .. n + 3 : i - 3 \in 1 .. n /\ 3 + (i - 3) = i
      BY <2>9
    <3>2. QED
      BY <2>10, <3>1
  <2>17a. s[n + 4] = d[1] /\ s[n + 5] = d[2]
    <3>1. /\ 1 \in 1 .. 2 /\ n + 3 + 1 = n + 4
          /\ 2 \in 1 .. 2 /\ n + 3 + 2 = n + 5
      BY <2>9
    <3>2. QED
      BY <2>10, <3>1
  <2>18. \A i \in n + 6 .. n + 17 : s[i] = e[i - (n + 5)]
    <3>1. \A i \in n + 6 .. n + 17 :
            i - (n + 5) \in 1 .. 12 /\ n + 3 + 2 + (i - (n + 5)) = i
      BY <2>9
    <3>2. QED
      BY <2>10, <3>1
  <2>19. s \in Seq(Access) /\ Len(s) = n + 17 /\ Accesses(op) = s
    BY <2>9, <2>10, <2>11
  <2>18a. \A i \in n + 6 .. n + 17 : s[i] = In
    <3>1. ASSUME NEW i \in n + 6 .. n + 17 PROVE s[i] = In
      <4>1. i - (n + 5) \in 1 .. 12
        BY <1>1
      <4>2. QED
        BY <2>8, <2>18, <4>1
    <3>2. QED
      BY <3>1
  <2>20. /\ s[1] = Dma(Units(0), TRUE) /\ s[2] = Bit(1) /\ s[3] = Bit(1)
         /\ s[n + 4] = Bit(0) /\ s[n + 5] = Dma(68, FALSE)
    BY <2>4, <2>6, <2>15, <2>17a, 1 \in 1 .. 3, 2 \in 1 .. 3, 3 \in 1 .. 3
  <2>21. \A i \in 4 .. n + 3 : s[i] = Bit((op.at \div 2 ^ (n + 3 - i)) % 2)
    <3>1. ASSUME NEW i \in 4 .. n + 3 PROVE s[i] = Bit((op.at \div 2 ^ (n + 3 - i)) % 2)
      <4>1. i - 3 \in 1 .. n /\ n - (i - 3) = n + 3 - i
        BY <1>1
      <4>2. QED
        BY <1>4, <2>16, <4>1
    <3>2. QED
      BY <3>1
  <2>23. s[1].do = "dma" /\ s[1].toChip /\ s[1].units = Units(0)
    BY <2>20 DEF Dma
  <2>24. QED
    BY <1>6, <2>18a, <2>19, <2>20, <2>21, <2>23, UnitsAre DEF EepromAccesses, n
<1>7. QED
  BY <1>0, <1>5, <1>6

LEMMA AccessesAre ==
  ASSUME kind \in Kinds, NEW op \in Ops
  PROVE  Accesses(op) \in Seq(Access)
<1>1. kind = "sram" \/ Flash \/ Eeprom
  BY DEF Kinds, Flash, Eeprom
<1>2. QED
  BY <1>1, AccessesOfSram, AccessesOfFlash, AccessesOfEeprom DEF FlashAccesses, EepromAccesses

-----------------------------------------------------------------------------
(* The next access, and what is left after it.                             *)

LEMMA NextAccess ==
  ASSUME kind \in Kinds, cpu \in Cpu, cpu.todo # <<>>, IsTheRest(cpu)
  PROVE  LET a == Accesses(cpu.op)
             m == Made(cpu)
         IN /\ a \in Seq(Access) /\ Len(a) \in Nat /\ m \in Nat /\ m < Len(a)
            /\ Head(cpu.todo) = a[m + 1] /\ a[m + 1] \in Access
            /\ Len(cpu.todo) = 1 <=> m + 1 = Len(a)
            /\ cpu.op \in Ops
<1> DEFINE a == Accesses(cpu.op)
           m == Made(cpu)
           t == cpu.todo
<1>1. cpu.op \in Ops
  BY DEF IsTheRest
<1>2. a \in Seq(Access)
  BY <1>1, AccessesAre
<1>3. t \in Seq(Access) /\ t # <<>>
  BY DEF Cpu
<1>4. /\ Len(t) <= Len(a) /\ m = Len(a) - Len(t)
      /\ \A j \in 1 .. Len(t) : t[j] = a[m + j]
  BY DEF IsTheRest, Made
<1> HIDE DEF a, m, t
<1>5. Len(a) \in Nat
  BY <1>2
<1>6. Len(t) \in Nat \ {0} /\ Head(t) = t[1] /\ t[1] \in Access
  BY <1>3, TailOf
<1>7. m \in Nat /\ m < Len(a) /\ (Len(t) = 1 <=> m + 1 = Len(a))
  <2> DEFINE x == Len(a)
             y == Len(t)
  <2>1. x \in Nat /\ y \in Nat \ {0} /\ y <= x /\ m = x - y
    BY <1>4, <1>5, <1>6
  <2> HIDE DEF x, y
  <2>2. m \in Nat /\ m < x /\ (y = 1 <=> m + 1 = x)
    BY <2>1
  <2>3. QED
    BY <2>2 DEF x, y
<1>8. t[1] = a[m + 1]
  BY <1>4, <1>6
<1>9. QED
  BY <1>1, <1>2, <1>5, <1>6, <1>7, <1>8 DEF a, m, t

LEMMA Advanced ==
  ASSUME kind \in Kinds, cpu \in Cpu, cpu.todo # <<>>, IsTheRest(cpu),
         NEW heard \in Nat, Advance(heard)
  PROVE  LET a == Accesses(cpu.op)
             m == Made(cpu)
         IN /\ cpu' \in Cpu /\ cpu'.op = cpu.op /\ cpu'.heard = heard
            /\ m + 1 = Len(a) =>
                 /\ cpu'.todo = <<>> /\ promise' = Meant(cpu.op)
                 /\ cpu'.bank = IF cpu.op.what = "bank" THEN cpu.op.at ELSE cpu.bank
            /\ m + 1 # Len(a) =>
                 /\ cpu'.todo # <<>> /\ IsTheRest(cpu') /\ Made(cpu') = m + 1
                 /\ promise' = promise /\ cpu'.bank = cpu.bank
<1> DEFINE a == Accesses(cpu.op)
           m == Made(cpu)
           t == cpu.todo
           u == cpu'.todo
<1>1. /\ a \in Seq(Access) /\ Len(a) \in Nat /\ m \in Nat /\ m < Len(a)
      /\ Len(t) = 1 <=> m + 1 = Len(a)
      /\ cpu.op \in Ops
  BY NextAccess
<1>2. /\ cpu' = [cpu EXCEPT !.todo = Tail(t), !.heard = heard,
                            !.bank = IF cpu.op.what = "bank" /\ Len(t) = 1 THEN cpu.op.at
                                     ELSE cpu.bank]
      /\ promise' = IF Len(t) = 1 THEN Meant(cpu.op) ELSE promise
  BY DEF Advance
<1>3. cpu = [op |-> cpu.op, todo |-> cpu.todo, bank |-> cpu.bank, heard |-> cpu.heard]
      /\ cpu.op \in Operation /\ cpu.bank \in 0 .. 1 /\ t \in Seq(Access)
  BY DEF Cpu
<1>4. /\ cpu'.op = cpu.op /\ cpu'.heard = heard /\ u = Tail(t)
      /\ cpu'.bank = IF cpu.op.what = "bank" /\ Len(t) = 1 THEN cpu.op.at ELSE cpu.bank
      /\ cpu' = [op |-> cpu'.op, todo |-> u, bank |-> cpu'.bank, heard |-> cpu'.heard]
  BY <1>2, <1>3
<1>5. cpu.op.what = "bank" => cpu.op.at \in 0 .. 1
  BY <1>1, OpsAre DEF Kinds, Flash, Eeprom
<1>6. /\ Tail(t) \in Seq(Access) /\ Len(t) \in Nat \ {0} /\ Len(Tail(t)) = Len(t) - 1
      /\ \A j \in 1 .. Len(t) - 1 : Tail(t)[j] = t[j + 1]
      /\ (Tail(t) = <<>>) <=> (Len(t) = 1)
  BY <1>3, TailOf
<1>7. cpu' \in Cpu
  <2>1. cpu'.bank \in 0 .. 1
    BY <1>3, <1>4, <1>5
  <2>2. QED
    BY <1>3, <1>4, <1>6, <2>1 DEF Cpu
<1>8. ASSUME m + 1 = Len(a)
      PROVE  /\ cpu'.todo = <<>> /\ promise' = Meant(cpu.op)
             /\ cpu'.bank = IF cpu.op.what = "bank" THEN cpu.op.at ELSE cpu.bank
  <2>1. Len(t) = 1
    BY <1>1, <1>8
  <2>2. QED
    BY <1>2, <1>4, <1>6, <2>1
<1>9. ASSUME m + 1 # Len(a)
      PROVE  /\ cpu'.todo # <<>> /\ IsTheRest(cpu') /\ Made(cpu') = m + 1
             /\ promise' = promise /\ cpu'.bank = cpu.bank
  <2>1. Len(t) # 1
    BY <1>1, <1>9
  <2>2. u # <<>> /\ promise' = promise /\ cpu'.bank = cpu.bank
    BY <1>2, <1>4, <1>6, <2>1
  <2>3. Made(cpu') = Len(a) - Len(u) /\ m = Len(a) - Len(t)
    BY <1>4 DEF Made
  <2>4. /\ Len(t) <= Len(a)
        /\ \A j \in 1 .. Len(t) : t[j] = a[m + j]
    BY DEF IsTheRest
  <2>5. Len(u) = Len(t) - 1 /\ \A j \in 1 .. Len(u) : u[j] = t[j + 1]
    BY <1>4, <1>6
  <2> DEFINE n == Made(cpu')
  <2> HIDE DEF a, m, t, u, n
  <2>6. n = m + 1
    BY <1>1, <1>6, <2>3, <2>5 DEF n
  <2>7. \A j \in 1 .. Len(u) : u[j] = a[n + j]
    <3>1. ASSUME NEW j \in 1 .. Len(u) PROVE u[j] = a[n + j]
      <4>1. j + 1 \in 1 .. Len(t) /\ m + (j + 1) = n + j
        BY <1>1, <1>6, <2>5, <2>6
      <4>2. QED
        BY <2>4, <2>5, <4>1
    <3>2. QED
      BY <3>1
  <2>8. Len(u) <= Len(a)
    BY <1>1, <1>6, <2>4, <2>5
  <2>9. IsTheRest(cpu')
    BY <1>1, <1>4, <2>7, <2>8 DEF IsTheRest, a, u, n
  <2>10. QED
    BY <2>2, <2>6, <2>9 DEF n, u
<1>10. QED
  BY <1>4, <1>7, <1>8, <1>9

(* The kind of the memory never changes.                                   *)
LEMMA SameAccesses ==
  ASSUME kind' = kind
  PROVE  /\ Flash' = Flash /\ Eeprom' = Eeprom /\ AddressBits' = AddressBits /\ OwnSize' = OwnSize
         /\ Ops' = Ops
         /\ \A op : Accesses(op)' = Accesses(op)
<1>1. /\ Flash' = Flash /\ Eeprom' = Eeprom /\ AddressBits' = AddressBits /\ OwnSize' = OwnSize
  BY DEF Flash, Eeprom, AddressBits, OwnSize
<1>2. Ops' = Ops
  BY <1>1 DEF Ops
<1>3. ASSUME NEW op PROVE Accesses(op)' = Accesses(op)
  <2>1. \A bits : Units(bits)' = Units(bits)
    BY DEF Units
  <2>2. QED
    BY <1>1, <2>1 DEF Accesses
<1>4. QED
  BY <1>1, <1>2, <1>3

LEMMA FitsStill ==
  ASSUME kind' = kind, NEW c, NEW h, Fits(c, h)
  PROVE  Fits(c, h)'
<1>1. /\ Flash' = Flash /\ Eeprom' = Eeprom /\ AddressBits' = AddressBits /\ OwnSize' = OwnSize
      /\ Ops' = Ops
      /\ \A op : Accesses(op)' = Accesses(op)
  BY SameAccesses
<1>2. Made(c)' = Made(c)
  BY <1>1 DEF Made
<1>3. IsTheRest(c)' <=> IsTheRest(c)
  BY <1>1, <1>2 DEF IsTheRest
<1>4. \A op, made, mode, counter :
        EepromStep(op, made, mode, counter)' <=> EepromStep(op, made, mode, counter)
  BY <1>1 DEF EepromStep
<1>5. \A op, made : EepromAt(op, made, h)' <=> EepromAt(op, made, h)
  BY <1>1, <1>4 DEF EepromAt
<1>6. QED
  BY <1>1, <1>2, <1>3, <1>5 DEF Fits

-----------------------------------------------------------------------------
(* Flash: what each access of a command does to the chip.                  *)
FlashChip(mode, position, bank, banks) ==
  [chip EXCEPT !.type = "flash", !.flash_mode = mode, !.position = position, !.bank = bank,
               !.flash_bank_cnt = banks]

LEMMA ChipIs ==
  ASSUME NEW h \in Chip
  PROVE  h = [type |-> h.type, flash_mode |-> h.flash_mode, position |-> h.position,
              bank |-> h.bank, flash_bank_cnt |-> h.flash_bank_cnt, eeprom_size |-> h.eeprom_size,
              eeprom_mode |-> h.eeprom_mode, eeprom_address |-> h.eeprom_address,
              eeprom_counter |-> h.eeprom_counter]
BY DEF Chip

LEMMA FlashChipIs ==
  ASSUME chip \in Chip, NEW mode \in {"base", "id", "erase", "write", "bankswitch"},
         NEW position \in 0 .. 2, NEW bank \in 0 .. 1, NEW banks \in {"64K", "128K"}
  PROVE  LET h == FlashChip(mode, position, bank, banks)
         IN /\ h \in Chip /\ h.type = "flash" /\ h.flash_mode = mode /\ h.position = position
            /\ h.bank = bank /\ h.flash_bank_cnt = banks
            /\ h.eeprom_size = chip.eeprom_size /\ h.eeprom_mode = chip.eeprom_mode
            /\ h.eeprom_counter = chip.eeprom_counter /\ h.eeprom_address = chip.eeprom_address
<1>1. FlashChip(mode, position, bank, banks) \in Chip
  BY DEF Chip, FlashChip, Types
<1>2. FlashChip(mode, position, bank, banks).type = "flash"
      /\ FlashChip(mode, position, bank, banks).flash_mode = mode
      /\ FlashChip(mode, position, bank, banks).position = position
  BY DEF Chip, FlashChip
<1>3. FlashChip(mode, position, bank, banks).bank = bank
      /\ FlashChip(mode, position, bank, banks).flash_bank_cnt = banks
      /\ FlashChip(mode, position, bank, banks).eeprom_size = chip.eeprom_size
  BY DEF Chip, FlashChip
<1>4. FlashChip(mode, position, bank, banks).eeprom_mode = chip.eeprom_mode
      /\ FlashChip(mode, position, bank, banks).eeprom_counter = chip.eeprom_counter
      /\ FlashChip(mode, position, bank, banks).eeprom_address = chip.eeprom_address
  BY DEF Chip, FlashChip
<1>5. QED
  BY <1>1, <1>2, <1>3, <1>4

(* Where the game is in a command when the chip is as it should be.        *)
LEMMA FlashStep ==
  ASSUME kind \in Kinds, Flash, Fits(cpu, chip), cpu.todo # <<>>,
         NEW heard \in Nat, Advance(heard),
         NEW mode \in {"base", "id", "erase", "write", "bankswitch"}, NEW position \in 0 .. 2,
         NEW bank \in 0 .. 1, NEW banks \in {"64K", "128K"}, bank = 1 => banks = "128K",
         chip' = FlashChip(mode, position, bank, banks),
         LET what == cpu.op.what
             m == Made(cpu) + 1
         IN IF m = Len(Accesses(cpu.op))
            THEN /\ mode = "base" /\ position = 0
                 /\ bank = IF what = "bank" THEN cpu.op.at ELSE cpu.bank
            ELSE /\ mode = IF m < 3 THEN "base" ELSE ModeAfter(what)
                 /\ position = PositionAfter(what, m)
                 /\ bank = cpu.bank
                 /\ what = "bank" /\ m = 3 => banks = "128K"
  PROVE  Fits(cpu', chip')
<1>1. cpu \in Cpu /\ chip \in Chip /\ IsTheRest(cpu)
      /\ chip.eeprom_mode = "base" /\ chip.eeprom_counter = 0 /\ chip.eeprom_address % 8 = 0
  BY DEF Fits
<1>2. kind \notin {"sram", "eeprom512", "eeprom8K"} /\ ~Eeprom /\ "flash" \in TypeOf[kind]
  BY DEF Flash, Eeprom, TypeOf
<1>3. /\ chip' \in Chip /\ chip'.type = "flash" /\ chip'.flash_mode = mode
      /\ chip'.position = position /\ chip'.bank = bank /\ chip'.flash_bank_cnt = banks
      /\ chip'.eeprom_mode = "base" /\ chip'.eeprom_counter = 0 /\ chip'.eeprom_address % 8 = 0
  BY <1>1, FlashChipIs
<1>4. CASE Made(cpu) + 1 = Len(Accesses(cpu.op))
  <2>1. cpu' \in Cpu /\ cpu'.todo = <<>>
        /\ cpu'.bank = IF cpu.op.what = "bank" THEN cpu.op.at ELSE cpu.bank
    BY <1>1, <1>4, Advanced
  <2>2. mode = "base" /\ position = 0 /\ cpu'.bank = bank
    BY <1>4, <2>1
  <2>3. AtRest(chip')
    BY <1>3, <2>2 DEF AtRest
  <2>4. QED
    BY <1>2, <1>3, <2>1, <2>2, <2>3 DEF Fits
<1>5. CASE Made(cpu) + 1 # Len(Accesses(cpu.op))
  <2>1. /\ cpu' \in Cpu /\ cpu'.todo # <<>> /\ cpu'.op = cpu.op /\ IsTheRest(cpu')
        /\ Made(cpu') = Made(cpu) + 1 /\ cpu'.bank = cpu.bank
    BY <1>1, <1>5, Advanced
  <2>2. /\ mode = IF Made(cpu') < 3 THEN "base" ELSE ModeAfter(cpu'.op.what)
        /\ position = PositionAfter(cpu'.op.what, Made(cpu')) /\ bank = cpu'.bank
        /\ cpu'.op.what = "bank" /\ Made(cpu') = 3 => banks = "128K"
    BY <1>5, <2>1
  <2>3. FlashAt(cpu'.op.what, Made(cpu'), chip')
    BY <1>3, <2>2 DEF FlashAt
  <2>4. QED
    BY <1>2, <1>3, <2>1, <2>2, <2>3 DEF Fits
<1>6. QED
  BY <1>4, <1>5

LEMMA FirstOfThree ==
  ASSUME chip \in Chip, chip.position = 0, chip.flash_mode # "write"
  PROVE  write_backup(Cmd1, 170)
           = <<FlashChip(chip.flash_mode, 1, chip.bank, chip.flash_bank_cnt), gamepak_backup>>
<1>1. write_backup(Cmd1, 170) = <<[chip EXCEPT !.type = "flash", !.position = 1], gamepak_backup>>
  BY DEF write_backup
<1>2. [chip EXCEPT !.type = "flash", !.position = 1]
        = FlashChip(chip.flash_mode, 1, chip.bank, chip.flash_bank_cnt)
  BY ChipIs DEF FlashChip
<1>3. QED
  BY <1>1, <1>2

LEMMA SecondOfThree ==
  ASSUME chip \in Chip, chip.type = "flash", chip.position = 1
  PROVE  write_backup(Cmd2, 85)
           = <<FlashChip(chip.flash_mode, 2, chip.bank, chip.flash_bank_cnt), gamepak_backup>>
<1>1. write_backup(Cmd2, 85) = <<[chip EXCEPT !.type = Known(@), !.position = 2], gamepak_backup>>
  BY Constants DEF write_backup
<1>2. [chip EXCEPT !.type = Known(@), !.position = 2]
        = FlashChip(chip.flash_mode, 2, chip.bank, chip.flash_bank_cnt)
  BY ChipIs DEF FlashChip, Known
<1>3. QED
  BY <1>1, <1>2

After(v) == [Commanded(v) EXCEPT !.type = Known(@)]

LEMMA ThirdOfThree ==
  ASSUME chip \in Chip, chip.type = "flash", chip.position = 2, chip.flash_mode # "write", NEW v
  PROVE  /\ write_backup(Cmd1, v)[1] = After(v)
         /\ write_backup(Cmd1, v)[2] = IF v = 16 /\ chip.flash_mode = "erase" THEN Filled(Cells)
                                       ELSE gamepak_backup
<1>1. Known(chip.type) # "sram"
  BY DEF Known
<1>2. chip.position # 0
  OBVIOUS
<1>3. QED
  BY <1>1, <1>2 DEF write_backup, After

(* The commands.                                                           *)
LEMMA CommandedIs ==
  ASSUME chip \in Chip, chip.type = "flash"
  PROVE  LET is(mode, banks) == FlashChip(mode, 0, chip.bank, banks)
             held == chip.flash_bank_cnt
         IN /\ chip.flash_mode = "base" =>
                 /\ After(144) = is("id", held) /\ After(128) = is("erase", held)
                 /\ After(160) = is("write", held) /\ After(176) = is("bankswitch", "128K")
            /\ chip.flash_mode = "id" => After(240) = is("base", held)
            /\ chip.flash_mode = "erase" => After(16) = is("base", held)
<1>1. ASSUME chip.flash_mode = "base"
      PROVE  After(144) = FlashChip("id", 0, chip.bank, chip.flash_bank_cnt)
  <2>1. Commanded(144) = [chip EXCEPT !.position = 0, !.flash_mode = "id"]
    BY <1>1, ChipIs DEF Commanded
  <2>2. [[chip EXCEPT !.position = 0, !.flash_mode = "id"] EXCEPT !.type = Known(@)]
          = FlashChip("id", 0, chip.bank, chip.flash_bank_cnt)
    BY ChipIs DEF FlashChip, Known
  <2>3. QED
    BY <2>1, <2>2 DEF After
<1>2. ASSUME chip.flash_mode = "base"
      PROVE  After(128) = FlashChip("erase", 0, chip.bank, chip.flash_bank_cnt)
  <2>1. Commanded(128) = [chip EXCEPT !.position = 0, !.flash_mode = "erase"]
    BY <1>2, ChipIs DEF Commanded
  <2>2. [[chip EXCEPT !.position = 0, !.flash_mode = "erase"] EXCEPT !.type = Known(@)]
          = FlashChip("erase", 0, chip.bank, chip.flash_bank_cnt)
    BY ChipIs DEF FlashChip, Known
  <2>3. QED
    BY <2>1, <2>2 DEF After
<1>3. ASSUME chip.flash_mode = "base"
      PROVE  After(160) = FlashChip("write", 0, chip.bank, chip.flash_bank_cnt)
  <2>1. Commanded(160) = [chip EXCEPT !.position = 0, !.flash_mode = "write"]
    BY <1>3, ChipIs DEF Commanded
  <2>2. [[chip EXCEPT !.position = 0, !.flash_mode = "write"] EXCEPT !.type = Known(@)]
          = FlashChip("write", 0, chip.bank, chip.flash_bank_cnt)
    BY ChipIs DEF FlashChip, Known
  <2>3. QED
    BY <2>1, <2>2 DEF After
<1>4. ASSUME chip.flash_mode = "base"
      PROVE  After(176) = FlashChip("bankswitch", 0, chip.bank, "128K")
  <2>1. Commanded(176) = [chip EXCEPT !.position = 0, !.flash_mode = "bankswitch",
                                !.flash_bank_cnt = "128K"]
    BY <1>4, ChipIs DEF Commanded
  <2>2. [[chip EXCEPT !.position = 0, !.flash_mode = "bankswitch", !.flash_bank_cnt = "128K"]
            EXCEPT !.type = Known(@)]
          = FlashChip("bankswitch", 0, chip.bank, "128K")
    BY ChipIs DEF FlashChip, Known
  <2>3. QED
    BY <2>1, <2>2 DEF After
<1>5. ASSUME chip.flash_mode = "id"
      PROVE  After(240) = FlashChip("base", 0, chip.bank, chip.flash_bank_cnt)
  <2>1. Commanded(240) = [chip EXCEPT !.position = 0, !.flash_mode = "base"]
    BY <1>5, ChipIs DEF Commanded
  <2>2. [[chip EXCEPT !.position = 0, !.flash_mode = "base"] EXCEPT !.type = Known(@)]
          = FlashChip("base", 0, chip.bank, chip.flash_bank_cnt)
    BY ChipIs DEF FlashChip, Known
  <2>3. QED
    BY <2>1, <2>2 DEF After
<1>6. ASSUME chip.flash_mode = "erase"
      PROVE  After(16) = FlashChip("base", 0, chip.bank, chip.flash_bank_cnt)
  <2>1. Commanded(16) = [chip EXCEPT !.position = 0, !.flash_mode = "base"]
    BY <1>6, ChipIs DEF Commanded
  <2>2. [[chip EXCEPT !.position = 0, !.flash_mode = "base"] EXCEPT !.type = Known(@)]
          = FlashChip("base", 0, chip.bank, chip.flash_bank_cnt)
    BY ChipIs DEF FlashChip, Known
  <2>3. QED
    BY <2>1, <2>2 DEF After
<1>7. QED
  BY <1>1, <1>2, <1>3, <1>4, <1>5, <1>6

(* The counts of writes.                                                   *)
LEMMA Positions ==
  /\ \A what : PositionAfter(what, 0) = 0 /\ PositionAfter(what, 1) = 1
               /\ PositionAfter(what, 2) = 2 /\ PositionAfter(what, 3) = 0
  /\ \A what : what # "id" => PositionAfter(what, 4) = 1 /\ PositionAfter(what, 5) = 2
  /\ PositionAfter("id", 4) = 0 /\ PositionAfter("id", 5) = 0 /\ PositionAfter("id", 6) = 1
  /\ PositionAfter("id", 7) = 2
BY DEF PositionAfter

(* The ends of operations.                                                 *)
LEMMA EndOfErase ==
  ASSUME chip \in Chip, chip.type = "flash", chip.position = 2, chip.flash_mode = "erase",
         NEW a, a # Cmd1
  PROVE  write_backup(a, 48)
           = <<FlashChip("base", 0, chip.bank, chip.flash_bank_cnt), Filled(Sector(a))>>
<1>1. write_backup(a, 48)
        = <<[chip EXCEPT !.flash_mode = "base", !.position = 0], Filled(Sector(a))>>
  BY DEF write_backup, AtOther
<1>2. [chip EXCEPT !.flash_mode = "base", !.position = 0]
        = FlashChip("base", 0, chip.bank, chip.flash_bank_cnt)
  BY ChipIs DEF FlashChip
<1>3. QED
  BY <1>1, <1>2

LEMMA EndOfBankSwitch ==
  ASSUME chip \in Chip, chip.type = "flash", chip.position = 0, chip.flash_mode = "bankswitch",
         chip.flash_bank_cnt = "128K", NEW b \in 0 .. 1
  PROVE  write_backup(0, b) = <<FlashChip("base", 0, b, "128K"), gamepak_backup>>
<1>1. b % 2 = b /\ 0 # Cmd1
  BY Constants
<1>2. write_backup(0, b)
        = <<[chip EXCEPT !.flash_mode = "base", !.bank = b % 2], gamepak_backup>>
  BY <1>1 DEF write_backup, AtOther
<1>3. [chip EXCEPT !.flash_mode = "base", !.bank = b] = FlashChip("base", 0, b, "128K")
  BY ChipIs DEF FlashChip
<1>4. QED
  BY <1>1, <1>2, <1>3

LEMMA EndOfProgram ==
  ASSUME chip \in Chip, chip.type = "flash", chip.position = 0, chip.flash_mode = "write",
         NEW a, NEW v
  PROVE  write_backup(a, v) = <<FlashChip("base", 0, chip.bank, chip.flash_bank_cnt),
                                [gamepak_backup EXCEPT ![Full(a)] = v]>>
<1>1. write_backup(a, v)
        = <<[chip EXCEPT !.flash_mode = "base"], [gamepak_backup EXCEPT ![Full(a)] = v]>>
  BY DEF write_backup, AtOther
<1>2. [chip EXCEPT !.flash_mode = "base"]
        = FlashChip("base", 0, chip.bank, chip.flash_bank_cnt)
  BY ChipIs DEF FlashChip
<1>3. QED
  BY <1>1, <1>2

(* A write to a flash chip moves its command on; the last one changes the  *)
(* memory.                                                                 *)
FlashWritten(op) ==
  CASE op.what = "program" -> [gamepak_backup EXCEPT ![op.at + BankSize * cpu.bank] = op.value]
    [] op.what = "sector"  -> Filled(Sector(op.at))
    [] op.what = "chip"    -> Filled(Cells)
    [] OTHER               -> gamepak_backup

LEMMA FlashWrites ==
  ASSUME kind \in Kinds, Flash, Fits(cpu, chip), GameWritesByte
  PROVE  /\ Fits(cpu', chip') /\ marked' /\ chip'.type = "flash"
         /\ cpu'.todo # <<>> => gamepak_backup' = gamepak_backup /\ promise' = promise
         /\ cpu'.todo = <<>> => /\ promise' = Meant(cpu.op) /\ cpu.op \in Ops
                                /\ gamepak_backup' = FlashWritten(cpu.op)
                                /\ chip'.flash_bank_cnt = "128K" \/ cpu.bank = 0
<1> DEFINE a == Accesses(cpu.op)
           op == cpu.op
           m == Made(cpu)
           held == chip.flash_bank_cnt
<1>1. cpu.todo # <<>> /\ Head(cpu.todo).do = "write"
  BY DEF GameWritesByte, Doing
<1>2. /\ cpu \in Cpu /\ chip \in Chip /\ IsTheRest(cpu) /\ FlashAt(op.what, m, chip)
      /\ chip.bank = cpu.bank /\ chip.type \in TypeOf[kind]
      /\ chip.bank = 1 => chip.flash_bank_cnt = "128K"
  BY <1>1 DEF Fits
<1>3. chip.type # "eeprom" /\ chip.bank \in 0 .. 1 /\ held \in {"64K", "128K"}
  BY <1>2 DEF TypeOf, Flash, Chip
<1>4. cpu.heard \in Nat /\ Advance(cpu.heard)
  BY <1>2 DEF GameWritesByte, Cpu
<1>5. /\ m \in Nat /\ m < Len(a) /\ Head(cpu.todo) = a[m + 1] /\ op \in Ops
  BY <1>1, <1>2, NextAccess
<1>6. FlashAccesses(op, a)
  BY <1>5, AccessesOfFlash
<1>7. ASSUME NEW x, NEW v, a[m + 1] = W(x, v)
      PROVE  /\ chip' = write_backup(x, v)[1] /\ gamepak_backup' = write_backup(x, v)[2]
             /\ marked'
  <2>1. Head(cpu.todo).at = x /\ Head(cpu.todo).value = v
    BY <1>5, <1>7 DEF W
  <2>2. QED
    BY <1>3, <2>1 DEF GameWritesByte
<1>8. \A x : a[m + 1] # R(x)
  BY <1>1, <1>5 DEF R
<1>9. op.what \in {"program", "byte", "sector", "chip", "id", "bank"} /\ op.at \in Nat
  BY <1>5, OpsAre
<1>10. op.what # "byte"
  <2>1. SUFFICES ASSUME op.what = "byte" PROVE FALSE
    OBVIOUS
  <2>2. Len(a) = 1 /\ a[1] = R(op.at)
    BY <1>6, <2>1 DEF FlashAccesses
  <2>3. m = 0
    BY <1>5, <2>2
  <2>4. QED
    BY <1>8, <2>2, <2>3
<1>11. Len(a) >= 4 /\ Len(a) \in Nat /\ a[1] = W(Cmd1, 170) /\ a[2] = W(Cmd2, 85)
  BY <1>6, <1>10 DEF FlashAccesses
<1>12. /\ chip.flash_mode = IF m < 3 THEN "base" ELSE ModeAfter(op.what)
       /\ chip.position = PositionAfter(op.what, m)
       /\ m > 0 => chip.type = "flash"
       /\ op.what = "bank" /\ m = 3 => held = "128K"
  BY <1>2 DEF FlashAt
(* What follows when the chip has become another.                          *)
<1>13. ASSUME NEW mode \in {"base", "id", "erase", "write", "bankswitch"}, NEW position \in 0 .. 2,
              NEW banks \in {held, "128K"},
              chip' = FlashChip(mode, position, chip.bank, banks),
              gamepak_backup' = gamepak_backup, marked',
              m + 1 # Len(a),
              mode = IF m + 1 < 3 THEN "base" ELSE ModeAfter(op.what),
              position = PositionAfter(op.what, m + 1),
              op.what = "bank" /\ m + 1 = 3 => banks = "128K"
       PROVE  /\ Fits(cpu', chip') /\ marked' /\ chip'.type = "flash"
              /\ cpu'.todo # <<>> /\ gamepak_backup' = gamepak_backup /\ promise' = promise
  <2>1. banks \in {"64K", "128K"} /\ (chip.bank = 1 => banks = "128K")
    BY <1>2, <1>3
  <2>2. Fits(cpu', chip')
    BY <1>1, <1>2, <1>3, <1>4, <1>13, <2>1, FlashStep
  <2>3. cpu'.todo # <<>> /\ promise' = promise
    BY <1>1, <1>2, <1>4, <1>13, Advanced
  <2>4. chip'.type = "flash"
    BY <1>2, <1>3, <1>13, <2>1, FlashChipIs
  <2>5. QED
    BY <1>13, <2>2, <2>3, <2>4
<1>14. ASSUME NEW bank \in 0 .. 1, NEW banks \in {held, "128K"},
              chip' = FlashChip("base", 0, bank, banks),
              gamepak_backup' = FlashWritten(op), marked',
              m + 1 = Len(a),
              bank = IF op.what = "bank" THEN op.at ELSE cpu.bank,
              op.what = "bank" => banks = "128K"
       PROVE  /\ Fits(cpu', chip') /\ marked' /\ chip'.type = "flash"
              /\ cpu'.todo = <<>> /\ promise' = Meant(op)
              /\ gamepak_backup' = FlashWritten(op)
              /\ chip'.flash_bank_cnt = "128K" \/ cpu.bank = 0
  <2>1. banks \in {"64K", "128K"} /\ (bank = 1 => banks = "128K")
       /\ (banks = "128K" \/ cpu.bank = 0)
    BY <1>2, <1>3, <1>14
  <2>2. Fits(cpu', chip')
    BY <1>1, <1>2, <1>3, <1>4, <1>14, <2>1, FlashStep
  <2>3. cpu'.todo = <<>> /\ promise' = Meant(op)
    BY <1>1, <1>2, <1>4, <1>14, Advanced
  <2>4. chip'.type = "flash" /\ chip'.flash_bank_cnt = banks
    BY <1>2, <1>3, <1>14, <2>1, FlashChipIs
  <2>5. QED
    BY <1>14, <2>1, <2>2, <2>3, <2>4
<1> HIDE DEF a, m, op, held
<1>15. CASE m = 0
  <2>1. chip.position = 0 /\ chip.flash_mode = "base"
    BY <1>12, <1>15 DEF PositionAfter
  <2>2. chip' = FlashChip("base", 1, chip.bank, held) /\ gamepak_backup' = gamepak_backup /\ marked'
    BY <1>2, <1>7, <1>11, <1>15, <2>1, FirstOfThree DEF held
  <2>3. m + 1 # Len(a) /\ PositionAfter(op.what, m + 1) = 1 /\ m + 1 < 3
    BY <1>11, <1>15, Positions
  <2>4. QED
    BY <1>13, <1>15, <2>2, <2>3
<1>16. CASE m = 1
  <2>1. chip.position = 1 /\ chip.flash_mode = "base" /\ chip.type = "flash"
    BY <1>12, <1>16 DEF PositionAfter
  <2>2. chip' = FlashChip("base", 2, chip.bank, held) /\ gamepak_backup' = gamepak_backup /\ marked'
    BY <1>2, <1>7, <1>11, <1>16, <2>1, SecondOfThree DEF held
  <2>3. m + 1 # Len(a) /\ PositionAfter(op.what, m + 1) = 2 /\ m + 1 < 3
    <3>1. m + 1 = 2 /\ PositionAfter(op.what, 2) = 2
      BY <1>16, Positions
    <3>2. QED
      BY <1>11, <3>1
  <2>4. QED
    BY <1>13, <1>16, <2>2, <2>3
<1>17. CASE m = 2
  <2>1. chip.position = 2 /\ chip.flash_mode = "base" /\ chip.type = "flash"
    BY <1>12, <1>17 DEF PositionAfter
  <2>2. m + 1 # Len(a) /\ PositionAfter(op.what, m + 1) = 0 /\ ~(m + 1 < 3) /\ m + 1 = 3
    <3>1. m + 1 = 3 /\ PositionAfter(op.what, 3) = 0
      BY <1>17, Positions
    <3>2. QED
      BY <1>11, <3>1
  <2>3. ASSUME NEW v, a[3] = W(Cmd1, v), v # 16
        PROVE  chip' = After(v)
               /\ gamepak_backup' = gamepak_backup /\ marked'
    BY <1>2, <1>7, <1>17, <2>1, <2>3, ThirdOfThree
  <2>4. CASE op.what = "program"
    <3>1. a[3] = W(Cmd1, 160) /\ ModeAfter(op.what) = "write"
      BY <1>6, <2>4 DEF FlashAccesses, ModeAfter
    <3>2. chip' = FlashChip("write", 0, chip.bank, held)
      BY <1>2, <2>1, <2>3, <3>1, CommandedIs DEF held
    <3>3. QED
      BY <1>13, <2>2, <2>3, <2>4, <3>1, <3>2
  <2>5. CASE op.what \in {"sector", "chip"}
    <3>1. a[3] = W(Cmd1, 128) /\ ModeAfter(op.what) = "erase"
      BY <1>6, <2>5 DEF FlashAccesses, ModeAfter
    <3>2. chip' = FlashChip("erase", 0, chip.bank, held)
      BY <1>2, <2>1, <2>3, <3>1, CommandedIs DEF held
    <3>3. QED
      BY <1>13, <2>2, <2>3, <2>5, <3>1, <3>2
  <2>6. CASE op.what = "bank"
    <3>1. a[3] = W(Cmd1, 176) /\ ModeAfter(op.what) = "bankswitch"
      BY <1>6, <2>6 DEF FlashAccesses, ModeAfter
    <3>2. chip' = FlashChip("bankswitch", 0, chip.bank, "128K")
      BY <1>2, <2>1, <2>3, <3>1, CommandedIs
    <3>3. QED
      BY <1>13, <2>2, <2>3, <2>6, <3>1, <3>2
  <2>7. CASE op.what = "id"
    <3>1. a[3] = W(Cmd1, 144) /\ ModeAfter(op.what) = "id"
      BY <1>6, <2>7 DEF FlashAccesses, ModeAfter
    <3>2. chip' = FlashChip("id", 0, chip.bank, held)
      BY <1>2, <2>1, <2>3, <3>1, CommandedIs DEF held
    <3>3. QED
      BY <1>13, <2>2, <2>3, <2>7, <3>1, <3>2
  <2>8. QED
    BY <1>9, <1>10, <2>4, <2>5, <2>6, <2>7
<1>18. CASE m >= 3 /\ op.what = "program"
  <2>1. Len(a) = 4 /\ a[4] = W(op.at, op.value) /\ m = 3
    <3>1. Len(a) = 4 /\ a[4] = W(op.at, op.value)
      BY <1>6, <1>18 DEF FlashAccesses
    <3>2. QED
      BY <1>5, <1>18, <3>1
  <2>2. chip.position = 0 /\ chip.flash_mode = "write" /\ chip.type = "flash"
    BY <1>12, <1>18, <2>1 DEF PositionAfter, ModeAfter
  <2>3. /\ chip' = FlashChip("base", 0, chip.bank, held)
        /\ gamepak_backup' = [gamepak_backup EXCEPT ![Full(op.at)] = op.value] /\ marked'
    BY <1>2, <1>7, <2>1, <2>2, EndOfProgram DEF held
  <2>4. gamepak_backup' = FlashWritten(op)
    BY <1>2, <1>18, <2>3 DEF FlashWritten, Full
  <2>5. QED
    <3>1. chip' = FlashChip("base", 0, chip.bank, held) /\ marked' /\ m + 1 = Len(a)
      BY <2>1, <2>3
    <3>2. chip.bank = IF op.what = "bank" THEN op.at ELSE cpu.bank
      BY <1>2, <1>18
    <3>3. QED
      BY <1>3, <1>5, <1>14, <1>18, <2>4, <3>1, <3>2 DEF op
<1>19. CASE m >= 3 /\ op.what = "bank"
  <2>1. Len(a) = 4 /\ a[4] = W(0, op.at) /\ m = 3
    <3>1. Len(a) = 4 /\ a[4] = W(0, op.at)
      BY <1>6, <1>19 DEF FlashAccesses
    <3>2. QED
      BY <1>5, <1>19, <3>1
  <2>2. /\ chip.position = 0 /\ chip.flash_mode = "bankswitch" /\ chip.type = "flash"
        /\ held = "128K"
    BY <1>12, <1>19, <2>1 DEF PositionAfter, ModeAfter
  <2>3. op.at \in 0 .. 1
    BY <1>5, <1>19, OpsAre
  <2>4. /\ chip' = FlashChip("base", 0, op.at, "128K")
        /\ gamepak_backup' = gamepak_backup /\ marked'
    BY <1>2, <1>7, <2>1, <2>2, <2>3, EndOfBankSwitch DEF held
  <2>5. gamepak_backup' = FlashWritten(op)
    BY <1>19, <2>4 DEF FlashWritten
  <2>6. QED
    BY <1>5, <1>14, <1>19, <2>1, <2>3, <2>4, <2>5 DEF op
<1>20. CASE m >= 3 /\ op.what \in {"sector", "chip"}
  <2>1. /\ Len(a) = 6 /\ a[4] = W(Cmd1, 170) /\ a[5] = W(Cmd2, 85) /\ m \in {3, 4, 5}
    <3>1. Len(a) = 6 /\ a[4] = W(Cmd1, 170) /\ a[5] = W(Cmd2, 85)
      BY <1>6, <1>20 DEF FlashAccesses
    <3>2. QED
      BY <1>5, <1>20, <3>1
  <2>2. /\ chip.position = m - 3 /\ chip.flash_mode = "erase" /\ chip.type = "flash"
        /\ ModeAfter(op.what) = "erase"
    BY <1>12, <1>20, <2>1 DEF PositionAfter, ModeAfter
  <2>3. CASE m = 3
    <3>1. chip' = FlashChip("erase", 1, chip.bank, held)
          /\ gamepak_backup' = gamepak_backup /\ marked'
      BY <1>2, <1>7, <2>1, <2>2, <2>3, FirstOfThree DEF held
    <3>2. m + 1 # Len(a) /\ PositionAfter(op.what, m + 1) = 1 /\ ~(m + 1 < 3)
      BY <1>20, <2>1, <2>3 DEF PositionAfter
    <3>3. QED
      BY <1>13, <1>20, <2>2, <3>1, <3>2
  <2>4. CASE m = 4
    <3>1. chip' = FlashChip("erase", 2, chip.bank, held)
          /\ gamepak_backup' = gamepak_backup /\ marked'
      BY <1>2, <1>7, <2>1, <2>2, <2>4, SecondOfThree DEF held
    <3>2. m + 1 # Len(a) /\ PositionAfter(op.what, m + 1) = 2 /\ ~(m + 1 < 3)
      BY <1>20, <2>1, <2>4 DEF PositionAfter
    <3>3. QED
      BY <1>13, <1>20, <2>2, <3>1, <3>2
  <2>5. CASE m = 5 /\ op.what = "sector"
    <3>1. a[6] = W(op.at, 48)
      BY <1>6, <2>5 DEF FlashAccesses
    <3>2. op.at # Cmd1
      BY <1>5, <2>5, OpsAre, Constants
    <3>3. /\ chip' = FlashChip("base", 0, chip.bank, held)
          /\ gamepak_backup' = Filled(Sector(op.at)) /\ marked'
      BY <1>2, <1>7, <2>2, <2>5, <3>1, <3>2, EndOfErase DEF held
    <3>4. gamepak_backup' = FlashWritten(op)
      BY <2>5, <3>3 DEF FlashWritten
    <3>5. QED
      BY <1>5, <1>2, <1>3, <1>14, <2>1, <2>5, <3>3, <3>4 DEF op
  <2>6. CASE m = 5 /\ op.what = "chip"
    <3>1. a[6] = W(Cmd1, 16)
      BY <1>6, <2>6 DEF FlashAccesses
    <3>2. /\ chip' = After(16)
          /\ gamepak_backup' = Filled(Cells) /\ marked'
      BY <1>2, <1>7, <2>2, <2>6, <3>1, ThirdOfThree
    <3>3. chip' = FlashChip("base", 0, chip.bank, held)
      BY <1>2, <2>2, <3>2, CommandedIs DEF held
    <3>4. gamepak_backup' = FlashWritten(op)
      BY <2>6, <3>2 DEF FlashWritten
    <3>5. QED
      BY <1>5, <1>2, <1>3, <1>14, <2>1, <2>6, <3>2, <3>3, <3>4 DEF op
  <2>7. QED
    BY <1>20, <2>1, <2>3, <2>4, <2>5, <2>6
<1>21. CASE m >= 3 /\ op.what = "id"
  <2>1. /\ Len(a) = 8 /\ a[4] = R(0) /\ a[5] = R(1)
        /\ a[6] = W(Cmd1, 170) /\ a[7] = W(Cmd2, 85) /\ a[8] = W(Cmd1, 240)
    BY <1>6, <1>21 DEF FlashAccesses
  <2>2. m \in {5, 6, 7}
    <3>1. m # 3 /\ m # 4
      BY <1>8, <2>1
    <3>2. QED
      BY <1>5, <1>21, <2>1, <3>1
  <2>3. /\ chip.position = m - 5 /\ chip.flash_mode = "id" /\ chip.type = "flash"
        /\ ModeAfter(op.what) = "id"
    BY <1>12, <1>21, <2>2 DEF PositionAfter, ModeAfter
  <2>4. CASE m = 5
    <3>1. chip' = FlashChip("id", 1, chip.bank, held)
          /\ gamepak_backup' = gamepak_backup /\ marked'
      BY <1>2, <1>7, <2>1, <2>3, <2>4, FirstOfThree DEF held
    <3>2. m + 1 # Len(a) /\ PositionAfter(op.what, m + 1) = 1 /\ ~(m + 1 < 3)
      BY <1>21, <2>1, <2>4 DEF PositionAfter
    <3>3. QED
      BY <1>13, <1>21, <2>3, <3>1, <3>2
  <2>5. CASE m = 6
    <3>1. chip' = FlashChip("id", 2, chip.bank, held)
          /\ gamepak_backup' = gamepak_backup /\ marked'
      BY <1>2, <1>7, <2>1, <2>3, <2>5, SecondOfThree DEF held
    <3>2. m + 1 # Len(a) /\ PositionAfter(op.what, m + 1) = 2 /\ ~(m + 1 < 3)
      BY <1>21, <2>1, <2>5 DEF PositionAfter
    <3>3. QED
      BY <1>13, <1>21, <2>3, <3>1, <3>2
  <2>6. CASE m = 7
    <3>1. /\ chip' = After(240)
          /\ gamepak_backup' = gamepak_backup /\ marked'
      BY <1>2, <1>7, <2>1, <2>3, <2>6, ThirdOfThree
    <3>2. chip' = FlashChip("base", 0, chip.bank, held)
      BY <1>2, <2>3, <3>1, CommandedIs DEF held
    <3>3. gamepak_backup' = FlashWritten(op)
      BY <1>21, <3>1 DEF FlashWritten
    <3>4. QED
      BY <1>5, <1>2, <1>3, <1>14, <1>21, <2>1, <2>6, <3>1, <3>2, <3>3 DEF op
  <2>7. QED
    BY <2>2, <2>4, <2>5, <2>6
<1>22. m = 0 \/ m = 1 \/ m = 2 \/ m >= 3
  BY <1>5
<1>23. QED
  BY <1>9, <1>10, <1>15, <1>16, <1>17, <1>18, <1>19, <1>20, <1>21, <1>22

-----------------------------------------------------------------------------
(* What an access is to leave.                                             *)
Moved ==
  /\ Fits(cpu', chip')
  /\ promise' \in [Cells -> Bytes] /\ gamepak_backup' \in [Cells -> Nat]
  /\ gamepak_backup = Present(cpu, promise) => gamepak_backup' = Present(cpu', promise')
  /\ marked' \in BOOLEAN
  /\ marked => marked'
  /\ promise' # promise => marked'
  /\ marked' => marked \/ CellsOf[FileSize'] > 0
  /\ MustBeMarked(cpu') => marked'
  /\ \A c \in Cells : promise'[c] # Erased => promise[c] # Erased \/ c < CellsOf[FileSize']
  /\ gamepak_backup = Present(cpu, promise) /\ HeardFits(cpu, promise) => HeardFits(cpu', promise')

(* What an operation is to do to the memory.                               *)
LEMMA MeantIs ==
  ASSUME kind \in Kinds, promise \in [Cells -> Bytes], NEW op \in Ops
  PROVE  /\ Meant(op) \in [Cells -> Bytes]
         /\ op.what \in {"bank", "id", "byte", "get"} => Meant(op) = promise
         /\ op.what \in {"sector", "chip"} =>
              \A c \in Cells : Meant(op)[c] = Erased \/ Meant(op)[c] = promise[c]
         /\ op.what \in {"store", "put"} => Meant(op) = [promise EXCEPT ![op.at] = op.value]
         /\ op.what = "program" =>
              Meant(op) = [promise EXCEPT ![op.at + BankSize * cpu.bank] = op.value]
<1>1. /\ op.what \in {"store", "put", "program"} => op.value \in Bytes
      /\ op.what \in {"store", "put", "program", "sector", "chip", "bank", "id", "byte", "get"}
  BY OpsAre, Constants DEF Kinds, Flash, Eeprom
<1>2. Erased \in Bytes
  BY DEF Erased, Bytes
<1>3. CASE op.what \in {"store", "put"}
  BY <1>1, <1>3 DEF Meant
<1>4. CASE op.what = "program"
  BY <1>1, <1>4 DEF Meant
<1>5. CASE op.what = "sector"
  <2>1. Meant(op) = [c \in Cells |->
                       IF c \in op.at + BankSize * cpu.bank
                                 .. op.at + BankSize * cpu.bank + SectorSize - 1
                       THEN Erased ELSE promise[c]]
    BY <1>5 DEF Meant
  <2>2. QED
    BY <1>2, <1>5, <2>1
<1>6. CASE op.what = "chip"
  <2>1. Meant(op) = [c \in Cells |-> Erased]
    BY <1>6 DEF Meant
  <2>2. QED
    BY <1>2, <1>6, <2>1
<1>7. CASE op.what \in {"bank", "id", "byte", "get"}
  BY <1>7 DEF Meant
<1>8. QED
  BY <1>1, <1>3, <1>4, <1>5, <1>6, <1>7

(* A sector's bytes are the ones from its address on.                      *)
LEMMA SectorIs ==
  ASSUME NEW full \in Nat, full % SectorSize = 0, NEW c \in Nat
  PROVE  c \div SectorSize = full \div SectorSize <=> c \in full .. full + SectorSize - 1
<1> DEFINE n == SectorSize
           q == full \div n
           p == c \div n
           r == c % n
<1>1. n \in Nat \ {0}
  BY Constants
<1>2. full = n * q + (full % n) /\ full % n = 0 /\ q \in Nat
  BY <1>1, Quotient
<1>2a. full = n * q
  BY <1>1, <1>2
<1>3. c = n * p + r /\ r \in 0 .. n - 1 /\ p \in Nat
  BY <1>1, Quotient
<1>4. ASSUME c \in full .. full + n - 1 PROVE p = q
  <2>1. c - full \in 0 .. n - 1 /\ c = n * q + (c - full)
    BY <1>1, <1>2, <1>2a, <1>4
  <2> HIDE DEF q
  <2>2. QED
    BY <1>1, <1>2, <2>1, OneQuotient
<1>5. ASSUME p = q PROVE c \in full .. full + n - 1
  <2> HIDE DEF n, q, p, r
  <2>1. n * p = n * q
    BY <1>5
  <2>2. c = full + r
    BY <1>1, <1>2a, <1>3, <2>1
  <2>3. QED
    BY <1>1, <1>3, <2>2
<1>6. QED
  BY <1>4, <1>5

LEMMA MultipleOfSector ==
  ASSUME NEW a \in Nat, a % SectorSize = 0, NEW bank \in 0 .. 1
  PROVE  a + BankSize * bank \in Nat /\ (a + BankSize * bank) % SectorSize = 0
<1> DEFINE n == SectorSize
           q == a \div n
           p == BankSize \div n
<1>1. n \in Nat \ {0} /\ BankSize \in Nat /\ BankSize % n = 0
  BY Constants
<1>2. a = n * q + (a % n) /\ a % n = 0 /\ q \in Nat
  BY <1>1, Quotient
<1>3. BankSize = n * p + (BankSize % n) /\ p \in Nat
  BY <1>1, Quotient
<1> HIDE DEF n, q, p
<1>4. CASE bank = 0
  <2>1. a + BankSize * bank = a
    BY <1>1, <1>4
  <2>2. QED
    BY <1>2, <2>1 DEF n
<1>5. CASE bank = 1
  <2>1. a + BankSize * bank = n * (q + p) + 0 /\ q + p \in Nat /\ 0 \in 0 .. n - 1
        /\ a + BankSize * bank \in Nat
    BY <1>1, <1>2, <1>3, <1>5
  <2> DEFINE x == a + BankSize * bank
  <2> HIDE DEF x
  <2>2. x % n = 0
    BY <1>1, <2>1, OneQuotient DEF x
  <2>3. QED
    BY <2>1, <2>2 DEF n, x
<1>6. QED
  BY <1>4, <1>5

(* The last write of an operation does to a flash chip what was meant.     *)
LEMMA FlashWrittenIsMeant ==
  ASSUME kind \in Kinds, Flash, chip \in Chip, cpu \in Cpu, chip.bank = cpu.bank, NEW op \in Ops,
         promise \in [Cells -> Bytes], gamepak_backup \in [Cells -> Nat]
  PROVE  /\ FlashWritten(op) \in [Cells -> Nat]
         /\ gamepak_backup = promise => FlashWritten(op) = Meant(op)
<1>1. cpu.bank \in 0 .. 1 /\ op.at \in Nat /\ op.value \in Nat
      /\ op.what \in {"program", "byte", "sector", "chip", "id", "bank"}
  BY OpsAre DEF Cpu
<1>2. Erased \in Nat
  BY DEF Erased
<1>3. CASE op.what = "program"
  <2>1. FlashWritten(op) = [gamepak_backup EXCEPT ![op.at + BankSize * cpu.bank] = op.value]
    BY <1>3 DEF FlashWritten
  <2>2. Meant(op) = [promise EXCEPT ![op.at + BankSize * cpu.bank] = op.value]
    BY <1>3, MeantIs
  <2>3. QED
    BY <1>1, <2>1, <2>2
<1>4. CASE op.what = "sector"
  <2> DEFINE full == op.at + BankSize * cpu.bank
  <2>1. FlashWritten(op) = [c \in Cells |-> IF c \in Sector(op.at) THEN Erased
                                            ELSE gamepak_backup[c]]
    BY <1>4 DEF FlashWritten, Filled
  <2>2. Meant(op) = [c \in Cells |-> IF c \in full .. full + SectorSize - 1 THEN Erased
                                     ELSE promise[c]]
    BY <1>4 DEF Meant
  <2>3. full \in Nat /\ full % SectorSize = 0
    BY <1>1, <1>4, OpsAre, MultipleOfSector
  <2>4. ASSUME NEW c \in Cells PROVE c \in Sector(op.at) <=> c \in full .. full + SectorSize - 1
    <3>1. c \in Nat
      BY Constants DEF Cells
    <3>2. c \in Sector(op.at) <=> c \div SectorSize = full \div SectorSize
      BY DEF Sector, Full
    <3> HIDE DEF full
    <3>3. QED
      BY <2>3, <3>1, <3>2, SectorIs
  <2> HIDE DEF full
  <2>5. QED
    BY <1>2, <2>1, <2>2, <2>4
<1>5. CASE op.what = "chip"
  <2>1. FlashWritten(op) = [c \in Cells |-> Erased]
    BY <1>5 DEF FlashWritten, Filled
  <2>2. Meant(op) = [c \in Cells |-> Erased]
    BY <1>5 DEF Meant
  <2>3. QED
    BY <1>2, <2>1, <2>2
<1>6. CASE op.what \in {"byte", "id", "bank"}
  <2>1. FlashWritten(op) = gamepak_backup
    BY <1>6 DEF FlashWritten
  <2>2. QED
    BY <1>6, <2>1, MeantIs
<1>7. QED
  BY <1>1, <1>3, <1>4, <1>5, <1>6

-----------------------------------------------------------------------------
(* The accesses of an SRAM's and of a flash chip's game.                   *)

LEMMA Fields ==
  /\ \A a, v : W(a, v).do = "write" /\ W(a, v).at = a /\ W(a, v).value = v
  /\ \A a : R(a).do = "read" /\ R(a).at = a
  /\ \A b : Bit(b).do = "out" /\ Bit(b).bit = b
  /\ In.do = "in"
  /\ \A u, t : Dma(u, t).do = "dma" /\ Dma(u, t).units = u /\ Dma(u, t).toChip = t
BY DEF W, R, Bit, In, Dma

(* Such a game puts and gets no bits.                                      *)
LEMMA NoBitsHere ==
  ASSUME ~Eeprom, NEW c, NEW p
  PROVE  /\ Present(c, p) = p /\ HeardFits(c, p) /\ ~MustBeMarked(c)
BY DEF Present, Putting, HeardFits, Getting, MustBeMarked

LEMMA SizeIs ==
  /\ chip'.type = "sram" => CellsOf[FileSize'] = BankSize /\ BankSize > 0
  /\ chip'.type = "flash" =>
       CellsOf[FileSize'] = IF chip'.flash_bank_cnt = "128K" THEN 2 * BankSize ELSE BankSize
  /\ chip'.type = "eeprom" => CellsOf[FileSize'] = CellsOf[chip'.eeprom_size]
BY SizesAre, Constants DEF FileSize

LEMMA FlashWriteMoves ==
  ASSUME TypesFit, Flash, GameWritesByte
  PROVE  Moved
<1>1. /\ kind \in Kinds /\ Fits(cpu, chip) /\ promise \in [Cells -> Bytes]
      /\ gamepak_backup \in [Cells -> Nat] /\ marked \in BOOLEAN
  BY DEF TypesFit
<1>2. ~Eeprom /\ chip \in Chip /\ cpu \in Cpu /\ chip.bank = cpu.bank
  BY <1>1 DEF Flash, Eeprom, Fits
<1>3. /\ Fits(cpu', chip') /\ marked' /\ chip'.type = "flash"
      /\ cpu'.todo # <<>> => gamepak_backup' = gamepak_backup /\ promise' = promise
      /\ cpu'.todo = <<>> => /\ promise' = Meant(cpu.op) /\ cpu.op \in Ops
                             /\ gamepak_backup' = FlashWritten(cpu.op)
                             /\ chip'.flash_bank_cnt = "128K" \/ cpu.bank = 0
  BY <1>1, FlashWrites
<1>4. CellsOf[FileSize'] \in {BankSize, 2 * BankSize} /\ CellsOf[FileSize'] > 0
      /\ (chip'.flash_bank_cnt = "128K" => CellsOf[FileSize'] = 2 * BankSize)
  BY <1>3, SizeIs, Constants
<1>5. CASE cpu'.todo # <<>>
  BY <1>1, <1>2, <1>3, <1>4, <1>5, NoBitsHere DEF Moved
<1>6. CASE cpu'.todo = <<>>
  <2> DEFINE op == cpu.op
  <2>1. op \in Ops /\ promise' = Meant(op) /\ gamepak_backup' = FlashWritten(op)
    BY <1>3, <1>6
  <2>2. promise' \in [Cells -> Bytes]
    BY <1>1, <2>1, MeantIs
  <2>3. gamepak_backup' \in [Cells -> Nat]
       /\ (gamepak_backup = promise => gamepak_backup' = promise')
    BY <1>1, <1>2, <2>1, FlashWrittenIsMeant
  <2>4. ASSUME NEW c \in Cells, promise'[c] # Erased
        PROVE  promise[c] # Erased \/ c < CellsOf[FileSize']
    <3>1. op.what \in {"program", "byte", "sector", "chip", "id", "bank"}
      BY <1>1, <2>1, OpsAre
    <3>2. CASE op.what # "program"
      BY <1>1, <2>1, <2>4, <3>1, <3>2, MeantIs
    <3>3. CASE op.what = "program"
      <4>1. op.at \in 0 .. BankSize - 1
        BY <1>1, <2>1, <3>3, OpsAre, Constants
      <4>2. promise' = [promise EXCEPT ![op.at + BankSize * cpu.bank] = op.value]
        BY <1>1, <2>1, <3>3, MeantIs
      <4>3. CASE c = op.at + BankSize * cpu.bank
        <5>1. cpu.bank \in 0 .. 1 /\ (cpu.bank = 0 \/ CellsOf[FileSize'] = 2 * BankSize)
          BY <1>2, <1>3, <1>4, <1>6 DEF Cpu
        <5>2. c < CellsOf[FileSize']
          <6>1. CASE cpu.bank = 0
            BY <1>4, <4>1, <4>3, <6>1, Constants
          <6>2. CASE cpu.bank = 1
            BY <1>4, <4>1, <4>3, <5>1, <6>2, Constants
          <6>3. QED
            BY <5>1, <6>1, <6>2
        <5>3. QED
          BY <5>2
      <4>4. CASE c # op.at + BankSize * cpu.bank
        BY <1>1, <2>4, <4>2, <4>4
      <4>5. QED
        BY <4>3, <4>4
    <3>4. QED
      BY <3>2, <3>3
  <2>5. QED
    BY <1>2, <1>3, <1>4, <2>2, <2>3, <2>4, NoBitsHere DEF Moved
<1>7. QED
  BY <1>5, <1>6

(* A read by a game whose memory is no EEPROM.                             *)
LEMMA KnownIs ==
  ASSUME NEW type \in Types
  PROVE  /\ Known(type) \in Types
         /\ type = "unknown" => Known(type) = "sram"
         /\ type # "unknown" => Known(type) = type
BY DEF Known, Types

LEMMA Learned ==
  ASSUME chip \in Chip, NEW type \in Types
  PROVE  LET h == [chip EXCEPT !.type = type]
         IN /\ h \in Chip /\ h.type = type /\ h.flash_mode = chip.flash_mode
            /\ h.position = chip.position /\ h.bank = chip.bank
            /\ h.flash_bank_cnt = chip.flash_bank_cnt /\ h.eeprom_size = chip.eeprom_size
            /\ h.eeprom_mode = chip.eeprom_mode /\ h.eeprom_counter = chip.eeprom_counter
            /\ h.eeprom_address = chip.eeprom_address
<1>1. [chip EXCEPT !.type = type] \in Chip
  BY DEF Chip
<1>2. [chip EXCEPT !.type = type].type = type
      /\ [chip EXCEPT !.type = type].flash_mode = chip.flash_mode
      /\ [chip EXCEPT !.type = type].position = chip.position
  BY DEF Chip
<1>3. [chip EXCEPT !.type = type].bank = chip.bank
      /\ [chip EXCEPT !.type = type].flash_bank_cnt = chip.flash_bank_cnt
      /\ [chip EXCEPT !.type = type].eeprom_size = chip.eeprom_size
  BY DEF Chip
<1>4. [chip EXCEPT !.type = type].eeprom_mode = chip.eeprom_mode
      /\ [chip EXCEPT !.type = type].eeprom_counter = chip.eeprom_counter
      /\ [chip EXCEPT !.type = type].eeprom_address = chip.eeprom_address
  BY DEF Chip
<1>5. QED
  BY <1>1, <1>2, <1>3, <1>4

LEMMA HeardIsNat ==
  ASSUME chip \in Chip, gamepak_backup \in [Cells -> Nat], NEW a \in 0 .. BankSize - 1
  PROVE  read_backup(a) \in Nat
<1>1. a \in Cells /\ Full(a) \in Cells
  <2>1. chip.bank \in 0 .. 1
    BY DEF Chip
  <2>2. a \in Cells
    BY Constants DEF Cells
  <2>3. CASE chip.bank = 0
    BY <2>2, <2>3, Constants DEF Full, Cells
  <2>4. CASE chip.bank = 1
    BY <2>4, Constants DEF Full, Cells
  <2>5. QED
    BY <2>1, <2>2, <2>3, <2>4
<1>2. QED
  BY <1>1 DEF read_backup

LEMMA SramReads ==
  ASSUME TypesFit, kind = "sram", GameReadsByte
  PROVE  /\ Moved /\ promise' = promise
         /\ gamepak_backup = promise => cpu'.heard = promise[cpu.op.at + BankSize * cpu.bank]
<1>1. /\ kind \in Kinds /\ Fits(cpu, chip) /\ promise \in [Cells -> Bytes]
      /\ gamepak_backup \in [Cells -> Nat] /\ marked \in BOOLEAN
  BY DEF TypesFit
<1>2. ~Eeprom /\ ~Flash /\ TypeOf[kind] = {"unknown", "sram"}
  BY DEF Flash, Eeprom, TypeOf
<1>3. cpu.todo # <<>> /\ Head(cpu.todo).do = "read"
  BY DEF GameReadsByte, Doing
<1>4. /\ cpu \in Cpu /\ chip \in Chip /\ IsTheRest(cpu) /\ AtRest(chip)
      /\ chip.bank = cpu.bank /\ chip.type \in TypeOf[kind] /\ chip.bank # 1
  BY <1>1, <1>2, <1>3 DEF Fits
<1>5. /\ Made(cpu) \in Nat /\ Made(cpu) < Len(Accesses(cpu.op))
      /\ Head(cpu.todo) = Accesses(cpu.op)[Made(cpu) + 1] /\ cpu.op \in Ops
  BY <1>1, <1>3, <1>4, NextAccess
<1>6. Len(Accesses(cpu.op)) = 1 /\ Head(cpu.todo) = R(cpu.op.at) /\ Made(cpu) = 0
      /\ cpu.op.what = "byte"
  <2>1. Len(Accesses(cpu.op)) = 1 /\ Made(cpu) = 0
    BY <1>5, AccessesOfSram
  <2>2. Head(cpu.todo) = Accesses(cpu.op)[1]
    BY <1>5, <2>1
  <2>3. cpu.op.what # "store"
    BY <1>3, <1>5, <2>2, AccessesOfSram, Fields
  <2>4. QED
    BY <1>5, <2>1, <2>2, <2>3, AccessesOfSram
<1>7. Head(cpu.todo).at = cpu.op.at /\ cpu.op.at \in 0 .. BankSize - 1
  <2>1. cpu.op.at \in Addresses
    BY <1>1, <1>5, <1>6, OpsAre
  <2>2. QED
    BY <1>6, <2>1, Constants, Fields
<1>8. /\ chip' = [chip EXCEPT !.type = Known(chip.type)] /\ gamepak_backup' = gamepak_backup
      /\ marked' = marked /\ Advance(read_backup(cpu.op.at))
  BY <1>7 DEF GameReadsByte
<1>9. read_backup(cpu.op.at) \in Nat
  BY <1>1, <1>4, <1>7, HeardIsNat
<1>10. /\ cpu' \in Cpu /\ cpu'.heard = read_backup(cpu.op.at) /\ cpu'.todo = <<>>
       /\ promise' = Meant(cpu.op) /\ cpu'.bank = cpu.bank
  BY <1>1, <1>3, <1>4, <1>5, <1>6, <1>8, <1>9, Advanced
<1>11. promise' = promise
  BY <1>1, <1>5, <1>6, <1>10, MeantIs
<1>12. Known(chip.type) = "sram" /\ "sram" \in Types
  BY <1>2, <1>4 DEF Known, Types
<1>13. Fits(cpu', chip')
  <2>1. /\ chip' \in Chip /\ chip'.type = "sram" /\ chip'.bank = chip.bank /\ AtRest(chip')
    BY <1>4, <1>8, <1>12, Learned DEF AtRest
  <2>2. QED
    BY <1>2, <1>4, <1>10, <2>1 DEF Fits
<1>14. gamepak_backup = promise => cpu'.heard = promise[cpu.op.at + BankSize * cpu.bank]
  <2>1. read_backup(cpu.op.at) = gamepak_backup[cpu.op.at]
    BY <1>2, <1>4, <1>12 DEF read_backup
  <2>2. cpu.op.at + BankSize * cpu.bank = cpu.op.at
    BY <1>4, <1>7, Constants DEF Cpu
  <2>3. QED
    BY <1>10, <2>1, <2>2
<1>15. Moved
  BY <1>1, <1>2, <1>8, <1>11, <1>13, NoBitsHere DEF Moved
<1>16. QED
  BY <1>11, <1>14, <1>15

LEMMA SramWriteMoves ==
  ASSUME TypesFit, kind = "sram", GameWritesByte
  PROVE  Moved
<1>1. /\ kind \in Kinds /\ Fits(cpu, chip) /\ promise \in [Cells -> Bytes]
      /\ gamepak_backup \in [Cells -> Nat] /\ marked \in BOOLEAN
  BY DEF TypesFit
<1>2. ~Eeprom /\ ~Flash /\ TypeOf[kind] = {"unknown", "sram"}
  BY DEF Flash, Eeprom, TypeOf
<1>3. cpu.todo # <<>> /\ Head(cpu.todo).do = "write"
  BY DEF GameWritesByte, Doing
<1>4. /\ cpu \in Cpu /\ chip \in Chip /\ IsTheRest(cpu) /\ AtRest(chip)
      /\ chip.bank = cpu.bank /\ chip.type \in TypeOf[kind] /\ chip.bank # 1
  BY <1>1, <1>2, <1>3 DEF Fits
<1>5. /\ Made(cpu) \in Nat /\ Made(cpu) < Len(Accesses(cpu.op))
      /\ Head(cpu.todo) = Accesses(cpu.op)[Made(cpu) + 1] /\ cpu.op \in Ops
  BY <1>1, <1>3, <1>4, NextAccess
<1>6. Len(Accesses(cpu.op)) = 1 /\ Head(cpu.todo) = W(cpu.op.at, cpu.op.value) /\ Made(cpu) = 0
      /\ cpu.op.what = "store"
  <2>1. Len(Accesses(cpu.op)) = 1 /\ Made(cpu) = 0
    BY <1>5, AccessesOfSram
  <2>2. Head(cpu.todo) = Accesses(cpu.op)[1]
    BY <1>5, <2>1
  <2>3. cpu.op.what # "byte"
    BY <1>3, <1>5, <2>2, AccessesOfSram, Fields
  <2>4. QED
    BY <1>5, <2>1, <2>2, <2>3, AccessesOfSram
<1> DEFINE a == cpu.op.at
           v == cpu.op.value
<1>7. Head(cpu.todo).at = a /\ Head(cpu.todo).value = v /\ a \in 0 .. BankSize - 1
      /\ v \in Bytes /\ ~(a = Cmd1 /\ v = 170) /\ a \in Nat
  <2>1. a \in Addresses /\ v \in Data /\ ~(a = Cmd1 /\ v = 170)
    BY <1>1, <1>5, <1>6, OpsAre
  <2>2. Head(cpu.todo).at = a /\ Head(cpu.todo).value = v
    BY <1>6, Fields
  <2>3. a \in 0 .. BankSize - 1 /\ v \in Bytes
    BY <2>1, Constants
  <2>4. a \in Nat
    BY <2>3, Constants
  <2>5. QED
    BY <2>1, <2>2, <2>3, <2>4
<1>8. Known(chip.type) = "sram" /\ "sram" \in Types /\ chip.type # "eeprom"
  BY <1>2, <1>4 DEF Known, Types
<1> HIDE DEF a, v
<1>9. write_backup(a, v) = <<[chip EXCEPT !.type = "sram"], [gamepak_backup EXCEPT ![a] = v]>>
  <2>1. chip.position = 0 /\ chip.flash_mode = "base"
    BY <1>4 DEF AtRest
  <2>2. CASE a = Cmd1
    <3>1. write_backup(a, v) = <<[chip EXCEPT !.type = Known(@)], [gamepak_backup EXCEPT ![a] = v]>>
      BY <1>7, <1>8, <2>1, <2>2 DEF write_backup
    <3>2. QED
      BY <1>8, <3>1
  <2>3. CASE a # Cmd1
    <3>1. write_backup(a, v) = <<[chip EXCEPT !.type = Known(@)], [gamepak_backup EXCEPT ![a] = v]>>
      BY <1>8, <2>1, <2>3 DEF write_backup, AtOther
    <3>2. QED
      BY <1>8, <3>1
  <2>4. QED
    BY <2>2, <2>3
<1>10. /\ chip' = [chip EXCEPT !.type = "sram"]
       /\ gamepak_backup' = [gamepak_backup EXCEPT ![a] = v]
       /\ marked' = TRUE /\ Advance(cpu.heard)
  BY <1>7, <1>8, <1>9 DEF GameWritesByte
<1>11. cpu.heard \in Nat
  BY <1>4 DEF Cpu
<1>12. /\ cpu' \in Cpu /\ cpu'.todo = <<>> /\ promise' = Meant(cpu.op) /\ cpu'.bank = cpu.bank
  BY <1>1, <1>3, <1>4, <1>5, <1>6, <1>10, <1>11, Advanced
<1>13. promise' = [promise EXCEPT ![a] = v]
  BY <1>1, <1>5, <1>6, <1>12, MeantIs DEF a, v
<1>14. /\ chip' \in Chip /\ chip'.type = "sram" /\ chip'.bank = chip.bank /\ AtRest(chip')
  BY <1>4, <1>8, <1>10, Learned DEF AtRest
<1>15. Fits(cpu', chip')
  BY <1>2, <1>4, <1>12, <1>14 DEF Fits
<1>16. CellsOf[FileSize'] = BankSize /\ BankSize > 0
  <2>1. chip'.type = "sram"
    BY <1>14
  <2>2. QED
    BY <2>1, SizeIs
<1>17. promise' \in [Cells -> Bytes] /\ gamepak_backup' \in [Cells -> Nat]
  <2>1. v \in Nat
    BY <1>7 DEF Bytes
  <2>2. QED
    BY <1>1, <1>7, <1>10, <1>13, <2>1
<1>18. ASSUME NEW c \in Cells, promise'[c] # Erased
       PROVE  promise[c] # Erased \/ c < CellsOf[FileSize']
  BY <1>1, <1>7, <1>13, <1>16, <1>18, Constants
<1>19. QED
  BY <1>1, <1>2, <1>10, <1>13, <1>15, <1>16, <1>17, <1>18, NoBitsHere DEF Moved

LEMMA FlashReads ==
  ASSUME TypesFit, Flash, GameReadsByte
  PROVE  /\ Moved /\ promise' = promise
         /\ gamepak_backup = promise /\ cpu.op.what = "byte" =>
              cpu'.heard = promise[cpu.op.at + BankSize * cpu.bank]
<1>1. /\ kind \in Kinds /\ Fits(cpu, chip) /\ promise \in [Cells -> Bytes]
      /\ gamepak_backup \in [Cells -> Nat] /\ marked \in BOOLEAN
  BY DEF TypesFit
<1>2. ~Eeprom /\ kind # "sram" /\ kind # "eeprom512" /\ TypeOf[kind] = {"unknown", "sram", "flash"}
  BY DEF Flash, Eeprom, TypeOf
<1>3. cpu.todo # <<>> /\ Head(cpu.todo).do = "read"
  BY DEF GameReadsByte, Doing
<1> DEFINE op == cpu.op
           a == Accesses(cpu.op)
           m == Made(cpu)
<1>4. /\ cpu \in Cpu /\ chip \in Chip /\ IsTheRest(cpu) /\ FlashAt(op.what, m, chip)
      /\ chip.bank = cpu.bank /\ chip.type \in TypeOf[kind]
      /\ chip.bank = 1 => chip.type = "flash" /\ chip.flash_bank_cnt = "128K"
      /\ chip.eeprom_mode = "base" /\ chip.eeprom_counter = 0 /\ chip.eeprom_address % 8 = 0
  BY <1>1, <1>3 DEF Fits
<1>5. /\ m \in Nat /\ Len(a) \in Nat /\ m < Len(a) /\ Head(cpu.todo) = a[m + 1] /\ op \in Ops
  BY <1>1, <1>3, <1>4, NextAccess
<1>6. FlashAccesses(op, a)
  BY <1>1, <1>5, AccessesOfFlash
<1>7. op.what \in {"program", "byte", "sector", "chip", "id", "bank"} /\ op.at \in Nat
  BY <1>1, <1>5, OpsAre
<1>8. \A x, v : a[m + 1] # W(x, v)
  BY <1>3, <1>5 DEF W
<1>9. \/ op.what = "byte" /\ m = 0 /\ Len(a) = 1 /\ a[1] = R(op.at)
      \/ op.what = "id" /\ Len(a) = 8 /\ m \in {3, 4} /\ a[4] = R(0) /\ a[5] = R(1)
  <2> HIDE DEF op, a, m
  <2>1. CASE op.what = "byte"
    <3>1. Len(a) = 1 /\ a[1] = R(op.at)
      BY <1>6, <2>1 DEF FlashAccesses
    <3>2. m = 0
      BY <1>5, <3>1
    <3>3. QED
      BY <2>1, <3>1, <3>2
  <2>2. CASE op.what # "byte"
    <3>1. m # 0 /\ m # 1
      BY <1>6, <1>8, <2>2 DEF FlashAccesses
    <3>2. CASE op.what \in {"program", "bank"}
      <4>1. Len(a) = 4 /\ (\E x, v : a[3] = W(x, v)) /\ \E x, v : a[4] = W(x, v)
        BY <1>6, <3>2 DEF FlashAccesses
      <4>2. m # 2 /\ m # 3
        BY <1>8, <4>1
      <4>3. QED
        BY <1>5, <3>1, <4>1, <4>2
    <3>3. CASE op.what \in {"sector", "chip"}
      <4>1. /\ Len(a) = 6 /\ \E x, v : a[3] = W(x, v)
            /\ \E x, v : a[4] = W(x, v)
            /\ \E x, v : a[5] = W(x, v)
            /\ \E x, v : a[6] = W(x, v)
        BY <1>6, <3>3 DEF FlashAccesses
      <4>2. m # 2 /\ m # 3 /\ m # 4 /\ m # 5
        BY <1>8, <4>1
      <4>3. QED
        BY <1>5, <3>1, <4>1, <4>2
    <3>4. CASE op.what = "id"
      <4>1. /\ Len(a) = 8 /\ a[3] = W(Cmd1, 144) /\ a[4] = R(0) /\ a[5] = R(1)
            /\ a[6] = W(Cmd1, 170) /\ a[7] = W(Cmd2, 85) /\ a[8] = W(Cmd1, 240)
        BY <1>6, <3>4 DEF FlashAccesses
      <4>2. m # 2 /\ m # 5 /\ m # 6 /\ m # 7
        BY <1>8, <4>1
      <4>3. QED
        BY <1>5, <3>1, <3>4, <4>1, <4>2
    <3>5. QED
      BY <1>7, <2>2, <3>2, <3>3, <3>4
  <2>3. QED
    BY <2>1, <2>2
<1> DEFINE at == Head(cpu.todo).at
<1>10. at \in 0 .. BankSize - 1 /\ (op.what = "byte" => at = op.at)
  <2>1. CASE op.what = "byte"
    <3>1. op.at \in Addresses
      BY <1>1, <1>5, <2>1, OpsAre
    <3>2. m + 1 = 1 /\ a[1] = R(op.at)
      BY <1>9, <2>1
    <3>3. Head(cpu.todo) = R(op.at)
      BY <1>5, <3>2
    <3>4. at = op.at
      BY <3>3, Fields
    <3>5. op.at \in 0 .. BankSize - 1
      BY <3>1, Constants
    <3>6. QED
      BY <3>4, <3>5
  <2>2. CASE op.what = "id"
    <3>1. m \in {3, 4} /\ a[4] = R(0) /\ a[5] = R(1)
      BY <1>9, <2>2
    <3>2. Head(cpu.todo) = R(0) \/ Head(cpu.todo) = R(1)
      BY <1>5, <3>1
    <3>3. at \in {0, 1}
      BY <3>2, Fields
    <3>4. BankSize > 1
      BY Constants
    <3>5. QED
      BY <2>2, <3>3, <3>4, Constants
  <2>3. QED
    BY <1>9, <2>1, <2>2
<1>11. /\ chip' = [chip EXCEPT !.type = Known(chip.type)] /\ gamepak_backup' = gamepak_backup
       /\ marked' = marked /\ Advance(read_backup(at))
  BY DEF GameReadsByte
<1>12. read_backup(at) \in Nat
  BY <1>1, <1>4, <1>10, HeardIsNat
<1>13. /\ chip.flash_mode = IF m < 3 THEN "base" ELSE ModeAfter(op.what)
       /\ chip.position = PositionAfter(op.what, m)
       /\ m > 0 => chip.type = "flash"
  BY <1>4 DEF FlashAt
<1> HIDE DEF op, a, m, at
<1>14. CASE op.what = "byte"
  <2>1. m = 0 /\ m + 1 = Len(a)
    BY <1>9, <1>14
  <2>2. /\ cpu' \in Cpu /\ cpu'.heard = read_backup(at) /\ cpu'.todo = <<>>
        /\ promise' = Meant(op) /\ cpu'.bank = cpu.bank
    BY <1>1, <1>3, <1>4, <1>11, <1>12, <1>14, <2>1, Advanced DEF op, a, m
  <2>3. promise' = promise
    BY <1>1, <1>5, <1>14, <2>2, MeantIs
  <2>4. chip.flash_mode = "base" /\ chip.position = 0
    BY <1>13, <2>1, Positions
  <2>5. Known(chip.type) \in {"sram", "flash"} /\ Known(chip.type) \in Types
        /\ (chip.type = "flash" => Known(chip.type) = "flash")
        /\ (Known(chip.type) = "flash" => chip.type = "flash")
    BY <1>2, <1>4 DEF Known, Types
  <2>6. Fits(cpu', chip')
    <3>1. /\ chip' \in Chip /\ chip'.type = Known(chip.type) /\ chip'.bank = chip.bank
          /\ chip'.flash_bank_cnt = chip.flash_bank_cnt /\ AtRest(chip')
      BY <1>4, <1>11, <2>4, <2>5, Learned DEF AtRest
    <3>2. QED
      BY <1>2, <1>4, <2>2, <2>5, <3>1 DEF Fits
  <2>7. ASSUME gamepak_backup = promise
        PROVE  cpu'.heard = promise[op.at + BankSize * cpu.bank]
    <3>1. CASE Known(chip.type) = "sram"
      <4>1. chip.type # "eeprom" /\ cpu.bank = 0
        <5>1. chip.bank \in 0 .. 1 /\ chip.bank # 1
          BY <1>4, <2>5, <3>1 DEF Chip
        <5>2. QED
          BY <1>2, <1>4, <5>1
      <4>2. read_backup(at) = gamepak_backup[at]
        BY <3>1, <4>1 DEF read_backup
      <4>3. op.at + BankSize * cpu.bank = at
        BY <1>7, <1>10, <1>14, <4>1, Constants
      <4>4. QED
        BY <2>2, <2>7, <4>2, <4>3
    <3>2. CASE Known(chip.type) = "flash"
      <4>1. read_backup(at) = gamepak_backup[at + BankSize * chip.bank]
        BY <1>2, <1>4, <2>4, <3>2 DEF read_backup, Full
      <4>2. QED
        BY <1>4, <1>10, <1>14, <2>2, <2>7, <4>1
    <3>3. QED
      BY <2>5, <3>1, <3>2
  <2>8. Moved
    BY <1>1, <1>2, <1>11, <2>3, <2>6, NoBitsHere DEF Moved
  <2>9. QED
    BY <2>3, <2>7, <2>8 DEF op
<1>15. CASE op.what = "id"
  <2>1. m \in {3, 4} /\ m + 1 # Len(a) /\ Len(a) = 8
    BY <1>9, <1>15
  <2>2. /\ cpu' \in Cpu /\ cpu'.todo # <<>> /\ promise' = promise
    BY <1>1, <1>3, <1>4, <1>11, <1>12, <2>1, Advanced DEF a, m
  <2>3. chip.flash_mode = "id" /\ chip.position = 0 /\ chip.type = "flash"
       /\ ModeAfter(op.what) = "id"
    BY <1>13, <1>15, <2>1, Positions DEF ModeAfter
  <2>4. /\ chip.bank \in 0 .. 1 /\ chip.flash_bank_cnt \in {"64K", "128K"}
        /\ (chip.bank = 1 => chip.flash_bank_cnt = "128K")
    BY <1>4 DEF Chip
  <2>5. chip' = FlashChip("id", 0, chip.bank, chip.flash_bank_cnt)
    <3>1. Known(chip.type) = "flash"
      BY <2>3 DEF Known
    <3>2. [chip EXCEPT !.type = "flash"] = FlashChip("id", 0, chip.bank, chip.flash_bank_cnt)
      BY <1>4, <2>3, ChipIs DEF FlashChip
    <3>3. QED
      BY <1>11, <3>1, <3>2
  <2>6. PositionAfter(op.what, m + 1) = 0 /\ ~(m + 1 < 3) /\ m + 1 # 3
    <3>1. m + 1 = 4 \/ m + 1 = 5
      BY <2>1
    <3>2. QED
      BY <1>15, <3>1, Positions
  <2>7. Fits(cpu', chip')
    BY <1>1, <1>3, <1>4, <1>11, <1>12, <1>15, <2>1, <2>3, <2>4, <2>5, <2>6, FlashStep
       DEF op, a, m
  <2>8. Moved
    BY <1>1, <1>2, <1>11, <2>2, <2>7, NoBitsHere DEF Moved
  <2>9. QED
    BY <1>15, <2>2, <2>8 DEF op
<1>16. QED
  BY <1>9, <1>14, <1>15

-----------------------------------------------------------------------------
(* EEPROM: what each access of a transfer does to the chip.                *)

EepromChip(type, size, mode, counter, address) ==
  [chip EXCEPT !.type = type, !.eeprom_size = size, !.eeprom_mode = mode,
               !.eeprom_counter = counter, !.eeprom_address = address]

LEMMA EepromChipIs ==
  ASSUME chip \in Chip, NEW type \in {"unknown", "eeprom"}, NEW size \in {"b512", "b8K"},
         NEW mode \in EepromModes, NEW counter \in Nat, NEW address \in Nat
  PROVE  LET h == EepromChip(type, size, mode, counter, address)
         IN /\ h \in Chip /\ h.type = type /\ h.eeprom_size = size /\ h.eeprom_mode = mode
            /\ h.eeprom_counter = counter /\ h.eeprom_address = address
            /\ h.flash_mode = chip.flash_mode /\ h.position = chip.position /\ h.bank = chip.bank
<1> DEFINE h == EepromChip(type, size, mode, counter, address)
<1>1. h \in Chip
  BY DEF EepromChip, Chip, Types
<1>2. h.type = type /\ h.eeprom_size = size /\ h.eeprom_mode = mode
  BY DEF EepromChip, Chip
<1>3. h.eeprom_counter = counter /\ h.eeprom_address = address
  BY DEF EepromChip, Chip
<1>4. h.flash_mode = chip.flash_mode /\ h.position = chip.position /\ h.bank = chip.bank
  BY DEF EepromChip, Chip
<1>5. QED
  BY <1>1, <1>2, <1>3, <1>4

(* Where the game is in a transfer.                                        *)
LEMMA EepromNow ==
  ASSUME TypesFit, Eeprom, cpu.todo # <<>>
  PROVE  LET a == Accesses(cpu.op)
             m == Made(cpu)
             n == AddressBits
             op == cpu.op
         IN /\ kind \in Kinds /\ Fits(cpu, chip) /\ promise \in [Cells -> Bytes]
            /\ gamepak_backup \in [Cells -> Nat] /\ marked \in BOOLEAN
            /\ cpu \in Cpu /\ chip \in Chip /\ cpu.heard \in Nat /\ IsTheRest(cpu)
            /\ chip.type \in {"unknown", "eeprom"} /\ EepromAt(op, m, chip)
            /\ op.what = "get" /\ m < n + 9 => cpu.heard = 0
            /\ n \in Nat \ {0} /\ m \in Nat /\ m < Len(a) /\ Head(cpu.todo) = a[m + 1]
            /\ EepromAccesses(op, a)
            /\ op \in Ops /\ op.what \in {"put", "get"} /\ op.at \in Nat
            /\ op.at \in 0 .. 2 ^ n - 1 /\ op.at \in Cells
            /\ op.what = "put" => op.value \in Bytes
            /\ cpu.bank = 0
<1>1. /\ kind \in Kinds /\ Fits(cpu, chip) /\ promise \in [Cells -> Bytes]
      /\ gamepak_backup \in [Cells -> Nat] /\ marked \in BOOLEAN
  BY DEF TypesFit
<1>2. TypeOf[kind] = {"unknown", "eeprom"} /\ kind # "sram" /\ ~Flash
  BY DEF Eeprom, TypeOf, Flash
<1>3. /\ cpu \in Cpu /\ chip \in Chip /\ IsTheRest(cpu) /\ chip.type \in {"unknown", "eeprom"}
      /\ EepromAt(cpu.op, Made(cpu), chip) /\ chip.bank = cpu.bank /\ chip.bank # 1
      /\ cpu.op.what = "get" /\ Made(cpu) < AddressBits + 9 => cpu.heard = 0
  BY <1>1, <1>2 DEF Fits
<1>4. cpu.heard \in Nat /\ cpu.bank \in 0 .. 1
  BY <1>3 DEF Cpu
<1>5. cpu.bank = 0
  BY <1>3, <1>4
<1>6. /\ Made(cpu) \in Nat /\ Made(cpu) < Len(Accesses(cpu.op))
      /\ Head(cpu.todo) = Accesses(cpu.op)[Made(cpu) + 1] /\ cpu.op \in Ops
  BY <1>1, <1>3, NextAccess
<1>7. EepromAccesses(cpu.op, Accesses(cpu.op))
  BY <1>1, <1>6, AccessesOfEeprom
<1>8. /\ cpu.op.what \in {"put", "get"} /\ cpu.op.at \in Nat /\ cpu.op.at \in Addresses
      /\ cpu.op.at \in 0 .. 2 ^ AddressBits - 1
      /\ cpu.op.what = "put" => cpu.op.value \in Data
  BY <1>1, <1>6, OpsAre
<1>9. cpu.op.at \in Cells /\ (cpu.op.what = "put" => cpu.op.value \in Bytes)
  <2>1. cpu.op.at \in 0 .. BankSize - 1
    BY <1>8, Constants
  <2>2. cpu.op.at \in Cells
    BY <2>1, Constants DEF Cells
  <2>3. QED
    BY <1>8, <2>2, Constants
<1>10. AddressBits \in Nat \ {0}
  BY AddressBitsAre
<1>11. QED
  BY <1>1, <1>3, <1>4, <1>5, <1>6, <1>7, <1>8, <1>9, <1>10

(* The kinds of accesses, by how many are made.                            *)
LEMMA EepromAccess ==
  ASSUME TypesFit, Eeprom, cpu.todo # <<>>
  PROVE  LET m == Made(cpu)
             n == AddressBits
             put == cpu.op.what = "put"
         IN /\ Head(cpu.todo).do \in {"dma", "out", "in"}
            /\ Head(cpu.todo).do = "dma" => m = 0 \/ (~put /\ m = n + 4)
            /\ Head(cpu.todo).do = "out" =>
                 \/ m = 1 \/ m = 2 \/ \E i \in 0 .. n - 1 : m = 3 + i
                 \/ put /\ \E k \in 0 .. 7 : m = n + 3 + k
                 \/ put /\ m = n + 11
                 \/ ~put /\ m = n + 3
            /\ Head(cpu.todo).do = "in" =>
                 ~put /\ ((\E k \in 0 .. 3 : m = n + 5 + k) \/ \E k \in 0 .. 7 : m = n + 9 + k)
<1> DEFINE a == Accesses(cpu.op)
           m == Made(cpu)
           n == AddressBits
           op == cpu.op
           put == op.what = "put"
           do == Head(cpu.todo).do
<1>1. /\ n \in Nat \ {0} /\ m \in Nat /\ m < Len(a) /\ Head(cpu.todo) = a[m + 1]
      /\ EepromAccesses(op, a)
  BY EepromNow
<1>2. /\ Len(a) = IF put THEN n + 12 ELSE n + 17
      /\ a[1].do = "dma" /\ a[2] = Bit(1) /\ a[3] = Bit(IF put THEN 0 ELSE 1)
      /\ \A i \in 4 .. n + 3 : a[i] = Bit((op.at \div 2 ^ (n + 3 - i)) % 2)
      /\ put => (\A i \in n + 4 .. n + 11 : a[i] = Bit((op.value \div 2 ^ (n + 11 - i)) % 2))
                /\ a[n + 12] = Bit(0)
      /\ ~put => a[n + 4] = Bit(0) /\ a[n + 5] = Dma(68, FALSE)
                 /\ \A i \in n + 6 .. n + 17 : a[i] = In
  BY <1>1 DEF EepromAccesses
<1>3. do = a[m + 1].do
  BY <1>1
<1>3a. (put => Len(a) = n + 12) /\ (~put => Len(a) = n + 17)
  BY <1>2
<1> HIDE DEF a, m, n, op, put, do
<1>4. CASE m = 0
  <2>1. do = "dma"
    <3>1. m + 1 = 1
      BY <1>4
    <3>2. QED
      BY <1>2, <1>3, <3>1
  <2>2. QED
    BY <1>4, <2>1 DEF m, do
<1>5. CASE m \in {1, 2}
  <2>1. do = "out"
    <3>1. m + 1 = 2 \/ m + 1 = 3
      BY <1>5
    <3>2. QED
      BY <1>2, <1>3, <3>1, Fields
  <2>2. QED
    BY <1>5, <2>1 DEF m, do
<1>6. CASE m \in 3 .. n + 2
  <2>1. do = "out"
    <3>1. m + 1 \in 4 .. n + 3
      BY <1>1, <1>6
    <3>2. QED
      BY <1>2, <1>3, <3>1, Fields
  <2>2. m - 3 \in 0 .. n - 1 /\ m = 3 + (m - 3)
    BY <1>1, <1>6
  <2>3. \E i \in 0 .. n - 1 : m = 3 + i
    BY <2>2
  <2>4. QED
    BY <2>1, <2>3 DEF m, do, n
<1>7. CASE put /\ m \in n + 3 .. n + 10
  <2>1. do = "out"
    <3>1. m + 1 \in n + 4 .. n + 11
      BY <1>1, <1>7
    <3>2. QED
      BY <1>2, <1>3, <1>7, <3>1, Fields
  <2>2. m - (n + 3) \in 0 .. 7 /\ m = n + 3 + (m - (n + 3))
    BY <1>1, <1>7
  <2>3. \E k \in 0 .. 7 : m = n + 3 + k
    BY <2>2
  <2>4. QED
    BY <1>7, <2>1, <2>3 DEF m, do, n, put, op
<1>8. CASE put /\ m = n + 11
  <2>1. do = "out"
    <3>1. m + 1 = n + 12
      BY <1>1, <1>8
    <3>2. QED
      BY <1>2, <1>3, <1>8, <3>1, Fields
  <2>2. QED
    BY <1>8, <2>1 DEF m, do, n, put, op
<1>9. CASE ~put /\ m = n + 3
  <2>1. do = "out"
    <3>1. m + 1 = n + 4
      BY <1>1, <1>9
    <3>2. QED
      BY <1>2, <1>3, <1>9, <3>1, Fields
  <2>2. QED
    BY <1>9, <2>1 DEF m, do, n, put, op
<1>10. CASE ~put /\ m = n + 4
  <2>1. do = "dma"
    <3>1. m + 1 = n + 5
      BY <1>1, <1>10
    <3>2. a[m + 1] = Dma(68, FALSE)
      BY <1>2, <1>10, <3>1
    <3>3. QED
      BY <1>3, <3>2 DEF Dma
  <2>2. QED
    BY <1>10, <2>1 DEF m, do, n, put, op
<1>11. CASE ~put /\ m \in n + 5 .. n + 16
  <2>1. do = "in"
    <3>1. m + 1 \in n + 6 .. n + 17
      BY <1>1, <1>11
    <3>2. QED
      BY <1>2, <1>3, <1>11, <3>1, Fields
  <2>2. CASE m <= n + 8
    <3>1. m - (n + 5) \in 0 .. 3 /\ m = n + 5 + (m - (n + 5))
      BY <1>1, <1>11, <2>2
    <3>2. \E k \in 0 .. 3 : m = n + 5 + k
      BY <3>1
    <3>3. QED
      BY <1>11, <2>1, <3>2 DEF m, do, n, put, op
  <2>3. CASE ~(m <= n + 8)
    <3>1. m - (n + 9) \in 0 .. 7 /\ m = n + 9 + (m - (n + 9))
      <4>1. n \in Nat /\ m \in Nat
        BY <1>1
      <4>2. m >= n + 9 /\ m <= n + 16
        BY <1>11, <2>3, <4>1
      <4>3. QED
        BY <4>1, <4>2
    <3>2. \E k \in 0 .. 7 : m = n + 9 + k
      BY <3>1
    <3>3. QED
      BY <1>11, <2>1, <3>2 DEF m, do, n, put, op
  <2>4. QED
    BY <2>2, <2>3
<1>12. \/ m = 0 \/ m \in {1, 2} \/ m \in 3 .. n + 2
       \/ put /\ m \in n + 3 .. n + 10
       \/ put /\ m = n + 11
       \/ ~put /\ m = n + 3
       \/ ~put /\ m = n + 4
       \/ ~put /\ m \in n + 5 .. n + 16
  <2>1. CASE put
    <3>1. m < n + 12
      BY <1>1, <1>3a, <2>1
    <3>2. \/ m = 0 \/ m \in {1, 2} \/ m \in 3 .. n + 2
          \/ m \in n + 3 .. n + 10 \/ m = n + 11
      BY <1>1, <3>1
    <3>3. QED
      BY <2>1, <3>2
  <2>2. CASE ~put
    <3>1. m < n + 17
      BY <1>1, <1>3a, <2>2
    <3>2. \/ m = 0 \/ m \in {1, 2} \/ m \in 3 .. n + 2
          \/ m = n + 3 \/ m = n + 4 \/ m \in n + 5 .. n + 16
      BY <1>1, <3>1
    <3>3. QED
      BY <2>2, <3>2
  <2>3. QED
    BY <2>1, <2>2
<1>13. QED
  BY <1>4, <1>5, <1>6, <1>7, <1>8, <1>9, <1>10, <1>11, <1>12

(* What the chip's mode and counter are to be.                             *)
LEMMA AddressStep ==
  ASSUME NEW op, NEW mode, NEW counter, NEW i \in 0 .. AddressBits - 1
  PROVE  EepromStep(op, 3 + i, mode, counter) <=>
           /\ mode = IF op.what = "put" THEN "writeAddress" ELSE "address"
           /\ counter = i
<1> DEFINE n == AddressBits
<1>1. ~(3 + i < 3) /\ 3 + i < n + 3 /\ (3 + i) - 3 = i /\ ~(3 + i < 2) /\ 3 + i # 2
  BY AddressBitsAre
<1>2. QED
  BY <1>1 DEF EepromStep

LEMMA EepromSteps ==
  ASSUME NEW op, NEW mode, NEW counter
  PROVE  LET n == AddressBits
             put == op.what = "put"
             at(made) == EepromStep(op, made, mode, counter)
         IN /\ at(0) <=> mode = "base" /\ counter = 0
            /\ at(1) <=> mode = "base" /\ counter = 0
            /\ at(2) <=> mode = "base" /\ counter = 1
            /\ \A i \in 0 .. n - 1 :
                 at(3 + i) <=> mode = (IF put THEN "writeAddress" ELSE "address") /\ counter = i
            /\ put => /\ \A k \in 0 .. 7 : at(n + 3 + k) <=> mode = "write" /\ counter = k
                      /\ at(n + 11) <=> mode = "writeFooter" /\ counter = 0
            /\ ~put => /\ at(n + 3) <=> mode = "addressFooter" /\ counter = 0
                       /\ at(n + 4) <=> mode = "readHeader" /\ counter = 0
                       /\ \A k \in 0 .. 3 : at(n + 5 + k) <=> mode = "readHeader" /\ counter = k
                       /\ \A k \in 0 .. 7 : at(n + 9 + k) <=> mode = "read" /\ counter = k
<1> DEFINE n == AddressBits
           put == op.what = "put"
           at(made) == EepromStep(op, made, mode, counter)
<1>1. n \in Nat \ {0}
  BY AddressBitsAre
<1>2. at(0) <=> mode = "base" /\ counter = 0
  BY DEF EepromStep
<1>3. at(1) <=> mode = "base" /\ counter = 0
  BY DEF EepromStep
<1>4. at(2) <=> mode = "base" /\ counter = 1
  BY DEF EepromStep
<1>5. ASSUME NEW i \in 0 .. n - 1
      PROVE  at(3 + i) <=> mode = (IF put THEN "writeAddress" ELSE "address") /\ counter = i
  BY AddressStep
<1>6. ASSUME put, NEW k \in 0 .. 7 PROVE at(n + 3 + k) <=> mode = "write" /\ counter = k
  <2>1. ~(n + 3 + k < n + 3) /\ n + 3 + k < n + 11 /\ ~(n + 3 + k < 3) /\ ~(n + 3 + k < 2)
        /\ n + 3 + k # 2 /\ (n + 3 + k) - n - 3 = k
    BY <1>1
  <2>2. QED
    BY <1>6, <2>1 DEF EepromStep
<1>7. ASSUME put PROVE at(n + 11) <=> mode = "writeFooter" /\ counter = 0
  <2>1. ~(n + 11 < n + 3) /\ ~(n + 11 < n + 11) /\ ~(n + 11 < 3) /\ ~(n + 11 < 2) /\ n + 11 # 2
    BY <1>1
  <2>2. QED
    BY <1>7, <2>1 DEF EepromStep
<1>8. ASSUME ~put PROVE at(n + 3) <=> mode = "addressFooter" /\ counter = 0
  <2>1. ~(n + 3 < n + 3) /\ n + 3 < n + 4 /\ n + 3 < n + 5 /\ ~(n + 3 < 3) /\ ~(n + 3 < 2)
        /\ n + 3 # 2
    BY <1>1
  <2>2. QED
    BY <1>8, <2>1 DEF EepromStep
<1>9. ASSUME ~put PROVE at(n + 4) <=> mode = "readHeader" /\ counter = 0
  <2>1. ~(n + 4 < n + 3) /\ ~(n + 4 < n + 4) /\ n + 4 < n + 5 /\ n + 4 < n + 9 /\ ~(n + 4 < 3)
        /\ ~(n + 4 < 2) /\ n + 4 # 2
    BY <1>1
  <2>2. QED
    BY <1>9, <2>1 DEF EepromStep
<1>10. ASSUME ~put, NEW k \in 0 .. 3 PROVE at(n + 5 + k) <=> mode = "readHeader" /\ counter = k
  <2> DEFINE m == n + 5 + k
  <2>1. ~(m < n + 3) /\ ~(m < n + 4) /\ ~(m < n + 5) /\ m < n + 9 /\ ~(m < 3) /\ ~(m < 2)
        /\ m # 2 /\ m - n - 5 = k
    BY <1>1
  <2> HIDE DEF m
  <2>2. at(m) <=> mode = "readHeader" /\ counter = k
    BY <1>10, <2>1 DEF EepromStep
  <2>3. QED
    BY <2>2 DEF m
<1>11. ASSUME ~put, NEW k \in 0 .. 7 PROVE at(n + 9 + k) <=> mode = "read" /\ counter = k
  <2> DEFINE m == n + 9 + k
  <2>1. ~(m < n + 3) /\ ~(m < n + 4) /\ ~(m < n + 5) /\ ~(m < n + 9) /\ ~(m < 3) /\ ~(m < 2)
        /\ m # 2 /\ m - n - 9 = k
    BY <1>1
  <2> HIDE DEF m
  <2>2. at(m) <=> mode = "read" /\ counter = k
    BY <1>11, <2>1 DEF EepromStep
  <2>3. QED
    BY <2>2 DEF m
<1> HIDE DEF n, put, at
<1>12. /\ \A i \in 0 .. n - 1 :
            at(3 + i) <=> mode = (IF put THEN "writeAddress" ELSE "address") /\ counter = i
       /\ put => \A k \in 0 .. 7 : at(n + 3 + k) <=> mode = "write" /\ counter = k
  BY <1>5, <1>6
<1>13. /\ ~put => \A k \in 0 .. 3 : at(n + 5 + k) <=> mode = "readHeader" /\ counter = k
       /\ ~put => \A k \in 0 .. 7 : at(n + 9 + k) <=> mode = "read" /\ counter = k
  BY <1>10, <1>11
<1>14. QED
  BY <1>2, <1>3, <1>4, <1>7, <1>8, <1>9, <1>12, <1>13 DEF n, put, at

(* A chip where it should be after one more access.                        *)
Reached(heard, mode, counter, address) ==
  LET m == Made(cpu) + 1 IN
  IF m = Len(Accesses(cpu.op)) THEN mode = "base" /\ counter = 0 /\ address % 8 = 0
  ELSE /\ EepromAt(cpu.op, m, chip')
       /\ cpu.op.what = "get" /\ m < AddressBits + 9 => heard = 0

LEMMA EepromFits ==
  ASSUME TypesFit, Eeprom, cpu.todo # <<>>, NEW heard \in Nat, Advance(heard),
         NEW type \in {"unknown", "eeprom"}, NEW size \in {"b512", "b8K"},
         NEW mode \in EepromModes, NEW counter \in Nat, NEW address \in Nat,
         chip' = EepromChip(type, size, mode, counter, address),
         kind = "eeprom512" => size = "b512",
         Reached(heard, mode, counter, address)
  PROVE  Fits(cpu', chip')
<1>1. /\ kind \in Kinds /\ cpu \in Cpu /\ chip \in Chip /\ IsTheRest(cpu) /\ cpu.bank = 0
      /\ cpu.op.what # "bank" /\ Fits(cpu, chip)
  BY EepromNow
<1>2. TypeOf[kind] = {"unknown", "eeprom"} /\ kind # "sram" /\ ~Flash
  BY DEF Eeprom, TypeOf, Flash
<1>3. chip.bank = cpu.bank /\ chip.flash_mode = "base" /\ chip.position = 0
  BY <1>1 DEF Fits
<1>4. /\ chip' \in Chip /\ chip'.type = type /\ chip'.eeprom_size = size
      /\ chip'.eeprom_mode = mode /\ chip'.eeprom_counter = counter
      /\ chip'.eeprom_address = address /\ chip'.flash_mode = "base" /\ chip'.position = 0
      /\ chip'.bank = 0
  <2> DEFINE h == EepromChip(type, size, mode, counter, address)
  <2>1. /\ h \in Chip /\ h.type = type /\ h.eeprom_size = size /\ h.eeprom_mode = mode
        /\ h.eeprom_counter = counter /\ h.eeprom_address = address
        /\ h.flash_mode = chip.flash_mode /\ h.position = chip.position /\ h.bank = chip.bank
    BY <1>1, EepromChipIs
  <2>2. chip' = h
    OBVIOUS
  <2> HIDE DEF h
  <2>3. QED
    BY <1>1, <1>3, <2>1, <2>2
<1>5. CASE Made(cpu) + 1 = Len(Accesses(cpu.op))
  <2>1. cpu' \in Cpu /\ cpu'.todo = <<>> /\ cpu'.bank = 0
    BY <1>1, <1>5, Advanced
  <2>2. AtRest(chip')
    BY <1>4, <1>5 DEF AtRest, Reached
  <2>3. QED
    BY <1>2, <1>4, <2>1, <2>2 DEF Fits
<1>6. CASE Made(cpu) + 1 # Len(Accesses(cpu.op))
  <2>1. /\ cpu' \in Cpu /\ cpu'.todo # <<>> /\ cpu'.op = cpu.op /\ IsTheRest(cpu')
        /\ Made(cpu') = Made(cpu) + 1 /\ cpu'.bank = 0 /\ cpu'.heard = heard
    BY <1>1, <1>6, Advanced
  <2>2. EepromAt(cpu'.op, Made(cpu'), chip')
        /\ (cpu'.op.what = "get" /\ Made(cpu') < AddressBits + 9 => cpu'.heard = 0)
    BY <1>6, <2>1 DEF Reached
  <2>3. QED
    BY <1>2, <1>4, <2>1, <2>2 DEF Fits
<1>7. QED
  BY <1>5, <1>6

-----------------------------------------------------------------------------
(* An access that leaves the memory and what was meant.                    *)
LEMMA QuietMove ==
  ASSUME TypesFit, Fits(cpu', chip'), promise' = promise, gamepak_backup' = gamepak_backup,
         marked' = marked, ~Putting(cpu), ~Putting(cpu'),
         gamepak_backup = promise /\ HeardFits(cpu, promise) => HeardFits(cpu', promise)
  PROVE  Moved
<1>1. /\ promise \in [Cells -> Bytes] /\ gamepak_backup \in [Cells -> Nat] /\ marked \in BOOLEAN
  BY DEF TypesFit
<1>2. Present(cpu, promise) = promise /\ Present(cpu', promise') = promise'
      /\ ~MustBeMarked(cpu')
  BY DEF Present, MustBeMarked
<1>3. QED
  BY <1>1, <1>2 DEF Moved

(* Where the game is after an access to an EEPROM.                         *)
LEMMA EepromNext ==
  ASSUME TypesFit, Eeprom, cpu.todo # <<>>, NEW heard \in Nat, Advance(heard)
  PROVE  LET m == Made(cpu)
             last == IF cpu.op.what = "put" THEN AddressBits + 11 ELSE AddressBits + 16
         IN /\ cpu'.op = cpu.op /\ cpu'.heard = heard
            /\ m = last => /\ m + 1 = Len(Accesses(cpu.op)) /\ cpu'.todo = <<>>
                           /\ promise' = Meant(cpu.op)
            /\ m # last => /\ m + 1 # Len(Accesses(cpu.op)) /\ cpu'.todo # <<>>
                           /\ Made(cpu') = m + 1 /\ promise' = promise
<1>1. /\ kind \in Kinds /\ cpu \in Cpu /\ IsTheRest(cpu) /\ AddressBits \in Nat \ {0}
      /\ Made(cpu) \in Nat /\ EepromAccesses(cpu.op, Accesses(cpu.op))
  BY EepromNow
<1> DEFINE m == Made(cpu)
           last == IF cpu.op.what = "put" THEN AddressBits + 11 ELSE AddressBits + 16
<1>2. Len(Accesses(cpu.op)) = last + 1 /\ last \in Nat
  BY <1>1 DEF EepromAccesses
<1> HIDE DEF m, last
<1>3. CASE m = last
  <2>1. m + 1 = Len(Accesses(cpu.op))
    BY <1>2, <1>3
  <2>2. QED
    BY <1>1, <1>3, <2>1, Advanced DEF m, last
<1>4. CASE m # last
  <2>1. m + 1 # Len(Accesses(cpu.op))
    BY <1>1, <1>2, <1>4 DEF m
  <2>2. QED
    BY <1>1, <1>4, <2>1, Advanced DEF m, last
<1>5. QED
  BY <1>3, <1>4

LEMMA EepromSizes ==
  ASSUME Eeprom
  PROVE  /\ OwnSize \in {"b512", "b8K"} /\ (kind = "eeprom512" => OwnSize = "b512")
         /\ AddressBits = IF OwnSize = "b512" THEN Bits512 ELSE Bits8K
         /\ CellsOf[OwnSize] = 2 ^ AddressBits /\ CellsOf[OwnSize] > 0
<1>1. OwnSize \in {"b512", "b8K"} /\ (kind = "eeprom512" => OwnSize = "b512")
      /\ AddressBits = IF OwnSize = "b512" THEN Bits512 ELSE Bits8K
  BY DEF OwnSize, AddressBits
<1>2. CellsOf[OwnSize] = 2 ^ AddressBits
  BY <1>1, SizesAre
<1>3. CellsOf[OwnSize] > 0
  BY <1>1, SizesAre
<1>4. QED
  BY <1>1, <1>2, <1>3

(* The length of a transfer to the chip gives away its size.               *)
LEMMA DmaMoves ==
  ASSUME TypesFit, Eeprom, GameStartsDma
  PROVE  Moved
<1> DEFINE a == Accesses(cpu.op)
           m == Made(cpu)
           n == AddressBits
           op == cpu.op
<1>1. cpu.todo # <<>> /\ Head(cpu.todo).do = "dma"
  BY DEF GameStartsDma, Doing
<1>2. /\ kind \in Kinds /\ chip \in Chip /\ cpu.heard \in Nat /\ Fits(cpu, chip)
      /\ chip.type \in {"unknown", "eeprom"} /\ EepromAt(op, m, chip)
      /\ op.what = "get" /\ m < n + 9 => cpu.heard = 0
      /\ n \in Nat \ {0} /\ m \in Nat /\ Head(cpu.todo) = a[m + 1] /\ EepromAccesses(op, a)
      /\ op.what \in {"put", "get"}
  BY <1>1, EepromNow
<1>3. m = 0 \/ (op.what = "get" /\ m = n + 4)
  BY <1>1, <1>2, EepromAccess
<1>4. /\ chip' = IF Head(cpu.todo).toChip /\ Head(cpu.todo).units % 32 = 17
                 THEN [chip EXCEPT !.eeprom_size = "b8K"] ELSE chip
      /\ gamepak_backup' = gamepak_backup /\ marked' = marked /\ Advance(cpu.heard)
  BY DEF GameStartsDma
<1>5. /\ chip.eeprom_size \in {"b512", "b8K"} /\ chip.eeprom_mode \in EepromModes
      /\ chip.eeprom_counter \in Nat /\ chip.eeprom_address \in Nat
      /\ (kind = "eeprom512" => chip.eeprom_size = "b512")
  <2>1. chip.eeprom_size \in {"b512", "b8K"} /\ chip.eeprom_mode \in EepromModes
    BY <1>2 DEF Chip
  <2>2. chip.eeprom_counter \in Nat /\ chip.eeprom_address \in Nat
    BY <1>2 DEF Chip
  <2>3. kind = "eeprom512" => chip.eeprom_size = "b512"
    BY <1>2 DEF Fits
  <2>4. QED
    BY <2>1, <2>2, <2>3
<1>6. \A size : [chip EXCEPT !.eeprom_size = size]
                  = EepromChip(chip.type, size, chip.eeprom_mode, chip.eeprom_counter,
                               chip.eeprom_address)
  BY <1>2, ChipIs DEF EepromChip
<1>7. chip = EepromChip(chip.type, chip.eeprom_size, chip.eeprom_mode, chip.eeprom_counter,
                        chip.eeprom_address)
  <2>1. [chip EXCEPT !.eeprom_size = chip.eeprom_size] = chip
    BY <1>2 DEF Chip
  <2>2. QED
    BY <1>6, <2>1
<1>8. OwnSize \in {"b512", "b8K"} /\ (kind = "eeprom512" => OwnSize = "b512")
  BY EepromSizes
<1>9. /\ cpu'.op = op
      /\ cpu'.todo # <<>> /\ Made(cpu') = m + 1 /\ promise' = promise /\ m + 1 # Len(a)
  BY <1>1, <1>2, <1>3, <1>4, EepromNext
<1> HIDE DEF a, m, n, op
<1>10. CASE m = 0
  <2>1. Head(cpu.todo).toChip /\ (Head(cpu.todo).units % 32 = 17 <=> kind = "eeprom8K")
    <3>1. m + 1 = 1
      BY <1>10
    <3>2. a[1].toChip /\ (a[1].units % 32 = 17 <=> kind = "eeprom8K")
      BY <1>2 DEF EepromAccesses
    <3>3. QED
      BY <1>2, <3>1, <3>2
  <2>2. chip' = EepromChip(chip.type, OwnSize, chip.eeprom_mode, chip.eeprom_counter,
                           chip.eeprom_address)
    <3>1. CASE kind = "eeprom8K"
      <4>1. chip' = [chip EXCEPT !.eeprom_size = "b8K"] /\ OwnSize = "b8K"
        BY <1>4, <2>1, <3>1 DEF OwnSize
      <4>2. QED
        BY <1>6, <4>1
    <3>2. CASE kind = "eeprom512"
      <4>1. chip' = chip /\ OwnSize = chip.eeprom_size
        BY <1>4, <1>5, <2>1, <3>2 DEF OwnSize
      <4>2. QED
        BY <1>7, <4>1
    <3>3. QED
      BY <3>1, <3>2 DEF Eeprom
  <2>3. chip.eeprom_mode = "base" /\ chip.eeprom_counter = 0 /\ chip.eeprom_address % 8 = 0
    BY <1>2, <1>10, EepromSteps DEF EepromAt
  <2>4. chip'.eeprom_size = OwnSize /\ chip'.eeprom_mode = "base" /\ chip'.eeprom_counter = 0
        /\ chip'.eeprom_address % 8 = 0
    BY <1>2, <1>5, <1>8, <2>2, <2>3, EepromChipIs
  <2>5. EepromAt(op, 1, chip')
    <3>1. EepromStep(op, 1, chip'.eeprom_mode, chip'.eeprom_counter)
      BY <2>4, EepromSteps
    <3>2. n \in Nat \ {0} /\ 1 \notin 3 .. n + 2 /\ ~(1 >= n + 3) /\ ~(1 > 1)
      BY <1>2
    <3>3. QED
      BY <2>4, <3>1, <3>2 DEF EepromAt, n
  <2>6. op.what = "get" => cpu.heard = 0
    BY <1>2, <1>10
  <2>7. Fits(cpu', chip')
    <3>1. m + 1 = 1
      BY <1>10
    <3>2. Reached(cpu.heard, chip.eeprom_mode, chip.eeprom_counter, chip.eeprom_address)
      BY <1>9, <2>5, <2>6, <3>1 DEF op, m, n, a, Reached
    <3>3. chip.type \in {"unknown", "eeprom"} /\ cpu.heard \in Nat
      BY <1>2
    <3>4. QED
      BY <1>1, <1>4, <1>5, <1>8, <2>2, <3>2, <3>3, EepromFits
  <2>8. ~Putting(cpu) /\ ~Putting(cpu') /\ ~Getting(cpu')
    <3>1. ~(m >= n + 3) /\ ~(m + 1 >= n + 3) /\ ~(m + 1 >= n + 9)
      BY <1>2, <1>10
    <3>2. QED
      BY <1>9, <3>1 DEF Putting, Getting, m, n
  <2>9. QED
    BY <1>4, <1>9, <2>7, <2>8, QuietMove DEF HeardFits
<1>11. CASE op.what = "get" /\ m = n + 4
  <2>1. ~Head(cpu.todo).toChip
    <3>1. m + 1 = n + 5
      BY <1>2, <1>11
    <3>2. a[n + 5] = Dma(68, FALSE)
      BY <1>2, <1>11 DEF EepromAccesses, n
    <3>3. QED
      BY <1>2, <3>1, <3>2 DEF Dma
  <2>2. chip' = chip
    BY <1>4, <2>1
  <2>3. chip' = EepromChip(chip.type, chip.eeprom_size, chip.eeprom_mode, chip.eeprom_counter,
                           chip.eeprom_address)
    BY <1>7, <2>2
  <2>4. chip.eeprom_mode = "readHeader" /\ chip.eeprom_counter = 0
    BY <1>2, <1>11, EepromSteps DEF EepromAt, n
  <2>5. EepromAt(op, n + 5, chip')
    <3>1. /\ m > 0 /\ m > 1 /\ m >= n + 3 /\ n + 5 > 0 /\ n + 5 > 1 /\ n + 5 >= n + 3
          /\ n + 5 \notin {0, 1} /\ n + 5 # 2 /\ n + 5 \notin 3 .. n + 2 /\ n + 5 + 0 = n + 5
      BY <1>2, <1>11
    <3>2. chip.eeprom_size = OwnSize /\ chip.type = "eeprom" /\ chip.eeprom_address = 8 * op.at
      BY <1>2, <3>1 DEF EepromAt, n
    <3>3. EepromStep(op, n + 5 + 0, "readHeader", 0)
      BY <1>11, EepromSteps DEF n
    <3>4. EepromStep(op, n + 5, chip'.eeprom_mode, chip'.eeprom_counter)
      BY <2>2, <2>4, <3>1, <3>3
    <3>5. QED
      BY <2>2, <3>1, <3>2, <3>4 DEF EepromAt, n
  <2>6. cpu.heard = 0
    BY <1>2, <1>11
  <2>7. Fits(cpu', chip')
    <3>1. m + 1 = n + 5
      BY <1>2, <1>11
    <3>2. Reached(cpu.heard, chip.eeprom_mode, chip.eeprom_counter, chip.eeprom_address)
      BY <1>9, <2>5, <2>6, <3>1 DEF op, m, n, a, Reached
    <3>3. QED
      BY <1>1, <1>2, <1>4, <1>5, <2>3, <3>2, EepromFits
  <2>8. ~Putting(cpu) /\ ~Putting(cpu') /\ ~Getting(cpu')
    <3>1. ~(m + 1 >= n + 9)
      BY <1>2, <1>11
    <3>2. QED
      BY <1>9, <1>11, <3>1 DEF Putting, Getting, m, n, op
  <2>9. QED
    BY <1>4, <1>9, <2>7, <2>8, QuietMove DEF HeardFits
<1>12. QED
  BY <1>3, <1>10, <1>11 DEF m, n, op

(* A chip that knows where it is, by how many accesses are made.           *)
EepromIs(h, mode, counter, address) ==
  /\ h.type = "eeprom" /\ h.eeprom_size = OwnSize
  /\ h.eeprom_mode = mode /\ h.eeprom_counter = counter /\ h.eeprom_address = address

LEMMA EepromAts ==
  ASSUME NEW op, NEW h
  PROVE  LET n == AddressBits
             put == op.what = "put"
             is(mode, counter) == EepromIs(h, mode, counter, 8 * op.at)
         IN /\ EepromAt(op, 1, h) <=> /\ h.eeprom_size = OwnSize /\ h.eeprom_mode = "base"
                                      /\ h.eeprom_counter = 0 /\ h.eeprom_address % 8 = 0
            /\ EepromAt(op, 2, h) <=> /\ h.type = "eeprom" /\ h.eeprom_size = OwnSize
                                      /\ h.eeprom_mode = "base" /\ h.eeprom_counter = 1
                                      /\ h.eeprom_address % 4 = 2
            /\ \A i \in 0 .. n - 1 :
                 EepromAt(op, 3 + i, h) <=>
                   EepromIs(h, IF put THEN "writeAddress" ELSE "address", i,
                            op.at \div 2 ^ (n - i))
            /\ put => /\ \A k \in 0 .. 7 : EepromAt(op, n + 3 + k, h) <=> is("write", k)
                      /\ EepromAt(op, n + 11, h) <=> is("writeFooter", 0)
            /\ ~put => /\ EepromAt(op, n + 3, h) <=> is("addressFooter", 0)
                       /\ EepromAt(op, n + 4, h) <=> is("readHeader", 0)
                       /\ \A k \in 0 .. 3 : EepromAt(op, n + 5 + k, h) <=> is("readHeader", k)
                       /\ \A k \in 0 .. 7 : EepromAt(op, n + 9 + k, h) <=> is("read", k)
<1> DEFINE n == AddressBits
           put == op.what = "put"
           is(mode, counter) == EepromIs(h, mode, counter, 8 * op.at)
           at(made) == EepromStep(op, made, h.eeprom_mode, h.eeprom_counter)
<1>1. n \in Nat \ {0}
  BY AddressBitsAre
<1>2. EepromAt(op, 1, h) <=> /\ h.eeprom_size = OwnSize /\ h.eeprom_mode = "base"
                             /\ h.eeprom_counter = 0 /\ h.eeprom_address % 8 = 0
  BY <1>1, EepromSteps DEF EepromAt
<1>3. EepromAt(op, 2, h) <=> /\ h.type = "eeprom" /\ h.eeprom_size = OwnSize
                             /\ h.eeprom_mode = "base" /\ h.eeprom_counter = 1
                             /\ h.eeprom_address % 4 = 2
  BY <1>1, EepromSteps DEF EepromAt
<1>4. ASSUME NEW i \in 0 .. n - 1
      PROVE  EepromAt(op, 3 + i, h) <=>
               EepromIs(h, IF put THEN "writeAddress" ELSE "address", i, op.at \div 2 ^ (n - i))
  <2> DEFINE made == 3 + i
  <2>1. made > 0 /\ made > 1 /\ made \notin {0, 1} /\ made # 2 /\ made \in 3 .. n + 2
        /\ ~(made >= n + 3) /\ made - 3 = i
    BY <1>1
  <2>2. at(3 + i) <=> h.eeprom_mode = (IF put THEN "writeAddress" ELSE "address")
                      /\ h.eeprom_counter = i
    BY AddressStep
  <2> HIDE DEF n, put, made
  <2>3. EepromAt(op, made, h) <=>
          /\ h.eeprom_size = OwnSize /\ h.type = "eeprom"
              /\ EepromStep(op, made, h.eeprom_mode, h.eeprom_counter)
          /\ h.eeprom_address = op.at \div 2 ^ (n - i)
    BY <2>1 DEF EepromAt, n
  <2>4. QED
    BY <2>2, <2>3 DEF EepromIs, made
<1>5. ASSUME NEW made \in Nat, made >= n + 3
      PROVE  EepromAt(op, made, h) <=>
               /\ h.eeprom_size = OwnSize /\ h.type = "eeprom" /\ at(made)
               /\ h.eeprom_address = 8 * op.at
  <2>1. made > 0 /\ made > 1 /\ made \notin {0, 1} /\ made # 2 /\ made \notin 3 .. n + 2
    BY <1>1, <1>5
  <2>2. QED
    BY <1>5, <2>1 DEF EepromAt
<1>6. /\ \A k \in 0 .. 7 : n + 3 + k \in Nat /\ n + 3 + k >= n + 3
      /\ \A k \in 0 .. 3 : n + 5 + k \in Nat /\ n + 5 + k >= n + 3
      /\ \A k \in 0 .. 7 : n + 9 + k \in Nat /\ n + 9 + k >= n + 3
      /\ n + 11 \in Nat /\ n + 11 >= n + 3 /\ n + 3 \in Nat /\ n + 3 >= n + 3
      /\ n + 4 \in Nat /\ n + 4 >= n + 3
  BY <1>1
<1>7. /\ put => /\ \A k \in 0 .. 7 : at(n + 3 + k) <=>
                 h.eeprom_mode = "write" /\ h.eeprom_counter = k
                /\ at(n + 11) <=> h.eeprom_mode = "writeFooter" /\ h.eeprom_counter = 0
      /\ ~put => /\ at(n + 3) <=> h.eeprom_mode = "addressFooter" /\ h.eeprom_counter = 0
                 /\ at(n + 4) <=> h.eeprom_mode = "readHeader" /\ h.eeprom_counter = 0
                 /\ \A k \in 0 .. 3 :
                      at(n + 5 + k) <=> h.eeprom_mode = "readHeader" /\ h.eeprom_counter = k
                 /\ \A k \in 0 .. 7 :
                      at(n + 9 + k) <=> h.eeprom_mode = "read" /\ h.eeprom_counter = k
  BY EepromSteps
<1> HIDE DEF n, put, at
<1>8. put => \A k \in 0 .. 7 : EepromAt(op, n + 3 + k, h) <=> is("write", k)
  BY <1>5, <1>6, <1>7 DEF EepromIs
<1>9. put => (EepromAt(op, n + 11, h) <=> is("writeFooter", 0))
  BY <1>5, <1>6, <1>7 DEF EepromIs
<1>10. ~put => (EepromAt(op, n + 3, h) <=> is("addressFooter", 0))
  BY <1>5, <1>6, <1>7 DEF EepromIs
<1>11. ~put => (EepromAt(op, n + 4, h) <=> is("readHeader", 0))
  BY <1>5, <1>6, <1>7 DEF EepromIs
<1>12. ~put => \A k \in 0 .. 3 : EepromAt(op, n + 5 + k, h) <=> is("readHeader", k)
  BY <1>5, <1>6, <1>7 DEF EepromIs
<1>13. ~put => \A k \in 0 .. 7 : EepromAt(op, n + 9 + k, h) <=> is("read", k)
  BY <1>5, <1>6, <1>7 DEF EepromIs
<1>14. QED
  BY <1>2, <1>3, <1>4, <1>8, <1>9, <1>10, <1>11, <1>12, <1>13 DEF n, put

(* A chip to be in such a state, and the step that brings it there.        *)
LEMMA EepromTo ==
  ASSUME TypesFit, Eeprom, cpu.todo # <<>>, NEW heard \in Nat, Advance(heard),
         NEW mode \in EepromModes, NEW counter \in Nat, NEW address \in Nat,
         chip' = EepromChip("eeprom", OwnSize, mode, counter, address)
  PROVE  /\ EepromIs(chip', mode, counter, address)
         /\ Reached(heard, mode, counter, address) => Fits(cpu', chip')
<1>1. OwnSize \in {"b512", "b8K"} /\ (kind = "eeprom512" => OwnSize = "b512") /\ chip \in Chip
  BY EepromNow, EepromSizes
<1>2. EepromIs(chip', mode, counter, address)
  <2>1. "eeprom" \in {"unknown", "eeprom"}
    OBVIOUS
  <2>2. /\ chip'.type = "eeprom" /\ chip'.eeprom_size = OwnSize /\ chip'.eeprom_mode = mode
        /\ chip'.eeprom_counter = counter /\ chip'.eeprom_address = address
    BY <1>1, <2>1, EepromChipIs
  <2>3. QED
    BY <2>2 DEF EepromIs
<1>3. ASSUME Reached(heard, mode, counter, address)
      PROVE  Fits(cpu', chip')
  <2>1. "eeprom" \in {"unknown", "eeprom"}
    OBVIOUS
  <2>2. QED
    BY <1>1, <1>3, <2>1, EepromFits
<1>4. QED
  BY <1>2, <1>3

(* The bits that a game sends: of a command, an address, a byte, the last. *)
LEMMA OutNow ==
  ASSUME TypesFit, Eeprom, GameSendsBit
  PROVE  /\ cpu.todo # <<>> /\ Head(cpu.todo).do = "out"
         /\ write_eeprom(Head(cpu.todo).bit) /\ Advance(cpu.heard) /\ cpu.heard \in Nat
         /\ Head(cpu.todo) = Accesses(cpu.op)[Made(cpu) + 1]
         /\ chip \in Chip
         /\ EepromAccesses(cpu.op, Accesses(cpu.op)) /\ EepromAt(cpu.op, Made(cpu), chip)
         /\ AddressBits \in Nat \ {0}
<1>1. cpu.todo # <<>> /\ Head(cpu.todo).do = "out"
      /\ write_eeprom(Head(cpu.todo).bit) /\ Advance(cpu.heard)
  BY DEF GameSendsBit, Doing
<1>2. QED
  BY <1>1, EepromNow

LEMMA FirstBitMoves ==
  ASSUME TypesFit, Eeprom, GameSendsBit, Made(cpu) = 1
  PROVE  Moved
<1>1. /\ cpu.todo # <<>> /\ write_eeprom(Head(cpu.todo).bit) /\ Advance(cpu.heard)
      /\ cpu.heard \in Nat /\ Head(cpu.todo) = Accesses(cpu.op)[2] /\ AddressBits \in Nat \ {0}
      /\ EepromAccesses(cpu.op, Accesses(cpu.op)) /\ EepromAt(cpu.op, 1, chip) /\ chip \in Chip
  BY OutNow
<1>2. Head(cpu.todo).bit = 1
  BY <1>1, Fields DEF EepromAccesses
<1>3. chip.eeprom_mode = "base" /\ chip.eeprom_counter = 0 /\ chip.eeprom_address % 8 = 0
      /\ chip.eeprom_size = OwnSize
  BY <1>1, EepromAts
<1>4. chip.eeprom_address \in Nat
  BY <1>1 DEF Chip
<1>5. chip' = InBase(1) /\ gamepak_backup' = gamepak_backup /\ marked' = marked
  BY <1>1, <1>2, <1>3 DEF write_eeprom
<1> DEFINE address == chip.eeprom_address + 2
<1>6. chip' = [chip EXCEPT !.type = "eeprom", !.eeprom_address = address, !.eeprom_counter = 1]
  <2>1. 1 * 2 ^ (1 - chip.eeprom_counter) = 2
    BY <1>3, Powers
  <2> DEFINE to(x) == [chip EXCEPT !.type = "eeprom", !.eeprom_address = x, !.eeprom_counter = 1]
  <2>2. InBase(1) = to(chip.eeprom_address + 1 * 2 ^ (1 - chip.eeprom_counter))
    BY <1>3, Zenon DEF InBase
  <2> HIDE DEF to
  <2>3. chip' = to(address)
    BY <1>5, <2>1, <2>2
  <2>4. QED
    BY <2>3 DEF to
<1>7. address \in Nat /\ address % 4 = 2
  <2> DEFINE q == chip.eeprom_address \div 8
  <2>1. chip.eeprom_address = 8 * q + (chip.eeprom_address % 8) /\ q \in Nat
    BY <1>4
  <2> HIDE DEF q
  <2>2. chip.eeprom_address = 8 * q
    BY <1>3, <2>1
  <2>3. (8 * q + 2) % 4 = 2
    BY <2>1, Eighth
  <2>4. QED
    BY <1>4, <2>2, <2>3
<1> HIDE DEF address
<1>8. chip' = EepromChip("eeprom", OwnSize, "base", 1, address)
  BY <1>1, <1>3, <1>6, ChipIs DEF EepromChip
<1>9. "base" \in EepromModes
  BY DEF EepromModes
<1>10. EepromIs(chip', "base", 1, address)
  BY <1>1, <1>7, <1>8, <1>9, EepromTo
<1>11. EepromAt(cpu.op, 2, chip')
  BY <1>7, <1>10, EepromAts DEF EepromIs
<1>12. cpu.op.what = "get" => cpu.heard = 0
  BY <1>1, EepromNow
<1>13. /\ cpu'.op = cpu.op /\ cpu'.todo # <<>> /\ Made(cpu') = 2 /\ promise' = promise
       /\ Made(cpu) + 1 # Len(Accesses(cpu.op))
  BY <1>1, EepromNext
<1>14. Fits(cpu', chip')
  BY <1>1, <1>7, <1>8, <1>9, <1>11, <1>12, <1>13, EepromTo DEF Reached
<1>15. ~Putting(cpu) /\ ~Putting(cpu') /\ ~Getting(cpu')
  BY <1>1, <1>13 DEF Putting, Getting
<1>16. QED
  BY <1>5, <1>13, <1>14, <1>15, QuietMove DEF HeardFits

LEMMA SecondBitMoves ==
  ASSUME TypesFit, Eeprom, GameSendsBit, Made(cpu) = 2
  PROVE  Moved
<1> DEFINE put == cpu.op.what = "put"
           bit == IF put THEN 0 ELSE 1
           mode == IF put THEN "writeAddress" ELSE "address"
<1>1. /\ cpu.todo # <<>> /\ write_eeprom(Head(cpu.todo).bit) /\ Advance(cpu.heard)
      /\ cpu.heard \in Nat /\ Head(cpu.todo) = Accesses(cpu.op)[3] /\ AddressBits \in Nat \ {0}
      /\ EepromAccesses(cpu.op, Accesses(cpu.op)) /\ EepromAt(cpu.op, 2, chip) /\ chip \in Chip
  BY OutNow
<1>2. Head(cpu.todo).bit = bit
  BY <1>1, Fields DEF EepromAccesses
<1>3. chip.eeprom_mode = "base" /\ chip.eeprom_counter = 1 /\ chip.eeprom_address % 4 = 2
      /\ chip.eeprom_size = OwnSize
  BY <1>1, EepromAts
<1>4. chip.eeprom_address \in Nat
  BY <1>1 DEF Chip
<1>5. chip' = InBase(bit) /\ gamepak_backup' = gamepak_backup /\ marked' = marked
  BY <1>1, <1>2, <1>3 DEF write_eeprom
<1>6. chip.eeprom_address + bit * 2 ^ (1 - chip.eeprom_counter) = chip.eeprom_address + bit
  BY <1>3, Powers
<1>7. (chip.eeprom_address + bit) % 4 = 2 + bit
  BY <1>3, <1>4
<1>8. chip' = [chip EXCEPT !.type = "eeprom", !.eeprom_address = 0, !.eeprom_counter = 0,
                           !.eeprom_mode = mode]
  <2> DEFINE address == chip.eeprom_address + bit * 2 ^ (1 - chip.eeprom_counter)
             next(to) == [chip EXCEPT !.type = "eeprom", !.eeprom_address = 0,
                                      !.eeprom_counter = 0, !.eeprom_mode = to]
  <2>0. InBase(bit) = next(CASE address % 4 = 2 -> "writeAddress" [] address % 4 = 3 -> "address"
                             [] OTHER -> "base")
    <3>1. chip.eeprom_counter # 0
      BY <1>3
    <3> HIDE DEF bit
    <3>2. QED
      BY <3>1, Zenon DEF InBase
  <2> HIDE DEF next
  <2>1. CASE put
    <3>1. bit = 0 /\ mode = "writeAddress"
      BY <2>1
    <3>2. (chip.eeprom_address + bit * 2 ^ (1 - chip.eeprom_counter)) % 4 = 2
      BY <1>6, <1>7, <3>1
    <3>3. chip' = next(mode)
      BY <1>5, <2>0, <3>1, <3>2
    <3>4. QED
      BY <3>3 DEF next
  <2>2. CASE ~put
    <3>1. bit = 1 /\ mode = "address"
      BY <2>2
    <3>2. (chip.eeprom_address + bit * 2 ^ (1 - chip.eeprom_counter)) % 4 = 3
      BY <1>6, <1>7, <3>1
    <3>3. chip' = next(mode)
      BY <1>5, <2>0, <3>1, <3>2
    <3>4. QED
      BY <3>3 DEF next
  <2>3. QED
    BY <2>1, <2>2
<1>9. mode \in EepromModes
  BY DEF EepromModes
<1> DEFINE n == AddressBits
<1>10. cpu.op.at \div 2 ^ (n - 0) = 0 /\ 0 \in 0 .. n - 1
  <2>1. cpu.op.at \in 0 .. 2 ^ n - 1 /\ 2 ^ n \in Nat \ {0}
    BY <1>1, EepromNow, AddressBitsAre
  <2>2. n - 0 = n /\ 0 \in 0 .. n - 1
    BY <1>1
  <2>3. QED
    BY <2>1, <2>2, NoBits
<1> HIDE DEF mode, n
<1>11. chip' = EepromChip("eeprom", OwnSize, mode, 0, 0)
  BY <1>1, <1>3, <1>8, ChipIs DEF EepromChip
<1>12. EepromIs(chip', mode, 0, 0)
  BY <1>1, <1>9, <1>11, EepromTo
<1>13. EepromAt(cpu.op, 3 + 0, chip')
  BY <1>10, <1>12, EepromAts DEF mode, n
<1>14. /\ cpu'.op = cpu.op /\ cpu'.todo # <<>> /\ Made(cpu') = 3 /\ promise' = promise
       /\ Made(cpu) + 1 # Len(Accesses(cpu.op))
  BY <1>1, EepromNext
<1>15. cpu.op.what = "get" => cpu.heard = 0
  BY <1>1, EepromNow
<1>16. Fits(cpu', chip')
  <2>1. Reached(cpu.heard, mode, 0, 0)
    BY <1>1, <1>12, <1>13, <1>14, <1>15 DEF Reached
  <2>2. QED
    BY <1>1, <1>9, <1>11, <2>1, EepromTo
<1>17. ~Putting(cpu) /\ ~Putting(cpu') /\ ~Getting(cpu')
  BY <1>1, <1>14 DEF Putting, Getting
<1>18. QED
  BY <1>5, <1>14, <1>16, <1>17, QuietMove DEF HeardFits

(* A bit of the address: the last one makes the chip ready for the byte.   *)
NextMode(mode) == IF mode = "address" THEN "addressFooter" ELSE "write"

LEMMA InAddressIs ==
  ASSUME Eeprom, chip \in Chip, NEW mode \in {"address", "writeAddress"}, NEW i \in Nat,
         NEW high \in Nat, NEW bit \in 0 .. 1, EepromIs(chip, mode, i, high)
  PROVE  /\ i + 1 # AddressBits =>
              InAddress(bit) = EepromChip("eeprom", OwnSize, mode, i + 1, 2 * high + bit)
         /\ i + 1 = AddressBits =>
              InAddress(bit) = EepromChip("eeprom", OwnSize, NextMode(mode), 0,
                                          8 * (2 * high + bit))
<1> DEFINE address == 2 * high + bit
           next == NextMode(mode)
           inner(x) == [[chip EXCEPT !.eeprom_counter = i + 1] EXCEPT !.eeprom_address = x]
           outer(x, to) == [[chip EXCEPT !.eeprom_counter = 0] EXCEPT !.eeprom_address = x,
                                                                      !.eeprom_mode = to]
<1>1. /\ chip.type = "eeprom" /\ chip.eeprom_size = OwnSize /\ chip.eeprom_mode = mode
      /\ chip.eeprom_counter = i /\ chip.eeprom_address = high
  BY DEF EepromIs
<1>2. (IF chip.eeprom_size = "b512" THEN Bits512 ELSE Bits8K) = AddressBits
  BY <1>1, EepromSizes
<1>3. ASSUME i + 1 # AddressBits
      PROVE  InAddress(bit) = EepromChip("eeprom", OwnSize, mode, i + 1, address)
  <2>1. InAddress(bit) = [Counted(chip.eeprom_counter + 1)
                            EXCEPT !.eeprom_address = 2 * chip.eeprom_address + bit]
    BY <1>1, <1>2, <1>3 DEF InAddress
  <2>2. InAddress(bit) = inner(address)
    BY <1>1, <2>1 DEF Counted
  <2> HIDE DEF address
  <2>3. inner(address) = EepromChip("eeprom", OwnSize, mode, i + 1, address)
    BY <1>1, ChipIs DEF EepromChip
  <2>4. QED
    BY <2>2, <2>3 DEF address
<1>4. ASSUME i + 1 = AddressBits
      PROVE  InAddress(bit) = EepromChip("eeprom", OwnSize, next, 0, 8 * address)
  <2>1. InAddress(bit) = [Counted(0) EXCEPT
                            !.eeprom_address = 8 * (2 * chip.eeprom_address + bit),
                            !.eeprom_mode = IF @ = "address" THEN "addressFooter" ELSE "write"]
    BY <1>1, <1>2, <1>4 DEF InAddress
  <2>2. Counted(0).eeprom_mode = mode
    BY <1>1 DEF Counted, Chip
  <2> DEFINE y == 8 * address
  <2>3. InAddress(bit) = outer(y, next)
    <3>1. [Counted(0) EXCEPT
             !.eeprom_address = 8 * (2 * chip.eeprom_address + bit),
             !.eeprom_mode = IF @ = "address" THEN "addressFooter" ELSE "write"]
            = [Counted(0) EXCEPT !.eeprom_address = y, !.eeprom_mode = next]
      BY <1>1, <2>2 DEF NextMode
    <3>2. QED
      BY <2>1, <3>1 DEF Counted
  <2> HIDE DEF y, next
  <2>4. outer(y, next) = EepromChip("eeprom", OwnSize, next, 0, y)
    BY <1>1, ChipIs DEF EepromChip
  <2>5. QED
    BY <2>3, <2>4 DEF y, next
<1>5. QED
  BY <1>3, <1>4

(* A bit less of an address is its half.                                   *)
LEMMA AddressBit ==
  ASSUME NEW a \in Nat, NEW i \in 0 .. AddressBits - 1
  PROVE  LET n == AddressBits
             high == a \div 2 ^ (n - i)
             bit == (a \div 2 ^ (n - 1 - i)) % 2
         IN /\ high \in Nat /\ bit \in 0 .. 1
            /\ 2 * high + bit = a \div 2 ^ (n - (i + 1))
<1> DEFINE n == AddressBits
           p == 2 ^ (n - 1 - i)
<1>1. n \in Nat \ {0} /\ n <= Bits8K /\ Bits8K \in Nat
  BY AddressBitsAre, Constants
<1>2. n - 1 - i \in 0 .. Bits8K + 8 /\ (n - 1 - i) + 1 = n - i /\ n - (i + 1) = n - 1 - i
  BY <1>1
<1>3. p \in Nat \ {0} /\ 2 ^ (n - i) = 2 * p
  BY <1>2, Powers
<1>4. 2 ^ (n - (i + 1)) = p
  BY <1>2
<1> HIDE DEF p, n
<1>5. /\ a \div p = 2 * (a \div (2 * p)) + ((a \div p) % 2)
      /\ (a \div p) % 2 \in 0 .. 1
      /\ a \div (2 * p) \in Nat
  BY <1>3, OneMoreBit
<1>6. QED
  BY <1>3, <1>4, <1>5 DEF p, n

LEMMA AddressBitMoves ==
  ASSUME TypesFit, Eeprom, GameSendsBit, NEW i \in 0 .. AddressBits - 1, Made(cpu) = 3 + i
  PROVE  Moved
<1> DEFINE n == AddressBits
           op == cpu.op
           put == op.what = "put"
           a == Accesses(cpu.op)
           mode == IF put THEN "writeAddress" ELSE "address"
           high == op.at \div 2 ^ (n - i)
           bit == (op.at \div 2 ^ (n - 1 - i)) % 2
           address == 2 * high + bit
<1>1. /\ cpu.todo # <<>> /\ write_eeprom(Head(cpu.todo).bit) /\ Advance(cpu.heard)
      /\ cpu.heard \in Nat /\ Head(cpu.todo) = a[Made(cpu) + 1] /\ n \in Nat \ {0}
      /\ EepromAccesses(cpu.op, Accesses(cpu.op)) /\ EepromAt(cpu.op, Made(cpu), chip)
      /\ chip \in Chip
  BY OutNow
<1>2. /\ op.at \in Nat /\ op.at \in Cells /\ op.what \in {"put", "get"}
      /\ promise \in [Cells -> Bytes] /\ gamepak_backup \in [Cells -> Nat] /\ marked \in BOOLEAN
      /\ op.what = "put" => op.value \in Bytes
  BY <1>1, EepromNow
<1>3. high \in Nat /\ bit \in 0 .. 1 /\ address = op.at \div 2 ^ (n - (i + 1))
  BY <1>2, AddressBit
<1>4. Head(cpu.todo).bit = bit
  <2>1. Made(cpu) + 1 \in 4 .. n + 3 /\ n + 3 - (Made(cpu) + 1) = n - 1 - i
    BY <1>1
  <2>2. a[Made(cpu) + 1] = Bit((op.at \div 2 ^ (n + 3 - (Made(cpu) + 1))) % 2)
    BY <1>1, <2>1 DEF EepromAccesses
  <2>3. QED
    BY <1>1, <2>1, <2>2, Fields
<1>5. EepromIs(chip, mode, i, high)
  BY <1>1, EepromAts
<1>6. mode \in {"address", "writeAddress"} /\ mode \in EepromModes /\ i \in Nat
      /\ "addressFooter" \in EepromModes /\ "write" \in EepromModes
  BY DEF EepromModes
<1>7. /\ chip' = InAddress(bit) /\ gamepak_backup' = Cleared(InAddress(bit)) /\ marked' = marked
  <2>1. chip.eeprom_mode = mode /\ mode # "base"
    BY <1>5 DEF EepromIs
  <2> HIDE DEF mode, bit
  <2>2. QED
    BY <1>1, <1>4, <1>6, <2>1 DEF write_eeprom
<1>8. /\ cpu'.op = op /\ cpu'.heard = cpu.heard
      /\ cpu'.todo # <<>> /\ Made(cpu') = 3 + i + 1 /\ promise' = promise
      /\ Made(cpu) + 1 # Len(a)
  <2>1. Made(cpu) # n + 11 /\ Made(cpu) # n + 16
    BY <1>1
  <2>2. QED
    BY <1>1, <2>1, EepromNext
<1>9. op.what = "get" => cpu.heard = 0
  <2>1. Made(cpu) < n + 9
    BY <1>1
  <2>2. QED
    BY <1>1, <2>1, EepromNow
<1>10. ~Putting(cpu) /\ ~Getting(cpu')
  <2>1. ~(Made(cpu) >= n + 3) /\ ~(Made(cpu') >= n + 9)
    BY <1>1, <1>8
  <2>2. QED
    BY <2>1 DEF Putting, Getting
<1>10a. mode = "address" <=> ~put
  OBVIOUS
<1> HIDE DEF n, put, a, high, bit, op, mode
<1>10b. /\ i + 1 # n => InAddress(bit) = EepromChip("eeprom", OwnSize, mode, i + 1, 2 * high + bit)
        /\ i + 1 = n => InAddress(bit) = EepromChip("eeprom", OwnSize,
                                                     NextMode(mode), 0, 8 * (2 * high + bit))
  <2>1. /\ i + 1 # AddressBits =>
             InAddress(bit) = EepromChip("eeprom", OwnSize, mode, i + 1, 2 * high + bit)
        /\ i + 1 = AddressBits =>
             InAddress(bit) = EepromChip("eeprom", OwnSize, NextMode(mode), 0,
                                         8 * (2 * high + bit))
    <3>1. chip \in Chip
      BY <1>1
    <3>2. high \in Nat /\ bit \in 0 .. 1
      BY <1>3
    <3>3. mode \in {"address", "writeAddress"} /\ i \in Nat
      BY <1>6
    <3>4. QED
      BY <1>5, <3>1, <3>2, <3>3, InAddressIs
  <2>2. QED
    BY <2>1 DEF n
<1>11. CASE i + 1 # n
  <2>1. chip' = EepromChip("eeprom", OwnSize, mode, i + 1, address)
    BY <1>7, <1>10b, <1>11
  <2>2. address \in Nat /\ i + 1 \in Nat
    BY <1>3
  <2> HIDE DEF address, mode
  <2>3. EepromIs(chip', mode, i + 1, address)
    BY <1>1, <1>6, <2>1, <2>2, EepromTo
  <2>4. EepromAt(op, 3 + (i + 1), chip')
    <3>1. i + 1 \in 0 .. n - 1
      BY <1>1, <1>11 DEF n
    <3>2. QED
      BY <1>3, <2>3, <3>1, EepromAts DEF n, put, mode, op
  <2>5. Reached(cpu.heard, mode, i + 1, address)
    <3>1. 3 + (i + 1) = Made(cpu) + 1
      OBVIOUS
    <3>2. QED
      BY <1>8, <1>9, <2>4, <3>1 DEF Reached, op, a
  <2>6. Fits(cpu', chip')
    BY <1>1, <1>6, <2>1, <2>2, <2>5, EepromTo
  <2>7. gamepak_backup' = gamepak_backup
    <3>1. chip'.eeprom_mode # "write"
      BY <1>6, <2>3 DEF EepromIs
    <3>2. QED
      BY <1>7, <3>1 DEF Cleared
  <2>8. ~Putting(cpu')
    <3>1. ~(Made(cpu') >= n + 3)
      BY <1>1, <1>8, <1>11 DEF n
    <3>2. QED
      BY <3>1 DEF Putting, n
  <2>9. QED
    BY <1>7, <1>8, <1>10, <2>6, <2>7, <2>8, QuietMove DEF HeardFits
<1>12. CASE i + 1 = n
  <2> DEFINE next == NextMode(mode)
  <2>1. address = op.at
    <3>1. n - (i + 1) = 0
      BY <1>1, <1>12
    <3>2. QED
      BY <1>2, <1>3, <3>1, AllBits
  <2>2. chip' = EepromChip("eeprom", OwnSize, next, 0, 8 * op.at)
    <3>1. chip' = EepromChip("eeprom", OwnSize, next, 0, 8 * address)
      BY <1>7, <1>10b, <1>12
    <3>2. QED
      BY <2>1, <3>1
  <2>3. next \in EepromModes /\ 8 * op.at \in Nat /\ 0 \in Nat
    BY <1>2, <1>6 DEF NextMode
  <2>4. next = IF put THEN "write" ELSE "addressFooter"
    BY <1>10a DEF NextMode
  <2> HIDE DEF next, address, mode
  <2>5. EepromIs(chip', next, 0, 8 * op.at)
    BY <1>1, <2>2, <2>3, EepromTo
  <2>6. EepromAt(op, n + 3, chip')
    <3>1. CASE put
      <4>1. n + 3 + 0 = n + 3 /\ 0 \in 0 .. 7
        BY <1>1
      <4>2. EepromAt(op, n + 3 + 0, chip')
        BY <2>4, <2>5, <3>1, <4>1, EepromAts DEF n, put
      <4>3. QED
        BY <4>1, <4>2
    <3>2. CASE ~put
      BY <2>4, <2>5, <3>2, EepromAts DEF n, put
    <3>3. QED
      BY <3>1, <3>2
  <2>7. Reached(cpu.heard, next, 0, 8 * op.at)
    <3>1. n + 3 = Made(cpu) + 1
      BY <1>1, <1>12
    <3>2. QED
      BY <1>8, <1>9, <2>6, <3>1 DEF Reached, op, a
  <2>8. Fits(cpu', chip')
    BY <1>1, <2>2, <2>3, <2>7, EepromTo
  <2>9. CASE ~put
    <3>1. gamepak_backup' = gamepak_backup
      BY <1>7, <2>4, <2>5, <2>9 DEF Cleared, EepromIs
    <3>2. ~Putting(cpu')
      BY <1>8, <2>9 DEF Putting, put, op
    <3>3. QED
      BY <1>7, <1>8, <1>10, <2>8, <3>1, <3>2, QuietMove DEF HeardFits
  <2>10. CASE put
    <3>1. gamepak_backup' = [gamepak_backup EXCEPT ![op.at] = 0]
      <4>1. chip'.eeprom_mode = "write" /\ chip'.eeprom_address = 8 * op.at
        BY <2>4, <2>5, <2>10 DEF EepromIs
      <4>2. (8 * op.at) \div 8 = op.at
        BY <1>2, Eighth
      <4>3. QED
        BY <1>7, <4>1, <4>2 DEF Cleared
    <3>2. Made(cpu') = n + 3
      BY <1>1, <1>8, <1>12
    <3>3. Present(cpu', promise') = [promise EXCEPT ![op.at] = 0]
      <4>1. Putting(cpu')
        BY <1>1, <1>8, <2>10, <3>2 DEF Putting, put, op, n
      <4>2. Made(cpu') - (n + 3) = 0
        BY <1>1, <3>2
      <4>3. High(op.value, 0) = 0
        BY <1>2, <2>10, EndsOfAByte DEF put
      <4>4. QED
        BY <1>8, <4>1, <4>2, <4>3 DEF Present, n
    <3>4. gamepak_backup = Present(cpu, promise) => gamepak_backup = promise
      BY <1>10 DEF Present
    <3>5. ~MustBeMarked(cpu')
      BY <1>1, <3>2 DEF MustBeMarked, n
    <3>6. gamepak_backup' \in [Cells -> Nat]
      BY <1>2, <3>1
    <3>7. HeardFits(cpu', promise')
      BY <1>10 DEF HeardFits
    <3>8. gamepak_backup = Present(cpu, promise) => gamepak_backup' = Present(cpu', promise')
      BY <3>1, <3>3, <3>4
    <3>9. promise' \in [Cells -> Bytes]
      BY <1>2, <1>8
    <3> HIDE DEF op
    <3>10. QED
      BY <1>2, <1>7, <1>8, <2>8, <3>5, <3>6, <3>7, <3>8, <3>9 DEF Moved
  <2>11. QED
    BY <2>9, <2>10
<1>13. QED
  BY <1>11, <1>12

(* A bit of the byte is put into the memory where it belongs.              *)
LEMMA ByteBitMoves ==
  ASSUME TypesFit, Eeprom, GameSendsBit, cpu.op.what = "put", NEW k \in 0 .. 7,
         Made(cpu) = AddressBits + 3 + k
  PROVE  Moved
<1> DEFINE n == AddressBits
           op == cpu.op
           a == Accesses(cpu.op)
           p == 2 ^ (7 - k)
           bit == (op.value \div p) % 2
<1>1. /\ cpu.todo # <<>> /\ write_eeprom(Head(cpu.todo).bit) /\ Advance(cpu.heard)
      /\ cpu.heard \in Nat /\ Head(cpu.todo) = a[Made(cpu) + 1] /\ n \in Nat \ {0}
      /\ EepromAccesses(cpu.op, Accesses(cpu.op)) /\ EepromAt(cpu.op, Made(cpu), chip)
      /\ chip \in Chip
  BY OutNow
<1>2. /\ op.at \in Nat /\ op.at \in Cells
      /\ promise \in [Cells -> Bytes] /\ gamepak_backup \in [Cells -> Nat] /\ marked \in BOOLEAN
      /\ op.value \in Bytes /\ op.value \in Nat
  <2>1. /\ op.at \in Nat /\ op.at \in Cells
        /\ promise \in [Cells -> Bytes] /\ gamepak_backup \in [Cells -> Nat] /\ marked \in BOOLEAN
        /\ op.value \in Bytes
    BY <1>1, EepromNow
  <2>2. QED
    BY <2>1 DEF Bytes
<1>3. /\ High(op.value, k) \in Nat /\ p \in Nat \ {0} /\ bit \in 0 .. 1
      /\ (High(op.value, k) \div p) % 2 = 0
      /\ High(op.value, k) + bit * p = High(op.value, k + 1)
  BY <1>2, NextBit
<1>4. Head(cpu.todo).bit = bit
  <2>1. Made(cpu) + 1 \in n + 4 .. n + 11 /\ n + 11 - (Made(cpu) + 1) = 7 - k
    BY <1>1
  <2>2. a[Made(cpu) + 1] = Bit((op.value \div 2 ^ (n + 11 - (Made(cpu) + 1))) % 2)
    BY <1>1, <2>1 DEF EepromAccesses
  <2>3. QED
    BY <1>1, <2>1, <2>2, Fields
<1>5. EepromIs(chip, "write", k, 8 * op.at)
  BY <1>1, EepromAts
<1>6. /\ chip.type = "eeprom" /\ chip.eeprom_size = OwnSize /\ chip.eeprom_mode = "write"
      /\ chip.eeprom_counter = k /\ chip.eeprom_address = 8 * op.at
  BY <1>5 DEF EepromIs
<1> DEFINE mode == IF k < 7 THEN "write" ELSE "writeFooter"
           count == IF k < 7 THEN k + 1 ELSE 0
<1>7. /\ gamepak_backup' = WithBit(bit) /\ marked' = (marked \/ k = 7)
      /\ chip' = IF k < 7 THEN Counted(k + 1)
                 ELSE [Counted(0) EXCEPT !.eeprom_mode = "writeFooter"]
  <2> HIDE DEF bit
  <2>1. QED
    BY <1>1, <1>4, <1>6 DEF write_eeprom
<1>8. chip' = EepromChip("eeprom", OwnSize, mode, count, 8 * op.at)
  <2> DEFINE y == 8 * op.at
  <2> HIDE DEF y
  <2>1. chip.eeprom_address = y
    BY <1>6 DEF y
  <2>2. CASE k < 7
    <3>1. chip' = [chip EXCEPT !.eeprom_counter = k + 1]
      BY <1>7, <2>2 DEF Counted
    <3>2. [chip EXCEPT !.eeprom_counter = k + 1] = EepromChip("eeprom", OwnSize, "write", k + 1, y)
      BY <1>1, <1>6, <2>1, ChipIs DEF EepromChip
    <3>3. QED
      BY <2>2, <3>1, <3>2 DEF y
  <2>3. CASE ~(k < 7)
    <3>1. chip' = [[chip EXCEPT !.eeprom_counter = 0] EXCEPT !.eeprom_mode = "writeFooter"]
      BY <1>7, <2>3 DEF Counted
    <3>2. [[chip EXCEPT !.eeprom_counter = 0] EXCEPT !.eeprom_mode = "writeFooter"]
            = EepromChip("eeprom", OwnSize, "writeFooter", 0, y)
      BY <1>1, <1>6, <2>1, ChipIs DEF EepromChip
    <3>3. QED
      BY <2>3, <3>1, <3>2 DEF y
  <2>4. QED
    BY <2>2, <2>3
<1>9. mode \in EepromModes /\ count \in Nat /\ 8 * op.at \in Nat
  BY <1>2 DEF EepromModes
<1>10. EepromIs(chip', mode, count, 8 * op.at)
  <2> HIDE DEF mode, count
  <2>1. QED
    BY <1>1, <1>8, <1>9, EepromTo
<1>11. /\ cpu'.op = op /\ cpu'.todo # <<>> /\ Made(cpu') = n + 3 + k + 1 /\ promise' = promise
       /\ Made(cpu) + 1 # Len(a)
  <2>1. Made(cpu) # n + 11
    BY <1>1
  <2>2. QED
    BY <1>1, <2>1, EepromNext
<1> HIDE DEF n, op, a, p, bit
<1>12. EepromAt(op, n + 3 + k + 1, chip')
  <2>1. CASE k < 7
    <3>1. k + 1 \in 0 .. 7 /\ n + 3 + (k + 1) = n + 3 + k + 1
      BY <1>1, <2>1
    <3>2. EepromIs(chip', "write", k + 1, 8 * op.at)
      BY <1>10, <2>1
    <3>3. EepromAt(op, n + 3 + (k + 1), chip')
      BY <3>1, <3>2, EepromAts DEF op, n
    <3>4. QED
      BY <3>1, <3>3
  <2>2. CASE ~(k < 7)
    <3>1. n + 3 + k + 1 = n + 11
      BY <1>1, <2>2
    <3>2. EepromIs(chip', "writeFooter", 0, 8 * op.at)
      BY <1>10, <2>2
    <3>3. EepromAt(op, n + 11, chip')
      BY <3>2, EepromAts DEF op, n
    <3>4. QED
      BY <3>1, <3>3
  <2>3. QED
    BY <2>1, <2>2
<1> HIDE DEF mode, count
<1>13. Reached(cpu.heard, mode, count, 8 * op.at)
  <2>1. n + 3 + k + 1 = Made(cpu) + 1
    BY <1>1 DEF n
  <2>2. op.what # "get"
    BY DEF op
  <2>3. QED
    BY <1>11, <1>12, <2>1, <2>2 DEF Reached, op, a
<1>14. Fits(cpu', chip')
  BY <1>1, <1>8, <1>9, <1>13, EepromTo
<1>15. Putting(cpu) /\ Made(cpu) - (n + 3) = k
  BY <1>1 DEF Putting, n
<1>16. Putting(cpu') /\ Made(cpu') - (n + 3) = k + 1
  BY <1>1, <1>11 DEF Putting, n, op
<1>17. Present(cpu, promise) = [promise EXCEPT ![op.at] = High(op.value, k)]
  BY <1>15 DEF Present, op, n
<1>18. Present(cpu', promise') = [promise EXCEPT ![op.at] = High(op.value, k + 1)]
  BY <1>11, <1>16 DEF Present, n
<1>19. WithBit(bit) = [gamepak_backup EXCEPT ![op.at] =
                         IF (gamepak_backup[op.at] \div p) % 2 = 1 THEN gamepak_backup[op.at]
                         ELSE gamepak_backup[op.at] + bit * p]
  <2>1. Block = op.at
    BY <1>2, <1>6, Eighth DEF Block, op
  <2>2. 2 ^ (7 - chip.eeprom_counter) = p
    BY <1>6 DEF p
  <2>3. QED
    BY <2>1, <2>2 DEF WithBit
<1>20. gamepak_backup' \in [Cells -> Nat]
  <2>0. bit = 0 \/ bit = 1
    BY <1>3
  <2>1. gamepak_backup[op.at] \in Nat /\ bit * p \in Nat
    <3>1. gamepak_backup[op.at] \in Nat
      BY <1>2
    <3>2. CASE bit = 0
      BY <1>3, <3>1, <3>2
    <3>3. CASE bit = 1
      BY <1>3, <3>1, <3>3
    <3>4. QED
      BY <2>0, <3>2, <3>3
  <2>2. gamepak_backup[op.at] + bit * p \in Nat
    BY <2>1
  <2>3. QED
    BY <1>2, <1>7, <1>19, <2>1, <2>2
<1>21. ASSUME gamepak_backup = Present(cpu, promise)
       PROVE  gamepak_backup' = Present(cpu', promise')
  <2>1. gamepak_backup[op.at] = High(op.value, k)
    BY <1>2, <1>17, <1>21
  <2>2. gamepak_backup' = [gamepak_backup EXCEPT ![op.at] = High(op.value, k + 1)]
    <3>1. (gamepak_backup[op.at] \div p) % 2 # 1
      BY <1>3, <2>1
    <3>2. gamepak_backup[op.at] + bit * p = High(op.value, k + 1)
      BY <1>3, <2>1
    <3> DEFINE x == gamepak_backup[op.at] + bit * p
    <3>3. gamepak_backup' = [gamepak_backup EXCEPT ![op.at] = x]
      BY <1>7, <1>19, <3>1
    <3> HIDE DEF x
    <3>4. x = High(op.value, k + 1)
      BY <3>2 DEF x
    <3>5. QED
      BY <3>3, <3>4
  <2>3. QED
    BY <1>2, <1>17, <1>18, <1>21, <2>2
<1>22. MustBeMarked(cpu') => marked'
  <2>1. MustBeMarked(cpu') => k = 7
    BY <1>1, <1>11 DEF MustBeMarked, n
  <2>2. QED
    BY <1>7, <2>1
<1>23. CellsOf[FileSize'] > 0
  <2>1. chip'.type = "eeprom" /\ chip'.eeprom_size = OwnSize
    BY <1>10 DEF EepromIs
  <2>2. QED
    BY <2>1, SizeIs, EepromSizes
<1>24. HeardFits(cpu', promise')
  BY <1>11 DEF HeardFits, Getting, op
<1>25. promise' \in [Cells -> Bytes] /\ marked' \in BOOLEAN /\ (marked => marked')
  BY <1>2, <1>7, <1>11
<1>26. QED
  BY <1>11, <1>14, <1>20, <1>21, <1>22, <1>23, <1>24, <1>25 DEF Moved

(* The last bit ends it: the memory holds what was to be put there.        *)
LEMMA LastBitMoves ==
  ASSUME TypesFit, Eeprom, GameSendsBit, cpu.op.what = "put", Made(cpu) = AddressBits + 11,
         MustBeMarked(cpu) => marked
  PROVE  Moved
<1> DEFINE n == AddressBits
           op == cpu.op
           a == Accesses(cpu.op)
<1>1. /\ cpu.todo # <<>> /\ write_eeprom(Head(cpu.todo).bit) /\ Advance(cpu.heard)
      /\ cpu.heard \in Nat /\ n \in Nat \ {0} /\ EepromAt(cpu.op, Made(cpu), chip)
      /\ chip \in Chip
  BY OutNow
<1>2. /\ op.at \in Nat /\ op.at \in Cells /\ op.at \in 0 .. 2 ^ n - 1 /\ kind \in Kinds
      /\ promise \in [Cells -> Bytes] /\ gamepak_backup \in [Cells -> Nat] /\ marked \in BOOLEAN
      /\ op.value \in Bytes /\ op \in Ops
  BY <1>1, EepromNow
<1>3. EepromIs(chip, "writeFooter", 0, 8 * op.at)
  BY <1>1, EepromAts
<1>4. /\ chip.type = "eeprom" /\ chip.eeprom_size = OwnSize /\ chip.eeprom_mode = "writeFooter"
      /\ chip.eeprom_counter = 0 /\ chip.eeprom_address = 8 * op.at
  BY <1>3 DEF EepromIs
<1>5. /\ gamepak_backup' = gamepak_backup /\ marked' = marked
      /\ chip' = [Counted(0) EXCEPT
                    !.eeprom_mode = IF @ = "addressFooter" THEN "readHeader" ELSE "base"]
  BY <1>1, <1>4 DEF write_eeprom
<1>6. chip' = EepromChip("eeprom", OwnSize, "base", 0, 8 * op.at)
  <2> DEFINE y == 8 * op.at
  <2> HIDE DEF y
  <2>1. chip.eeprom_address = y
    BY <1>4 DEF y
  <2>2. Counted(0).eeprom_mode = "writeFooter"
    BY <1>1, <1>4 DEF Counted, Chip
  <2>3. chip' = [Counted(0) EXCEPT !.eeprom_mode = "base"]
    BY <1>5, <2>2
  <2>4. chip' = [[chip EXCEPT !.eeprom_counter = 0] EXCEPT !.eeprom_mode = "base"]
    BY <2>3 DEF Counted
  <2>5. [[chip EXCEPT !.eeprom_counter = 0] EXCEPT !.eeprom_mode = "base"]
          = EepromChip("eeprom", OwnSize, "base", 0, y)
    BY <1>1, <1>4, <2>1, ChipIs DEF EepromChip
  <2>6. QED
    BY <2>4, <2>5 DEF y
<1>7. "base" \in EepromModes /\ 0 \in Nat /\ 8 * op.at \in Nat /\ (8 * op.at) % 8 = 0
  BY <1>2, Eighth DEF EepromModes
<1>8. cpu'.op = op /\ cpu'.todo = <<>> /\ promise' = Meant(op) /\ Made(cpu) + 1 = Len(a)
  BY <1>1, EepromNext
<1>9. Fits(cpu', chip')
  <2>1. Reached(cpu.heard, "base", 0, 8 * op.at)
    BY <1>7, <1>8 DEF Reached
  <2>2. QED
    BY <1>1, <1>6, <1>7, <2>1, EepromTo
<1>10. promise' = [promise EXCEPT ![op.at] = op.value]
  BY <1>2, <1>8, MeantIs
<1>11. Present(cpu', promise') = promise'
  BY <1>8 DEF Present, Putting
<1>12. Putting(cpu) /\ MustBeMarked(cpu)
  BY <1>1 DEF Putting, MustBeMarked
<1>13. Present(cpu, promise) = promise'
  <2>1. Made(cpu) - (n + 3) = 8
    BY <1>1
  <2>2. High(op.value, 8) = op.value
    BY <1>2, EndsOfAByte
  <2>3. Present(cpu, promise) = [promise EXCEPT ![op.at] = High(op.value, 8)]
    BY <1>12, <2>1 DEF Present
  <2>4. QED
    BY <1>10, <2>2, <2>3
<1>14. marked' /\ marked
  BY <1>5, <1>12
<1>15. CellsOf[FileSize'] = 2 ^ n
  <2>1. chip'.type = "eeprom" /\ chip'.eeprom_size = OwnSize
    BY <1>1, <1>6, <1>7, EepromTo DEF EepromIs
  <2>2. QED
    BY <2>1, SizeIs, EepromSizes
<1>16. ASSUME NEW c \in Cells, promise'[c] # Erased
       PROVE  promise[c] # Erased \/ c < CellsOf[FileSize']
  <2>1. CASE c = op.at
    <3>1. op.at < 2 ^ n
      BY <1>2, AddressBitsAre
    <3>2. QED
      BY <1>15, <2>1, <3>1
  <2>2. CASE c # op.at
    BY <1>2, <1>10, <1>16, <2>2
  <2>3. QED
    BY <2>1, <2>2
<1>17. promise' \in [Cells -> Bytes] /\ gamepak_backup' \in [Cells -> Nat]
  BY <1>2, <1>5, <1>10
<1>18. HeardFits(cpu', promise')
  BY <1>8 DEF HeardFits, Getting
<1>19. QED
  BY <1>5, <1>9, <1>11, <1>13, <1>14, <1>16, <1>17, <1>18 DEF Moved

(* The bit after the address of a byte that is to be read.                 *)
LEMMA FooterMoves ==
  ASSUME TypesFit, Eeprom, GameSendsBit, cpu.op.what = "get", Made(cpu) = AddressBits + 3
  PROVE  Moved
<1> DEFINE n == AddressBits
           op == cpu.op
           a == Accesses(cpu.op)
<1>1. /\ cpu.todo # <<>> /\ write_eeprom(Head(cpu.todo).bit) /\ Advance(cpu.heard)
      /\ cpu.heard \in Nat /\ n \in Nat \ {0} /\ EepromAt(cpu.op, Made(cpu), chip)
      /\ chip \in Chip
  BY OutNow
<1>2. op.at \in Nat
  BY <1>1, EepromNow
<1>3. EepromIs(chip, "addressFooter", 0, 8 * op.at)
  BY <1>1, EepromAts
<1>4. /\ chip.type = "eeprom" /\ chip.eeprom_size = OwnSize /\ chip.eeprom_mode = "addressFooter"
      /\ chip.eeprom_counter = 0 /\ chip.eeprom_address = 8 * op.at
  BY <1>3 DEF EepromIs
<1>5. /\ gamepak_backup' = gamepak_backup /\ marked' = marked
      /\ chip' = [Counted(0) EXCEPT
                    !.eeprom_mode = IF @ = "addressFooter" THEN "readHeader" ELSE "base"]
  BY <1>1, <1>4 DEF write_eeprom
<1>6. chip' = EepromChip("eeprom", OwnSize, "readHeader", 0, 8 * op.at)
  <2> DEFINE y == 8 * op.at
  <2> HIDE DEF y
  <2>1. chip.eeprom_address = y
    BY <1>4 DEF y
  <2>2. Counted(0).eeprom_mode = "addressFooter"
    BY <1>1, <1>4 DEF Counted, Chip
  <2>3. chip' = [Counted(0) EXCEPT !.eeprom_mode = "readHeader"]
    BY <1>5, <2>2
  <2>4. chip' = [[chip EXCEPT !.eeprom_counter = 0] EXCEPT !.eeprom_mode = "readHeader"]
    BY <2>3 DEF Counted
  <2>5. [[chip EXCEPT !.eeprom_counter = 0] EXCEPT !.eeprom_mode = "readHeader"]
          = EepromChip("eeprom", OwnSize, "readHeader", 0, y)
    BY <1>1, <1>4, <2>1, ChipIs DEF EepromChip
  <2>6. QED
    BY <2>4, <2>5 DEF y
<1>7. "readHeader" \in EepromModes /\ 0 \in Nat /\ 8 * op.at \in Nat
  BY <1>2 DEF EepromModes
<1>8. EepromIs(chip', "readHeader", 0, 8 * op.at)
  BY <1>1, <1>6, <1>7, EepromTo
<1>9. EepromAt(op, n + 4, chip')
  BY <1>8, EepromAts
<1>10. /\ cpu'.op = op /\ cpu'.todo # <<>> /\ Made(cpu') = n + 3 + 1 /\ promise' = promise
       /\ Made(cpu) + 1 # Len(a)
  <2>1. Made(cpu) # n + 16
    BY <1>1
  <2>2. QED
    BY <1>1, <2>1, EepromNext
<1>11. cpu.heard = 0
  <2>1. Made(cpu) < n + 9
    BY <1>1
  <2>2. QED
    BY <1>1, <2>1, EepromNow
<1>12. Fits(cpu', chip')
  <2>1. n + 4 = Made(cpu) + 1
    BY <1>1
  <2>2. Reached(cpu.heard, "readHeader", 0, 8 * op.at)
    BY <1>9, <1>10, <1>11, <2>1 DEF Reached
  <2>3. QED
    BY <1>1, <1>6, <1>7, <2>2, EepromTo
<1>13. ~Putting(cpu) /\ ~Putting(cpu') /\ ~Getting(cpu')
  <2>1. ~(n + 3 + 1 >= n + 9)
    BY <1>1
  <2>2. QED
    BY <1>10, <2>1 DEF Putting, Getting
<1>14. QED
  BY <1>5, <1>10, <1>12, <1>13, QuietMove DEF HeardFits

LEMMA OutMoves ==
  ASSUME TypesFit, Eeprom, GameSendsBit, MustBeMarked(cpu) => marked
  PROVE  Moved
<1> DEFINE m == Made(cpu)
           n == AddressBits
           put == cpu.op.what = "put"
<1>1. cpu.todo # <<>> /\ Head(cpu.todo).do = "out"
  BY OutNow
<1>2. cpu.op.what \in {"put", "get"}
  BY <1>1, EepromNow
<1>3. \/ m = 1 \/ m = 2 \/ \E i \in 0 .. n - 1 : m = 3 + i
      \/ put /\ \E k \in 0 .. 7 : m = n + 3 + k
      \/ put /\ m = n + 11
      \/ ~put /\ m = n + 3
  BY <1>1, EepromAccess
<1>4. QED
  BY <1>2, <1>3, FirstBitMoves, SecondBitMoves, AddressBitMoves, ByteBitMoves, LastBitMoves,
     FooterMoves

(* The bits that a game reads: four that say nothing, and the byte.        *)
LEMMA InNow ==
  ASSUME TypesFit, Eeprom, GameReadsBit
  PROVE  /\ cpu.todo # <<>> /\ Head(cpu.todo).do = "in"
         /\ chip' = AfterRead /\ gamepak_backup' = gamepak_backup /\ marked' = marked
         /\ \E bit \in read_eeprom : Advance(2 * cpu.heard + bit)
         /\ cpu.op.what = "get" /\ cpu.op.at \in Nat /\ cpu.op.at \in Cells
         /\ promise \in [Cells -> Bytes] /\ gamepak_backup \in [Cells -> Nat]
         /\ EepromAt(cpu.op, Made(cpu), chip)
         /\ AddressBits \in Nat \ {0} /\ chip \in Chip /\ cpu.heard \in Nat
<1>1. /\ cpu.todo # <<>> /\ Head(cpu.todo).do = "in"
      /\ chip' = AfterRead /\ gamepak_backup' = gamepak_backup /\ marked' = marked
      /\ \E bit \in read_eeprom : Advance(2 * cpu.heard + bit)
  BY DEF GameReadsBit, Doing
<1>2. /\ cpu.op.what \in {"put", "get"} /\ cpu.op.at \in Nat /\ cpu.op.at \in Cells
      /\ promise \in [Cells -> Bytes] /\ gamepak_backup \in [Cells -> Nat]
      /\ EepromAt(cpu.op, Made(cpu), chip)
      /\ AddressBits \in Nat \ {0} /\ chip \in Chip /\ cpu.heard \in Nat
  BY <1>1, EepromNow
<1>3. cpu.op.what # "put"
  BY <1>1, EepromAccess
<1>4. QED
  BY <1>1, <1>2, <1>3

(* What counting a bit makes of the chip.                                  *)
LEMMA CountedIs ==
  ASSUME Eeprom, chip \in Chip, NEW mode \in EepromModes, NEW counter \in Nat, NEW y \in Nat,
         EepromIs(chip, mode, counter, y)
  PROVE  /\ \A count : Counted(count) = EepromChip("eeprom", OwnSize, mode, count, y)
         /\ \A to : [Counted(0) EXCEPT !.eeprom_mode = to]
                      = EepromChip("eeprom", OwnSize, to, 0, y)
<1>1. /\ chip.type = "eeprom" /\ chip.eeprom_size = OwnSize /\ chip.eeprom_mode = mode
      /\ chip.eeprom_counter = counter /\ chip.eeprom_address = y
  BY DEF EepromIs
<1>2. ASSUME NEW count
      PROVE  Counted(count) = EepromChip("eeprom", OwnSize, mode, count, y)
  BY <1>1, ChipIs DEF EepromChip, Counted
<1>3. ASSUME NEW to
      PROVE  [Counted(0) EXCEPT !.eeprom_mode = to] = EepromChip("eeprom", OwnSize, to, 0, y)
  <2>1. [Counted(0) EXCEPT !.eeprom_mode = to]
          = [[chip EXCEPT !.eeprom_counter = 0] EXCEPT !.eeprom_mode = to]
    BY DEF Counted
  <2>2. [[chip EXCEPT !.eeprom_counter = 0] EXCEPT !.eeprom_mode = to]
          = EepromChip("eeprom", OwnSize, to, 0, y)
    BY <1>1, ChipIs DEF EepromChip
  <2>3. QED
    BY <2>1, <2>2
<1>4. QED
  BY <1>2, <1>3

LEMMA HeaderMoves ==
  ASSUME TypesFit, Eeprom, GameReadsBit, NEW k \in 0 .. 3, Made(cpu) = AddressBits + 5 + k
  PROVE  /\ Moved /\ promise' = promise /\ cpu'.todo # <<>>
<1> DEFINE n == AddressBits
           op == cpu.op
           y == 8 * op.at
           mode == IF k < 3 THEN "readHeader" ELSE "read"
           count == IF k < 3 THEN k + 1 ELSE 0
<1>1. /\ cpu.todo # <<>>
      /\ chip' = AfterRead /\ gamepak_backup' = gamepak_backup /\ marked' = marked
      /\ \E bit \in read_eeprom : Advance(2 * cpu.heard + bit)
      /\ op.what = "get" /\ op.at \in Nat /\ op.at \in Cells
      /\ promise \in [Cells -> Bytes] /\ gamepak_backup \in [Cells -> Nat]
      /\ EepromAt(cpu.op, Made(cpu), chip) /\ n \in Nat \ {0} /\ chip \in Chip
  BY InNow
<1>2. EepromIs(chip, "readHeader", k, y)
  BY <1>1, EepromAts
<1>3. /\ chip.type = "eeprom" /\ chip.eeprom_mode = "readHeader" /\ chip.eeprom_counter = k
  BY <1>2 DEF EepromIs
<1>4. cpu.heard = 0
  <2>1. Made(cpu) < n + 9
    BY <1>1
  <2>2. QED
    BY <1>1, <2>1, EepromNow
<1>5. Advance(0)
  <2>1. read_eeprom = {0}
    BY <1>3 DEF read_eeprom
  <2>2. Advance(2 * cpu.heard + 0)
    BY <1>1, <2>1
  <2>3. 2 * cpu.heard + 0 = 0
    BY <1>4
  <2>4. QED
    BY <2>2, <2>3
<1>6. y \in Nat /\ "readHeader" \in EepromModes /\ k \in Nat /\ mode \in EepromModes
      /\ count \in Nat /\ 0 \in Nat
  BY <1>1 DEF EepromModes
<1>7. chip' = EepromChip("eeprom", OwnSize, mode, count, y)
  <2> HIDE DEF y
  <2>1. chip' = IF k < 3 THEN Counted(k + 1) ELSE [Counted(0) EXCEPT !.eeprom_mode = "read"]
    BY <1>1, <1>3 DEF AfterRead
  <2>2. QED
    BY <1>1, <1>2, <1>6, <2>1, CountedIs
<1>8. /\ cpu'.op = op /\ cpu'.todo # <<>> /\ Made(cpu') = n + 5 + k + 1 /\ promise' = promise
      /\ Made(cpu) + 1 # Len(Accesses(op)) /\ cpu'.heard = 0
  <2>1. Made(cpu) # n + 16
    BY <1>1
  <2>2. QED
    BY <1>1, <1>5, <1>6, <2>1, EepromNext
<1> HIDE DEF y, mode, count
<1>9. EepromIs(chip', mode, count, y)
  BY <1>1, <1>5, <1>6, <1>7, EepromTo
<1>10. EepromAt(op, n + 5 + k + 1, chip')
  <2>1. CASE k < 3
    <3>1. k + 1 \in 0 .. 3 /\ n + 5 + (k + 1) = n + 5 + k + 1
      BY <1>1, <2>1
    <3>2. EepromAt(op, n + 5 + (k + 1), chip')
      BY <1>1, <1>9, <2>1, <3>1, EepromAts DEF mode, count, y
    <3>3. QED
      BY <3>1, <3>2
  <2>2. CASE ~(k < 3)
    <3>1. 0 \in 0 .. 7 /\ n + 9 + 0 = n + 5 + k + 1
      BY <1>1, <2>2
    <3>2. EepromAt(op, n + 9 + 0, chip')
      BY <1>1, <1>9, <2>2, <3>1, EepromAts DEF mode, count, y
    <3>3. QED
      BY <3>1, <3>2
  <2>3. QED
    BY <2>1, <2>2
<1>11. Fits(cpu', chip')
  <2>1. n + 5 + k + 1 = Made(cpu) + 1
    OBVIOUS
  <2>2. Reached(0, mode, count, y)
    BY <1>8, <1>10, <2>1 DEF Reached
  <2>3. QED
    BY <1>1, <1>5, <1>6, <1>7, <2>2, EepromTo
<1>12. ~Putting(cpu) /\ ~Putting(cpu')
  BY <1>1, <1>8 DEF Putting
<1>13. HeardFits(cpu', promise)
  <2>1. ASSUME Getting(cpu')
        PROVE  cpu'.heard = promise[cpu'.op.at] \div 2 ^ (8 - (Made(cpu') - (n + 9)))
    <3>1. Made(cpu') >= n + 9
      BY <2>1 DEF Getting
    <3>2. 8 - (Made(cpu') - (n + 9)) = 8 - 0
      BY <1>1, <1>8, <3>1
    <3>3. promise[op.at] \in Bytes
      BY <1>1
    <3>4. promise[op.at] \div 2 ^ (8 - 0) = 0
      BY <3>3, EndsOfAByte
    <3>5. QED
      BY <1>8, <3>2, <3>4
  <2>2. QED
    BY <2>1 DEF HeardFits
<1>14. Moved
  BY <1>1, <1>8, <1>11, <1>12, <1>13, QuietMove
<1>15. QED
  BY <1>8, <1>14

LEMMA BitMoves ==
  ASSUME TypesFit, Eeprom, GameReadsBit, NEW k \in 0 .. 7, Made(cpu) = AddressBits + 9 + k
  PROVE  /\ Moved /\ promise' = promise
         /\ gamepak_backup = promise /\ HeardFits(cpu, promise) /\ cpu'.todo = <<>> =>
              cpu'.heard = promise[cpu.op.at]
<1> DEFINE n == AddressBits
           op == cpu.op
           y == 8 * op.at
           p == 2 ^ (7 - k)
           bit == (gamepak_backup[op.at] \div p) % 2
           heard == 2 * cpu.heard + bit
           mode == IF k < 7 THEN "read" ELSE "base"
           count == IF k < 7 THEN k + 1 ELSE 0
<1>1. /\ cpu.todo # <<>>
      /\ chip' = AfterRead /\ gamepak_backup' = gamepak_backup /\ marked' = marked
      /\ \E b \in read_eeprom : Advance(2 * cpu.heard + b)
      /\ op.what = "get" /\ op.at \in Nat /\ op.at \in Cells
      /\ promise \in [Cells -> Bytes] /\ gamepak_backup \in [Cells -> Nat]
      /\ EepromAt(cpu.op, Made(cpu), chip) /\ n \in Nat \ {0} /\ chip \in Chip
      /\ cpu.heard \in Nat
  BY InNow
<1>2. EepromIs(chip, "read", k, y)
  BY <1>1, EepromAts
<1>3. /\ chip.type = "eeprom" /\ chip.eeprom_mode = "read" /\ chip.eeprom_counter = k
      /\ chip.eeprom_address = y
  BY <1>2 DEF EepromIs
<1>4. Advance(heard)
  <2>1. Block = op.at
    BY <1>1, <1>3, Eighth DEF Block
  <2>2. read_eeprom = {bit}
    BY <1>3, <2>1 DEF read_eeprom
  <2> HIDE DEF bit
  <2>3. QED
    BY <1>1, <2>2
<1>5. p \in Nat \ {0} /\ bit \in 0 .. 1
  <2>1. gamepak_backup[op.at] \in Nat
    BY <1>1
  <2>2. QED
    BY <2>1, NextBit
<1>6. heard \in Nat
  <2> HIDE DEF bit
  <2>1. QED
    BY <1>1, <1>5
<1>7. y \in Nat /\ "read" \in EepromModes /\ k \in Nat /\ mode \in EepromModes
      /\ count \in Nat
  BY <1>1 DEF EepromModes
<1>8. chip' = EepromChip("eeprom", OwnSize, mode, count, y)
  <2> HIDE DEF y
  <2>1. chip' = IF k < 7 THEN Counted(k + 1) ELSE [Counted(0) EXCEPT !.eeprom_mode = "base"]
    BY <1>1, <1>3 DEF AfterRead
  <2>2. QED
    BY <1>1, <1>2, <1>7, <2>1, CountedIs
<1> HIDE DEF y, mode, count, p, bit, heard
<1>9. EepromIs(chip', mode, count, y)
  BY <1>1, <1>4, <1>6, <1>7, <1>8, EepromTo
<1>10. cpu'.op = op /\ cpu'.heard = heard
  BY <1>1, <1>4, <1>6, EepromNext
<1>11. ASSUME k < 7
       PROVE  /\ cpu'.todo # <<>> /\ Made(cpu') = n + 9 + k + 1 /\ promise' = promise
              /\ Made(cpu) + 1 # Len(Accesses(op))
  <2>1. Made(cpu) # n + 16
    BY <1>1, <1>11
  <2>2. QED
    BY <1>1, <1>4, <1>6, <2>1, EepromNext
<1>12. ASSUME ~(k < 7)
       PROVE  cpu'.todo = <<>> /\ promise' = promise /\ Made(cpu) + 1 = Len(Accesses(op))
  <2>1. Made(cpu) = n + 16
    BY <1>1, <1>12
  <2>2. cpu'.todo = <<>> /\ promise' = Meant(op) /\ Made(cpu) + 1 = Len(Accesses(op))
    BY <1>1, <1>4, <1>6, <2>1, EepromNext
  <2>3. op \in Ops /\ kind \in Kinds
    BY <1>1, EepromNow
  <2>4. Meant(op) = promise
    BY <1>1, <2>3, MeantIs
  <2>5. QED
    BY <2>2, <2>4
<1>13. Reached(heard, mode, count, y)
  <2>1. CASE k < 7
    <3>1. /\ k + 1 \in 0 .. 7 /\ n + 9 + (k + 1) = Made(cpu) + 1 /\ ~(Made(cpu) + 1 < n + 9)
      BY <1>1, <2>1
    <3>2. EepromAt(op, n + 9 + (k + 1), chip')
      BY <1>1, <1>9, <2>1, <3>1, EepromAts DEF mode, count, y
    <3>3. QED
      BY <1>11, <2>1, <3>1, <3>2 DEF Reached
  <2>2. CASE ~(k < 7)
    <3>1. mode = "base" /\ count = 0
      BY <2>2 DEF mode, count
    <3>2. y % 8 = 0
      BY <1>1, Eighth DEF y
    <3>3. QED
      BY <1>12, <2>2, <3>1, <3>2 DEF Reached
  <2>3. QED
    BY <2>1, <2>2
<1>14. Fits(cpu', chip')
  BY <1>1, <1>4, <1>6, <1>7, <1>8, <1>13, EepromTo
<1>15. promise' = promise
  BY <1>11, <1>12
<1>16. ~Putting(cpu) /\ ~Putting(cpu')
  BY <1>1, <1>10 DEF Putting
<1>17. ASSUME gamepak_backup = promise, HeardFits(cpu, promise)
       PROVE  cpu'.heard = promise[op.at] \div 2 ^ (8 - (k + 1))
  <2>1. Getting(cpu) /\ Made(cpu) - (n + 9) = k
    <3>1. Made(cpu) >= n + 9 /\ Made(cpu) - (n + 9) = k
      BY <1>1
    <3>2. QED
      BY <1>1, <3>1 DEF Getting
  <2>2. cpu.heard = promise[op.at] \div 2 ^ (8 - k)
    BY <1>17, <2>1 DEF HeardFits
  <2>3. promise[op.at] \in Nat
    <3>1. promise[op.at] \in Bytes
      BY <1>1
    <3>2. QED
      BY <3>1 DEF Bytes
  <2>4. 2 * (promise[op.at] \div 2 ^ (8 - k)) + ((promise[op.at] \div 2 ^ (7 - k)) % 2)
          = promise[op.at] \div 2 ^ (8 - (k + 1))
    BY <2>3, NextBit
  <2>5. bit = (promise[op.at] \div 2 ^ (7 - k)) % 2
    BY <1>17 DEF bit, p
  <2>6. QED
    BY <1>10, <2>2, <2>4, <2>5 DEF heard
<1>18. ASSUME gamepak_backup = promise, HeardFits(cpu, promise) PROVE HeardFits(cpu', promise)
  <2>1. ASSUME Getting(cpu')
        PROVE  cpu'.heard = promise[cpu'.op.at] \div 2 ^ (8 - (Made(cpu') - (n + 9)))
    <3>1. k < 7
      BY <1>12, <2>1 DEF Getting
    <3>2. Made(cpu') - (n + 9) = k + 1
      BY <1>1, <1>11, <3>1
    <3>3. QED
      BY <1>10, <1>17, <1>18, <3>2
  <2>2. QED
    BY <2>1 DEF HeardFits
<1>19. Moved
  BY <1>1, <1>14, <1>15, <1>16, <1>18, QuietMove
<1>20. ASSUME gamepak_backup = promise, HeardFits(cpu, promise), cpu'.todo = <<>>
       PROVE  cpu'.heard = promise[op.at]
  <2>1. k = 7
    BY <1>11, <1>20
  <2>2. 8 - (k + 1) = 8 - 8
    BY <2>1
  <2>3. promise[op.at] \div 2 ^ (8 - 8) = promise[op.at]
    <3>1. promise[op.at] \in Bytes
      BY <1>1
    <3>2. QED
      BY <3>1, EndsOfAByte
  <2>4. QED
    BY <1>17, <1>20, <2>2, <2>3
<1>21. QED
  BY <1>15, <1>19, <1>20

LEMMA InMoves ==
  ASSUME TypesFit, Eeprom, GameReadsBit
  PROVE  /\ Moved /\ promise' = promise
         /\ gamepak_backup = promise /\ HeardFits(cpu, promise) /\ cpu'.todo = <<>> =>
              cpu'.heard = promise[cpu.op.at]
<1>1. cpu.todo # <<>> /\ Head(cpu.todo).do = "in"
  BY InNow
<1>2. \/ \E k \in 0 .. 3 : Made(cpu) = AddressBits + 5 + k
      \/ \E k \in 0 .. 7 : Made(cpu) = AddressBits + 9 + k
  BY <1>1, EepromAccess
<1>3. QED
  BY <1>2, HeaderMoves, BitMoves

-----------------------------------------------------------------------------
(* Every access moves the chip on.                                         *)

(* A game whose memory is no EEPROM writes and reads bytes only.           *)
LEMMA BytesOnly ==
  ASSUME TypesFit, ~Eeprom, cpu.todo # <<>>
  PROVE  Head(cpu.todo).do \in {"write", "read"}
<1> DEFINE a == Accesses(cpu.op)
           m == Made(cpu)
           op == cpu.op
<1>1. /\ kind \in Kinds /\ cpu \in Cpu /\ IsTheRest(cpu)
  BY DEF TypesFit, Fits
<1>2. /\ m \in Nat /\ m < Len(a) /\ Head(cpu.todo) = a[m + 1] /\ op \in Ops
  BY <1>1, NextAccess
<1> HIDE DEF a, m, op
<1>3. CASE kind = "sram"
  <2>1. Len(a) = 1 /\ \/ \E x, v : a[1] = W(x, v)
                      \/ \E x : a[1] = R(x)
    BY <1>2, <1>3, AccessesOfSram DEF a, op
  <2>2. m + 1 = 1
    BY <1>2, <2>1
  <2>3. QED
    BY <1>2, <2>1, <2>2, Fields
<1>4. CASE Flash
  <2>1. FlashAccesses(op, a)
    BY <1>1, <1>2, <1>4, AccessesOfFlash DEF a, op
  <2>2. op.what \in {"program", "byte", "sector", "chip", "id", "bank"}
    BY <1>1, <1>2, <1>4, OpsAre
  <2> DEFINE OfBytes(i) == a[i].do \in {"write", "read"}
  <2>3. CASE op.what = "byte"
    <3>1. Len(a) = 1 /\ OfBytes(1)
      BY <2>1, <2>3, Fields DEF FlashAccesses
    <3>2. m + 1 = 1
      BY <1>2, <3>1
    <3>3. QED
      BY <1>2, <3>1, <3>2
  <2>4. CASE op.what # "byte"
    <3>1. OfBytes(1) /\ OfBytes(2)
      BY <2>1, <2>4, Fields DEF FlashAccesses
    <3>2. CASE op.what \in {"program", "bank"}
      <4>1. Len(a) = 4 /\ OfBytes(3) /\ OfBytes(4)
        BY <2>1, <3>2, Fields DEF FlashAccesses
      <4>2. m + 1 \in {1, 2, 3, 4}
        BY <1>2, <4>1
      <4>3. QED
        BY <1>2, <3>1, <4>1, <4>2
    <3>3. CASE op.what \in {"sector", "chip"}
      <4>1. Len(a) = 6 /\ OfBytes(3) /\ OfBytes(4) /\ OfBytes(5) /\ OfBytes(6)
        BY <2>1, <3>3, Fields DEF FlashAccesses
      <4>2. m + 1 \in {1, 2, 3, 4, 5, 6}
        BY <1>2, <4>1
      <4>3. QED
        BY <1>2, <3>1, <4>1, <4>2
    <3>4. CASE op.what = "id"
      <4>1. Len(a) = 8 /\ OfBytes(3) /\ OfBytes(4) /\ OfBytes(5) /\ OfBytes(6)
        BY <2>1, <3>4, Fields DEF FlashAccesses
      <4>2. OfBytes(7) /\ OfBytes(8)
        BY <2>1, <3>4, Fields DEF FlashAccesses
      <4>3. m + 1 \in {1, 2, 3, 4, 5, 6, 7, 8}
        BY <1>2, <4>1
      <4>4. QED
        BY <1>2, <3>1, <4>1, <4>2, <4>3
    <3>5. QED
      BY <2>2, <2>4, <3>2, <3>3, <3>4
  <2>5. QED
    BY <2>3, <2>4
<1>5. QED
  BY <1>1, <1>3, <1>4 DEF Kinds, Flash, Eeprom

GameStep == GameWritesByte \/ GameReadsByte \/ GameStartsDma \/ GameSendsBit \/ GameReadsBit

LEMMA GameMoves ==
  ASSUME TypesFit, MustBeMarked(cpu) => marked, GameStep
  PROVE  Moved
<1>1. kind \in Kinds
  BY DEF TypesFit
<1>2. cpu.todo # <<>>
  BY DEF GameStep, GameWritesByte, GameReadsByte, GameStartsDma, GameSendsBit, GameReadsBit, Doing
<1>3. CASE Eeprom
  <2>1. ~GameWritesByte /\ ~GameReadsByte
    BY <1>2, <1>3, EepromAccess DEF GameWritesByte, GameReadsByte, Doing
  <2>2. QED
    BY <1>3, <2>1, DmaMoves, OutMoves, InMoves DEF GameStep
<1>4. CASE ~Eeprom
  <2>1. ~GameStartsDma /\ ~GameSendsBit /\ ~GameReadsBit
    BY <1>2, <1>4, BytesOnly DEF GameStartsDma, GameSendsBit, GameReadsBit, Doing
  <2>2. kind = "sram" \/ Flash
    BY <1>1, <1>4 DEF Kinds, Flash, Eeprom
  <2>3. QED
    BY <2>1, <2>2, SramReads, SramWriteMoves, FlashReads, FlashWriteMoves DEF GameStep
<1>5. QED
  BY <1>3, <1>4

-----------------------------------------------------------------------------
(* What is said of the next state, with the kind that does not change.     *)
LEMMA FitsLater ==
  ASSUME kind' = kind, Fits(cpu', chip')
  PROVE  Fits(cpu, chip)'
<1>1. PICK c, h : c = cpu' /\ h = chip'
  OBVIOUS
<1>2. Fits(c, h)
  BY <1>1
<1>3. Fits(c, h)'
  BY <1>2, FitsStill
<1>4. QED
  BY <1>1, <1>3

LEMMA StateLater ==
  ASSUME kind' = kind, state' = Absent \/ (Fits(state'.cpu, state'.chip) /\ ~InBits(state'.cpu))
  PROVE  (state = Absent \/ (Fits(state.cpu, state.chip) /\ ~InBits(state.cpu)))'
<1>1. PICK s : s = state'
  OBVIOUS
<1>2. s = Absent \/ (Fits(s.cpu, s.chip) /\ ~InBits(s.cpu))
  BY <1>1
<1>3. (s = Absent \/ (Fits(s.cpu, s.chip) /\ ~InBits(s.cpu)))'
  BY <1>2, FitsStill DEF InBits
<1>4. QED
  BY <1>1, <1>3

LEMMA PartsStill ==
  ASSUME kind' = kind, NEW c, NEW p
  PROVE  /\ Present(c, p)' = Present(c, p)
         /\ HeardFits(c, p)' <=> HeardFits(c, p)
         /\ MustBeMarked(c)' <=> MustBeMarked(c)
<1>1. /\ Eeprom' = Eeprom /\ AddressBits' = AddressBits
      /\ \A op : Accesses(op)' = Accesses(op)
  BY SameAccesses
<1>2. Made(c)' = Made(c)
  BY <1>1 DEF Made
<1>3. (Putting(c)' <=> Putting(c)) /\ (Getting(c)' <=> Getting(c))
  BY <1>1, <1>2 DEF Putting, Getting
<1>4. Present(c, p)' = Present(c, p)
  BY <1>1, <1>2, <1>3 DEF Present, High
<1>5. HeardFits(c, p)' <=> HeardFits(c, p)
  BY <1>1, <1>2, <1>3 DEF HeardFits
<1>6. MustBeMarked(c)' <=> MustBeMarked(c)
  BY <1>1, <1>2, <1>3 DEF MustBeMarked
<1>7. QED
  BY <1>4, <1>5, <1>6

LEMMA PartsLater ==
  ASSUME kind' = kind
  PROVE  /\ Present(cpu, promise)' = Present(cpu', promise')
         /\ HeardFits(cpu, promise)' <=> HeardFits(cpu', promise')
         /\ MustBeMarked(cpu)' <=> MustBeMarked(cpu')
<1>1. PICK c, p : c = cpu' /\ p = promise'
  OBVIOUS
<1>2. /\ Present(c, p)' = Present(c, p)
      /\ HeardFits(c, p)' <=> HeardFits(c, p)
      /\ MustBeMarked(c)' <=> MustBeMarked(c)
  BY PartsStill
<1>3. QED
  BY <1>1, <1>2

LEMMA TypesLater ==
  ASSUME TypesFit, kind' = kind, listed' = listed, Fits(cpu', chip'),
         backup_type_reset' \in TypeOf[kind],
         gamepak_backup' \in [Cells -> Nat], promise' \in [Cells -> Bytes],
         marked' \in BOOLEAN, cut' \in BOOLEAN, had' \in Nat, ops' \in Nat,
         save' = Absent \/ \E size \in SizeOf[kind] : save' \in Saves(size),
         state' = Absent \/ (Fits(state'.cpu, state'.chip) /\ ~InBits(state'.cpu))
  PROVE  TypesFit'
<1>1. kind \in Kinds /\ listed \in BOOLEAN
       /\ (listed => kind \in {"flash128", "eeprom512", "eeprom8K"})
  BY DEF TypesFit
<1>2. Fits(cpu, chip)'
  BY FitsLater
<1>3. (state = Absent \/ (Fits(state.cpu, state.chip) /\ ~InBits(state.cpu)))'
  BY StateLater
<1>4. (save = Absent \/ \E size \in SizeOf[kind] : save \in Saves(size))'
  BY DEF Saves
<1>5. QED
  BY <1>1, <1>2, <1>3, <1>4 DEF TypesFit, Kinds, Cells

LEMMA MemoryLater ==
  ASSUME kind' = kind, MustBeMarked(cpu') => marked',
         ~cut' => /\ gamepak_backup' = Present(cpu', promise')
                  /\ \A c \in Cells : promise'[c] # Erased => c < had'
                  /\ marked' => had' > 0
                  /\ ~marked' => Holds(save)'
                  /\ HeardFits(cpu', promise')
  PROVE  MemoryFits'
<1>1. /\ Present(cpu, promise)' = Present(cpu', promise')
      /\ HeardFits(cpu, promise)' <=> HeardFits(cpu', promise')
      /\ MustBeMarked(cpu)' <=> MustBeMarked(cpu')
  BY PartsLater
<1>2. QED
  BY <1>1 DEF MemoryFits

-----------------------------------------------------------------------------
(* The player's actions.                                                   *)

(* Where a transfer is not interrupted, nothing is half done.              *)
LEMMA NothingHalfDone ==
  ASSUME kind \in Kinds, NEW c, NEW h, Fits(c, h), ~InBits(c)
  PROVE  ~Putting(c) /\ ~Getting(c) /\ ~MustBeMarked(c)
<1>1. SUFFICES ASSUME Eeprom, c.todo # <<>>, c.op.what \in {"put", "get"},
                      Made(c) >= AddressBits + (IF c.op.what = "put" THEN 3 ELSE 9)
               PROVE  FALSE
  <2>1. Putting(c) => Eeprom /\ c.todo # <<>> /\ c.op.what = "put" /\ Made(c) >= AddressBits + 3
    BY DEF Putting
  <2>2. Getting(c) => Eeprom /\ c.todo # <<>> /\ c.op.what = "get" /\ Made(c) >= AddressBits + 9
    BY DEF Getting
  <2>3. MustBeMarked(c) => Putting(c)
    BY DEF MustBeMarked
  <2>4. QED
    BY <2>1, <2>2, <2>3
<1> DEFINE a == Accesses(c.op)
           t == c.todo
           m == Made(c)
           n == AddressBits
           put == c.op.what = "put"
<1>2. c \in Cpu /\ IsTheRest(c)
  BY <1>1 DEF Fits
<1>3. t \in Seq(Access) /\ c.op \in Ops
  BY <1>2 DEF Cpu, IsTheRest
<1>4. EepromAccesses(c.op, a) /\ n \in Nat \ {0}
  BY <1>1, <1>3, AccessesOfEeprom, AddressBitsAre
<1>5. a \in Seq(Access)
  BY <1>4 DEF EepromAccesses
<1>6. Len(t) \in Nat \ {0} /\ Head(t) = t[1] /\ Len(a) \in Nat
  BY <1>1, <1>3, <1>5, TailOf
<1>7. m = Len(a) - Len(t) /\ t[1] = a[m + 1]
  <2>1. m = Len(a) - Len(t)
    BY DEF Made
  <2>2. \A j \in 1 .. Len(t) : t[j] = a[m + j]
    BY <1>2 DEF IsTheRest
  <2>3. 1 \in 1 .. Len(t)
    BY <1>6
  <2>4. QED
    BY <2>1, <2>2, <2>3
<1>8. Head(t).do \notin {"out", "in"}
  BY <1>1 DEF InBits
<1>9. CASE put
  <2>1. /\ Len(a) = n + 12 /\ a[n + 12] = Bit(0)
        /\ \A i \in n + 4 .. n + 11 : a[i] = Bit((c.op.value \div 2 ^ (n + 11 - i)) % 2)
    BY <1>4, <1>9 DEF EepromAccesses
  <2>2. m >= n + 3
    BY <1>1, <1>9
  <2> HIDE DEF a, t, m, n, put
  <2>3. m + 1 \in n + 4 .. n + 11 \/ m + 1 = n + 12
    <3>1. n \in Nat \ {0} /\ Len(t) \in Nat \ {0} /\ m = Len(a) - Len(t) /\ Len(a) = n + 12
      BY <1>4, <1>6, <1>7, <2>1
    <3>2. QED
      BY <2>2, <3>1
  <2>4. a[m + 1].do = "out"
    BY <2>1, <2>3, Fields
  <2>5. QED
    BY <1>6, <1>7, <1>8, <2>4
<1>10. CASE ~put
  <2>1. Len(a) = n + 17 /\ \A i \in n + 6 .. n + 17 : a[i] = In
    BY <1>4, <1>10 DEF EepromAccesses
  <2>2. m >= n + 9
    BY <1>1, <1>10
  <2> HIDE DEF a, t, m, n, put
  <2>3. m + 1 \in n + 6 .. n + 17
    BY <1>4, <1>6, <1>7, <2>1, <2>2
  <2>4. a[m + 1].do = "in"
    BY <2>1, <2>3, Fields
  <2>5. QED
    BY <1>6, <1>7, <1>8, <2>4
<1>11. QED
  BY <1>9, <1>10

LEMMA BetweenIs ==
  ASSUME TypesFit, Between
  PROVE  /\ ~InBits(cpu) /\ Present(cpu, promise) = promise /\ ~MustBeMarked(cpu)
         /\ HeardFits(cpu, promise)
<1>1. ~InBits(cpu)
  BY DEF Between, InBits
<1>2. ~Putting(cpu) /\ ~Getting(cpu) /\ ~MustBeMarked(cpu)
  BY <1>1, NothingHalfDone DEF TypesFit
<1>3. QED
  BY <1>1, <1>2 DEF Present, HeardFits

(* Not in an operation at all.                                             *)
LEMMA AtStart ==
  ASSUME NEW c, NEW p, c.todo = <<>>
  PROVE  Present(c, p) = p /\ HeardFits(c, p) /\ ~MustBeMarked(c) /\ ~InBits(c)
BY DEF Present, Putting, HeardFits, Getting, MustBeMarked, InBits

LEMMA SizeIsOfKind ==
  ASSUME TypesFit
  PROVE  /\ FileSize \in DOMAIN CellsOf /\ CellsOf[FileSize] \in Nat
         /\ FileSize # "none" => FileSize \in SizeOf[kind]
<1>1. /\ chip.type \in TypeOf[kind] /\ chip \in Chip /\ kind \in Kinds
      /\ (kind = "eeprom512" => chip.eeprom_size = "b512")
  BY DEF TypesFit, Fits
<1>2. chip.type \in Types /\ chip.eeprom_size \in {"b512", "b8K"}
      /\ chip.flash_bank_cnt \in {"64K", "128K"}
  BY <1>1 DEF Chip
<1>3. FileSize \in DOMAIN CellsOf
  BY <1>2, SizesAre DEF FileSize
<1>4. CellsOf[FileSize] \in Nat
  BY <1>3, SizesAre
<1>5. ASSUME FileSize # "none" PROVE FileSize \in SizeOf[kind]
  <2>1. CASE kind = "sram"
    BY <1>1, <1>5, <2>1 DEF TypeOf, SizeOf, FileSize
  <2>2. CASE kind = "flash64"
    BY <1>1, <1>2, <1>5, <2>2 DEF TypeOf, SizeOf, FileSize
  <2>3. CASE kind = "flash128"
    BY <1>1, <1>2, <1>5, <2>3 DEF TypeOf, SizeOf, FileSize
  <2>4. CASE kind = "eeprom512"
    BY <1>1, <1>5, <2>4 DEF TypeOf, SizeOf, FileSize
  <2>5. CASE kind = "eeprom8K"
    BY <1>1, <1>2, <1>5, <2>5 DEF TypeOf, SizeOf, FileSize
  <2>6. QED
    BY <1>1, <2>1, <2>2, <2>3, <2>4, <2>5 DEF Kinds
<1>6. QED
  BY <1>3, <1>4, <1>5

(* The most bytes its save has had never gets less.                        *)
LEMMA Grows ==
  ASSUME TypesFit, chip' \in Chip, Growing
  PROVE  had' \in Nat /\ had' >= had /\ had' >= CellsOf[FileSize']
<1>1. had \in Nat
  BY DEF TypesFit
<1>2. CellsOf[FileSize'] \in Nat
  <2>1. chip'.type \in Types /\ chip'.eeprom_size \in {"b512", "b8K"}
    BY DEF Chip
  <2>2. FileSize' \in DOMAIN CellsOf
    BY <2>1, SizesAre DEF FileSize
  <2>3. QED
    BY <2>2, SizesAre
<1>3. had' = IF CellsOf[FileSize'] > had THEN CellsOf[FileSize'] ELSE had
  BY DEF Growing
<1>4. QED
  BY <1>1, <1>2, <1>3

(* The save that is written.                                               *)
LEMMA SavedIs ==
  ASSUME TypesFit
  PROVE  /\ FileSize = "none" => Saved = save
         /\ FileSize # "none" =>
              /\ Saved \in Saves(FileSize) /\ Saved # Absent /\ Saved.size = FileSize
              /\ DOMAIN Saved.cells = 0 .. CellsOf[FileSize] - 1
              /\ \A c \in 0 .. CellsOf[FileSize] - 1 : Saved.cells[c] = gamepak_backup[c]
         /\ Saved = Absent \/ \E size \in SizeOf[kind] : Saved \in Saves(size)
<1>1. /\ gamepak_backup \in [Cells -> Nat]
      /\ save = Absent \/ \E size \in SizeOf[kind] : save \in Saves(size)
  BY DEF TypesFit
<1>2. /\ FileSize \in DOMAIN CellsOf /\ CellsOf[FileSize] \in Nat
      /\ FileSize # "none" => FileSize \in SizeOf[kind]
  BY SizeIsOfKind
<1>3. FileSize = "none" => Saved = save
  BY DEF Saved
<1>4. ASSUME FileSize # "none"
      PROVE  /\ Saved \in Saves(FileSize) /\ Saved # Absent /\ Saved.size = FileSize
             /\ DOMAIN Saved.cells = 0 .. CellsOf[FileSize] - 1
             /\ \A c \in 0 .. CellsOf[FileSize] - 1 : Saved.cells[c] = gamepak_backup[c]
  <2> DEFINE n == CellsOf[FileSize]
             cells == [c \in 0 .. n - 1 |-> gamepak_backup[c]]
  <2>1. Saved = [size |-> FileSize, cells |-> cells]
    BY <1>4 DEF Saved
  <2>2. n \in Nat /\ n <= 2 * BankSize
    BY <1>2, <1>4, SizesAre
  <2>3. 0 .. n - 1 \subseteq Cells
    BY <2>2, Constants DEF Cells
  <2>4. cells \in [0 .. n - 1 -> Nat]
    BY <1>1, <2>3
  <2>5. Saved \in Saves(FileSize)
    BY <2>1, <2>4 DEF Saves
  <2>6. Saved # Absent
    BY <1>2, <2>5, AbsentAssumption DEF Saves
  <2>7. QED
    BY <2>1, <2>5, <2>6
<1>5. Saved = Absent \/ \E size \in SizeOf[kind] : Saved \in Saves(size)
  BY <1>1, <1>2, <1>3, <1>4
<1>6. QED
  BY <1>3, <1>4, <1>5

(* It holds what the game has put in its memory, unless it is cut.         *)
LEMMA SavedHolds ==
  ASSUME TypesFit, MemoryFits, Between, ~cut, ~(CellsOf[FileSize] < had)
  PROVE  Holds(Saved)
<1>1. /\ gamepak_backup = promise
      /\ \A c \in Cells : promise[c] # Erased => c < had
      /\ marked => had > 0
      /\ ~marked => Holds(save)
  BY BetweenIs DEF MemoryFits
<1>2. had \in Nat /\ marked \in BOOLEAN /\ CellsOf[FileSize] \in Nat
  BY SizeIsOfKind DEF TypesFit
<1>3. CASE FileSize = "none"
  <2>1. CellsOf[FileSize] = 0
    BY <1>3, SizesAre
  <2>2. ~marked
    BY <1>1, <1>2, <2>1
  <2>3. QED
    BY <1>1, <1>3, <2>2, SavedIs
<1>4. CASE FileSize # "none"
  <2> DEFINE n == CellsOf[FileSize]
  <2>1. /\ Saved # Absent /\ DOMAIN Saved.cells = 0 .. n - 1
        /\ \A c \in 0 .. n - 1 : Saved.cells[c] = gamepak_backup[c]
    BY <1>4, SavedIs
  <2> HIDE DEF n
  <2>2. ASSUME NEW c \in Cells
        PROVE  promise[c] = IF Saved # Absent /\ c \in DOMAIN Saved.cells THEN Saved.cells[c]
                            ELSE Erased
    <3>1. CASE c \in 0 .. n - 1
      BY <1>1, <2>1, <3>1
    <3>2. CASE c \notin 0 .. n - 1
      <4>1. c \in Nat /\ n \in Nat
        BY <1>2, Constants DEF Cells, n
      <4>2. ~(c < had)
        BY <1>2, <3>2, <4>1 DEF n
      <4>3. promise[c] = Erased
        BY <1>1, <4>2
      <4>4. QED
        BY <2>1, <3>2, <4>3
    <3>3. QED
      BY <3>1, <3>2
  <2>3. QED
    BY <2>2 DEF Holds
<1>5. QED
  BY <1>3, <1>4

LEMMA BeginStep ==
  ASSUME CInv, NEW op \in Ops, Begin(op)
  PROVE  CInv'
<1> USE DEF CInv
<1>1. /\ cpu.todo = <<>> /\ cpu' = [cpu EXCEPT !.op = op, !.todo = Accesses(op), !.heard = 0]
      /\ ops' = ops + 1
      /\ kind' = kind /\ listed' = listed /\ chip' = chip /\ gamepak_backup' = gamepak_backup
      /\ save' = save /\ state' = state /\ backup_type_reset' = backup_type_reset
      /\ marked' = marked /\ promise' = promise /\ had' = had /\ cut' = cut
  BY DEF Begin, cartridge, kept
<1>2. /\ kind \in Kinds /\ Fits(cpu, chip) /\ ops \in Nat
  BY DEF TypesFit
<1>3. cpu \in Cpu /\ chip \in Chip /\ AtRest(chip)
  BY <1>1, <1>2 DEF Fits
<1>4. Accesses(op) \in Seq(Access) /\ op \in Operation
      /\ op.what \in {"store", "put", "program", "sector", "chip", "bank", "id", "byte", "get"}
  BY <1>2, AccessesAre, OpsAre DEF Kinds, Flash, Eeprom
<1>5. cpu' \in Cpu /\ cpu'.op = op /\ cpu'.todo = Accesses(op) /\ cpu'.heard = 0
      /\ cpu'.bank = cpu.bank
  BY <1>1, <1>3, <1>4 DEF Cpu
<1>6. Made(cpu') = 0 /\ IsTheRest(cpu')
  <2>1. Len(Accesses(op)) \in Nat
    BY <1>4
  <2>2. Made(cpu') = Len(Accesses(op)) - Len(Accesses(op))
    BY <1>5 DEF Made
  <2>3. Made(cpu') = 0
    BY <2>1, <2>2
  <2>4. \A j \in 1 .. Len(Accesses(op)) : Accesses(op)[j] = Accesses(op)[0 + j]
    BY <2>1
  <2>5. QED
    BY <1>5, <2>1, <2>3, <2>4 DEF IsTheRest
<1>7. Fits(cpu', chip')
  <2>1. /\ chip.flash_mode = "base" /\ chip.position = 0 /\ chip.eeprom_mode = "base"
        /\ chip.eeprom_counter = 0 /\ chip.eeprom_address % 8 = 0
    BY <1>3 DEF AtRest
  <2>2. FlashAt(op.what, 0, chip)
    BY <2>1, Positions DEF FlashAt
  <2>3. EepromAt(op, 0, chip)
    <3>1. EepromStep(op, 0, "base", 0)
      BY EepromSteps
    <3>2. ~(0 >= AddressBits + 3) /\ 0 \notin 3 .. AddressBits + 2
      BY AddressBitsAre
    <3>3. QED
      BY <2>1, <3>1, <3>2 DEF EepromAt
  <2>4. QED
    BY <1>1, <1>2, <1>3, <1>5, <1>6, <2>1, <2>2, <2>3 DEF Fits
<1>8. Present(cpu, promise) = promise
  BY <1>1, AtStart
<1>9. ~Putting(cpu') /\ ~Getting(cpu') /\ ~MustBeMarked(cpu')
  <2>1. ~(0 >= AddressBits + 3) /\ ~(0 >= AddressBits + 9)
    BY AddressBitsAre
  <2>2. QED
    BY <1>6, <2>1 DEF Putting, Getting, MustBeMarked
<1>10. Present(cpu', promise') = promise' /\ HeardFits(cpu', promise')
  BY <1>9 DEF Present, HeardFits
<1>11. TypesFit'
  BY <1>1, <1>2, <1>7, TypesLater DEF TypesFit
<1>12. Holds(save)' <=> Holds(save)
  BY <1>1 DEF Holds, Cells
<1>13. MemoryFits'
  BY <1>1, <1>8, <1>9, <1>10, <1>12, MemoryLater DEF MemoryFits
<1>14. QED
  BY <1>11, <1>13

LEMMA GameStepStep ==
  ASSUME CInv, GameStep
  PROVE  CInv'
<1> USE DEF CInv
<1>1. Moved
  BY GameMoves DEF MemoryFits
<1>2. \E heard : Advance(heard)
  BY DEF GameStep, GameWritesByte, GameReadsByte, GameStartsDma, GameSendsBit, GameReadsBit
<1>3. /\ kind' = kind /\ listed' = listed /\ Growing
      /\ save' = save /\ state' = state /\ backup_type_reset' = backup_type_reset
      /\ ops' = ops /\ cut' = cut
  BY <1>2 DEF Advance, cartridge, kept
<1>4. /\ Fits(cpu', chip')
      /\ promise' \in [Cells -> Bytes] /\ gamepak_backup' \in [Cells -> Nat]
      /\ gamepak_backup = Present(cpu, promise) => gamepak_backup' = Present(cpu', promise')
      /\ marked' \in BOOLEAN
      /\ marked => marked'
      /\ promise' # promise => marked'
      /\ marked' => marked \/ CellsOf[FileSize'] > 0
      /\ MustBeMarked(cpu') => marked'
      /\ \A c \in Cells : promise'[c] # Erased => promise[c] # Erased \/ c < CellsOf[FileSize']
      /\ gamepak_backup = Present(cpu, promise) /\ HeardFits(cpu, promise)
           => HeardFits(cpu', promise')
  BY <1>1 DEF Moved
<1>5. chip' \in Chip
  BY <1>4 DEF Fits
<1>6. had' \in Nat /\ had' >= had /\ had' >= CellsOf[FileSize'] /\ had \in Nat
      /\ CellsOf[FileSize'] \in Nat
  <2>1. chip'.type \in Types /\ chip'.eeprom_size \in {"b512", "b8K"}
    BY <1>5 DEF Chip
  <2>2. FileSize' \in DOMAIN CellsOf
    BY <2>1, SizesAre DEF FileSize
  <2>3. QED
    BY <1>3, <1>5, <2>2, Grows, SizesAre DEF TypesFit
<1>7. TypesFit'
  BY <1>3, <1>4, <1>6, TypesLater DEF TypesFit
<1>8. ASSUME ~cut'
      PROVE  /\ gamepak_backup' = Present(cpu', promise')
             /\ \A c \in Cells : promise'[c] # Erased => c < had'
             /\ marked' => had' > 0
             /\ ~marked' => Holds(save)'
             /\ HeardFits(cpu', promise')
  <2>1. /\ gamepak_backup = Present(cpu, promise)
        /\ \A c \in Cells : promise[c] # Erased => c < had
        /\ marked => had > 0
        /\ ~marked => Holds(save)
        /\ HeardFits(cpu, promise)
    BY <1>3, <1>8 DEF MemoryFits
  <2>2. ASSUME NEW c \in Cells, promise'[c] # Erased PROVE c < had'
    <3>1. c < had \/ c < CellsOf[FileSize']
      BY <1>4, <2>1, <2>2
    <3>2. c \in Nat
      BY Constants DEF Cells
    <3>3. QED
      BY <1>6, <3>1, <3>2
  <2>3. marked' => had' > 0
    BY <1>4, <1>6, <2>1
  <2>4. ASSUME ~marked' PROVE Holds(save)'
    <3>1. ~marked /\ promise' = promise
      BY <1>4, <2>4
    <3>2. QED
      BY <1>3, <2>1, <3>1 DEF Holds, Cells
  <2>5. QED
    BY <1>4, <2>1, <2>2, <2>3, <2>4
<1>9. MemoryFits'
  BY <1>3, <1>4, <1>8, MemoryLater
<1>10. QED
  BY <1>7, <1>9

LEMMA UpdateStep ==
  ASSUME CInv, UpdateBackup
  PROVE  CInv'
<1> USE DEF CInv
<1>1. /\ Between /\ marked /\ marked' = FALSE /\ save' = Saved
      /\ cut' = (cut \/ CellsOf[FileSize] < had)
      /\ kind' = kind /\ listed' = listed /\ cpu' = cpu /\ chip' = chip
      /\ gamepak_backup' = gamepak_backup /\ backup_type_reset' = backup_type_reset
      /\ state' = state /\ ops' = ops /\ promise' = promise /\ had' = had
  BY DEF UpdateBackup, cartridge, console
<1>2. Fits(cpu', chip')
  BY <1>1 DEF TypesFit
<1>3. save' = Absent \/ \E size \in SizeOf[kind] : save' \in Saves(size)
  BY <1>1, SavedIs
<1>4. cut' \in BOOLEAN
  BY <1>1 DEF TypesFit
<1>5. TypesFit'
  BY <1>1, <1>2, <1>3, <1>4, TypesLater DEF TypesFit
<1>6. ~MustBeMarked(cpu')
  BY <1>1, BetweenIs
<1>7. ASSUME ~cut' PROVE Holds(save)' /\ ~cut
  <2>1. ~cut /\ ~(CellsOf[FileSize] < had)
    BY <1>1, <1>7
  <2>2. Holds(Saved)
    BY <1>1, <2>1, SavedHolds
  <2>3. PICK f : f = Saved
    OBVIOUS
  <2>4. Holds(f)
    BY <2>2, <2>3
  <2>5. Holds(f)'
    BY <1>1, <2>4 DEF Holds, Cells
  <2>6. f = save'
    BY <1>1, <2>3
  <2>7. QED
    BY <2>1, <2>5, <2>6
<1>8. MemoryFits'
  BY <1>1, <1>6, <1>7, MemoryLater DEF MemoryFits
<1>9. QED
  BY <1>5, <1>8

LEMMA SaveToStateStep ==
  ASSUME CInv, SaveToState
  PROVE  CInv'
<1> USE DEF CInv
<1>1. /\ Between /\ state' = [cpu |-> cpu, chip |-> chip]
      /\ kind' = kind /\ listed' = listed /\ cpu' = cpu /\ chip' = chip
      /\ gamepak_backup' = gamepak_backup /\ backup_type_reset' = backup_type_reset
      /\ marked' = marked /\ save' = save /\ ops' = ops /\ promise' = promise /\ had' = had
      /\ cut' = cut
  BY DEF SaveToState, cartridge, console
<1>2. Fits(cpu, chip) /\ ~InBits(cpu)
  BY <1>1, BetweenIs DEF TypesFit
<1>3. Fits(cpu', chip')
  BY <1>1, <1>2
<1>4. state'.cpu = cpu /\ state'.chip = chip
  BY <1>1
<1>5. Fits(state'.cpu, state'.chip) /\ ~InBits(state'.cpu)
  BY <1>2, <1>4
<1>6. TypesFit'
  BY <1>1, <1>3, <1>5, TypesLater DEF TypesFit
<1>7. Holds(save)' <=> Holds(save)
  BY <1>1 DEF Holds, Cells
<1>8. MemoryFits'
  BY <1>1, <1>7, MemoryLater DEF MemoryFits
<1>9. QED
  BY <1>6, <1>8

(* The game goes on from elsewhere, and the memory stays as it is.         *)
LEMMA Elsewhere ==
  ASSUME CInv, Between, Fits(cpu', chip'), ~InBits(cpu'), Growing,
         UNCHANGED <<cartridge, gamepak_backup, kept, marked, ops, promise, cut>>
  PROVE  CInv'
<1> USE DEF CInv
<1>1. /\ kind' = kind /\ listed' = listed
      /\ gamepak_backup' = gamepak_backup /\ backup_type_reset' = backup_type_reset
      /\ marked' = marked /\ save' = save /\ state' = state /\ ops' = ops /\ promise' = promise
      /\ cut' = cut
  BY DEF cartridge, kept
<1>2. had' \in Nat /\ had' >= had /\ had \in Nat /\ kind \in Kinds
  BY Grows DEF TypesFit, Fits
<1>3. TypesFit'
  BY <1>1, <1>2, TypesLater DEF TypesFit
<1>4. ~Putting(cpu') /\ ~Getting(cpu') /\ ~MustBeMarked(cpu')
  <2>1. PICK c, h : c = cpu' /\ h = chip'
    OBVIOUS
  <2>2. ~Putting(c) /\ ~Getting(c) /\ ~MustBeMarked(c)
    BY <1>2, <2>1, NothingHalfDone
  <2>3. QED
    BY <2>1, <2>2
<1>5. Present(cpu', promise') = promise' /\ HeardFits(cpu', promise')
  BY <1>4 DEF Present, HeardFits
<1>6. Present(cpu, promise) = promise
  BY BetweenIs
<1>7. Holds(save)' <=> Holds(save)
  BY <1>1 DEF Holds, Cells
<1>8. ASSUME ~cut'
      PROVE  /\ gamepak_backup' = promise'
             /\ \A c \in Cells : promise'[c] # Erased => c < had'
             /\ marked' => had' > 0
             /\ ~marked' => Holds(save)'
  <2>1. /\ gamepak_backup = promise
        /\ \A c \in Cells : promise[c] # Erased => c < had
        /\ marked => had > 0
        /\ ~marked => Holds(save)
    BY <1>1, <1>6, <1>8 DEF MemoryFits
  <2>2. ASSUME NEW c \in Cells, promise'[c] # Erased PROVE c < had'
    <3>1. c < had /\ c \in Nat
      BY <1>1, <2>1, <2>2, Constants DEF Cells
    <3>2. QED
      BY <1>2, <3>1
  <2>3. marked' => had' > 0
    BY <1>1, <1>2, <2>1
  <2>4. QED
    BY <1>1, <1>7, <2>1, <2>2, <2>3
<1>9. MemoryFits'
  BY <1>1, <1>4, <1>5, <1>8, MemoryLater
<1>10. QED
  BY <1>3, <1>9

LEMMA LoadStep ==
  ASSUME CInv, LoadFromState
  PROVE  CInv'
<1>1. /\ Between /\ state # Absent /\ cpu' = state.cpu /\ chip' = state.chip /\ Growing
      /\ UNCHANGED <<cartridge, gamepak_backup, kept, marked, ops, promise, cut>>
  BY DEF LoadFromState
<1>2. Fits(state.cpu, state.chip) /\ ~InBits(state.cpu)
  BY <1>1 DEF CInv, TypesFit
<1>3. QED
  BY <1>1, <1>2, Elsewhere

(* A chip as it is when a game starts.                                     *)
LEMMA InitialIs ==
  ASSUME kind \in Kinds, NEW type \in TypeOf[kind], NEW banks \in {"64K", "128K"}
  PROVE  /\ Fits(Reset, Initial(type, banks)) /\ Reset.todo = <<>>
         /\ Initial(type, banks).type = type
         /\ Initial(type, banks).flash_bank_cnt = banks
<1>1. type \in Types
  BY DEF Kinds, TypeOf, Types
<1>2. Initial(type, banks) \in Chip
  BY <1>1 DEF Initial, Chip, EepromModes
<1>3. Reset \in Cpu
  BY DEF Reset, Cpu, Nothing, Op, Operation
<1>4. AtRest(Initial(type, banks))
  BY DEF AtRest, Initial
<1>5. /\ Reset.todo = <<>> /\ Reset.bank = 0 /\ Initial(type, banks).bank = 0
      /\ Initial(type, banks).type = type /\ Initial(type, banks).eeprom_size = "b512"
      /\ Initial(type, banks).flash_bank_cnt = banks
  BY DEF Reset, Initial
<1>6. QED
  BY <1>2, <1>3, <1>4, <1>5 DEF Fits

LEMMA RestartStep ==
  ASSUME CInv, Restart
  PROVE  CInv'
<1>1. /\ Between /\ cpu' = Reset /\ chip' = Initial(backup_type_reset, chip.flash_bank_cnt)
      /\ Growing /\ UNCHANGED <<cartridge, gamepak_backup, kept, marked, ops, promise, cut>>
  BY DEF Restart
<1>2. /\ backup_type_reset \in TypeOf[kind] /\ kind \in Kinds /\ chip \in Chip
  BY DEF CInv, TypesFit, Fits
<1>3. chip.flash_bank_cnt \in {"64K", "128K"}
  BY <1>2 DEF Chip
<1>4. Fits(cpu', chip') /\ cpu'.todo = <<>>
  BY <1>1, <1>2, <1>3, InitialIs
<1>5. ~InBits(cpu')
  BY <1>4 DEF InBits
<1>6. QED
  BY <1>1, <1>4, <1>5, Elsewhere

LEMMA ListedIs ==
  ASSUME TypesFit
  PROVE  Listed.type \in TypeOf[kind] /\ Fits(Reset, Listed) /\ Listed \in Chip
         /\ Listed.bank = 0 /\ Listed.eeprom_size = "b512" /\ AtRest(Listed)
<1> DEFINE type == IF listed /\ Eeprom THEN "eeprom" ELSE "unknown"
           banks == IF listed /\ kind = "flash128" THEN "128K" ELSE "64K"
<1>1. kind \in Kinds
  BY DEF TypesFit
<1>2. type \in TypeOf[kind] /\ banks \in {"64K", "128K"}
  BY <1>1 DEF Kinds, Eeprom, TypeOf
<1>3. Listed = Initial(type, banks)
  BY DEF Listed
<1> HIDE DEF type, banks
<1>4. Fits(Reset, Listed) /\ Listed.type = type
  BY <1>1, <1>2, <1>3, InitialIs
<1>5. Listed.bank = 0 /\ Listed.eeprom_size = "b512" /\ AtRest(Listed)
  BY <1>3 DEF Initial, AtRest
<1>6. QED
  BY <1>2, <1>4, <1>5 DEF Fits

(* A chip as the size of the save tells.                                   *)
LEMMA SizedIs ==
  ASSUME TypesFit, NEW size \in SizeOf[kind]
  PROVE  Sized(size).type \in TypeOf[kind] /\ Fits(Reset, Sized(size))
<1> DEFINE h == Sized(size)
<1>1. kind \in Kinds /\ Listed \in Chip /\ Listed.bank = 0 /\ Listed.eeprom_size = "b512"
      /\ AtRest(Listed)
  BY ListedIs DEF TypesFit
<1>2. Reset \in Cpu /\ Reset.todo = <<>> /\ Reset.bank = 0
  BY DEF Reset, Cpu, Nothing, Op, Operation
<1>3. CASE size \in {"b512", "b8K"}
  <2>1. h = [Listed EXCEPT !.type = "eeprom", !.eeprom_size = size]
    BY <1>3 DEF Sized
  <2>2. h \in Chip
    BY <1>1, <1>3, <2>1 DEF Chip, Types
  <2>3. h.type = "eeprom" /\ h.eeprom_size = size /\ h.bank = 0 /\ AtRest(h)
    BY <1>1, <2>1 DEF Chip, AtRest
  <2>4. "eeprom" \in TypeOf[kind] /\ (kind = "eeprom512" => size = "b512")
    BY <1>1, <1>3 DEF SizeOf, TypeOf, Kinds
  <2> HIDE DEF h
  <2>5. Fits(Reset, h)
    BY <1>2, <2>2, <2>3, <2>4 DEF Fits
  <2>6. QED
    BY <2>3, <2>4, <2>5 DEF h
<1>4. CASE size = "b32K"
  <2>1. h = [Listed EXCEPT !.type = "sram"]
    BY <1>4 DEF Sized
  <2>2. h \in Chip
    BY <1>1, <2>1 DEF Chip, Types
  <2>3. h.type = "sram" /\ h.eeprom_size = "b512" /\ h.bank = 0 /\ AtRest(h)
    BY <1>1, <2>1 DEF Chip, AtRest
  <2>4. "sram" \in TypeOf[kind]
    BY <1>1, <1>4 DEF SizeOf, TypeOf, Kinds
  <2> HIDE DEF h
  <2>5. Fits(Reset, h)
    BY <1>2, <2>2, <2>3, <2>4 DEF Fits
  <2>6. QED
    BY <2>3, <2>4, <2>5 DEF h
<1>5. CASE size \in {"b64K", "b128K"}
  <2> DEFINE banks == IF size = "b128K" THEN "128K" ELSE "64K"
  <2>1. h = [Listed EXCEPT !.type = "flash", !.flash_bank_cnt = banks]
    BY <1>5 DEF Sized
  <2>2. banks \in {"64K", "128K"}
    OBVIOUS
  <2> HIDE DEF banks
  <2>3. h \in Chip
    BY <1>1, <2>1, <2>2 DEF Chip, Types
  <2>4. h.type = "flash" /\ h.eeprom_size = "b512" /\ h.bank = 0 /\ AtRest(h)
    BY <1>1, <2>1 DEF Chip, AtRest
  <2>5. "flash" \in TypeOf[kind]
    BY <1>1, <1>5 DEF SizeOf, TypeOf, Kinds
  <2> HIDE DEF h
  <2>6. Fits(Reset, h)
    BY <1>2, <2>3, <2>4, <2>5 DEF Fits
  <2>7. QED
    BY <2>4, <2>5, <2>6 DEF h
<1>6. QED
  BY <1>1, <1>3, <1>4, <1>5 DEF Kinds, SizeOf

LEMMA LeaveStep ==
  ASSUME CInv, LeaveAndStart
  PROVE  CInv'
<1> USE DEF CInv
<1>1. /\ Between /\ save' = Saved /\ cut' = (cut \/ CellsOf[FileSize] < had) /\ marked' = FALSE
      /\ cpu' = Reset /\ chip' = (IF save' = Absent THEN Listed ELSE Sized(save'.size))
      /\ backup_type_reset' = chip'.type
      /\ gamepak_backup' =
           [c \in Cells |-> IF save' = Absent THEN Erased
                            ELSE IF c \in DOMAIN save'.cells THEN save'.cells[c]
                            ELSE gamepak_backup[c]]
      /\ Growing /\ kind' = kind /\ listed' = listed /\ state' = state /\ ops' = ops
      /\ promise' = promise
  BY DEF LeaveAndStart, cartridge
<1>2. save' = Absent \/ \E size \in SizeOf[kind] : save' \in Saves(size)
  BY <1>1, SavedIs
<1>3. Fits(cpu', chip') /\ backup_type_reset' \in TypeOf[kind]
  <2>1. CASE save' = Absent
    BY <1>1, <2>1, ListedIs
  <2>2. CASE save' # Absent
    <3>1. PICK size \in SizeOf[kind] : save' \in Saves(size)
      BY <1>2, <2>2
    <3>2. save'.size = size
      BY <3>1 DEF Saves
    <3>3. QED
      BY <1>1, <2>2, <3>1, <3>2, SizedIs
  <2>3. QED
    BY <2>1, <2>2
<1>4. cpu'.todo = <<>>
  BY <1>1 DEF Reset
<1>5. had' \in Nat /\ had' >= had /\ had \in Nat
  BY <1>1, <1>3, Grows DEF TypesFit, Fits
<1>6. gamepak_backup' \in [Cells -> Nat]
  <2>1. ASSUME NEW c \in Cells
        PROVE  (IF save' = Absent THEN Erased
                ELSE IF c \in DOMAIN save'.cells THEN save'.cells[c] ELSE gamepak_backup[c]) \in Nat
    <3>1. gamepak_backup[c] \in Nat /\ Erased \in Nat
      BY DEF TypesFit, Erased
    <3>2. ASSUME save' # Absent, c \in DOMAIN save'.cells PROVE save'.cells[c] \in Nat
      <4>1. PICK size \in SizeOf[kind] : save' \in Saves(size)
        BY <1>2, <3>2
      <4>2. save'.cells \in [0 .. CellsOf[size] - 1 -> Nat]
        BY <4>1 DEF Saves
      <4>3. QED
        BY <3>2, <4>2
    <3>3. QED
      BY <3>1, <3>2
  <2>2. QED
    BY <1>1, <2>1
<1>7. TypesFit'
  BY <1>1, <1>2, <1>3, <1>5, <1>6, TypesLater DEF TypesFit
<1>8. Present(cpu', promise') = promise' /\ HeardFits(cpu', promise') /\ ~MustBeMarked(cpu')
  <2>1. PICK c, p : c = cpu' /\ p = promise'
    OBVIOUS
  <2>2. Present(c, p) = p /\ HeardFits(c, p) /\ ~MustBeMarked(c)
    BY <1>4, <2>1, AtStart
  <2>3. QED
    BY <2>1, <2>2
<1>9. ASSUME ~cut'
      PROVE  /\ gamepak_backup' = promise'
             /\ \A c \in Cells : promise'[c] # Erased => c < had'
             /\ Holds(save)'
  <2>1. ~cut /\ ~(CellsOf[FileSize] < had)
    BY <1>1, <1>9
  <2>2. PICK f : f = Saved
    OBVIOUS
  <2>3. Holds(f)
    BY <1>1, <2>1, <2>2, SavedHolds
  <2>4. f = save'
    BY <1>1, <2>2
  <2>5. Holds(f)'
    BY <1>1, <2>3 DEF Holds, Cells
  <2>6. Holds(save)'
    BY <2>4, <2>5
  <2>7. gamepak_backup = promise /\ \A c \in Cells : promise[c] # Erased => c < had
    BY <1>1, <2>1, BetweenIs DEF MemoryFits
  <2>8. ASSUME NEW c \in Cells
        PROVE  promise[c] = IF f = Absent THEN Erased
                            ELSE IF c \in DOMAIN f.cells THEN f.cells[c] ELSE gamepak_backup[c]
    BY <2>3, <2>7, <2>8 DEF Holds
  <2>9. gamepak_backup' = [c \in Cells |-> promise[c]]
    BY <1>1, <2>4, <2>8
  <2>10. gamepak_backup' = promise'
    BY <1>1, <2>9 DEF TypesFit
  <2>11. ASSUME NEW c \in Cells, promise'[c] # Erased PROVE c < had'
    <3>1. c < had /\ c \in Nat
      BY <1>1, <2>7, <2>11, Constants DEF Cells
    <3>2. QED
      BY <1>5, <3>1
  <2>12. QED
    BY <2>6, <2>10, <2>11
<1>10. MemoryFits'
  BY <1>1, <1>8, <1>9, MemoryLater
<1>11. QED
  BY <1>7, <1>10

-----------------------------------------------------------------------------
LEMMA ChipsBegin == ChipsInit => CInv
<1> SUFFICES ASSUME ChipsInit PROVE CInv
  OBVIOUS
<1>1. /\ kind \in Kinds /\ listed \in BOOLEAN
      /\ (listed => kind \in {"flash128", "eeprom512", "eeprom8K"})
      /\ cpu = Reset /\ chip = Listed /\ backup_type_reset = Listed.type
      /\ gamepak_backup = [c \in Cells |-> Erased] /\ marked = FALSE
      /\ save = Absent /\ state = Absent /\ ops = 0 /\ promise = gamepak_backup
      /\ cut = FALSE /\ had = 0
  BY DEF ChipsInit
<1> DEFINE type == IF listed /\ Eeprom THEN "eeprom" ELSE "unknown"
           banks == IF listed /\ kind = "flash128" THEN "128K" ELSE "64K"
<1>2. type \in TypeOf[kind] /\ banks \in {"64K", "128K"}
  BY <1>1 DEF Kinds, Eeprom, TypeOf
<1>3. Listed = Initial(type, banks)
  BY DEF Listed
<1> HIDE DEF type, banks
<1>4. Fits(cpu, chip) /\ cpu.todo = <<>> /\ chip.type = type
  BY <1>1, <1>2, <1>3, InitialIs
<1>5. Erased \in Bytes /\ Erased \in Nat
  BY DEF Erased, Bytes
<1>6. TypesFit
  BY <1>1, <1>2, <1>4, <1>5 DEF TypesFit
<1>7. Present(cpu, promise) = promise /\ HeardFits(cpu, promise) /\ ~MustBeMarked(cpu)
  BY <1>4, AtStart
<1>8. Holds(save)
  BY <1>1 DEF Holds
<1>9. MemoryFits
  BY <1>1, <1>7, <1>8 DEF MemoryFits
<1>10. QED
  BY <1>6, <1>9 DEF CInv

LEMMA ChipsStep == CInv /\ [ChipsNext]_chips_vars => CInv'
<1> SUFFICES ASSUME CInv, [ChipsNext]_chips_vars PROVE CInv'
  OBVIOUS
<1>1. CASE \E op \in Ops : Begin(op)
  BY <1>1, BeginStep
<1>2. CASE GameWritesByte \/ GameReadsByte \/ GameStartsDma \/ GameSendsBit \/ GameReadsBit
  BY <1>2, GameStepStep DEF GameStep
<1>3. CASE UpdateBackup
  BY <1>3, UpdateStep
<1>4. CASE SaveToState
  BY <1>4, SaveToStateStep
<1>5. CASE LoadFromState
  BY <1>5, LoadStep
<1>6. CASE Restart
  BY <1>6, RestartStep
<1>7. CASE LeaveAndStart
  BY <1>7, LeaveStep
<1>8. CASE UNCHANGED chips_vars
  <2>1. /\ kind' = kind /\ listed' = listed /\ cpu' = cpu /\ chip' = chip
        /\ gamepak_backup' = gamepak_backup /\ backup_type_reset' = backup_type_reset
        /\ marked' = marked /\ save' = save /\ state' = state /\ ops' = ops
        /\ promise' = promise /\ had' = had /\ cut' = cut
    BY <1>8 DEF chips_vars, cartridge, console, kept
  <2>2. Fits(cpu', chip')
    BY <2>1 DEF CInv, TypesFit
  <2>3. TypesFit'
    BY <2>1, <2>2, TypesLater DEF CInv, TypesFit
  <2>4. Holds(save)' <=> Holds(save)
    BY <2>1 DEF Holds, Cells
  <2>5. MemoryFits'
    BY <2>1, <2>4, MemoryLater DEF CInv, MemoryFits
  <2>6. QED
    BY <2>3, <2>5 DEF CInv
<1>9. QED
  BY <1>1, <1>2, <1>3, <1>4, <1>5, <1>6, <1>7, <1>8 DEF ChipsNext

(* Wherever the player stops the game, saves a state, loads one or starts  *)
(* again, the chip is where the game that drives it takes it to be, and    *)
(* the memory holds what the game has put there, up to the bits of a byte  *)
(* that is on its way into an EEPROM: write_backup, read_backup,           *)
(* write_eeprom, read_eeprom and trigger_dma.                              *)
THEOREM ChipFollowsGame == ChipsSpec => []CInv
<1>1. CInv /\ [ChipsNext]_chips_vars => CInv'
  BY ChipsStep
<1>2. QED
  BY ChipsBegin, <1>1, PTL DEF ChipsSpec

(* While no write of the save is pending, the save holds all that the game *)
(* has put in its memory, unless one was written in a smaller size.        *)
THEOREM SaveFollowsWrites == ChipsSpec => []WritesAreSaved
<1>1. CInv => WritesAreSaved
  BY DEF CInv, MemoryFits, WritesAreSaved
<1>2. QED
  BY ChipFollowsGame, <1>1, PTL

(* A byte that a game reads from its memory is the one that it put there.  *)
THEOREM ReadsFollowWrites == ChipsSpec => ReadsAreTheSave
<1> DEFINE Read == /\ ~cut /\ cpu.op.what \in {"byte", "get"}
                   /\ (GameReadsByte \/ GameReadsBit) /\ cpu'.todo = <<>>
                   => cpu'.heard = promise[cpu.op.at + BankSize * cpu.bank]
<1>1. CInv => Read
  <2> SUFFICES ASSUME CInv, ~cut, cpu.op.what \in {"byte", "get"},
                      GameReadsByte \/ GameReadsBit, cpu'.todo = <<>>
               PROVE  cpu'.heard = promise[cpu.op.at + BankSize * cpu.bank]
    OBVIOUS
  <2>1. TypesFit /\ kind \in Kinds /\ gamepak_backup = Present(cpu, promise)
        /\ HeardFits(cpu, promise)
    BY DEF CInv, TypesFit, MemoryFits
  <2>2. cpu.todo # <<>>
    BY DEF GameReadsByte, GameReadsBit, Doing
  <2>3. gamepak_backup = promise
    BY <2>1 DEF Present, Putting
  <2>4. CASE Eeprom
    <3>1. ~GameReadsByte
      BY <2>1, <2>2, <2>4, EepromAccess DEF GameReadsByte, Doing
    <3>2. cpu'.heard = promise[cpu.op.at]
      BY <2>1, <2>3, <2>4, <3>1, InMoves
    <3>3. cpu.bank = 0 /\ cpu.op.at \in Nat
      BY <2>1, <2>2, <2>4, EepromNow
    <3>4. cpu.op.at + BankSize * cpu.bank = cpu.op.at
      BY <3>3, Constants
    <3>5. QED
      BY <3>2, <3>4
  <2>5. CASE ~Eeprom
    <3>1. ~GameReadsBit
      BY <2>1, <2>2, <2>5, BytesOnly DEF GameReadsBit, Doing
    <3>2. CASE kind = "sram"
      BY <2>1, <2>3, <3>1, <3>2, SramReads
    <3>3. CASE Flash
      <4>1. cpu.op.what = "byte"
        <5>1. IsTheRest(cpu)
          BY <2>1, <2>2 DEF TypesFit, Fits
        <5>2. cpu.op \in Ops
          BY <5>1 DEF IsTheRest
        <5>3. cpu.op.what \in {"program", "byte", "sector", "chip", "id", "bank"}
          BY <2>1, <3>3, <5>2, OpsAre
        <5>4. QED
          BY <5>3
      <4>2. QED
        BY <2>1, <2>3, <3>1, <3>3, <4>1, FlashReads
    <3>4. QED
      BY <2>1, <2>5, <3>2, <3>3 DEF Kinds, Flash, Eeprom
  <2>6. QED
    BY <2>4, <2>5
<1>2. CInv /\ [ChipsNext]_chips_vars => [Read]_chips_vars
  BY <1>1
<1>3. QED
  BY ChipFollowsGame, <1>2, PTL DEF ChipsSpec, ReadsAreTheSave
=============================================================================

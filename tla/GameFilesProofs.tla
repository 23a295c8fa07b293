-------------------------- MODULE GameFilesProofs ---------------------------
(***************************************************************************)
(* Proofs about the games' files, for any games, names and folders: at     *)
(* every step of a conversion, and wherever power is lost in it, each game *)
(* has a whole ROM, the running one's path leads to its own, and the       *)
(* player's order names them all.  Its saves are kept, and found under the *)
(* name it has then, in folders where names are not shared.                *)
(***************************************************************************)
EXTENDS GameFiles, TLAPS

(* Zips, and only they, say the name of the ROM in them.                   *)
Named(n, file) == file.inner = None <=> n.ext # "zip"

RomsOK ==
  /\ rom \in Roms
  /\ \A n \in RomNames : rom[n] # None => Named(n, rom[n])
  /\ last = None \/ last \in [zip : RomNames, inner : Bases]
  /\ RomsAreKept

(* What each step of a conversion has done so far.                         *)
Stage ==
  /\ job.to # job.from
  /\ Named(job.to, job.file)
  /\ job.step \in {"write", "check", "rename", "remove"} =>
       rom[job.from] \in File /\ rom[job.from].game = job.file.game
  /\ job.step \in {"write", "check", "rename"} => rom[job.to] = None
  /\ job.step = "check" => job.temp \in {job.file, Bad}
  /\ job.step = "rename" => job.temp = job.file
  /\ job.step \in {"remove", "move"} => rom[job.to] = job.file

JobOK ==
  job # None => \/ job \in Converting /\ Stage
                \/ job \in Ordering /\ rom[job.to] \in File

(* The old name of the running game's ROM is gone, the new one not in use  *)
(* yet.                                                                    *)
Renaming == job # None /\ job.from = gamepak_filename /\ job.step \in {"move", "order"}

RunningOK ==
  /\ playing \in Games \cup {None}
  /\ playing # None =>
       /\ gamepak_filename \in RomNames
       /\ ~Renaming => rom[gamepak_filename] \in File /\ rom[gamepak_filename].game = playing
       /\ Renaming => rom[job.to].game = playing
       /\ job # None /\ job.from = gamepak_filename => ~paged

(* The order names the games' ROMs.                                        *)
Places(names) ==
  /\ Len(names) = Len(listed)
  /\ \A i \in 1 .. Len(names) : rom[names[i]] \in File /\ rom[names[i]].game = listed[i]

NewName(n) == IF n = job.from THEN job.to ELSE n

OrderOK ==
  /\ order \in Seq(RomNames)
  /\ listed # None =>
       /\ ~At("move") /\ ~At("order") => Places(order)
       /\ At("move") =>
            /\ Len(order) = Len(listed)
            /\ \A i \in 1 .. Len(order) :
                 rom[NewName(order[i])] \in File /\ rom[NewName(order[i])].game = listed[i]
       /\ At("order") => Places(job.order)

IInv == RomsOK /\ JobOK /\ RunningOK /\ OrderOK

-----------------------------------------------------------------------------
LEMMA NoneIsNoJob == None \notin Converting /\ None \notin Ordering
BY NoneAssumption

(* The name that a ROM's saves go by is one.                               *)
LEMMA NameInBases ==
  ASSUME RomsOK, NEW n \in RomNames, rom[n] \in File
  PROVE  Name(n) \in Bases
<1>1. rom[n] # None
  BY NoneAssumption
<1>2. CASE n.ext # "zip"
  BY <1>2 DEF Name, Base, Bases, RomNames
<1>3. CASE n.ext = "zip"
  <2>1. rom[n].inner \in Bases
    BY <1>1, <1>3 DEF RomsOK, Named, File
  <2>2. QED
    BY <1>3, <2>1 DEF Name, RomsOK
<1>4. QED
  BY <1>2, <1>3

LEMMA LooksUpNames ==
  ASSUME RomsOK, NEW n \in RomNames, rom[n] \in File, LookUp(n)
  PROVE  last' = None \/ last' \in [zip : RomNames, inner : Bases]
BY NameInBases DEF LookUp, RomsOK

LEMMA InitCorrect == Init => IInv
<1> SUFFICES ASSUME Init PROVE IInv
  OBVIOUS
<1>1. PICK d \in DISKS :
        /\ rom = d.rom /\ order = d.order
        /\ playing = None /\ last = None /\ job = None
        /\ listed = [i \in 1 .. Len(d.order) |-> d.rom[d.order[i]].game]
  BY DEF Init
<1>2. /\ d.rom \in Roms /\ d.order \in Seq(RomNames)
      /\ \A n \in RomNames : d.rom[n] # None => (d.rom[n].inner = None <=> n.ext # "zip")
      /\ \A i \in 1 .. Len(d.order) : d.rom[d.order[i]] # None
      /\ \A g \in Games : \E n \in RomNames : d.rom[n] # None /\ d.rom[n].game = g
  BY DisksAssumption
<1>3. RomsOK
  BY <1>1, <1>2 DEF RomsOK, Named, RomsAreKept, Roms
<1>4. JobOK /\ RunningOK
  BY <1>1 DEF JobOK, RunningOK
<1>5. OrderOK
  <2>1. \A i \in 1 .. Len(order) : rom[order[i]] \in File /\ rom[order[i]].game = listed[i]
    BY <1>1, <1>2 DEF Roms
  <2>2. Len(order) \in Nat
    BY <1>1, <1>2
  <2>3. Len(listed) = Len(order)
    BY <1>1, <2>2
  <2>4. QED
    BY <1>1, <1>2, <2>1, <2>3 DEF OrderOK, Places, At
<1>6. QED
  BY <1>3, <1>4, <1>5 DEF IInv

-----------------------------------------------------------------------------
(* Steps.                                                                  *)

(* The running game's saves and old files are none of IInv's business.     *)
LEMMA NamesStay ==
  ASSUME RomsOK, JobOK, RunningOK, OrderOK,
         UNCHANGED <<rom, order, job, listed, playing, gamepak_filename, paged>>,
         last' = None \/ last' \in [zip : RomNames, inner : Bases]
  PROVE  IInv'
<1>1. RomsOK'
  BY DEF RomsOK, RomsAreKept
<1>2. JobOK'
  BY DEF JobOK, Stage
<1>3. RunningOK'
  BY DEF RunningOK, Renaming
<1>4. OrderOK'
  BY DEF OrderOK, Places, NewName, At
<1>5. QED
  BY <1>1, <1>2, <1>3, <1>4 DEF IInv

LEMMA StartsGames ==
  ASSUME IInv, NEW n \in RomNames, Start(n) \/ \E which \in SUBSET OldFiles : StartIsCut(n, which)
  PROVE  IInv'
<1>1. job = None /\ rom[n] \in File
  BY DEF Start, StartIsCut, Idle, IInv, RomsOK, Roms
<1>2. UNCHANGED <<rom, order, job, listed>>
  BY DEF Start, StartIsCut, history
<1>3. last' = None \/ last' \in [zip : RomNames, inner : Bases]
  BY <1>1, LooksUpNames DEF Start, StartIsCut, IInv
<1>4. \/ playing' = None
      \/ playing' = rom[n].game /\ gamepak_filename' = n
  BY DEF Start, StartIsCut
<1>5. RomsOK'
  BY <1>2, <1>3 DEF IInv, RomsOK, RomsAreKept
<1>6. JobOK'
  BY <1>1, <1>2 DEF JobOK
<1>7. RunningOK'
  BY <1>1, <1>2, <1>4 DEF RunningOK, Renaming, File
<1>8. OrderOK'
  BY <1>2 DEF IInv, OrderOK, Places, NewName, At
<1>9. QED
  BY <1>5, <1>6, <1>7, <1>8 DEF IInv

LEMMA WritesSaves ==
  ASSUME IInv, SaveGame \/ SaveState \/ SaveSettings
  PROVE  IInv'
<1>1. UNCHANGED <<rom, order, job, listed, playing, gamepak_filename, paged>>
  BY DEF SaveGame, SaveState, SaveSettings, Written, session
<1>2. last' = None \/ last' \in [zip : RomNames, inner : Bases]
  <2>1. CASE SaveGame
    BY <2>1, LooksUpNames DEF SaveGame, Idle, IInv, RunningOK, Renaming
  <2>2. CASE SaveState \/ SaveSettings
    BY <2>2 DEF SaveState, SaveSettings, IInv, RomsOK
  <2>3. QED
    BY <2>1, <2>2
<1>3. QED
  BY <1>1, <1>2, NamesStay DEF IInv

(* A conversion starts.                                                    *)
LEMMA ConvertsGames ==
  ASSUME IInv, NEW n \in RomNames, rom[n] \in File,
         NEW to \in RomNames, to # n, NEW base \in Bases,
         NEW file \in File, file.game = rom[n].game, Named(to, file),
         Converts(n, to, file, base),
         last' = None \/ last' \in [zip : RomNames, inner : Bases]
  PROVE  IInv'
<1>1. /\ job = None /\ rom[to] = None
      /\ UNCHANGED <<rom, order, listed, playing, gamepak_filename, paged>>
  BY DEF Converts, Idle, session, history
<1>2. /\ job' \in Converting
      /\ job'.from = n /\ job'.to = to /\ job'.file = file /\ job'.step = "write"
  <2>1. (IF base = Base(to.stem) THEN <<>> ELSE InOrder) \in Seq(Kinds)
    <3>1. /\ <<>> \in Seq(Kinds)
          /\ <<"sav", "settings", "state">> \in Seq(Kinds)
      BY DEF Kinds
    <3>2. QED
      BY <3>1 DEF InOrder
  <2>2. QED
    BY <2>1 DEF Converts, Converting
<1>3. n = gamepak_filename => ~paged
  BY DEF Converts, Released
<1>4. RomsOK'
  BY <1>1 DEF IInv, RomsOK, RomsAreKept
<1>5. JobOK'
  BY <1>1, <1>2 DEF JobOK, Stage
<1>6. RunningOK'
  BY <1>1, <1>2, <1>3 DEF IInv, RunningOK, Renaming
<1>7. OrderOK'
  BY <1>1, <1>2 DEF IInv, OrderOK, Places, At
<1>8. QED
  BY <1>4, <1>5, <1>6, <1>7 DEF IInv

LEMMA Compresses ==
  ASSUME IInv, NEW n \in RomNames, rom_compress(n)
  PROVE  IInv'
<1> DEFINE to == [stem |-> n.stem, ext |-> "zip"]
           file == [game |-> rom[n].game, inner |-> Base(n.stem)]
<1>1. rom[n] \in File /\ n.ext # "zip"
  BY DEF rom_compress, IInv, RomsOK, Roms
<1>2. to \in RomNames /\ to # n /\ Base(n.stem) \in Bases
  BY <1>1 DEF RomNames, Base, Bases
<1>3. file \in File /\ file.game = rom[n].game
  BY <1>1, <1>2 DEF File
<1>4. Named(to, file)
  BY <1>2, NoneAssumption DEF Named
<1>5. Converts(n, to, file, Base(n.stem)) /\ last' = last
  BY DEF rom_compress
<1> HIDE DEF to, file
<1>6. QED
  BY <1>1, <1>2, <1>3, <1>4, <1>5, ConvertsGames DEF IInv, RomsOK

LEMMA Uncompresses ==
  ASSUME IInv, NEW n \in RomNames, rom_uncompress(n)
  PROVE  IInv'
<1> DEFINE to == Base(Name(n).stem)
           file == [game |-> rom[n].game, inner |-> None]
<1>1. rom[n] \in File /\ n.ext # "gba"
  BY DEF rom_uncompress, IInv, RomsOK, Roms
<1>2. Name(n) \in Bases
  BY <1>1, NameInBases DEF IInv
<1>3. to \in RomNames /\ to # n /\ to.ext = "gba"
  BY <1>1, <1>2 DEF RomNames, Base, Bases
<1>4. file \in File /\ file.game = rom[n].game
  BY <1>1 DEF File
<1>5. Named(to, file)
  BY <1>3 DEF Named
<1>6. Converts(n, to, file, Name(n)) /\ LookUp(n)
  BY DEF rom_uncompress
<1>7. last' = None \/ last' \in [zip : RomNames, inner : Bases]
  BY <1>1, <1>6, LooksUpNames DEF IInv
<1> HIDE DEF to, file
<1>8. QED
  BY <1>1, <1>2, <1>3, <1>4, <1>5, <1>6, <1>7, ConvertsGames

(* The temporary file is removed: nothing has changed.                     *)
LEMMA GivesUpConversion ==
  ASSUME IInv, job # None, job.step \in {"write", "check", "rename"},
         job' = None, UNCHANGED <<rom, order, session, last, listed>>
  PROVE  IInv'
<1>1. RomsOK'
  BY DEF IInv, RomsOK, RomsAreKept
<1>2. RunningOK'
  BY DEF IInv, RunningOK, Renaming, session
<1>3. OrderOK'
  BY DEF IInv, OrderOK, Places, At
<1>4. QED
  BY <1>1, <1>2, <1>3 DEF IInv, JobOK

(* The steps before the rename change nothing but the conversion.          *)
LEMMA StepsOn ==
  ASSUME IInv, job # None, job.step \in {"write", "check"},
         job' \in Converting, job'.step \in {"check", "rename"},
         job'.from = job.from, job'.to = job.to, job'.file = job.file,
         job'.step = "check" => job'.temp \in {job.file, Bad},
         job'.step = "rename" => job'.temp = job.file,
         UNCHANGED <<rom, order, session, last, listed>>
  PROVE  IInv'
<1>1. job \in Converting /\ Stage
  BY DEF IInv, JobOK, Ordering
<1>2. RomsOK'
  BY DEF IInv, RomsOK, RomsAreKept
<1>3. JobOK'
  BY <1>1 DEF JobOK, Stage
<1>4. RunningOK'
  BY DEF IInv, RunningOK, Renaming, session
<1>5. OrderOK'
  BY DEF IInv, OrderOK, Places, At
<1>6. QED
  BY <1>2, <1>3, <1>4, <1>5 DEF IInv

LEMMA WritesTemp ==
  ASSUME IInv, WriteTemp \/ check_new_file
  PROVE  IInv'
<1>1. job # None /\ job.step \in {"write", "check"}
  BY DEF WriteTemp, check_new_file, At
<1>2. job \in Converting /\ Stage
  BY <1>1 DEF IInv, JobOK, Ordering
<1>3. UNCHANGED <<rom, order, session, last, listed>>
  BY DEF WriteTemp, check_new_file, GivesUp, history
<1>4. CASE job' = None
  BY <1>1, <1>3, <1>4, GivesUpConversion
<1>5. CASE WriteTemp /\ job' # None
  <2>1. PICK f \in {job.file, Bad} : job' = [job EXCEPT !.step = "check", !.temp = f]
    BY <1>5 DEF WriteTemp, GivesUp
  <2>2. f \in File \cup {Torn, Bad}
    BY <1>2 DEF Converting
  <2>3. /\ job' \in Converting /\ job'.step = "check" /\ job'.temp = f
        /\ job'.from = job.from /\ job'.to = job.to /\ job'.file = job.file
    BY <1>2, <2>1, <2>2 DEF Converting
  <2>4. QED
    BY <1>1, <1>3, <2>3, StepsOn
<1>6. CASE check_new_file /\ job' # None
  <2>1. job.step = "check" /\ job.temp # Bad /\ job' = [job EXCEPT !.step = "rename"]
    BY <1>6 DEF check_new_file, GivesUp, Goes, At
  <2>2. /\ job' \in Converting /\ job'.step = "rename" /\ job'.temp = job.temp
        /\ job'.from = job.from /\ job'.to = job.to /\ job'.file = job.file
    BY <1>2, <2>1 DEF Converting
  <2>3. job.temp = job.file
    BY <1>2, <2>1 DEF Stage
  <2>4. QED
    BY <1>1, <1>3, <2>2, <2>3, StepsOn
<1>7. QED
  BY <1>4, <1>5, <1>6
(* The new file takes its name.                                            *)
LEMMA Renames ==
  ASSUME IInv, Rename
  PROVE  IInv'
<1>1. job # None /\ job.step = "rename"
  BY DEF Rename, At
<1>2. job \in Converting /\ Stage
  BY <1>1 DEF IInv, JobOK, Ordering
<1>3. UNCHANGED <<order, session, last, listed>>
  BY DEF Rename, history
<1>4. CASE job' = None /\ rom' = rom
  BY <1>1, <1>3, <1>4, GivesUpConversion
<1>5. CASE TakesName
  <2>1. /\ rom' = [rom EXCEPT ![job.to] = job.file]
        /\ rom[job.to] = None /\ job.to # job.from /\ Named(job.to, job.file)
        /\ job.to \in RomNames /\ job.from \in RomNames /\ job.file \in File
    BY <1>1, <1>2, <1>5 DEF TakesName, Stage, Converting
  <2>2. /\ job' \in Converting /\ job'.step = "remove"
        /\ job'.from = job.from /\ job'.to = job.to /\ job'.file = job.file
    BY <1>2, <1>5 DEF TakesName, Goes, Converting
  <2>3. rom \in Roms /\ rom' \in Roms
    BY <2>1 DEF IInv, RomsOK, Roms
  <2>4. \A n \in RomNames : rom[n] # None => rom'[n] = rom[n]
    BY <2>1, <2>3 DEF Roms
  <2>5. rom'[job.to] = job.file
    BY <2>1, <2>3 DEF Roms
  <2>6. RomsOK'
    <3>1. \A n \in RomNames : rom'[n] # None => Named(n, rom'[n])
      BY <2>1, <2>3, <2>4, <2>5 DEF IInv, RomsOK, Roms
    <3>2. RomsAreKept'
      BY <2>4, NoneAssumption DEF IInv, RomsOK, RomsAreKept
    <3>3. QED
      BY <1>3, <2>3, <3>1, <3>2 DEF IInv, RomsOK, Named
  <2>7. JobOK'
    <3>1. rom'[job.from] \in File /\ rom'[job.from].game = job.file.game
      BY <1>1, <1>2, <2>1, <2>4, NoneAssumption DEF Stage
    <3>2. QED
      BY <2>1, <2>2, <2>5, <3>1 DEF JobOK, Stage, Named
  <2>8. RunningOK'
    BY <1>1, <1>3, <2>2, <2>4, NoneAssumption DEF IInv, RunningOK, Renaming, session
  <2>9. OrderOK'
    <3>1. \A i \in 1 .. Len(order) : order[i] \in RomNames
      BY DEF IInv, OrderOK
    <3>2. listed # None => Places(order)'
      BY <1>1, <1>3, <2>4, <3>1, NoneAssumption DEF IInv, OrderOK, Places, At
    <3>3. QED
      BY <1>3, <2>2, <3>2 DEF IInv, OrderOK, At
  <2>10. QED
    BY <2>6, <2>7, <2>8, <2>9 DEF IInv
<1>6. QED
  BY <1>4, <1>5 DEF Rename, GivesUp

(* The old file goes, or stays: the new one stands for it.                 *)
LEMMA RemovesOld ==
  ASSUME IInv, RemoveOld
  PROVE  IInv'
<1>1. job # None /\ job.step = "remove"
  BY DEF RemoveOld, At
<1>2. job \in Converting /\ Stage
  BY <1>1 DEF IInv, JobOK, Ordering
<1>3. UNCHANGED <<order, session, last, listed>>
  BY DEF RemoveOld
<1>4. /\ rom' \in {rom, [rom EXCEPT ![job.from] = None]}
      /\ rom[job.to] = job.file /\ job.to # job.from
      /\ rom[job.from].game = job.file.game
      /\ job.to \in RomNames /\ job.from \in RomNames /\ job.file \in File
  BY <1>1, <1>2 DEF RemoveOld, Stage, Converting
<1>5. /\ job' \in Converting /\ job'.step = "move"
      /\ job'.from = job.from /\ job'.to = job.to /\ job'.file = job.file
  BY <1>2 DEF RemoveOld, Goes, Converting
<1>6. rom \in Roms /\ rom' \in Roms
  BY <1>4 DEF IInv, RomsOK, Roms
<1>7. \A n \in RomNames : rom'[n] = rom[n] \/ (n = job.from /\ rom'[n] = None)
  BY <1>4, <1>6 DEF Roms
<1>8. RomsOK'
  <2>1. \A n \in RomNames : rom'[n] # None => Named(n, rom'[n])
    BY <1>7 DEF IInv, RomsOK
  <2>2. RomsAreKept'
    <3> SUFFICES ASSUME NEW g \in Games
                 PROVE  \E n \in RomNames : rom'[n] \in File /\ rom'[n].game = g
      BY DEF RomsAreKept
    <3>1. PICK n \in RomNames : rom[n] \in File /\ rom[n].game = g
      BY DEF IInv, RomsOK, RomsAreKept
    <3>2. CASE n = job.from
      BY <1>4, <1>7, <3>1, <3>2
    <3>3. CASE n # job.from
      BY <1>7, <3>1, <3>3
    <3>4. QED
      BY <3>2, <3>3
  <2>3. QED
    BY <1>3, <1>6, <2>1, <2>2 DEF IInv, RomsOK, Named
<1>9. JobOK'
  BY <1>2, <1>4, <1>5, <1>7 DEF JobOK, Stage, Named
<1>10. RunningOK'
  BY <1>1, <1>3, <1>4, <1>5, <1>7, NoneIsNoJob DEF IInv, RunningOK, Renaming, session
<1>11. OrderOK'
  <2>1. \A i \in 1 .. Len(order) : order[i] \in RomNames
    BY DEF IInv, OrderOK
  <2>2. \A i \in 1 .. Len(order) : NewName(order[i])' = IF order[i] = job.from THEN job.to ELSE order[i]
    BY <1>3, <1>5 DEF NewName
  <2>3. listed # None => Places(order)
    BY <1>1 DEF IInv, OrderOK, At
  <2>4. listed # None =>
          /\ Len(order) = Len(listed)
          /\ \A i \in 1 .. Len(order) :
               rom'[NewName(order[i])'] \in File /\ rom'[NewName(order[i])'].game = listed[i]
    BY <1>4, <1>7, <2>1, <2>2, <2>3 DEF Places
  <2>5. QED
    BY <1>3, <1>5, <2>2, <2>4, NoneIsNoJob DEF IInv, OrderOK, At
<1>12. QED
  BY <1>8, <1>9, <1>10, <1>11 DEF IInv

(* The saves move, one by one.                                             *)
LEMMA MovesSaves ==
  ASSUME IInv, MoveSave
  PROVE  IInv'
<1>1. job # None /\ job.step = "move" /\ job.moves # <<>>
  BY DEF MoveSave, At
<1>2. job \in Converting /\ Stage
  BY <1>1 DEF IInv, JobOK, Ordering
<1>3. UNCHANGED <<rom, order, session, last, listed>>
  BY DEF MoveSave, history
<1>4. /\ job' \in Converting /\ job'.step = "move"
      /\ job'.from = job.from /\ job'.to = job.to /\ job'.file = job.file
  <2>1. Tail(job.moves) \in Seq(Kinds)
    BY <1>1, <1>2 DEF Converting
  <2>2. QED
    BY <1>1, <1>2, <2>1 DEF MoveSave, Converting
<1>5. RomsOK'
  BY <1>3 DEF IInv, RomsOK, RomsAreKept
<1>6. JobOK'
  BY <1>1, <1>2, <1>3, <1>4 DEF JobOK, Stage
<1>7. RunningOK'
  BY <1>1, <1>3, <1>4, NoneIsNoJob DEF IInv, RunningOK, Renaming, session
<1>8. OrderOK'
  <2>1. \A i \in 1 .. Len(order) : NewName(order[i])' = NewName(order[i])
    BY <1>3, <1>4 DEF NewName
  <2>2. QED
    BY <1>1, <1>3, <1>4, <2>1, NoneIsNoJob DEF IInv, OrderOK, At
<1>9. QED
  BY <1>5, <1>6, <1>7, <1>8 DEF IInv
(* The order is opened: what will be written names the ROMs there are now. *)
LEMMA OpensOrder ==
  ASSUME IInv, OpenOrder
  PROVE  IInv' /\ job' # None
<1>1. job # None /\ job.step = "move"
  BY DEF OpenOrder, At
<1>2. job \in Converting /\ Stage
  BY <1>1 DEF IInv, JobOK, Ordering
<1>3. UNCHANGED <<rom, session, last, listed>>
  BY DEF OpenOrder, history
<1>4. job.from \in RomNames /\ job.to \in RomNames /\ rom[job.to] \in File
  BY <1>1, <1>2 DEF Converting, Stage
<1>5. order \in Seq(RomNames)
  BY DEF IInv, OrderOK
<1>6. /\ Renamed \in Seq(RomNames) /\ Len(Renamed) = Len(order)
      /\ \A i \in 1 .. Len(order) : Renamed[i] = NewName(order[i])
  <2>1. \A i \in 1 .. Len(order) : order[i] \in RomNames
    BY <1>5
  <2>2. Len(order) \in Nat
    BY <1>5
  <2>3. Renamed \in [1 .. Len(order) -> RomNames]
    BY <1>4, <2>1 DEF Renamed
  <2>4. Renamed \in Seq(RomNames) /\ Len(Renamed) = Len(order)
    BY <2>2, <2>3
  <2>5. QED
    BY <2>4 DEF Renamed, NewName
<1>7. /\ job' \in Ordering /\ job'.step = "order" /\ job'.order = Renamed
      /\ job'.from = job.from /\ job'.to = job.to
  BY <1>4, <1>6 DEF OpenOrder, Ordering
<1>8. RomsOK'
  BY <1>3 DEF IInv, RomsOK, RomsAreKept
<1>9. JobOK'
  BY <1>3, <1>4, <1>7 DEF JobOK
<1>10. RunningOK'
  BY <1>1, <1>3, <1>7, NoneIsNoJob DEF IInv, RunningOK, Renaming, session
<1>11. OrderOK'
  <2>1. order' \in Seq(RomNames)
    BY <1>5 DEF OpenOrder
  <2>2. listed # None => Places(Renamed)
    BY <1>1, <1>6 DEF IInv, OrderOK, Places, At
  <2>3. listed' # None => Places(job.order)'
    BY <1>3, <1>7, <2>2 DEF Places
  <2>4. QED
    BY <1>7, <2>1, <2>3, NoneIsNoJob DEF OrderOK, At
<1>12. QED
  BY <1>7, <1>8, <1>9, <1>10, <1>11, NoneIsNoJob DEF IInv

(* The order is written, and the running game goes by its new name.        *)
LEMMA Finishes ==
  ASSUME IInv, Finish
  PROVE  IInv'
<1>1. job # None /\ job.step = "order" /\ job' = None /\ order' = job.order
  BY DEF Finish, At
<1>2. job \in Ordering /\ rom[job.to] \in File
  BY <1>1 DEF IInv, JobOK, Converting
<1>3. job.to \in RomNames /\ job.order \in Seq(RomNames)
  BY <1>2 DEF Ordering
<1>4. UNCHANGED <<rom, listed, playing>>
  BY DEF Finish, session, history
<1>5. last' = None \/ last' \in [zip : RomNames, inner : Bases]
  <2>1. last' = last \/ LookUp(job.to)
    BY DEF Finish
  <2>2. QED
    BY <1>2, <1>3, <2>1, LooksUpNames DEF IInv, RomsOK
<1>6. gamepak_filename' = NewName(gamepak_filename)
  BY DEF Finish, NewName, session
<1>7. RomsOK'
  BY <1>4, <1>5 DEF IInv, RomsOK, RomsAreKept
<1>8. RunningOK'
  BY <1>1, <1>2, <1>3, <1>4, <1>6 DEF IInv, RunningOK, Renaming, NewName
<1>9. OrderOK'
  BY <1>1, <1>3, <1>4 DEF IInv, OrderOK, Places, At
<1>10. QED
  BY <1>1, <1>7, <1>8, <1>9 DEF IInv, JobOK

LEMMA LosesPower ==
  ASSUME IInv, PowerLoss
  PROVE  IInv'
<1>1. /\ UNCHANGED <<rom, order>>
      /\ playing' = None /\ job' = None /\ last' = None
      /\ listed' = IF At("move") \/ At("order") THEN None ELSE listed
  BY DEF PowerLoss, files
<1>2. RomsOK'
  BY <1>1 DEF IInv, RomsOK, RomsAreKept
<1>3. JobOK' /\ RunningOK'
  BY <1>1 DEF JobOK, RunningOK
<1>4. OrderOK'
  BY <1>1 DEF IInv, OrderOK, Places, At
<1>5. QED
  BY <1>2, <1>3, <1>4 DEF IInv

LEMMA StepCorrect == IInv /\ [Next]_vars => IInv'
<1> SUFFICES ASSUME IInv, [Next]_vars PROVE IInv'
  OBVIOUS
<1>1. CASE UNCHANGED vars
  BY <1>1, NamesStay DEF vars, files, session, history, IInv, RomsOK
<1>2. CASE \E n \in RomNames :
             Start(n) \/ \E which \in SUBSET OldFiles : StartIsCut(n, which)
  BY <1>2, StartsGames
<1>3. CASE \E n \in RomNames : rom_compress(n)
  BY <1>3, Compresses
<1>4. CASE \E n \in RomNames : rom_uncompress(n)
  BY <1>4, Uncompresses
<1>5. CASE SaveGame \/ SaveState \/ SaveSettings
  BY <1>5, WritesSaves
<1>6. CASE WriteTemp \/ check_new_file
  BY <1>6, WritesTemp
<1>7. CASE Rename
  BY <1>7, Renames
<1>8. CASE RemoveOld
  BY <1>8, RemovesOld
<1>9. CASE MoveSave
  BY <1>9, MovesSaves
<1>10. CASE OpenOrder
  BY <1>10, OpensOrder
<1>11. CASE Finish
  BY <1>11, Finishes
<1>12. CASE PowerLoss
  BY <1>12, LosesPower
<1>13. QED
  BY <1>1, <1>2, <1>3, <1>4, <1>5, <1>6, <1>7, <1>8, <1>9, <1>10, <1>11, <1>12 DEF Next

LEMMA IInvHolds == Spec => []IInv
BY InitCorrect, StepCorrect, PTL DEF Spec

-----------------------------------------------------------------------------
(* Whatever happens to a conversion, each game's ROM is there, whole       *)
(* (nspire_rom_convert.c, finish).                                         *)
THEOREM RomsKept == Spec => []RomsAreKept
<1>1. IInv => RomsAreKept
  BY DEF IInv, RomsOK
<1>2. QED
  BY <1>1, IInvHolds, PTL

(* No half written or wrongly written file gets the name of a ROM.         *)
THEOREM HalfRomsNever == Spec => []NoHalfRoms
<1>1. IInv => NoHalfRoms
  BY TornAssumption DEF IInv, RomsOK, Roms, NoHalfRoms
<1>2. QED
  BY <1>1, IInvHolds, PTL

(* The running game's path leads to its ROM whenever the game can go on or *)
(* reads its file.                                                         *)
THEOREM RunningRomKept == Spec => []RunningGameHasItsRom
<1>1. IInv => RunningGameHasItsRom
  BY DEF IInv, RunningOK, Renaming, Idle, RunningGameHasItsRom
<1>2. QED
  BY <1>1, IInvHolds, PTL

(* The player's order names each converted game in its old place.          *)
THEOREM PlacesKept == Spec => []ListKeepsPlaces
<1>1. IInv => ListKeepsPlaces
  BY DEF IInv, OrderOK, Places, At, Idle, ListKeepsPlaces
<1>2. QED
  BY <1>1, IInvHolds, PTL

-----------------------------------------------------------------------------
(* Saves are kept.  Each name is one game's from the start, and every name *)
(* that is used later (a ROM's, a zip's, the one looked up last, where the *)
(* running game writes) stays that game's: nothing is ever written over    *)
(* another game's file, and all other steps only move files.               *)

OwnRoms(owner) ==
  \A n \in RomNames : rom[n] # None =>
    /\ owner[n.stem] = rom[n].game
    /\ n.ext = "zip" => owner[rom[n].inner.stem] = rom[n].game

OwnLast(owner) == last # None => owner[last.zip.stem] = owner[last.inner.stem]

OwnJob(owner) ==
  job # None /\ job.step # "order" =>
    /\ owner[job.to.stem] = job.file.game
    /\ owner[job.base.stem] = job.file.game
    /\ job.to.ext = "zip" => owner[job.file.inner.stem] = job.file.game

OwnSession(owner) ==
  playing # None =>
    /\ base_path \in Bases /\ owner[base_path.stem] = playing
    /\ game_file \in Bases /\ owner[game_file.stem] = playing

OwnSaves(owner) ==
  /\ saves \in Saves /\ old \in Saves
  /\ \A b \in Bases : \A k \in Kinds :
       /\ saves[b][k] # None => saves[b][k].by = owner[b.stem]
       /\ old[b][k] # None => old[b][k].by = owner[b.stem]

Kept ==
  /\ saved \in [Games -> [Kinds -> Made \cup {None}]]
  /\ \A g \in Games : \A k \in Kinds : saved[g][k] # None => saved[g][k].by = g
  /\ SavesAreKept

Owned(owner) ==
  OwnRoms(owner) /\ OwnLast(owner) /\ OwnJob(owner) /\ OwnSession(owner) /\ OwnSaves(owner) /\ Kept

(* The name that a ROM's saves go by is its game's.                        *)
LEMMA OwnName ==
  ASSUME IInv, NEW owner, OwnRoms(owner), OwnLast(owner), NEW n \in RomNames, rom[n] \in File
  PROVE  Name(n) \in Bases /\ owner[Name(n).stem] = rom[n].game
<1>1. rom[n] # None
  BY NoneAssumption
<1>2. Name(n) \in Bases
  BY NameInBases DEF IInv
<1>3. CASE n.ext # "zip"
  BY <1>1, <1>2, <1>3 DEF Name, Base, OwnRoms
<1>4. CASE n.ext = "zip" /\ last # None /\ last.zip = n
  BY <1>1, <1>2, <1>4 DEF Name, OwnRoms, OwnLast
<1>5. CASE n.ext = "zip" /\ ~(last # None /\ last.zip = n)
  BY <1>1, <1>2, <1>5 DEF Name, OwnRoms
<1>6. QED
  BY <1>3, <1>4, <1>5

LEMMA OwnLookUp ==
  ASSUME IInv, NEW owner, OwnRoms(owner), OwnLast(owner), NEW n \in RomNames, rom[n] \in File,
         LookUp(n)
  PROVE  OwnLast(owner)'
<1>1. rom[n] # None
  BY NoneAssumption
<1>2. owner[Name(n).stem] = rom[n].game
  BY OwnName
<1>3. CASE n.ext = "zip"
  <2>1. last' = [zip |-> n, inner |-> Name(n)]
    BY <1>3 DEF LookUp
  <2>2. last'.zip = n /\ last'.inner = Name(n)
    BY <2>1
  <2>3. owner[n.stem] = rom[n].game
    BY <1>1 DEF OwnRoms
  <2>4. QED
    BY <1>2, <2>2, <2>3 DEF OwnLast
<1>4. CASE n.ext # "zip"
  BY <1>4 DEF LookUp, OwnLast
<1>5. QED
  BY <1>3, <1>4

(* A file of each name, in the saves folder or beside the ROMs.            *)
LEMMA SavesTyped ==
  ASSUME saves \in Saves, NEW b \in Bases, NEW k \in Kinds
  PROVE  saves[b] \in [Kinds -> Made \cup {None}] /\ saves[b][k] \in Made \cup {None}
BY DEF Saves

(* Old files only move to where there are none.                            *)
LEMMA MovesOld ==
  ASSUME NEW which, MoveOld(which), NEW owner, OwnSaves(owner), Kept, saved' = saved
  PROVE  OwnSaves(owner)' /\ Kept'
<1> DEFINE Moves(b, k) == <<b, k>> \in which /\ saves[b][k] = None
<1>1. \A b \in Bases : \A k \in Kinds :
        /\ saves'[b][k] = IF Moves(b, k) THEN old[b][k] ELSE saves[b][k]
        /\ old'[b][k] = IF Moves(b, k) THEN None ELSE old[b][k]
  BY DEF MoveOld
<1>2. saves \in Saves /\ old \in Saves
  BY DEF OwnSaves
<1>3. saves' \in Saves
  <2>1. \A b \in Bases : \A k \in Kinds :
          (IF Moves(b, k) THEN old[b][k] ELSE saves[b][k]) \in Made \cup {None}
    BY <1>2 DEF Saves
  <2>2. saves' = [b \in Bases |-> [k \in Kinds |-> IF Moves(b, k) THEN old[b][k] ELSE saves[b][k]]]
    BY DEF MoveOld
  <2> HIDE DEF Moves
  <2>3. QED
    BY <2>1, <2>2 DEF Saves
<1>4. old' \in Saves
  <2>1. \A b \in Bases : \A k \in Kinds :
          (IF Moves(b, k) THEN None ELSE old[b][k]) \in Made \cup {None}
    BY <1>2 DEF Saves
  <2>2. old' = [b \in Bases |-> [k \in Kinds |-> IF Moves(b, k) THEN None ELSE old[b][k]]]
    BY DEF MoveOld
  <2> HIDE DEF Moves
  <2>3. QED
    BY <2>1, <2>2 DEF Saves
<1> HIDE DEF Moves
<1>5. OwnSaves(owner)'
  BY <1>1, <1>3, <1>4 DEF OwnSaves
<1>6. SavesAreKept'
  <2> SUFFICES ASSUME NEW g \in Games, NEW k \in Kinds, saved[g][k] # None
               PROVE  \E b \in Bases : saved[g][k] \in {saves'[b][k], old'[b][k]}
    BY DEF SavesAreKept
  <2>1. PICK b \in Bases : saved[g][k] \in {saves[b][k], old[b][k]}
    BY DEF Kept, SavesAreKept
  <2>2. saved[g][k] \in {saves'[b][k], old'[b][k]}
    BY <1>1, <2>1 DEF Moves
  <2>3. QED
    BY <2>2
<1>7. QED
  BY <1>5, <1>6 DEF Kept

(* The running game writes under a name of its own.                        *)
LEMMA WritesOwn ==
  ASSUME NEW owner, OwnSaves(owner), Kept, NEW base \in Bases, NEW kind \in Kinds,
         playing \in Games, owner[base.stem] = playing, Written(base, kind)
  PROVE  OwnSaves(owner)' /\ Kept'
<1>1. PICK made \in Made : made = [by |-> playing, at |-> "last"]
  BY DEF Made
<1>2. /\ saves' = [saves EXCEPT ![base] = [@ EXCEPT ![kind] = made]]
      /\ saved' = [saved EXCEPT ![playing] = [@ EXCEPT ![kind] = made]]
      /\ old' = old
  BY <1>1 DEF Written
<1>3. saves \in Saves /\ old \in Saves /\ saved \in [Games -> [Kinds -> Made \cup {None}]]
  BY DEF OwnSaves, Kept
<1>4. /\ saves' \in Saves
      /\ \A b \in Bases : \A k \in Kinds :
           saves'[b][k] = IF b = base /\ k = kind THEN made ELSE saves[b][k]
  BY <1>2, <1>3 DEF Saves
<1>5. /\ saved' \in [Games -> [Kinds -> Made \cup {None}]]
      /\ \A g \in Games : \A k \in Kinds :
           saved'[g][k] = IF g = playing /\ k = kind THEN made ELSE saved[g][k]
  BY <1>2, <1>3
<1>6. made.by = playing
  BY <1>1
<1>7. OwnSaves(owner)'
  BY <1>2, <1>3, <1>4, <1>6 DEF OwnSaves
<1>8. \A g \in Games : \A k \in Kinds : saved'[g][k] # None => saved'[g][k].by = g
  BY <1>5, <1>6 DEF Kept
<1>9. SavesAreKept'
  <2> SUFFICES ASSUME NEW g \in Games, NEW k \in Kinds, saved'[g][k] # None
               PROVE  \E b \in Bases : saved'[g][k] \in {saves'[b][k], old[b][k]}
    BY <1>2 DEF SavesAreKept
  <2>1. CASE g = playing /\ k = kind
    BY <1>4, <1>5, <2>1
  <2>2. CASE ~(g = playing /\ k = kind)
    <3>1. saved'[g][k] = saved[g][k]
      BY <1>5, <2>2
    <3>2. PICK b \in Bases : saved[g][k] \in {saves[b][k], old[b][k]}
      BY <3>1 DEF Kept, SavesAreKept
    <3>3. CASE b = base /\ k = kind /\ saved[g][k] = saves[b][k]
      BY <2>2, <3>1, <3>3 DEF OwnSaves, Kept
    <3>4. CASE ~(b = base /\ k = kind /\ saved[g][k] = saves[b][k])
      BY <1>4, <3>1, <3>2, <3>4
    <3>5. QED
      BY <3>3, <3>4
  <2>3. QED
    BY <2>1, <2>2
<1>10. QED
  BY <1>5, <1>7, <1>8, <1>9 DEF Kept

(* A conversion moves a file to where there is none.                       *)
LEMMA MovedFiles ==
  ASSUME saves \in Saves, NEW kind \in Kinds, NEW to, to = Base(job.to.stem),
         NEW base \in Bases, base = job.base, saves' = Moved(kind)
  PROVE  LET moves == saves[base][kind] # None /\ saves[to][kind] = None IN
         /\ saves' \in Saves
         /\ \A b \in Bases : \A k \in Kinds :
              saves'[b][k] = IF moves /\ k = kind /\ b = to THEN saves[base][kind]
                             ELSE IF moves /\ k = kind /\ b = base THEN None
                             ELSE saves[b][k]
<1> DEFINE moves == saves[base][kind] # None /\ saves[to][kind] = None
<1>1. PICK file \in Made \cup {None} : file = saves[base][kind]
  BY DEF Saves
<1>2. CASE ~moves
  <2>1. saves' = [b \in Bases |-> saves[b]]
    BY <1>2 DEF Moved
  <2>2. QED
    BY <1>2, <2>1 DEF Saves
<1>3. CASE moves
  <2>1. saves' = [b \in Bases |->
                    IF b = to THEN [saves[b] EXCEPT ![kind] = file]
                    ELSE IF b = base THEN [saves[b] EXCEPT ![kind] = None] ELSE saves[b]]
    BY <1>1, <1>3 DEF Moved
  <2> HIDE DEF moves
  <2>2. /\ saves' \in Saves
        /\ \A b \in Bases : \A k \in Kinds :
             saves'[b][k] = IF k = kind /\ b = to THEN file
                            ELSE IF k = kind /\ b = base THEN None
                            ELSE saves[b][k]
    BY <1>1, <2>1 DEF Saves
  <2> USE DEF moves
  <2>3. QED
    BY <1>1, <1>3, <2>2
<1>4. QED
  BY <1>2, <1>3

LEMMA MovesOwn ==
  ASSUME NEW owner, OwnSaves(owner), Kept, NEW kind \in Kinds,
         job.base \in Bases, Base(job.to.stem) \in Bases, owner[job.base.stem] = owner[job.to.stem],
         saves' = Moved(kind), UNCHANGED <<old, saved>>
  PROVE  OwnSaves(owner)' /\ Kept'
<1> DEFINE to == Base(job.to.stem)
           moves == saves[job.base][kind] # None /\ saves[to][kind] = None
<1>1. saves \in Saves /\ old \in Saves
  BY DEF OwnSaves
<1>2. /\ saves' \in Saves
      /\ \A b \in Bases : \A k \in Kinds :
           saves'[b][k] = IF moves /\ k = kind /\ b = to THEN saves[job.base][kind]
                          ELSE IF moves /\ k = kind /\ b = job.base THEN None
                          ELSE saves[b][k]
  BY <1>1, MovedFiles
<1>3. to.stem = job.to.stem
  BY DEF Base
<1> HIDE DEF to
<1>4. OwnSaves(owner)'
  BY <1>1, <1>2, <1>3 DEF OwnSaves
<1>5. SavesAreKept'
  <2> SUFFICES ASSUME NEW g \in Games, NEW k \in Kinds, saved[g][k] # None
               PROVE  \E b \in Bases : saved[g][k] \in {saves'[b][k], old[b][k]}
    BY DEF SavesAreKept
  <2>1. PICK b \in Bases : saved[g][k] \in {saves[b][k], old[b][k]}
    BY DEF Kept, SavesAreKept
  <2>2. to \in Bases
    BY DEF to
  <2>3. CASE moves /\ k = kind /\ b = job.base
    BY <1>2, <2>1, <2>2, <2>3
  <2>4. CASE ~(moves /\ k = kind /\ b = job.base)
    BY <1>2, <2>1, <2>4
  <2>5. QED
    BY <2>3, <2>4
<1>6. QED
  BY <1>4, <1>5 DEF Kept

(* What does not concern the owners: a step that leaves the files of saves *)
(* where they are.                                                         *)
LEMMA SavesStay ==
  ASSUME NEW owner, OwnSaves(owner), Kept, UNCHANGED <<saves, old, saved>>
  PROVE  OwnSaves(owner)' /\ Kept'
BY DEF OwnSaves, Kept, SavesAreKept

(* On a folder in which each name is one game's.                           *)
LEMMA OwnedFrom ==
  ASSUME NEW d, NEW owner, Owns(owner, d),
         d.rom \in Roms, d.saves \in Saves, d.old \in Saves,
         rom = d.rom, saves = d.saves, old = d.old, playing = None, last = None, job = None,
         saved = [g \in Games |-> [k \in Kinds |-> Latest(g, k, d)]]
  PROVE  Owned(owner)
<1>1. OwnRoms(owner)
  BY DEF Owns, OwnRoms, NameOn
<1>2. OwnLast(owner) /\ OwnJob(owner) /\ OwnSession(owner)
  BY DEF OwnLast, OwnJob, OwnSession
<1>3. OwnSaves(owner)
  <2> SUFFICES ASSUME NEW b \in Bases, NEW k \in Kinds
               PROVE  /\ saves[b][k] # None => saves[b][k].by = owner[b.stem]
                      /\ old[b][k] # None => old[b][k].by = owner[b.stem]
    BY DEF OwnSaves
  <2>1. \A m \in {saves[b][k], old[b][k]} : m # None => owner[b.stem] = m.by
    BY DEF Owns
  <2>2. QED
    BY <2>1
<1>4. \A g \in Games : \A k \in Kinds :
        \/ Latest(g, k, d) = None
        \/ /\ Latest(g, k, d) \in Made /\ Latest(g, k, d).by = g
           /\ \E b \in Bases : Latest(g, k, d) \in {d.saves[b][k], d.old[b][k]}
  <2> SUFFICES ASSUME NEW g \in Games, NEW k \in Kinds
               PROVE  \/ Latest(g, k, d) = None
                      \/ /\ Latest(g, k, d) \in Made /\ Latest(g, k, d).by = g
                         /\ \E b \in Bases : Latest(g, k, d) \in {d.saves[b][k], d.old[b][k]}
    OBVIOUS
  <2> DEFINE made == {m \in {d.saves[b][k] : b \in Bases} \cup {d.old[b][k] : b \in Bases} :
                        m # None /\ m.by = g}
             last_made == {m \in made : m.at = "last"}
             from == IF last_made = {} THEN made ELSE last_made
  <2>1. Latest(g, k, d) = IF made = {} THEN None ELSE CHOOSE m \in from : TRUE
    BY DEF Latest
  <2>2. \A m \in made :
          m \in Made /\ m.by = g /\ \E b \in Bases : m \in {d.saves[b][k], d.old[b][k]}
    BY DEF Saves
  <2>3. made # {} => from # {} /\ from \subseteq made
    OBVIOUS
  <2> HIDE DEF made, last_made, from
  <2>4. CASE made = {}
    BY <2>1, <2>4
  <2>5. CASE made # {}
    <3>1. PICK m \in from : m = Latest(g, k, d)
      BY <2>1, <2>3, <2>5
    <3>2. QED
      BY <2>2, <2>3, <2>5, <3>1
  <2>6. QED
    BY <2>4, <2>5
<1>5. Kept
  <2>1. \A g \in Games : \A k \in Kinds : saved[g][k] = Latest(g, k, d)
    OBVIOUS
  <2>2. saved \in [Games -> [Kinds -> Made \cup {None}]]
    <3>1. \A g \in Games : \A k \in Kinds : Latest(g, k, d) \in Made \cup {None}
      BY <1>4
    <3>2. QED
      BY <3>1
  <2>3. SavesAreKept
    BY <1>4, <2>1 DEF SavesAreKept
  <2>4. QED
    BY <1>4, <2>1, <2>2, <2>3 DEF Kept
<1>6. QED
  BY <1>1, <1>2, <1>3, <1>5 DEF Owned

LEMMA OwnedInit ==
  ASSUME Init, OwnNames
  PROVE  \E owner \in [Stems -> Games] : Owned(owner)
<1>1. PICK d \in DISKS :
        /\ rom = d.rom /\ saves = d.saves /\ old = d.old
        /\ playing = None /\ last = None /\ job = None
        /\ saved = [g \in Games |-> [k \in Kinds |-> Latest(g, k, d)]]
  BY DEF Init
<1>2. PICK owner \in [Stems -> Games] : Owns(owner, d)
  BY <1>1 DEF OwnNames
<1>3. d.rom \in Roms /\ d.saves \in Saves /\ d.old \in Saves
  BY <1>1, DisksAssumption
<1>4. QED
  BY <1>1, <1>2, <1>3, OwnedFrom

LEMMA OwnedStarts ==
  ASSUME IInv, NEW owner, Owned(owner), NEW n \in RomNames,
         Start(n) \/ \E which \in SUBSET OldFiles : StartIsCut(n, which)
  PROVE  Owned(owner)'
<1>1. job = None /\ rom[n] \in File /\ rom[n] # None
  BY NoneAssumption DEF Start, StartIsCut, Idle, IInv, RomsOK, Roms
<1>2. UNCHANGED <<rom, job, saved>>
  BY DEF Start, StartIsCut, history
<1>3. OwnRoms(owner)' /\ OwnJob(owner)'
  BY <1>1, <1>2 DEF Owned, OwnRoms, OwnJob
<1>4. OwnLast(owner)'
  <2>1. CASE Start(n)
    BY <1>1, <2>1, OwnLookUp DEF Start, Owned
  <2>2. CASE \E which \in SUBSET OldFiles : StartIsCut(n, which)
    BY <2>2 DEF StartIsCut, OwnLast
  <2>3. QED
    BY <2>1, <2>2
<1>5. OwnSession(owner)'
  <2>1. CASE Start(n)
    BY <1>1, <2>1, OwnName DEF Start, Owned, OwnSession
  <2>2. CASE \E which \in SUBSET OldFiles : StartIsCut(n, which)
    BY <2>2 DEF StartIsCut, OwnSession
  <2>3. QED
    BY <2>1, <2>2
<1>6. \E which : MoveOld(which)
  BY DEF Start, StartIsCut
<1>7. OwnSaves(owner)' /\ Kept'
  BY <1>2, <1>6, MovesOld DEF Owned
<1>8. QED
  BY <1>3, <1>4, <1>5, <1>7 DEF Owned

LEMMA OwnedWrites ==
  ASSUME IInv, NEW owner, Owned(owner), SaveGame \/ SaveState \/ SaveSettings
  PROVE  Owned(owner)'
<1>1. /\ job = None /\ playing \in Games
      /\ rom[gamepak_filename] \in File /\ rom[gamepak_filename].game = playing
      /\ gamepak_filename \in RomNames
  BY DEF SaveGame, SaveState, SaveSettings, Idle, IInv, RunningOK, Renaming
<1>2. UNCHANGED <<rom, job, session>>
  BY DEF SaveGame, SaveState, SaveSettings, Written, files, history
<1>3. OwnRoms(owner)' /\ OwnJob(owner)'
  BY <1>1, <1>2 DEF Owned, OwnRoms, OwnJob
<1>4. OwnLast(owner)'
  <2>1. CASE SaveGame
    BY <1>1, <2>1, OwnLookUp DEF SaveGame, Owned
  <2>2. CASE SaveState \/ SaveSettings
    BY <2>2 DEF SaveState, SaveSettings, Owned, OwnLast
  <2>3. QED
    BY <2>1, <2>2
<1>5. OwnSession(owner)'
  BY <1>2 DEF Owned, OwnSession, session
<1>6. \E base \in Bases : \E kind \in Kinds : owner[base.stem] = playing /\ Written(base, kind)
  <2>1. playing # None
    BY DEF SaveGame, SaveState, SaveSettings
  <2>2. {"sav", "state", "settings"} = Kinds
    BY DEF Kinds
  <2>3. CASE SaveGame
    <3>1. Name(gamepak_filename) \in Bases /\ owner[Name(gamepak_filename).stem] = playing
      BY <1>1, OwnName DEF Owned
    <3>2. QED
      BY <2>2, <2>3, <3>1 DEF SaveGame
  <2>4. CASE SaveState
    BY <2>1, <2>2, <2>4 DEF SaveState, Owned, OwnSession
  <2>5. CASE SaveSettings
    BY <2>1, <2>2, <2>5 DEF SaveSettings, Owned, OwnSession
  <2>6. QED
    BY <2>3, <2>4, <2>5
<1>7. OwnSaves(owner)' /\ Kept'
  BY <1>1, <1>6, WritesOwn DEF Owned
<1>8. QED
  BY <1>3, <1>4, <1>5, <1>7 DEF Owned

LEMMA OwnedConverts ==
  ASSUME IInv, NEW owner, Owned(owner), NEW n \in RomNames, rom_compress(n) \/ rom_uncompress(n)
  PROVE  Owned(owner)'
<1>1. rom[n] \in File /\ rom[n] # None
  BY DEF rom_compress, rom_uncompress, IInv, RomsOK, Roms
<1>2. UNCHANGED <<rom, saves, old, session, saved>>
  BY DEF rom_compress, rom_uncompress, Converts, history
<1>3. OwnRoms(owner)'
  BY <1>2 DEF Owned, OwnRoms
<1>4. OwnLast(owner)'
  BY <1>1, OwnLookUp DEF rom_compress, rom_uncompress, Owned, OwnLast
<1>5. OwnJob(owner)'
  <2>1. CASE rom_compress(n)
    <3>1. /\ job'.to.stem = n.stem /\ job'.base = Base(n.stem) /\ job'.file.game = rom[n].game
          /\ job'.file.inner = Base(n.stem)
      BY <2>1 DEF rom_compress, Converts
    <3>2. Base(n.stem).stem = n.stem
      BY DEF Base
    <3>3. QED
      BY <1>1, <3>1, <3>2 DEF OwnJob, Owned, OwnRoms
  <2>2. CASE rom_uncompress(n)
    <3>1. /\ job'.to = Base(Name(n).stem) /\ job'.base = Name(n) /\ job'.file.game = rom[n].game
      BY <2>2 DEF rom_uncompress, Converts
    <3>2. job'.to.stem = Name(n).stem /\ job'.to.ext # "zip"
      BY <3>1 DEF Base
    <3>3. owner[Name(n).stem] = rom[n].game
      BY <1>1, OwnName DEF Owned
    <3>4. QED
      BY <3>1, <3>2, <3>3 DEF OwnJob
  <2>3. QED
    BY <2>1, <2>2
<1>6. OwnSession(owner)'
  BY <1>2 DEF Owned, OwnSession, session
<1>7. OwnSaves(owner)' /\ Kept'
  BY <1>2, SavesStay DEF Owned
<1>8. QED
  BY <1>3, <1>4, <1>5, <1>6, <1>7 DEF Owned

(* The steps of a conversion keep its names.                               *)
LEMMA OwnedStepsOn ==
  ASSUME IInv, NEW owner, Owned(owner),
         WriteTemp \/ check_new_file \/ Rename \/ RemoveOld \/ MoveSave \/ OpenOrder
  PROVE  Owned(owner)'
<1>1. job # None
  BY DEF WriteTemp, check_new_file, Rename, RemoveOld, MoveSave, OpenOrder, At
<1>2. job.step # "order" /\ job \in Converting /\ Stage
  BY <1>1 DEF WriteTemp, check_new_file, Rename, RemoveOld, MoveSave, OpenOrder, At, IInv, JobOK,
              Ordering
<1>3. UNCHANGED <<old, session, last, saved>>
  BY DEF WriteTemp, check_new_file, Rename, RemoveOld, MoveSave, OpenOrder, history, files
<1>4. \/ job' = None
      \/ job'.step = "order"
      \/ job'.to = job.to /\ job'.base = job.base /\ job'.file = job.file
  <2>1. CASE WriteTemp
    BY <1>2, <2>1 DEF WriteTemp, GivesUp, Converting
  <2>2. CASE check_new_file
    BY <1>2, <2>2 DEF check_new_file, GivesUp, Goes, Converting
  <2>3. CASE Rename
    BY <1>2, <2>3 DEF Rename, GivesUp, TakesName, Goes, Converting
  <2>4. CASE RemoveOld
    BY <1>2, <2>4 DEF RemoveOld, Goes, Converting
  <2>5. CASE MoveSave
    BY <1>2, <2>5 DEF MoveSave, Converting
  <2>6. CASE OpenOrder
    BY <2>6 DEF OpenOrder
  <2>7. QED
    BY <2>1, <2>2, <2>3, <2>4, <2>5, <2>6
<1>5. OwnJob(owner)'
  BY <1>1, <1>2, <1>4 DEF Owned, OwnJob
<1>6. OwnLast(owner)' /\ OwnSession(owner)'
  BY <1>3 DEF Owned, OwnLast, OwnSession, session
<1>7. OwnRoms(owner)'
  <2>1. rom \in Roms /\ job.to \in RomNames /\ job.from \in RomNames
    BY <1>2 DEF IInv, RomsOK, Converting
  <2>2. \A m \in RomNames : rom'[m] = rom[m] \/ rom'[m] = None \/ (m = job.to /\ rom'[m] = job.file)
    <3>1. \/ rom' = rom
          \/ rom' = [rom EXCEPT ![job.to] = job.file]
          \/ rom' = [rom EXCEPT ![job.from] = None]
      BY <1>2 DEF WriteTemp, check_new_file, Rename, RemoveOld, MoveSave, OpenOrder, GivesUp,
                  TakesName, Stage, At
    <3>2. QED
      BY <2>1, <3>1 DEF Roms
  <2>3. QED
    BY <1>1, <1>2, <2>2 DEF Owned, OwnRoms, OwnJob
<1>8. OwnSaves(owner)' /\ Kept'
  <2>1. CASE MoveSave
    <3>1. PICK kind \in Kinds : saves' = Moved(kind)
      <4>1. job.moves \in Seq(Kinds) /\ job.moves # <<>>
        BY <1>2, <2>1 DEF MoveSave, Converting
      <4>2. Head(job.moves) \in Kinds
        BY <4>1
      <4>3. QED
        BY <2>1, <4>2 DEF MoveSave
    <3>2. /\ job.base \in Bases /\ Base(job.to.stem) \in Bases
          /\ owner[job.base.stem] = owner[job.to.stem]
      BY <1>1, <1>2 DEF Converting, RomNames, Base, Bases, Owned, OwnJob
    <3>3. QED
      BY <1>3, <3>1, <3>2, MovesOwn DEF Owned
  <2>2. CASE ~MoveSave
    BY <1>3, <2>2, SavesStay DEF WriteTemp, check_new_file, Rename, RemoveOld, OpenOrder, Owned
  <2>3. QED
    BY <2>1, <2>2
<1>9. QED
  BY <1>5, <1>6, <1>7, <1>8 DEF Owned

LEMMA OwnedFinishes ==
  ASSUME IInv, NEW owner, Owned(owner), Finish
  PROVE  Owned(owner)'
<1>1. job # None /\ job.step = "order" /\ job \in Ordering /\ rom[job.to] \in File /\ job' = None
  BY DEF Finish, At, IInv, JobOK, Converting
<1>2. job.to \in RomNames
  BY <1>1 DEF Ordering
<1>3. UNCHANGED <<rom, saves, old, saved, playing, game_file>>
  BY DEF Finish, history, session
<1>4. OwnRoms(owner)' /\ OwnJob(owner)'
  BY <1>1, <1>3 DEF Owned, OwnRoms, OwnJob
<1>5. OwnLast(owner)'
  BY <1>1, <1>2, OwnLookUp DEF Finish, Owned, OwnLast
<1>6. OwnSession(owner)'
  <2>1. CASE job.from = gamepak_filename /\ playing # None
    <3>1. rom[job.to].game = playing
      BY <1>1, <2>1 DEF IInv, RunningOK, Renaming
    <3>2. base_path' = Name(job.to)
      BY <2>1 DEF Finish
    <3>3. QED
      BY <1>1, <1>2, <1>3, <3>1, <3>2, OwnName DEF Owned, OwnSession
  <2>2. CASE ~(job.from = gamepak_filename /\ playing # None)
    BY <1>3, <2>2 DEF Finish, Owned, OwnSession, session
  <2>3. QED
    BY <2>1, <2>2
<1>7. OwnSaves(owner)' /\ Kept'
  BY <1>3, SavesStay DEF Owned
<1>8. QED
  BY <1>4, <1>5, <1>6, <1>7 DEF Owned

LEMMA OwnedStep ==
  ASSUME IInv, NEW owner, Owned(owner), [Next]_vars
  PROVE  Owned(owner)'
<1>1. CASE UNCHANGED vars
  BY <1>1 DEF vars, files, session, history, Owned, OwnRoms, OwnLast, OwnJob, OwnSession, OwnSaves,
              Kept, SavesAreKept
<1>2. CASE PowerLoss
  <2>1. UNCHANGED <<rom, saves, old, saved>> /\ job' = None /\ last' = None /\ playing' = None
    BY <1>2 DEF PowerLoss, files
  <2>2. OwnSaves(owner)' /\ Kept'
    BY <2>1, SavesStay DEF Owned
  <2>3. QED
    BY <2>1, <2>2 DEF Owned, OwnRoms, OwnLast, OwnJob, OwnSession
<1>3. QED
  BY <1>1, <1>2, OwnedStarts, OwnedWrites, OwnedConverts, OwnedStepsOn, OwnedFinishes DEF Next

(* The last save, state and settings of each game are somewhere            *)
(* (nspire_paths.c, move_file; nspire_states.c, nspire_game_name), if no   *)
(* two games use one name in the folder.                                   *)
THEOREM SavesKept ==
  ASSUME OwnNames
  PROVE  Spec => []SavesAreKept
<1> DEFINE Ours == IInv /\ \E owner \in [Stems -> Games] : Owned(owner)
<1>1. Init => Ours
  BY InitCorrect, OwnedInit
<1>2. Ours /\ [Next]_vars => Ours'
  <2> SUFFICES ASSUME Ours, [Next]_vars PROVE Ours'
    OBVIOUS
  <2>1. PICK owner \in [Stems -> Games] : Owned(owner)
    OBVIOUS
  <2>2. Owned(owner)'
    BY <2>1, OwnedStep
  <2>3. IInv'
    BY StepCorrect
  <2>4. QED
    BY <2>2, <2>3
<1>3. Ours => SavesAreKept
  BY DEF Owned, Kept
<1>4. QED
  BY <1>1, <1>2, <1>3, PTL DEF Spec

-----------------------------------------------------------------------------
(* Saves are found.  Whatever is converted, a game's ROM is the one it had *)
(* on the disk (first, whose saves go by name) or one that a conversion    *)
(* made, and all of those go by one name, its home.  So it is enough to    *)
(* say where its saves are: at home once the first ROM is gone and its     *)
(* saves were moved, and until then, with nothing at home, under name.     *)

FoundKinds == {"sav", "state"}
Home(b) == Base(b.stem)

(* What is fixed from the start.                                           *)
Folder(owner, first, name) ==
  /\ first \in [Games -> RomNames] /\ name \in [Games -> Bases]
  /\ \A g \in Games :
       /\ owner[first[g].stem] = g /\ owner[name[g].stem] = g
       /\ first[g].ext # "zip" => name[g] = Home(first[g])
       /\ name[g] # Home(name[g]) => name[g].stem # first[g].stem

Form(first, name, n, file) ==
  \/ /\ n = first[file.game]
     /\ n.ext = "zip" => file.inner = name[file.game]
  \/ /\ n.stem = name[file.game].stem
     /\ n.ext = "zip" => file.inner = Home(name[file.game])

FormsOK(first, name) == \A n \in RomNames : rom[n] # None => Form(first, name, n, rom[n])

(* The first ROM whose saves have to move is the game's only one, but for  *)
(* the one that takes its place.                                           *)
OneRom(first, name) ==
  \A g \in Games \ cut : name[g] # Home(name[g]) /\ rom[first[g]] # None =>
    \A n \in RomNames : rom[n] # None /\ rom[n].game = g => n = first[g] \/ (At("remove") /\ n = job.to)

LastOK(first, name) ==
  last # None => \E g \in Games :
    \/ last.zip = first[g] /\ last.inner = name[g]
    \/ last.zip.stem = name[g].stem /\ last.inner = Home(name[g])

(* The saves that have not moved are the last ones of InOrder.             *)
Unmoved(k) == IF k = "sav" THEN Len(job.moves) = 3 ELSE Len(job.moves) >= 1

JobForm(first, name) ==
  job # None /\ job.step # "order" =>
    /\ job.to.stem = name[job.file.game].stem
    /\ job.to.ext = "zip" => job.file.inner = Home(name[job.file.game])
    /\ job.base = IF job.from = first[job.file.game] THEN name[job.file.game]
                  ELSE Home(name[job.file.game])
    /\ job.base = Home(name[job.file.game]) => Len(job.moves) = 0
    /\ job.base # Home(name[job.file.game]) /\ job.step # "move" => Len(job.moves) = 3
    /\ Len(job.moves) \in 0 .. 3
    /\ \A i \in 1 .. Len(job.moves) : job.moves[i] = InOrder[3 - Len(job.moves) + i]
    /\ job.step = "move" /\ Len(job.moves) >= 1 /\ job.file.game \notin cut => rom[job.from] = None

NameNow(first, name, g) == IF rom[first[g]] # None THEN name[g] ELSE Home(name[g])

(* Until Finish, a running game that was renamed goes by its old name.     *)
SessionOK(first, name) ==
  playing # None =>
    /\ job # None => gamepak_filename # job.to
    /\ playing \notin cut /\ ~Renaming => base_path = NameNow(first, name, playing)

Where(first, name, g, k) ==
  IF At("move") /\ job.file.game = g /\ Unmoved(k) THEN job.base ELSE NameNow(first, name, g)

FilesFound(first, name) ==
  \A g \in Games \ cut : \A k \in FoundKinds :
    /\ saved[g][k] = Found(saves, old, Where(first, name, g, k), k)
    /\ name[g] # Home(name[g]) =>
         /\ old[name[g]][k] = None /\ old[Home(name[g])][k] = None
         /\ Where(first, name, g, k) = name[g] => saves[Home(name[g])][k] = None

Findable(first, name) ==
  /\ FormsOK(first, name) /\ OneRom(first, name) /\ LastOK(first, name) /\ JobForm(first, name)
  /\ SessionOK(first, name) /\ FilesFound(first, name)

LEMMA Homes ==
  ASSUME NEW b \in Bases \cup RomNames
  PROVE  Home(b) \in Bases /\ Home(b).stem = b.stem /\ Home(b).ext = "gba" /\ Home(Home(b)) = Home(b)
BY DEF Home, Base, Bases, RomNames

(* The name of a ROM's saves, however long ago its zip was looked into.    *)
LEMMA NameIs ==
  ASSUME IInv, NEW owner, Owned(owner), NEW first, NEW name, Folder(owner, first, name),
         FormsOK(first, name), LastOK(first, name), NEW n \in RomNames, rom[n] \in File
  PROVE  Name(n) = IF n = first[rom[n].game] THEN name[rom[n].game] ELSE Home(name[rom[n].game])
<1>1. PICK g \in Games : g = rom[n].game
  BY DEF File
<1>2. Form(first, name, n, rom[n]) /\ owner[n.stem] = g
  BY <1>1, NoneAssumption DEF FormsOK, Owned, OwnRoms
<1>3. CASE n.ext # "zip"
  BY <1>1, <1>2, <1>3 DEF Name, Form, Folder, Home
<1>4. CASE n.ext = "zip" /\ ~(last # None /\ last.zip = n)
  <2>1. Name(n) = rom[n].inner
    BY <1>4 DEF Name
  <2>2. CASE n = first[g] /\ n.stem = name[g].stem
    BY <1>1, <1>2, <1>4, <2>1, <2>2 DEF Form, Folder
  <2>3. CASE ~(n = first[g] /\ n.stem = name[g].stem)
    BY <1>1, <1>2, <1>4, <2>1, <2>3 DEF Form
  <2>4. QED
    BY <2>2, <2>3
<1>5. CASE n.ext = "zip" /\ last # None /\ last.zip = n
  <2>1. Name(n) = last.inner
    BY <1>5 DEF Name
  <2>2. PICK h \in Games : \/ n = first[h] /\ last.inner = name[h]
                           \/ n.stem = name[h].stem /\ last.inner = Home(name[h])
    BY <1>5 DEF LastOK
  <2>3. h = g
    BY <1>2, <2>2 DEF Folder
  <2>4. QED
    BY <1>1, <2>1, <2>2, <2>3 DEF Folder
<1>6. QED
  BY <1>3, <1>4, <1>5

LEMMA NameIsNow ==
  ASSUME IInv, NEW owner, Owned(owner), NEW first, NEW name, Folder(owner, first, name),
         FormsOK(first, name), LastOK(first, name), OneRom(first, name), ~At("remove"),
         NEW n \in RomNames, rom[n] \in File, rom[n].game \notin cut
  PROVE  Name(n) = NameNow(first, name, rom[n].game)
<1>1. PICK g \in Games : g = rom[n].game
  BY DEF File
<1>2. rom[n] # None
  BY NoneAssumption
<1>3. Name(n) = IF n = first[g] THEN name[g] ELSE Home(name[g])
  BY <1>1, NameIs
<1>4. CASE n = first[g]
  BY <1>1, <1>2, <1>3, <1>4 DEF NameNow
<1>5. CASE n # first[g]
  BY <1>1, <1>2, <1>3, <1>5 DEF NameNow, OneRom
<1>6. QED
  BY <1>4, <1>5

LEMMA LastIs ==
  ASSUME IInv, NEW owner, Owned(owner), NEW first, NEW name, Folder(owner, first, name),
         FormsOK(first, name), LastOK(first, name), NEW n \in RomNames, rom[n] \in File, LookUp(n)
  PROVE  LastOK(first, name)'
<1>1. PICK g \in Games : g = rom[n].game
  BY DEF File
<1>2. Name(n) = IF n = first[g] THEN name[g] ELSE Home(name[g])
  BY <1>1, NameIs
<1>3. n = first[g] \/ n.stem = name[g].stem
  BY <1>1, NoneAssumption DEF FormsOK, Form
<1>4. CASE n.ext = "zip"
  <2>1. PICK inner : inner = Name(n)
    OBVIOUS
  <2>2. last' = [zip |-> n, inner |-> inner]
    BY <1>4, <2>1 DEF LookUp
  <2>3. last'.zip = n /\ last'.inner = inner
    BY <2>2
  <2>4. QED
    BY <1>2, <1>3, <2>1, <2>3 DEF LastOK
<1>5. CASE n.ext # "zip"
  BY <1>5 DEF LookUp, LastOK
<1>6. QED
  BY <1>4, <1>5

(* Every folder that is started from has all this.                         *)
LEMMA FindableInit ==
  ASSUME Init, OwnNames, FoundAtFirst, NewNamesFree
  PROVE  \E owner, first, name : Owned(owner) /\ Folder(owner, first, name) /\ Findable(first, name)
<1>1. PICK d \in DISKS :
        /\ rom = d.rom /\ saves = d.saves /\ old = d.old
        /\ playing = None /\ last = None /\ job = None /\ cut = {}
        /\ saved = [g \in Games |-> [k \in Kinds |-> Latest(g, k, d)]]
  BY DEF Init
<1>2. PICK owner \in [Stems -> Games] : Owned(owner) /\ Owns(owner, d)
  <2>1. PICK owner \in [Stems -> Games] : Owns(owner, d)
    BY <1>1 DEF OwnNames
  <2>2. Owned(owner)
    <3>1. d.rom \in Roms /\ d.saves \in Saves /\ d.old \in Saves
      BY <1>1, DisksAssumption
    <3>2. QED
      BY <1>1, <2>1, <3>1, OwnedFrom
  <2>3. QED
    BY <2>1, <2>2
<1> DEFINE first == [g \in Games |-> CHOOSE n \in RomNames : d.rom[n] # None /\ d.rom[n].game = g]
           name == [g \in Games |-> NameOn(d, first[g])]
<1>3. \A g \in Games : first[g] \in RomNames /\ d.rom[first[g]] # None /\ d.rom[first[g]].game = g
  <2>1. \A g \in Games : \E n \in RomNames : d.rom[n] # None /\ d.rom[n].game = g
    BY DisksAssumption
  <2>2. QED
    BY <2>1
<1>4. d.rom \in Roms
  BY DisksAssumption
<1>5. \A n \in RomNames : d.rom[n] # None =>
        /\ d.rom[n] \in File /\ d.rom[n].game \in Games
        /\ NameOn(d, n) \in Bases
        /\ d.rom[n].inner = None <=> n.ext # "zip"
  <2> SUFFICES ASSUME NEW n \in RomNames, d.rom[n] # None
               PROVE  /\ d.rom[n] \in File /\ d.rom[n].game \in Games
                      /\ NameOn(d, n) \in Bases
                      /\ d.rom[n].inner = None <=> n.ext # "zip"
    OBVIOUS
  <2>1. d.rom[n] \in File
    BY <1>4 DEF Roms
  <2>2. d.rom[n].game \in Games /\ d.rom[n].inner \in Bases \cup {None}
    BY <2>1 DEF File
  <2>3. d.rom[n].inner = None <=> n.ext # "zip"
    BY DisksAssumption
  <2>4. Base(n.stem) \in Bases
    BY DEF Base, Bases, RomNames
  <2>5. NameOn(d, n) \in Bases
    BY <2>2, <2>3, <2>4 DEF NameOn
  <2>6. QED
    BY <2>1, <2>2, <2>3, <2>5
<1>6. first \in [Games -> RomNames] /\ name \in [Games -> Bases]
  <2>1. first \in [Games -> RomNames]
    BY <1>3
  <2> HIDE DEF first
  <2>2. QED
    BY <1>3, <1>5, <2>1
<1>7. \A n \in RomNames : d.rom[n] # None => n = first[d.rom[n].game]
  BY <1>3, <1>5, DisksAssumption
<1>8. \A g \in Games : name[g] = NameOn(d, first[g])
  OBVIOUS
<1> HIDE DEF first, name
<1>9. Folder(owner, first, name)
  <2> SUFFICES ASSUME NEW g \in Games
               PROVE  /\ owner[first[g].stem] = g /\ owner[name[g].stem] = g
                      /\ first[g].ext # "zip" => name[g] = Home(first[g])
                      /\ name[g] # Home(name[g]) => name[g].stem # first[g].stem
    BY <1>6 DEF Folder
  <2>1. owner[first[g].stem] = g /\ owner[name[g].stem] = g
    BY <1>2, <1>3, <1>8 DEF Owns
  <2>2. first[g].ext # "zip" => name[g] = Home(first[g])
    BY <1>8 DEF NameOn, Home
  <2>3. name[g] # Home(name[g]) => name[g].ext # "gba"
    BY <1>6 DEF Bases, Home, Base
  <2>4. name[g].ext # "gba" => name[g].stem # first[g].stem
    BY <1>3, <1>8 DEF NewNamesFree
  <2>5. QED
    BY <2>1, <2>2, <2>3, <2>4
<1>10. FormsOK(first, name)
  BY <1>1, <1>3, <1>5, <1>7, <1>8 DEF FormsOK, Form, NameOn
<1>11. OneRom(first, name)
  BY <1>1, <1>7 DEF OneRom
<1>12. LastOK(first, name) /\ JobForm(first, name) /\ SessionOK(first, name)
  BY <1>1 DEF LastOK, JobForm, SessionOK
<1>13. FilesFound(first, name)
  <2> SUFFICES ASSUME NEW g \in Games, NEW k \in FoundKinds
               PROVE  /\ saved[g][k] = Found(saves, old, Where(first, name, g, k), k)
                      /\ name[g] # Home(name[g]) =>
                           /\ old[name[g]][k] = None /\ old[Home(name[g])][k] = None
                           /\ Where(first, name, g, k) = name[g] => saves[Home(name[g])][k] = None
    BY DEF FilesFound
  <2>1. Where(first, name, g, k) = name[g]
    BY <1>1, <1>3 DEF Where, NameNow, At
  <2>2. saved[g][k] = Latest(g, k, d)
    BY <1>1 DEF FoundKinds, Kinds
  <2>3. Latest(g, k, d) = Found(d.saves, d.old, name[g], k)
    BY <1>3, <1>8 DEF FoundAtFirst, FoundKinds
  <2>4. ASSUME name[g] # Home(name[g])
        PROVE  /\ d.old[name[g]][k] = None
               /\ d.saves[Home(name[g])][k] = None /\ d.old[Home(name[g])][k] = None
    <3>1. NameOn(d, first[g]).ext # "gba"
      BY <1>6, <1>8, <2>4 DEF Bases, Home, Base
    <3>2. d.old[name[g]][k] = None /\ Found(d.saves, d.old, Home(name[g]), k) = None
      BY <1>3, <1>8, <3>1 DEF NewNamesFree, FoundKinds, Home
    <3>3. QED
      BY <3>2 DEF Found
  <2>5. QED
    BY <1>1, <2>1, <2>2, <2>3, <2>4
<1>14. QED
  BY <1>2, <1>9, <1>10, <1>11, <1>12, <1>13 DEF Findable

(* An old file that is moved is found where it was.                        *)
LEMMA FoundMovesOld ==
  ASSUME NEW first, NEW name, NEW owner, Folder(owner, first, name),
         NEW which, MoveOld(which), FilesFound(first, name),
         job = None, UNCHANGED <<rom, saved, cut, job>>
  PROVE  FilesFound(first, name)'
<1> DEFINE Moves(b, k) == <<b, k>> \in which /\ saves[b][k] = None
<1>1. \A b \in Bases : \A k \in Kinds :
        /\ saves'[b][k] = IF Moves(b, k) THEN old[b][k] ELSE saves[b][k]
        /\ old'[b][k] = IF Moves(b, k) THEN None ELSE old[b][k]
  BY DEF MoveOld
<1> SUFFICES ASSUME NEW g \in Games \ cut, NEW k \in FoundKinds
             PROVE  /\ saved[g][k] = Found(saves', old', Where(first, name, g, k)', k)
                    /\ name[g] # Home(name[g]) =>
                         /\ old'[name[g]][k] = None /\ old'[Home(name[g])][k] = None
                         /\ Where(first, name, g, k)' = name[g] => saves'[Home(name[g])][k] = None
  BY DEF FilesFound
<1>2. k \in Kinds /\ name[g] \in Bases /\ Home(name[g]) \in Bases
  BY Homes DEF FoundKinds, Kinds, Folder
<1>3. PICK b \in Bases : b = Where(first, name, g, k)
  BY <1>2 DEF Where, NameNow, At
<1>4. Where(first, name, g, k)' = b
  BY <1>3 DEF Where, NameNow, At
<1>5. saved[g][k] = Found(saves, old, b, k)
  BY <1>3 DEF FilesFound
<1>6. name[g] # Home(name[g]) =>
        /\ old[name[g]][k] = None /\ old[Home(name[g])][k] = None
        /\ b = name[g] => saves[Home(name[g])][k] = None
  BY <1>3 DEF FilesFound
<1>7. Found(saves', old', b, k) = Found(saves, old, b, k)
  BY <1>1, <1>2 DEF Found
<1>8. QED
  BY <1>1, <1>4, <1>2, <1>5, <1>6, <1>7

LEMMA FindableStarts ==
  ASSUME IInv, NEW owner, Owned(owner), NEW first, NEW name, Folder(owner, first, name),
         Findable(first, name), NEW n \in RomNames,
         Start(n) \/ \E which \in SUBSET OldFiles : StartIsCut(n, which)
  PROVE  Findable(first, name)'
<1>1. job = None /\ rom[n] \in File
  BY DEF Start, StartIsCut, Idle, IInv, RomsOK, Roms
<1>2. UNCHANGED <<rom, job, saved, cut>>
  BY DEF Start, StartIsCut, history
<1>3. ~At("remove")
  BY <1>1 DEF At
<1>4. FormsOK(first, name)' /\ OneRom(first, name)' /\ JobForm(first, name)'
  BY <1>1, <1>2 DEF Findable, FormsOK, OneRom, JobForm, At
<1>5. LastOK(first, name)'
  <2>1. CASE Start(n)
    BY <1>1, <2>1, LastIs DEF Start, Findable
  <2>2. CASE \E which \in SUBSET OldFiles : StartIsCut(n, which)
    BY <2>2 DEF StartIsCut, LastOK
  <2>3. QED
    BY <2>1, <2>2
<1>6. SessionOK(first, name)'
  <2>1. CASE Start(n)
    <3>1. playing' = rom[n].game /\ base_path' = Name(n)
      BY <2>1 DEF Start
    <3>2. rom[n].game \notin cut => Name(n) = NameNow(first, name, rom[n].game)
      BY <1>1, <1>3, NameIsNow DEF Findable
    <3>3. QED
      BY <1>1, <1>2, <3>1, <3>2 DEF SessionOK, NameNow
  <2>2. CASE \E which \in SUBSET OldFiles : StartIsCut(n, which)
    BY <2>2 DEF StartIsCut, SessionOK
  <2>3. QED
    BY <2>1, <2>2
<1>7. FilesFound(first, name)'
  BY <1>1, <1>2, FoundMovesOld DEF Start, StartIsCut, Findable
<1>8. QED
  BY <1>4, <1>5, <1>6, <1>7 DEF Findable

(* The running game writes where it looks.                                 *)
LEMMA FoundWrites ==
  ASSUME NEW owner, Owned(owner), NEW first, NEW name, Folder(owner, first, name),
         FilesFound(first, name), job = None,
         NEW base \in Bases, NEW kind \in Kinds, playing \in Games, owner[base.stem] = playing,
         kind \in FoundKinds /\ playing \notin cut => base = NameNow(first, name, playing),
         Written(base, kind)
  PROVE  FilesFound(first, name)'
<1>1. PICK made \in Made : made = [by |-> playing, at |-> "last"]
  BY DEF Made
<1>2. /\ saves' = [saves EXCEPT ![base] = [@ EXCEPT ![kind] = made]]
      /\ saved' = [saved EXCEPT ![playing] = [@ EXCEPT ![kind] = made]]
      /\ UNCHANGED <<rom, old, cut, job>>
  BY <1>1 DEF Written
<1>3. saves \in Saves /\ saved \in [Games -> [Kinds -> Made \cup {None}]]
  BY DEF Owned, OwnSaves, Kept
<1>4. \A b \in Bases : \A k \in Kinds :
        saves'[b][k] = IF b = base /\ k = kind THEN made ELSE saves[b][k]
  BY <1>2, <1>3 DEF Saves
<1>5. \A g \in Games : \A k \in Kinds :
        saved'[g][k] = IF g = playing /\ k = kind THEN made ELSE saved[g][k]
  BY <1>2, <1>3
<1> SUFFICES ASSUME NEW g \in Games \ cut, NEW k \in FoundKinds
             PROVE  /\ saved'[g][k] = Found(saves', old', Where(first, name, g, k)', k)
                    /\ name[g] # Home(name[g]) =>
                         /\ old'[name[g]][k] = None /\ old'[Home(name[g])][k] = None
                         /\ Where(first, name, g, k)' = name[g] => saves'[Home(name[g])][k] = None
  BY <1>2 DEF FilesFound
<1>6. k \in Kinds /\ name[g] \in Bases /\ Home(name[g]) \in Bases
  BY Homes DEF FoundKinds, Kinds, Folder
<1>7. PICK b \in Bases : b = Where(first, name, g, k) /\ b = NameNow(first, name, g)
  BY <1>6 DEF Where, NameNow, At
<1>8. Where(first, name, g, k)' = b
  BY <1>2, <1>7 DEF Where, NameNow, At
<1>9. saved[g][k] = Found(saves, old, b, k)
  BY <1>7 DEF FilesFound
<1>10. name[g] # Home(name[g]) =>
        /\ old[name[g]][k] = None /\ old[Home(name[g])][k] = None
        /\ b = name[g] => saves[Home(name[g])][k] = None
  BY <1>7 DEF FilesFound
<1>11. owner[b.stem] = g /\ owner[Home(name[g]).stem] = g
  BY <1>6, <1>7, Homes DEF Folder, NameNow
<1>12. made # None
  BY NoneAssumption
<1>13. CASE g = playing /\ k = kind
  BY <1>2, <1>4, <1>5, <1>6, <1>7, <1>8, <1>10, <1>12, <1>13 DEF Found
<1>14. CASE k # kind
  BY <1>2, <1>4, <1>5, <1>6, <1>8, <1>9, <1>10, <1>14 DEF Found
<1>15. CASE g # playing
  BY <1>2, <1>4, <1>5, <1>6, <1>8, <1>9, <1>10, <1>11, <1>15 DEF Found
<1>16. QED
  BY <1>13, <1>14, <1>15

LEMMA FindableWrites ==
  ASSUME IInv, NEW owner, Owned(owner), NEW first, NEW name, Folder(owner, first, name),
         Findable(first, name), SaveGame \/ SaveState \/ SaveSettings
  PROVE  Findable(first, name)'
<1>1. /\ job = None /\ playing \in Games /\ playing # None
      /\ rom[gamepak_filename] \in File /\ rom[gamepak_filename].game = playing
      /\ gamepak_filename \in RomNames
  BY DEF SaveGame, SaveState, SaveSettings, Idle, IInv, RunningOK, Renaming
<1>2. UNCHANGED <<rom, job, cut, session>>
  BY DEF SaveGame, SaveState, SaveSettings, Written, files, history
<1>3. FormsOK(first, name)' /\ OneRom(first, name)' /\ JobForm(first, name)'
  BY <1>1, <1>2 DEF Findable, FormsOK, OneRom, JobForm, At
<1>4. LastOK(first, name)'
  <2>1. CASE SaveGame
    BY <1>1, <2>1, LastIs DEF SaveGame, Findable
  <2>2. CASE SaveState \/ SaveSettings
    BY <2>2 DEF SaveState, SaveSettings, Findable, LastOK
  <2>3. QED
    BY <2>1, <2>2
<1>5. SessionOK(first, name)'
  BY <1>1, <1>2 DEF Findable, SessionOK, session, Renaming, NameNow
<1>6. \E base \in Bases : \E kind \in Kinds :
        /\ owner[base.stem] = playing /\ Written(base, kind)
        /\ kind \in FoundKinds /\ playing \notin cut => base = NameNow(first, name, playing)
  <2>1. "sav" \in Kinds /\ "state" \in Kinds /\ "settings" \in Kinds \ FoundKinds
    BY DEF Kinds, FoundKinds
  <2>2. CASE SaveGame
    <3>1. Name(gamepak_filename) \in Bases /\ owner[Name(gamepak_filename).stem] = playing
      BY <1>1, OwnName DEF Owned
    <3>2. playing \notin cut => Name(gamepak_filename) = NameNow(first, name, playing)
      BY <1>1, NameIsNow DEF Findable, At
    <3>3. QED
      BY <2>1, <2>2, <3>1, <3>2 DEF SaveGame
  <2>3. CASE SaveState
    <3>1. base_path \in Bases /\ owner[base_path.stem] = playing
      BY <1>1 DEF Owned, OwnSession
    <3>2. playing \notin cut => base_path = NameNow(first, name, playing)
      BY <1>1 DEF Findable, SessionOK, Renaming
    <3>3. QED
      BY <2>1, <2>3, <3>1, <3>2 DEF SaveState
  <2>4. CASE SaveSettings
    <3>1. game_file \in Bases /\ owner[game_file.stem] = playing
      BY <1>1 DEF Owned, OwnSession
    <3>2. QED
      BY <2>1, <2>4, <3>1 DEF SaveSettings
  <2>5. QED
    BY <2>2, <2>3, <2>4
<1>7. FilesFound(first, name)'
  <2>1. PICK base \in Bases, kind \in Kinds :
          /\ owner[base.stem] = playing /\ Written(base, kind)
          /\ kind \in FoundKinds /\ playing \notin cut => base = NameNow(first, name, playing)
    BY <1>6
  <2>2. QED
    BY <1>1, <2>1, FoundWrites DEF Findable
<1>8. QED
  BY <1>3, <1>4, <1>5, <1>7 DEF Findable

(* A conversion starts.                                                    *)
LEMMA FindableConverts ==
  ASSUME IInv, NEW owner, Owned(owner), NEW first, NEW name, Folder(owner, first, name),
         Findable(first, name), NEW n \in RomNames, rom_compress(n) \/ rom_uncompress(n)
  PROVE  Findable(first, name)'
<1>1. job = None /\ rom[n] \in File /\ rom[n] # None
  BY DEF rom_compress, rom_uncompress, Converts, Idle, IInv, RomsOK, Roms
<1>2. UNCHANGED <<rom, saves, old, session, saved, cut>>
  BY DEF rom_compress, rom_uncompress, Converts, history
<1>3. PICK g \in Games : g = rom[n].game
  BY <1>1 DEF File
<1>4. Name(n) = IF n = first[g] THEN name[g] ELSE Home(name[g])
  BY <1>1, <1>3, NameIs DEF Findable
<1>5. name[g] \in Bases /\ Home(name[g]).stem = name[g].stem /\ Home(Home(name[g])) = Home(name[g])
  BY Homes DEF Folder
<1>6. n.ext # "zip" => Base(n.stem) = Name(n)
  BY DEF Name
<1>7. Form(first, name, n, rom[n])
  BY <1>1 DEF Findable, FormsOK
<1>8. Name(n).stem = name[g].stem /\ Base(Name(n).stem) = Home(name[g])
  BY <1>4, <1>5 DEF Home
<1>9. rom_compress(n) => Name(n) = Home(name[g])
  <2>1. rom_compress(n) => n.ext # "zip" /\ Base(n.stem) = Home(Base(n.stem))
    BY DEF rom_compress, Home, Base
  <2>2. QED
    BY <1>6, <1>8, <2>1 DEF Home
<1>10. /\ job'.step = "write" /\ job'.from = n /\ job'.file.game = g
       /\ job'.base = Name(n) /\ job'.to.stem = name[g].stem
       /\ job'.to.ext = "zip" => job'.file.inner = Home(name[g])
       /\ rom[job'.to] = None
       /\ job'.moves = IF Name(n) = Home(name[g]) THEN <<>> ELSE InOrder
  <2>1. CASE rom_compress(n)
    <3>1. n.stem = name[g].stem
      <4>1. Base(n.stem).stem = n.stem
        BY DEF Base
      <4>2. QED
        BY <1>6, <1>8, <2>1, <4>1 DEF rom_compress
    <3>2. /\ job'.step = "write" /\ job'.from = n /\ job'.file.game = g
          /\ job'.base = Base(n.stem) /\ job'.to.stem = n.stem
          /\ job'.file.inner = Base(n.stem) /\ rom[job'.to] = None
          /\ job'.moves = IF Base(n.stem) = Base(n.stem) THEN <<>> ELSE InOrder
      BY <1>3, <2>1 DEF rom_compress, Converts
    <3>3. QED
      BY <1>6, <1>9, <2>1, <3>1, <3>2 DEF rom_compress
  <2>2. CASE rom_uncompress(n)
    <3>1. /\ job'.step = "write" /\ job'.from = n /\ job'.file.game = g
          /\ job'.base = Name(n) /\ job'.to = Base(Name(n).stem) /\ rom[job'.to] = None
          /\ job'.moves = IF Name(n) = Base(job'.to.stem) THEN <<>> ELSE InOrder
      BY <1>3, <2>2 DEF rom_uncompress, Converts
    <3>2. job'.to.stem = Name(n).stem /\ job'.to.ext # "zip"
      BY <3>1 DEF Base
    <3>3. QED
      BY <1>8, <3>1, <3>2
  <2>3. QED
    BY <2>1, <2>2
<1>11. FormsOK(first, name)' /\ OneRom(first, name)'
  BY <1>1, <1>2 DEF Findable, FormsOK, OneRom, At
<1>12. LastOK(first, name)'
  BY <1>1, LastIs DEF rom_compress, rom_uncompress, Findable, LastOK
<1>13. JobForm(first, name)'
  <2>1. /\ \/ job'.base = Home(name[g]) /\ Len(job'.moves) = 0
           \/ job'.base # Home(name[g]) /\ Len(job'.moves) = 3
        /\ \A i \in 1 .. Len(job'.moves) : job'.moves[i] = InOrder[3 - Len(job'.moves) + i]
    <3>1. Len(<<>>) = 0 /\ Len(InOrder) = 3
      BY DEF InOrder
    <3>2. CASE Name(n) = Home(name[g])
      BY <1>10, <3>1, <3>2
    <3>3. CASE Name(n) # Home(name[g])
      <4>1. job'.moves = InOrder /\ job'.base # Home(name[g])
        BY <1>10, <3>3
      <4>2. \A i \in 1 .. 3 : (3 - 3) + i = i
        OBVIOUS
      <4>3. QED
        BY <3>1, <4>1, <4>2
    <3>4. QED
      BY <3>2, <3>3
  <2>2. job'.base = IF job'.from = first[g] THEN name[g] ELSE Home(name[g])
    BY <1>4, <1>10
  <2>3. Len(job'.moves) \in 0 .. 3
    BY <2>1
  <2>4. /\ job'.base = Home(name[g]) => Len(job'.moves) = 0
        /\ job'.base # Home(name[g]) => Len(job'.moves) = 3
    BY <2>1
  <2>5. \A i \in 1 .. Len(job'.moves) : job'.moves[i] = InOrder[3 - Len(job'.moves) + i]
    BY <2>1
  <2>6. QED
    BY <1>10, <2>2, <2>3, <2>4, <2>5 DEF JobForm
<1>14. SessionOK(first, name)'
  <2>1. playing # None =>
          rom[gamepak_filename] \in File /\ (playing \notin cut => base_path = NameNow(first, name, playing))
    BY <1>1 DEF IInv, RunningOK, Findable, SessionOK, Renaming
  <2>2. QED
    BY <1>2, <1>10, <2>1, NoneAssumption DEF SessionOK, session, NameNow
<1>15. FilesFound(first, name)'
  <2>1. \A h, k : Where(first, name, h, k)' = Where(first, name, h, k)
    BY <1>1, <1>2, <1>10 DEF Where, At, NameNow
  <2>2. QED
    BY <1>2, <2>1 DEF Findable, FilesFound
<1>16. QED
  BY <1>11, <1>12, <1>13, <1>14, <1>15 DEF Findable

(* Up to the rename only the conversion changes, and it may be given up.   *)
LEMMA FindableStepsOn ==
  ASSUME NEW first, NEW name, Findable(first, name),
         job # None, job.step \in {"write", "check", "rename"},
         \/ job' = None
         \/ /\ job'.step \in {"check", "rename"}
            /\ job'.from = job.from /\ job'.to = job.to /\ job'.base = job.base
            /\ job'.file = job.file /\ job'.moves = job.moves,
         UNCHANGED <<rom, saves, old, session, last, saved, cut>>
  PROVE  Findable(first, name)'
<1>1. FormsOK(first, name)' /\ LastOK(first, name)'
  BY DEF Findable, FormsOK, LastOK
<1>2. OneRom(first, name)'
  BY DEF Findable, OneRom, At
<1>3. JobForm(first, name)'
  BY DEF Findable, JobForm
<1>4. SessionOK(first, name)'
  BY DEF Findable, SessionOK, session, Renaming, NameNow
<1>5. FilesFound(first, name)'
  <2>1. \A g, k : Where(first, name, g, k)' = Where(first, name, g, k)
    BY DEF Where, At, NameNow
  <2>2. QED
    BY <2>1 DEF Findable, FilesFound
<1>6. QED
  BY <1>1, <1>2, <1>3, <1>4, <1>5 DEF Findable

LEMMA FindableWritesTemp ==
  ASSUME IInv, NEW first, NEW name, Findable(first, name),
         WriteTemp \/ check_new_file \/ (Rename /\ rom' = rom)
  PROVE  Findable(first, name)'
<1>1. job # None /\ job.step \in {"write", "check", "rename"}
  BY DEF WriteTemp, check_new_file, Rename, At
<1>2. job \in Converting /\ Stage
  BY <1>1 DEF IInv, JobOK, Ordering
<1>3. UNCHANGED <<rom, saves, old, session, last, saved, cut>>
  BY DEF WriteTemp, check_new_file, GivesUp, Rename, history
<1>4. \/ job' = None
      \/ /\ job'.step \in {"check", "rename"}
         /\ job'.from = job.from /\ job'.to = job.to /\ job'.base = job.base
         /\ job'.file = job.file /\ job'.moves = job.moves
  <2>1. CASE WriteTemp
    BY <1>2, <2>1 DEF WriteTemp, GivesUp, Converting
  <2>2. CASE check_new_file
    BY <1>2, <2>2 DEF check_new_file, GivesUp, Goes, Converting
  <2>3. CASE Rename /\ rom' = rom
    <3>1. ~TakesName
      <4>1. rom[job.to] = None /\ job.to \in RomNames /\ job.temp = job.file /\ job.file \in File
        BY <1>2, <2>3 DEF Rename, At, Stage, Converting
      <4>2. rom \in Roms
        BY DEF IInv, RomsOK
      <4>3. job.file # None
        BY <4>1, NoneAssumption
      <4>4. QED
        BY <2>3, <4>1, <4>2, <4>3 DEF TakesName, Roms
    <3>2. QED
      BY <2>3, <3>1 DEF Rename, GivesUp
  <2>4. QED
    BY <2>1, <2>2, <2>3
<1>5. QED
  BY <1>1, <1>3, <1>4, FindableStepsOn

(* The new file takes its name, which is not the first ROM's if saves have *)
(* to move.                                                                *)
LEMMA FindableRenames ==
  ASSUME IInv, NEW owner, Owned(owner), NEW first, NEW name, Folder(owner, first, name),
         Findable(first, name), Rename
  PROVE  Findable(first, name)'
<1>1. job # None /\ job.step = "rename"
  BY DEF Rename, At
<1>2. job \in Converting /\ Stage
  BY <1>1 DEF IInv, JobOK, Ordering
<1>3. UNCHANGED <<saves, old, session, last, saved, cut>>
  BY DEF Rename, history
<1>4. CASE rom' = rom
  BY <1>4, FindableWritesTemp
<1>5. CASE TakesName
  <2>1. /\ rom' = [rom EXCEPT ![job.to] = job.file]
        /\ rom[job.to] = None /\ job.to # job.from
        /\ job.to \in RomNames /\ job.file \in File
    BY <1>1, <1>2, <1>5 DEF TakesName, Stage, Converting
  <2>2. /\ job'.step = "remove" /\ job'.from = job.from /\ job'.to = job.to /\ job'.base = job.base
        /\ job'.file = job.file /\ job'.moves = job.moves
    BY <1>2, <1>5 DEF TakesName, Goes, Converting
  <2>3. PICK g \in Games : g = job.file.game
    BY <2>1 DEF File
  <2>4. \A n \in RomNames : rom'[n] = IF n = job.to THEN job.file ELSE rom[n]
    BY <2>1 DEF IInv, RomsOK, Roms
  <2>5. /\ job.to.stem = name[g].stem
        /\ job.to.ext = "zip" => job.file.inner = Home(name[g])
    BY <1>1, <2>3 DEF Findable, JobForm
  <2>6. FormsOK(first, name)'
    BY <2>3, <2>4, <2>5 DEF Findable, FormsOK, Form
  <2>7. job.file # None
    BY <2>1, NoneAssumption
  <2>8. \A h \in Games : NameNow(first, name, h)' = NameNow(first, name, h)
    <3> SUFFICES ASSUME NEW h \in Games PROVE NameNow(first, name, h)' = NameNow(first, name, h)
      OBVIOUS
    <3>1. first[h] \in RomNames
      BY DEF Folder
    <3>2. CASE first[h] # job.to
      BY <2>4, <3>1, <3>2 DEF NameNow
    <3>3. CASE first[h] = job.to
      <4>1. h = g
        BY <2>5, <3>3 DEF Folder
      <4>2. name[h] = Home(name[h])
        BY <2>5, <3>3, <4>1 DEF Folder
      <4>3. QED
        BY <4>2 DEF NameNow
    <3>4. QED
      BY <3>2, <3>3
  <2>9. OneRom(first, name)'
    <3> SUFFICES ASSUME NEW h \in Games \ cut, name[h] # Home(name[h]), rom'[first[h]] # None,
                        NEW n \in RomNames, rom'[n] # None, rom'[n].game = h
                 PROVE  n = first[h] \/ (At("remove")' /\ n = job'.to)
      BY <1>3 DEF OneRom
    <3>1. At("remove")'
      <4>1. job' \in Converting
        BY <1>2, <1>5 DEF TakesName, Goes, Converting
      <4>2. QED
        BY <2>2, <4>1, NoneIsNoJob DEF At
    <3>2. CASE n = job.to
      BY <2>2, <3>1, <3>2
    <3>3. CASE n # job.to
      <4>1. first[h] # job.to
        <5>1. ASSUME first[h] = job.to PROVE FALSE
          <6>1. h = g
            BY <2>5, <5>1 DEF Folder
          <6>2. QED
            BY <2>5, <5>1, <6>1 DEF Folder
        <5>2. QED
          BY <5>1
      <4>2. rom[first[h]] # None /\ rom[n] # None /\ rom[n].game = h
        BY <2>4, <3>3, <4>1 DEF Folder
      <4>3. ~At("remove")
        BY <1>1 DEF At
      <4>4. QED
        BY <4>2, <4>3 DEF Findable, OneRom
    <3>4. QED
      BY <3>2, <3>3
  <2>10. JobForm(first, name)'
    BY <1>1, <2>2 DEF Findable, JobForm
  <2>11. SessionOK(first, name)'
    <3>1. playing \in Games \cup {None}
      BY DEF IInv, RunningOK
    <3>2. QED
      BY <1>1, <1>3, <2>2, <2>8, <3>1 DEF Findable, SessionOK, session, Renaming
  <2>12. FilesFound(first, name)'
    <3>1. \A h \in Games : \A k : Where(first, name, h, k)' = Where(first, name, h, k)
      BY <1>1, <2>2, <2>8 DEF Where, At
    <3>2. QED
      BY <1>3, <3>1 DEF Findable, FilesFound
  <2>13. QED
    BY <1>3, <2>6, <2>9, <2>10, <2>11, <2>12 DEF Findable, LastOK
<1>6. QED
  BY <1>4, <1>5 DEF Rename, GivesUp

(* The old one goes: if it was the first, its saves have yet to move.      *)
LEMMA FindableOldGone ==
  ASSUME IInv, NEW owner, Owned(owner), NEW first, NEW name, Folder(owner, first, name),
         Findable(first, name), RemoveOld,
         rom' = [rom EXCEPT ![job.from] = None] /\ UNCHANGED cut
  PROVE  Findable(first, name)'
<1>1. job # None /\ job.step = "remove"
  BY DEF RemoveOld, At
<1>2. job \in Converting /\ Stage
  BY <1>1 DEF IInv, JobOK, Ordering
<1>3. UNCHANGED <<saves, old, session, last, saved, cut>>
  BY DEF RemoveOld
<1>4. /\ rom' = [rom EXCEPT ![job.from] = None]
      /\ rom[job.to] = job.file /\ job.to # job.from
      /\ rom[job.from] \in File /\ rom[job.from].game = job.file.game
      /\ job.to \in RomNames /\ job.from \in RomNames /\ job.file \in File
  BY <1>1, <1>2 DEF RemoveOld, Stage, Converting
<1>5. /\ job' # None /\ job'.step = "move" /\ job'.from = job.from /\ job'.to = job.to
      /\ job'.base = job.base /\ job'.file = job.file /\ job'.moves = job.moves
  <2>1. job' = [job EXCEPT !.step = "move"]
    BY DEF RemoveOld, Goes
  <2>2. job' \in Converting
    BY <1>2, <2>1 DEF Converting
  <2>3. QED
    BY <1>2, <2>1, <2>2, NoneIsNoJob DEF Converting
<1>6. PICK g \in Games : g = job.file.game
  BY <1>4 DEF File
<1>7. \A n \in RomNames : rom'[n] = IF n = job.from THEN None ELSE rom[n]
  BY <1>4 DEF IInv, RomsOK, Roms
<1>8. /\ job.base = IF job.from = first[g] THEN name[g] ELSE Home(name[g])
      /\ job.base = Home(name[g]) => Len(job.moves) = 0
      /\ job.base # Home(name[g]) => Len(job.moves) = 3
  BY <1>1, <1>6 DEF Findable, JobForm
<1>9. rom[job.from] # None /\ rom[job.to] # None /\ rom[job.to].game = g
  BY <1>4, <1>6, NoneAssumption
<1>10. \A h \in Games : first[h] = job.from => h = g
  BY <1>4, <1>6, <1>9 DEF Owned, OwnRoms, Folder
<1>11. FormsOK(first, name)'
  BY <1>7 DEF Findable, FormsOK
<1>12. OneRom(first, name)'
  <2> SUFFICES ASSUME NEW h \in Games \ cut, name[h] # Home(name[h]), rom'[first[h]] # None,
                      NEW n \in RomNames, rom'[n] # None, rom'[n].game = h
               PROVE  n = first[h]
    BY <1>3 DEF OneRom
  <2>1. first[h] \in RomNames
    BY DEF Folder
  <2>2. /\ first[h] # job.from /\ rom[first[h]] # None
        /\ rom[n] = rom'[n]
    BY <1>7, <2>1
  <2>3. h # g
    <3>1. ASSUME h = g PROVE FALSE
      <4>1. job.from = first[h] \/ job.from = job.to
        BY <1>4, <1>6, <1>9, <2>2, <3>1 DEF Findable, OneRom
      <4>2. QED
        BY <1>4, <2>2, <4>1
    <3>2. QED
      BY <3>1
  <2>4. n # job.to
    BY <1>9, <2>2, <2>3
  <2>5. QED
    BY <2>2, <2>4 DEF Findable, OneRom
<1>13. JobForm(first, name)'
  <2>1. rom'[job.from] = None
    BY <1>4, <1>7
  <2>2. QED
    BY <1>1, <1>5, <2>1 DEF Findable, JobForm
<1>14. \A h \in Games : first[h] # job.from => NameNow(first, name, h)' = NameNow(first, name, h)
  BY <1>7 DEF NameNow, Folder
<1>15. SessionOK(first, name)'
  <2> SUFFICES ASSUME playing # None
               PROVE  /\ gamepak_filename # job'.to
                      /\ playing \notin cut /\ ~Renaming' => base_path = NameNow(first, name, playing)'
    BY <1>3 DEF SessionOK, session
  <2>1. gamepak_filename # job.to
    BY <1>1 DEF Findable, SessionOK
  <2>2. ASSUME playing \notin cut, ~Renaming'
        PROVE  base_path = NameNow(first, name, playing)'
    <3>1. gamepak_filename # job.from /\ ~Renaming
      BY <1>1, <1>3, <1>5, <2>2 DEF Renaming, session
    <3>2. PICK h \in Games \ cut : h = playing /\ h = playing'
      BY <1>3, <2>2 DEF IInv, RunningOK, session
    <3>3. /\ gamepak_filename \in RomNames
          /\ rom[gamepak_filename] # None /\ rom[gamepak_filename].game = h
      BY <3>1, <3>2, NoneAssumption DEF IInv, RunningOK
    <3>4. base_path = NameNow(first, name, h)
      BY <2>2, <3>1, <3>2 DEF Findable, SessionOK, NameNow
    <3>5. NameNow(first, name, h)' = NameNow(first, name, h)
      <4>1. CASE first[h] # job.from
        BY <1>14, <4>1
      <4>2. CASE first[h] = job.from
        <5>1. gamepak_filename # first[h] /\ gamepak_filename # job.to /\ rom[first[h]] # None
          BY <1>9, <2>1, <3>1, <4>2
        <5>2. name[h] = Home(name[h])
          BY <3>3, <5>1 DEF Findable, OneRom
        <5>3. QED
          BY <5>2 DEF NameNow
      <4>3. QED
        BY <4>1, <4>2
    <3>6. QED
      BY <3>2, <3>4, <3>5 DEF NameNow
  <2>3. QED
    BY <1>5, <2>1, <2>2
<1>16. FilesFound(first, name)'
  <2>1. \A h \in Games : \A k \in FoundKinds : Where(first, name, h, k)' = Where(first, name, h, k)
    <3> SUFFICES ASSUME NEW h \in Games, NEW k \in FoundKinds
                 PROVE  Where(first, name, h, k)' = Where(first, name, h, k)
      OBVIOUS
    <3>1. Where(first, name, h, k) = NameNow(first, name, h)
      BY <1>1 DEF Where, At
    <3>2. Where(first, name, h, k)' = IF h = g /\ Unmoved(k) THEN job.base ELSE NameNow(first, name, h)'
      BY <1>5, <1>6 DEF Where, At, Unmoved
    <3>3. Unmoved(k) => Len(job.moves) # 0
      BY DEF Unmoved
    <3>4. Len(job.moves) = 3 => Unmoved(k)
      BY DEF Unmoved
    <3>5. CASE first[h] # job.from
      <4>1. NameNow(first, name, h)' = NameNow(first, name, h)
        BY <1>14, <3>5
      <4>2. h = g => ~Unmoved(k)
        BY <1>8, <3>3, <3>5
      <4>3. QED
        BY <3>1, <3>2, <4>1, <4>2
    <3>6. CASE first[h] = job.from
      <4>1. h = g /\ rom[first[h]] # None
        BY <1>9, <1>10, <3>6
      <4>2. NameNow(first, name, h) = name[g] /\ job.base = name[g]
        BY <1>8, <3>6, <4>1 DEF NameNow
      <4>3. NameNow(first, name, h)' = Home(name[g])
        BY <1>4, <1>7, <3>6, <4>1 DEF NameNow
      <4>4. QED
        BY <1>8, <3>1, <3>2, <3>4, <4>1, <4>2, <4>3
    <3>7. QED
      BY <3>5, <3>6
  <2>2. QED
    BY <1>3, <2>1 DEF Findable, FilesFound
<1>17. QED
  BY <1>3, <1>11, <1>12, <1>13, <1>15, <1>16 DEF Findable, LastOK

(* The old one stays: the saves of both have one name, or it is asked no   *)
(* more where they are.                                                    *)
LEMMA FindableOldStays ==
  ASSUME IInv, NEW owner, Owned(owner), NEW first, NEW name, Folder(owner, first, name),
         Findable(first, name), RemoveOld,
         UNCHANGED rom /\ cut' = BetweenNames
  PROVE  Findable(first, name)'
<1>1. job # None /\ job.step = "remove"
  BY DEF RemoveOld, At
<1>2. job \in Converting /\ Stage
  BY <1>1 DEF IInv, JobOK, Ordering
<1>3. UNCHANGED <<rom, saves, old, session, last, saved>>
  BY DEF RemoveOld
<1>4. /\ job' # None /\ job'.step = "move" /\ job'.from = job.from /\ job'.to = job.to
      /\ job'.base = job.base /\ job'.file = job.file /\ job'.moves = job.moves
  <2>1. job' = [job EXCEPT !.step = "move"]
    BY DEF RemoveOld, Goes
  <2>2. job' \in Converting
    BY <1>2, <2>1 DEF Converting
  <2>3. QED
    BY <1>2, <2>1, <2>2, NoneIsNoJob DEF Converting
<1>5. \A h \in Games \ cut' : h \notin cut /\ (job.file.game = h => Len(job.moves) = 0)
  <2>1. job.moves = <<>> => Len(job.moves) = 0
    OBVIOUS
  <2>2. QED
    BY <2>1 DEF BetweenNames
<1>6. FormsOK(first, name)' /\ LastOK(first, name)'
  BY <1>3 DEF Findable, FormsOK, LastOK
<1>7. job.file.game \in Games /\ job.file \in File
  BY <1>2 DEF Converting, File
<1>8. OneRom(first, name)'
  <2> SUFFICES ASSUME NEW h \in Games \ cut', name[h] # Home(name[h]), rom[first[h]] # None,
                      NEW n \in RomNames, rom[n] # None, rom[n].game = h
               PROVE  n = first[h]
    BY <1>3 DEF OneRom
  <2>1. n = first[h] \/ n = job.to
    BY <1>5 DEF Findable, OneRom
  <2>2. ASSUME n = job.to, n # first[h] PROVE FALSE
    <3>1. /\ rom[job.to] = job.file /\ job.to # job.from /\ job.from \in RomNames
          /\ rom[job.from] \in File /\ rom[job.from].game = job.file.game
      BY <1>1, <1>2 DEF Stage, Converting
    <3>2. rom[job.from] # None /\ rom[job.from].game = h /\ job.file.game = h
      BY <2>2, <3>1, NoneAssumption
    <3>3. job.from = first[h]
      BY <1>5, <3>1, <3>2 DEF Findable, OneRom
    <3>4. job.base = name[h] /\ Len(job.moves) = 3
      BY <1>1, <3>2, <3>3 DEF Findable, JobForm
    <3>5. QED
      BY <1>5, <3>2, <3>4
  <2>3. QED
    BY <2>1, <2>2
<1>9. JobForm(first, name)'
  <2>1. Len(job.moves) >= 1 => job.file.game \in cut'
    BY <1>5, <1>7
  <2>2. QED
    BY <1>1, <1>3, <1>4, <2>1 DEF Findable, JobForm
<1>10. SessionOK(first, name)'
  <2>1. playing \in Games \cup {None} /\ (playing # None /\ playing \notin cut' => playing \notin cut)
    BY <1>5 DEF IInv, RunningOK
  <2>2. Renaming => Renaming'
    BY <1>3, <1>4 DEF Renaming, session
  <2>3. UNCHANGED <<playing, gamepak_filename, base_path>>
    BY <1>3 DEF session
  <2>4. NameNow(first, name, playing)' = NameNow(first, name, playing)
    BY <1>3, <2>3 DEF NameNow
  <2> SUFFICES ASSUME playing # None
               PROVE  /\ gamepak_filename # job.to
                      /\ playing \notin cut' /\ ~Renaming' => base_path = NameNow(first, name, playing)
    BY <1>4, <2>3, <2>4 DEF SessionOK
  <2>5. QED
    BY <1>1, <2>1, <2>2 DEF Findable, SessionOK
<1>11. FilesFound(first, name)'
  <2>1. \A h \in Games \ cut' : \A k \in FoundKinds :
          Where(first, name, h, k)' = Where(first, name, h, k)
    <3> SUFFICES ASSUME NEW h \in Games \ cut', NEW k \in FoundKinds
                 PROVE  Where(first, name, h, k)' = Where(first, name, h, k)
      OBVIOUS
    <3>1. job.file.game = h => Len(job'.moves) = 0
      BY <1>4, <1>5
    <3>2. job.file.game = h => ~Unmoved(k)'
      BY <3>1 DEF Unmoved
    <3>3. QED
      BY <1>1, <1>3, <1>4, <3>2 DEF Where, At, NameNow
  <2>2. QED
    BY <1>3, <1>5, <2>1 DEF Findable, FilesFound
<1>12. QED
  BY <1>6, <1>8, <1>9, <1>10, <1>11 DEF Findable

LEMMA FindableRemovesOld ==
  ASSUME IInv, NEW owner, Owned(owner), NEW first, NEW name, Folder(owner, first, name),
         Findable(first, name), RemoveOld
  PROVE  Findable(first, name)'
BY FindableOldGone, FindableOldStays DEF RemoveOld

(* A kind of saves moves home, where there was nothing.                    *)
LEMMA FindableMoves ==
  ASSUME IInv, NEW owner, Owned(owner), NEW first, NEW name, Folder(owner, first, name),
         Findable(first, name), MoveSave
  PROVE  Findable(first, name)'
<1>1. job # None /\ job.step = "move" /\ job.moves # <<>>
  BY DEF MoveSave, At
<1>2. job \in Converting /\ Stage
  BY <1>1 DEF IInv, JobOK, Ordering
<1>3. UNCHANGED <<rom, old, session, last, saved, cut>>
  BY DEF MoveSave, history
<1>4. job.moves \in Seq(Kinds) /\ job.file \in File /\ job.base \in Bases
  BY <1>2 DEF Converting
<1>5. PICK m \in Nat : m = Len(job.moves) /\ m >= 1
  BY <1>1, <1>4
<1>6. PICK kind \in Kinds : kind = Head(job.moves)
  BY <1>1, <1>4
<1>7. /\ job' # None /\ job'.step = "move" /\ job'.from = job.from /\ job'.to = job.to
      /\ job'.base = job.base /\ job'.file = job.file
      /\ job'.moves \in Seq(Kinds) /\ Len(job'.moves) = m - 1
      /\ \A i \in 1 .. m - 1 : job'.moves[i] = job.moves[i + 1]
  <2>1. /\ Tail(job.moves) \in Seq(Kinds) /\ Len(Tail(job.moves)) = m - 1
        /\ \A i \in 1 .. m - 1 : Tail(job.moves)[i] = job.moves[i + 1]
    BY <1>1, <1>4, <1>5
  <2>2. job' = [job EXCEPT !.moves = Tail(@)]
    BY DEF MoveSave
  <2>3. job' \in Converting
    BY <1>2, <2>1, <2>2 DEF Converting
  <2>4. job'.moves = Tail(job.moves)
    BY <1>2, <2>2 DEF Converting
  <2>5. QED
    BY <1>1, <1>2, <2>1, <2>2, <2>3, <2>4, NoneIsNoJob DEF Converting
<1>8. PICK g \in Games : g = job.file.game
  BY <1>4 DEF File
<1>9. /\ job.to.stem = name[g].stem
      /\ job.base = IF job.from = first[g] THEN name[g] ELSE Home(name[g])
      /\ job.base = Home(name[g]) => m = 0
      /\ m \in 0 .. 3 /\ \A i \in 1 .. m : job.moves[i] = InOrder[3 - m + i]
      /\ g \notin cut => rom[job.from] = None
  BY <1>1, <1>5, <1>8 DEF Findable, JobForm
<1>10. /\ job.base = name[g] /\ name[g] # Home(name[g])
       /\ g \notin cut => NameNow(first, name, g) = Home(name[g])
  BY <1>5, <1>9 DEF NameNow
<1>11. kind = InOrder[4 - m] /\ m \in 1 .. 3
  <2>1. kind = job.moves[1]
    BY <1>1, <1>4, <1>6
  <2>2. 3 - m + 1 = 4 - m /\ 1 \in 1 .. m /\ m \in 1 .. 3
    BY <1>5, <1>9
  <2>3. QED
    BY <1>9, <2>1, <2>2
<1>12. \/ m = 3 /\ kind = "sav"
       \/ m = 2 /\ kind = "settings"
       \/ m = 1 /\ kind = "state"
  <2>1. InOrder[1] = "sav" /\ InOrder[2] = "settings" /\ InOrder[3] = "state"
    BY DEF InOrder
  <2>2. m = 1 \/ m = 2 \/ m = 3
    BY <1>11
  <2>3. 4 - 1 = 3 /\ 4 - 2 = 2 /\ 4 - 3 = 1
    OBVIOUS
  <2>4. QED
    BY <1>11, <2>1, <2>2, <2>3
<1>13. FormsOK(first, name)' /\ OneRom(first, name)' /\ LastOK(first, name)'
  BY <1>1, <1>3, <1>7 DEF Findable, FormsOK, OneRom, LastOK, At
<1>14. JobForm(first, name)'
  <2>1. \A i \in 1 .. m - 1 : job'.moves[i] = InOrder[3 - (m - 1) + i]
    <3> SUFFICES ASSUME NEW i \in 1 .. m - 1 PROVE job'.moves[i] = InOrder[3 - (m - 1) + i]
      OBVIOUS
    <3>1. i + 1 \in 1 .. m /\ 3 - m + (i + 1) = 3 - (m - 1) + i
      BY <1>5
    <3>2. QED
      BY <1>7, <1>9, <3>1
  <2>2. m - 1 \in 0 .. 3
    BY <1>5, <1>9
  <2>3. job'.base # Home(name[g])
    BY <1>7, <1>10
  <2>4. job.to.ext = "zip" => job.file.inner = Home(name[g])
    BY <1>1, <1>8 DEF Findable, JobForm
  <2>5. QED
    BY <1>3, <1>7, <1>8, <1>9, <2>1, <2>2, <2>3, <2>4 DEF JobForm
<1>15. SessionOK(first, name)'
  BY <1>1, <1>3, <1>7 DEF Findable, SessionOK, session, Renaming, NameNow
<1>16. FilesFound(first, name)'
  <2>1. name[g] \in Bases /\ Home(name[g]) \in Bases /\ Home(name[g]).stem = name[g].stem
    BY Homes DEF Folder
  <2>2. Base(job.to.stem) = Home(name[g])
    BY <1>9 DEF Home
  <2> DEFINE moves == saves[name[g]][kind] # None /\ saves[Home(name[g])][kind] = None
  <2>3. \A k \in FoundKinds :
           /\ Unmoved(k) <=> IF k = "sav" THEN m = 3 ELSE TRUE
           /\ Unmoved(k)' <=> IF k = "sav" THEN FALSE ELSE m >= 2
    <3>1. Len(job.moves) = m /\ Len(job'.moves) = m - 1 /\ m \in 1 .. 3
      BY <1>5, <1>7, <1>11
    <3>2. m >= 1 /\ m - 1 # 3 /\ (m - 1 >= 1 <=> m >= 2)
      BY <3>1
    <3>3. \A k \in FoundKinds : Unmoved(k) <=> IF k = "sav" THEN m = 3 ELSE TRUE
      BY <3>1, <3>2 DEF Unmoved
    <3>4. \A k \in FoundKinds : Unmoved(k)' <=> IF k = "sav" THEN FALSE ELSE m >= 2
      BY <3>1, <3>2 DEF Unmoved
    <3>5. QED
      BY <3>3, <3>4
  <2>4. \A b \in Bases : \A k \in Kinds :
          saves'[b][k] = IF moves /\ k = kind /\ b = Home(name[g]) THEN saves[name[g]][kind]
                         ELSE IF moves /\ k = kind /\ b = name[g] THEN None
                         ELSE saves[b][k]
    <3>1. saves \in Saves
      BY DEF Owned, OwnSaves
    <3>2. saves' = Moved(kind)
      BY <1>6 DEF MoveSave
    <3>3. QED
      BY <1>10, <2>1, <2>2, <3>1, <3>2, MovedFiles
  <2> HIDE DEF moves
  <2> SUFFICES ASSUME NEW h \in Games \ cut, NEW k \in FoundKinds
               PROVE  /\ saved[h][k] = Found(saves', old', Where(first, name, h, k)', k)
                      /\ name[h] # Home(name[h]) =>
                           /\ old'[name[h]][k] = None /\ old'[Home(name[h])][k] = None
                           /\ Where(first, name, h, k)' = name[h] => saves'[Home(name[h])][k] = None
    BY <1>3 DEF FilesFound
  <2>5. k \in Kinds /\ name[h] \in Bases /\ Home(name[h]) \in Bases
    BY Homes DEF FoundKinds, Kinds, Folder
  <2>6. PICK b \in Bases : b = Where(first, name, h, k) /\ b \in {name[h], Home(name[h])}
    <3>1. At("move") /\ job.file.game = h => job.base = name[h]
      BY <1>8, <1>10
    <3>2. QED
      BY <2>5, <3>1 DEF Where, NameNow
  <2>7. /\ saved[h][k] = Found(saves, old, b, k)
        /\ name[h] # Home(name[h]) =>
             /\ old[name[h]][k] = None /\ old[Home(name[h])][k] = None
             /\ b = name[h] => saves[Home(name[h])][k] = None
    BY <2>6 DEF FilesFound, Findable
  <2>8. CASE h # g
    <3>1. Where(first, name, h, k)' = b
      BY <1>3, <1>7, <1>8, <2>6, <2>8 DEF Where, NameNow
    <3>2. \A c \in {name[h], Home(name[h])} : c # name[g] /\ c # Home(name[g])
      BY <2>1, <2>8, Homes DEF Folder
    <3>3. QED
      BY <1>3, <2>4, <2>5, <2>6, <2>7, <3>1, <3>2 DEF Found
  <2>9. CASE h = g /\ k # kind
    <3>1. Unmoved(k)' <=> Unmoved(k)
      <4>1. CASE m = 3
        BY <1>12, <2>3, <2>9, <4>1 DEF FoundKinds
      <4>2. CASE m = 2
        BY <2>3, <4>2
      <4>3. CASE m = 1
        BY <1>12, <2>3, <2>9, <4>3 DEF FoundKinds
      <4>4. QED
        BY <1>12, <4>1, <4>2, <4>3
    <3>2. Where(first, name, h, k)' = b
      BY <1>1, <1>3, <1>7, <2>6, <3>1 DEF Where, NameNow, At
    <3>3. QED
      BY <1>3, <2>4, <2>5, <2>6, <2>7, <2>9, <3>2 DEF Found
  <2>10. CASE h = g /\ k = kind
    <3>1. Unmoved(k) /\ ~Unmoved(k)'
      BY <1>12, <2>3, <2>10 DEF FoundKinds
    <3>2. b = name[g]
      BY <1>1, <1>8, <1>10, <2>6, <2>10, <3>1 DEF Where, At
    <3>3. Where(first, name, h, k)' = Home(name[g])
      BY <1>3, <1>10, <2>10, <3>1 DEF Where, NameNow
    <3>4. saves[Home(name[g])][k] = None /\ old[name[g]][k] = None /\ old[Home(name[g])][k] = None
      BY <1>10, <2>7, <2>10, <3>2
    <3>5. saves'[Home(name[g])][k] = saves[name[g]][k]
      BY <2>1, <2>4, <2>5, <2>10, <3>4 DEF moves
    <3>6. QED
      BY <1>3, <1>10, <2>7, <2>10, <3>2, <3>3, <3>4, <3>5 DEF Found
  <2>11. QED
    BY <2>8, <2>9, <2>10
<1>17. QED
  BY <1>13, <1>14, <1>15, <1>16 DEF Findable

LEMMA FindableOpensOrder ==
  ASSUME IInv, NEW first, NEW name, Findable(first, name), OpenOrder
  PROVE  Findable(first, name)'
<1>1. job # None /\ job.step = "move" /\ job.moves = <<>>
  BY DEF OpenOrder, At
<1>2. UNCHANGED <<rom, saves, old, session, last, saved, cut>>
  BY DEF OpenOrder, history
<1>3. job'.step = "order" /\ job'.from = job.from /\ job'.to = job.to
  BY DEF OpenOrder
<1>4. FormsOK(first, name)' /\ OneRom(first, name)' /\ LastOK(first, name)' /\ JobForm(first, name)'
  BY <1>1, <1>2, <1>3 DEF Findable, FormsOK, OneRom, LastOK, JobForm, At
<1>5. SessionOK(first, name)'
  BY <1>1, <1>2, <1>3, OpensOrder DEF Findable, SessionOK, session, Renaming, NameNow
<1>6. FilesFound(first, name)'
  <2>1. \A g : \A k \in FoundKinds : Where(first, name, g, k)' = Where(first, name, g, k)
    <3>1. Len(job.moves) = 0
      BY <1>1
    <3>2. \A k : ~Unmoved(k)
      BY <3>1 DEF Unmoved
    <3>3. QED
      BY <1>1, <1>2, <1>3, <3>2 DEF Where, At, NameNow
  <2>2. QED
    BY <1>2, <2>1 DEF Findable, FilesFound
<1>7. QED
  BY <1>4, <1>5, <1>6 DEF Findable

LEMMA FindableFinishes ==
  ASSUME IInv, NEW owner, Owned(owner), NEW first, NEW name, Folder(owner, first, name),
         Findable(first, name), Finish
  PROVE  Findable(first, name)'
<1>1. job # None /\ job.step = "order" /\ job \in Ordering /\ rom[job.to] \in File /\ job' = None
  BY DEF Finish, At, IInv, JobOK, Converting
<1>2. job.to \in RomNames
  BY <1>1 DEF Ordering
<1>3. UNCHANGED <<rom, saves, old, saved, cut, playing>>
  BY DEF Finish, history, session
<1>4. FormsOK(first, name)' /\ OneRom(first, name)' /\ JobForm(first, name)'
  BY <1>1, <1>3 DEF Findable, FormsOK, OneRom, JobForm, At
<1>5. LastOK(first, name)'
  <2>1. UNCHANGED last \/ LookUp(job.to)
    BY DEF Finish
  <2>2. QED
    BY <1>1, <1>2, <2>1, LastIs DEF Findable, LastOK
<1>6. SessionOK(first, name)'
  <2> SUFFICES ASSUME NEW g \in Games \ cut, g = playing
               PROVE  base_path' = NameNow(first, name, g)
    <3>1. playing \in Games \cup {None}
      BY DEF IInv, RunningOK
    <3>2. QED
      BY <1>1, <1>3, <3>1 DEF SessionOK, NameNow
  <2>1. playing # None
    BY NoneAssumption
  <2>2. CASE job.from = gamepak_filename
    <3>1. rom[job.to].game = g
      BY <1>1, <2>1, <2>2 DEF IInv, RunningOK, Renaming
    <3>2. Name(job.to) = NameNow(first, name, g)
      BY <1>1, <1>2, <3>1, NameIsNow DEF Findable, At
    <3>3. QED
      BY <2>2, <3>2 DEF Finish
  <2>3. CASE job.from # gamepak_filename
    BY <2>1, <2>3 DEF Finish, session, Findable, SessionOK, Renaming
  <2>4. QED
    BY <2>2, <2>3
<1>7. FilesFound(first, name)'
  <2>1. \A g, k : Where(first, name, g, k)' = Where(first, name, g, k)
    BY <1>1, <1>3 DEF Where, At, NameNow
  <2>2. QED
    BY <1>3, <2>1 DEF Findable, FilesFound
<1>8. QED
  BY <1>4, <1>5, <1>6, <1>7 DEF Findable

(* Power goes: what was looked up is forgotten, and a conversion is over.  *)
LEMMA FindableLosesPower ==
  ASSUME IInv, NEW owner, Owned(owner), NEW first, NEW name, Folder(owner, first, name),
         Findable(first, name), PowerLoss
  PROVE  Findable(first, name)'
<1>1. /\ UNCHANGED <<rom, saves, old, saved>>
      /\ playing' = None /\ job' = None /\ last' = None
      /\ cut' = IF (At("remove") \/ At("move")) /\ job.moves # <<>> THEN cut \cup {job.file.game}
                ELSE cut
  BY DEF PowerLoss, BetweenNames, files
<1>2. FormsOK(first, name)' /\ LastOK(first, name)' /\ JobForm(first, name)' /\ SessionOK(first, name)'
  BY <1>1 DEF Findable, FormsOK, LastOK, JobForm, SessionOK
<1>3. \A h \in Games \ cut' :
        h \notin cut /\ ((At("remove") \/ At("move")) /\ job.file.game = h => Len(job.moves) = 0)
  <2>1. At("remove") \/ At("move") => (job.moves = <<>> => Len(job.moves) = 0)
    OBVIOUS
  <2>2. QED
    BY <1>1, <2>1
<1>4. OneRom(first, name)'
  <2> SUFFICES ASSUME NEW h \in Games \ cut', name[h] # Home(name[h]), rom[first[h]] # None,
                      NEW n \in RomNames, rom[n] # None, rom[n].game = h
               PROVE  n = first[h]
    BY <1>1 DEF OneRom
  <2>1. n = first[h] \/ (At("remove") /\ n = job.to)
    BY <1>3 DEF Findable, OneRom
  <2>2. ASSUME At("remove"), n = job.to, n # first[h] PROVE FALSE
    <3>1. job # None /\ job.step = "remove" /\ job \in Converting /\ Stage
      BY <2>2 DEF At, IInv, JobOK, Ordering
    <3>2. /\ rom[job.to] = job.file /\ job.to # job.from /\ job.from \in RomNames
          /\ rom[job.from] \in File /\ rom[job.from].game = job.file.game
      BY <3>1 DEF Stage, Converting
    <3>3. rom[job.from] # None /\ rom[job.from].game = h /\ job.file.game = h
      BY <2>2, <3>2, NoneAssumption
    <3>4. job.from = first[h]
      BY <1>3, <3>2, <3>3 DEF Findable, OneRom
    <3>5. job.base = name[h] /\ Len(job.moves) = 3
      BY <3>1, <3>3, <3>4 DEF Findable, JobForm
    <3>6. QED
      BY <1>3, <2>2, <3>3, <3>5
  <2>3. QED
    BY <2>1, <2>2
<1>5. FilesFound(first, name)'
  <2>1. \A h \in Games \ cut' : \A k \in FoundKinds :
          Where(first, name, h, k)' = Where(first, name, h, k)
    <3> SUFFICES ASSUME NEW h \in Games \ cut', NEW k \in FoundKinds
                 PROVE  Where(first, name, h, k)' = Where(first, name, h, k)
      OBVIOUS
    <3>1. At("move") /\ job.file.game = h => ~Unmoved(k)
      BY <1>3 DEF Unmoved
    <3>2. QED
      BY <1>1, <3>1 DEF Where, At, NameNow
  <2>2. QED
    BY <1>1, <1>3, <2>1 DEF Findable, FilesFound
<1>6. QED
  BY <1>2, <1>4, <1>5 DEF Findable

LEMMA FindableStep ==
  ASSUME IInv, NEW owner, Owned(owner), NEW first, NEW name, Folder(owner, first, name),
         Findable(first, name), [Next]_vars
  PROVE  Findable(first, name)'
<1>1. CASE UNCHANGED vars
  <2>1. UNCHANGED <<rom, saves, old, session, last, job, saved, cut>>
    BY <1>1 DEF vars, files, session, history
  <2>2. \A g, k : Where(first, name, g, k)' = Where(first, name, g, k)
    BY <2>1 DEF Where, At, NameNow, Unmoved
  <2>3. FilesFound(first, name)'
    BY <2>1, <2>2 DEF Findable, FilesFound
  <2>4. SessionOK(first, name)'
    BY <2>1 DEF Findable, SessionOK, session, Renaming, NameNow
  <2>5. QED
    BY <2>1, <2>3, <2>4 DEF Findable, FormsOK, OneRom, LastOK, JobForm, At
<1>2. QED
  BY <1>1, FindableStarts, FindableWrites, FindableConverts, FindableWritesTemp, FindableRenames,
     FindableRemovesOld, FindableMoves, FindableOpensOrder, FindableFinishes, FindableLosesPower
     DEF Next

(* "The game's saves keep working": each ROM finds the save and the states *)
(* its game made last under the name it is looked up by, whatever was      *)
(* converted, unless power went while they were being moved                *)
(* (nspire_rom_convert.c, rom_uncompress; nspire_rom_manager.c, convert).  *)
THEOREM SavesStayFound ==
  ASSUME OwnNames, FoundAtFirst, NewNamesFree
  PROVE  Spec => []SavesAreFound
<1> DEFINE All(owner, first, name) ==
             Owned(owner) /\ Folder(owner, first, name) /\ Findable(first, name)
           Ours == IInv /\ \E owner, first, name : All(owner, first, name)
<1>1. Init => Ours
  BY InitCorrect, FindableInit
<1>2. Ours /\ [Next]_vars => Ours'
  <2> SUFFICES ASSUME Ours, [Next]_vars PROVE Ours'
    OBVIOUS
  <2>1. PICK owner, first, name : All(owner, first, name)
    OBVIOUS
  <2>2. Owned(owner)' /\ Findable(first, name)'
    BY <2>1, OwnedStep, FindableStep
  <2>3. Folder(owner, first, name)
    BY <2>1
  <2>4. IInv'
    BY StepCorrect
  <2>5. QED
    BY <2>2, <2>3, <2>4
<1>3. Ours => SavesAreFound
  <2> SUFFICES ASSUME Ours, Idle, NEW n \in RomNames, rom[n] \in File, rom[n].game \notin cut,
                      NEW k \in FoundKinds
               PROVE  saved[rom[n].game][k] = Found(saves, old, Name(n), k)
    BY DEF SavesAreFound, FoundKinds
  <2>1. PICK owner, first, name : All(owner, first, name)
    OBVIOUS
  <2>2. PICK g \in Games \ cut : g = rom[n].game
    BY DEF File
  <2>3. ~At("remove") /\ ~At("move")
    BY DEF Idle, At
  <2>4. Name(n) = NameNow(first, name, g)
    BY <2>1, <2>2, <2>3, NameIsNow DEF Findable
  <2>5. Where(first, name, g, k) = Name(n)
    BY <2>3, <2>4 DEF Where
  <2>6. QED
    BY <2>1, <2>2, <2>5 DEF Findable, FilesFound
<1>4. QED
  BY <1>1, <1>2, <1>3, PTL DEF Spec
=============================================================================

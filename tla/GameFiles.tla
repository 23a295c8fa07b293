----------------------------- MODULE GameFiles -----------------------------
(***************************************************************************)
(* A game's files while its ROM is converted: nspire_rom_convert.c with    *)
(* the ROM manager, nspire_paths.c, the names of saves in nspire_states.c  *)
(* and the file list's order in nspire_game_list.c.                        *)
(*                                                                         *)
(* A ROM is a .gba, a .gbz or a .zip; compressing makes it a .zip and      *)
(* uncompressing a .gba.  Its saves go by the ROM's name, in a zip by the  *)
(* name of the file in it, so a ROM that gets another name takes its saves *)
(* along, one rename each.  Power can go between any two steps.            *)
(***************************************************************************)
EXTENDS Integers, Sequences

CONSTANTS
  Games,                \* what is in the ROMs
  Stems,                \* file names without extensions
  Large,                \* the games that do not fit in the ROM buffer
  DISKS,                \* the folders that are started from
  None, Torn, Bad       \* no file; half a file; one that was written wrong

(* Each is moved by itself, in this order: game_suffixes, then the states. *)
Kinds == {"sav", "settings", "state"}
InOrder == <<"sav", "settings", "state">>

RomNames == [stem : Stems, ext : {"gba", "gbz", "zip"}]
(* The name saves go by.  A ROM in a zip may be called .agb or .bin.       *)
Bases == [stem : Stems, ext : {"gba", "agb"}]
Base(stem) == [stem |-> stem, ext |-> "gba"]

(* A whole ROM, and the name in the zip if it is in one.                   *)
File == [game : Games, inner : Bases \cup {None}]
Roms == [RomNames -> File \cup {None}]
(* Each save, settings file and state: whose it is, and whether it was     *)
(* there before or is the last one written.                                *)
Made == [by : Games, at : {"before", "last"}]
Saves == [Bases -> [Kinds -> Made \cup {None}]]

(* A conversion under way, up to the last of the saves that it moves...    *)
Converting ==
  [from : RomNames, to : RomNames, file : File, base : Bases,
   step : {"write", "check", "rename", "remove", "move"},
   temp : File \cup {Torn, Bad}, moves : Seq(Kinds)]

(* ...and while it writes the order.                                       *)
Ordering == [step : {"order"}, from : RomNames, to : RomNames, order : Seq(RomNames)]

ASSUME NoneAssumption ==
  /\ None \notin Games \cup Bases \cup RomNames \cup File \cup Made
  /\ None \notin Converting /\ None \notin Ordering
ASSUME TornAssumption == {Torn, Bad} \cap (File \cup {None}) = {}
ASSUME LargeAssumption == Large \subseteq Games

(* A disk: the ROMs, the saves in the saves folder and those an older      *)
(* build left beside the ROMs, and the player's order.                     *)
ASSUME DisksAssumption ==
  \A d \in DISKS :
    /\ d.rom \in Roms /\ d.saves \in Saves /\ d.old \in Saves
    /\ d.order \in Seq(RomNames)
    /\ \A n \in RomNames : d.rom[n] # None => (d.rom[n].inner = None <=> n.ext # "zip")
    /\ \A i \in 1 .. Len(d.order) : d.rom[d.order[i]] # None
    /\ \A m, n \in RomNames : d.rom[m] # None /\ d.rom[n] # None /\ m # n =>
                                 d.rom[m].game # d.rom[n].game
    /\ \A g \in Games : \E n \in RomNames : d.rom[n] # None /\ d.rom[n].game = g

VARIABLES
  rom,                  \* the ROMs' files
  saves, old,           \* files in the saves folder, and beside the ROMs
  order,                \* the order file
  gamepak_filename, playing,
  paged,                \* gamepak_must_swap
  base_path, game_file, \* where the running game's states and its settings go
  last,                 \* last_zip and last_inner: the name looked up last
  job,                  \* the conversion under way, with its temporary file
  saved,                \* history: the last each game saved of each kind
  cut,                  \* history: the games that were left between two names
  listed                \* history: the games of the order, None once it was cut

files == <<rom, saves, old, order>>
session == <<gamepak_filename, playing, paged, base_path, game_file>>
history == <<saved, cut, listed>>
vars == <<files, session, last, job, history>>

(* A game's last save of a kind on a disk.                                 *)
Latest(g, kind, d) ==
  LET made == {m \in {d.saves[b][kind] : b \in Bases} \cup {d.old[b][kind] : b \in Bases} :
                 m # None /\ m.by = g}
      last_made == {m \in made : m.at = "last"}
  IN IF made = {} THEN None ELSE CHOOSE m \in IF last_made = {} THEN made ELSE last_made : TRUE

Init == \E d \in DISKS :
  /\ rom = d.rom /\ saves = d.saves /\ old = d.old /\ order = d.order
  /\ gamepak_filename = None /\ playing = None /\ paged = FALSE
  /\ base_path = None /\ game_file = None
  /\ last = None /\ job = None
  /\ saved = [g \in Games |-> [k \in Kinds |-> Latest(g, k, d)]]
  /\ cut = {}
  /\ listed = [i \in 1 .. Len(d.order) |-> d.rom[d.order[i]].game]

-----------------------------------------------------------------------------
(* nspire_game_name: the name a ROM's saves go by.  zip_name remembers the *)
(* last zip it looked into.                                                *)
Name(n) ==
  IF n.ext # "zip" THEN Base(n.stem)
  ELSE IF last # None /\ last.zip = n THEN last.inner
  ELSE rom[n].inner

LookUp(n) == last' = IF n.ext = "zip" THEN [zip |-> n, inner |-> Name(n)] ELSE last

Idle == job = None

(* Variant: a file of the new name is replaced.                            *)
MoveOldOver(which) ==
  LET moves(b, k) == <<b, k>> \in which /\ old[b][k] # None IN
  /\ saves' = [b \in Bases |-> [k \in Kinds |-> IF moves(b, k) THEN old[b][k] ELSE saves[b][k]]]
  /\ old' = [b \in Bases |-> [k \in Kinds |-> IF moves(b, k) THEN None ELSE old[b][k]]]

(* nspire_move_old_files: moves the old files of the names for which it is *)
(* asked, unless the new name is taken.                                    *)
MoveOld(which) ==
  LET moves(b, k) == <<b, k>> \in which /\ saves[b][k] = None IN
  /\ saves' = [b \in Bases |-> [k \in Kinds |-> IF moves(b, k) THEN old[b][k] ELSE saves[b][k]]]
  /\ old' = [b \in Bases |-> [k \in Kinds |-> IF moves(b, k) THEN None ELSE old[b][k]]]

(* nspire_start_game                                                       *)
Start(n) ==
  /\ Idle
  /\ rom[n] # None
  /\ MoveOld(Bases \X Kinds)
  /\ gamepak_filename' = n /\ playing' = rom[n].game
  /\ paged' = (rom[n].game \in Large /\ n.ext # "zip")
  /\ base_path' = Name(n) /\ game_file' = Name(n)
  /\ LookUp(n)
  /\ UNCHANGED <<rom, order, job, history>>

(* Power is lost while old files are moved.                                *)
StartIsCut(n, which) ==
  /\ Idle
  /\ rom[n] # None
  /\ MoveOld(which)
  /\ gamepak_filename' = None /\ playing' = None /\ paged' = FALSE
  /\ base_path' = None /\ game_file' = None /\ last' = None
  /\ UNCHANGED <<rom, order, job, history>>

(* The running game writes one of its files.                               *)
Written(base, kind) ==
  /\ LET made == [by |-> playing, at |-> "last"] IN
       /\ saves' = [saves EXCEPT ![base] = [@ EXCEPT ![kind] = made]]
       /\ saved' = [saved EXCEPT ![playing] = [@ EXCEPT ![kind] = made]]
  /\ UNCHANGED <<rom, old, order, session, job, cut, listed>>

(* write_backup_as: the name is made from gamepak_filename each time.      *)
SaveGame ==
  /\ Idle /\ playing # None
  /\ Written(Name(gamepak_filename), "sav")
  /\ LookUp(gamepak_filename)

(* states_save                                                             *)
SaveState ==
  /\ Idle /\ playing # None
  /\ Written(base_path, "state")
  /\ UNCHANGED last

(* write_game_file, under the name the game was opened by.                 *)
SaveSettings ==
  /\ Idle /\ playing # None
  /\ Written(game_file, "settings")
  /\ UNCHANGED last

-----------------------------------------------------------------------------
(* A conversion: the ROM manager's act.                                    *)

(* Variant: nspire_rom_file_release's answer is not looked at.             *)
ReleasedAnyway(n) == TRUE

(* The running game's file can go only if it is not read any more:         *)
(* nspire_rom_file_release.                                                *)
Released(n) == n = gamepak_filename => ~paged

(* Converts n into `to`, which is then `file`: the temporary file is       *)
(* opened.  One that power loss left is not looked at: it is written anew. *)
(* The saves that go by `base` are moved if the name changes.              *)
Converts(n, to, file, base) ==
  /\ Idle
  /\ Released(n)
  /\ rom[to] = None
  /\ job' = [from |-> n, to |-> to, file |-> file, base |-> base, step |-> "write", temp |-> Torn,
             moves |-> IF base = Base(to.stem) THEN <<>> ELSE InOrder]
  /\ UNCHANGED <<rom, saves, old, order, session, history>>

(* rom_compress                                                            *)
rom_compress(n) ==
  /\ rom[n] # None /\ n.ext # "zip"
  /\ Converts(n, [stem |-> n.stem, ext |-> "zip"],
              [game |-> rom[n].game, inner |-> Base(n.stem)], Base(n.stem))
  /\ UNCHANGED last

(* rom_uncompress: a ROM of another name becomes a .gba.                   *)
rom_uncompress(n) ==
  /\ rom[n] # None /\ n.ext # "gba"
  /\ Converts(n, Base(Name(n).stem), [game |-> rom[n].game, inner |-> None], Name(n))
  /\ LookUp(n)

At(step) == job # None /\ job.step = step
Goes(step) == job' = [job EXCEPT !.step = step]

(* The temporary file goes, and nothing has changed.                       *)
GivesUp ==
  /\ job' = None
  /\ UNCHANGED rom

(* write_zip, write_plain: all is written, right or not, or there is no    *)
(* space.                                                                  *)
WriteTemp ==
  /\ At("write")
  /\ \/ /\ \E f \in {job.file, Bad} : job' = [job EXCEPT !.step = "check", !.temp = f]
        /\ UNCHANGED rom
     \/ GivesUp
  /\ UNCHANGED <<saves, old, order, session, last, history>>

(* Variant: the new file is not read back.                                 *)
NoCheck ==
  /\ At("check")
  /\ Goes("rename")
  /\ UNCHANGED <<files, session, last, history>>

(* check_new_file                                                          *)
check_new_file ==
  /\ At("check")
  /\ IF job.temp = Bad THEN GivesUp ELSE Goes("rename") /\ UNCHANGED rom
  /\ UNCHANGED <<saves, old, order, session, last, history>>

(* The game's saves are left under two names, or under that of one of its  *)
(* two ROMs.                                                               *)
BetweenNames == IF job.moves # <<>> THEN cut \cup {job.file.game} ELSE cut

TakesName ==
  /\ rom' = [rom EXCEPT ![job.to] = job.temp]
  /\ Goes("remove")

(* Variant: the old file goes whether or not the new one got its name.     *)
RenameUnchecked ==
  /\ At("rename")
  /\ TakesName \/ (Goes("remove") /\ UNCHANGED rom)
  /\ UNCHANGED <<saves, old, order, session, last, history>>

(* finish: the checked file takes its name...                              *)
Rename ==
  /\ At("rename")
  /\ TakesName \/ GivesUp
  /\ UNCHANGED <<saves, old, order, session, last, history>>

(* ...the old one goes, or stays if it cannot be removed: that is not      *)
(* looked at.                                                              *)
RemoveOld ==
  /\ At("remove")
  /\ \/ rom' = [rom EXCEPT ![job.from] = None] /\ UNCHANGED cut
     \/ cut' = BetweenNames /\ UNCHANGED rom
  /\ Goes("move")
  /\ UNCHANGED <<saves, old, order, session, last, saved, listed>>

(* move_file                                                               *)
Moved(kind) ==
  [b \in Bases |->
     IF saves[job.base][kind] = None \/ saves[Base(job.to.stem)][kind] # None THEN saves[b]
     ELSE IF b = Base(job.to.stem) THEN [saves[b] EXCEPT ![kind] = saves[job.base][kind]]
     ELSE IF b = job.base THEN [saves[b] EXCEPT ![kind] = None] ELSE saves[b]]

(* nspire_move_game_files                                                  *)
MoveSave ==
  /\ At("move") /\ job.moves # <<>>
  /\ saves' = Moved(Head(job.moves))
  /\ job' = [job EXCEPT !.moves = Tail(@)]
  /\ UNCHANGED <<rom, old, order, session, last, history>>

(* Variant: the list is left as it was.                                    *)
NotRenamed == order

Renamed == [i \in 1 .. Len(order) |-> IF order[i] = job.from THEN job.to ELSE order[i]]

(* game_list_rename: the order file is opened for writing, if the name is  *)
(* in it...                                                                *)
OpenOrder ==
  /\ At("move") /\ job.moves = <<>>
  /\ job' = [step |-> "order", from |-> job.from, to |-> job.to, order |-> Renamed]
  /\ order' = IF Renamed = order THEN order ELSE <<>>
  /\ UNCHANGED <<rom, saves, old, session, last, history>>

(* Variant: the running game keeps its old name.                           *)
FinishQuietly ==
  /\ At("order")
  /\ order' = job.order
  /\ job' = None
  /\ UNCHANGED <<rom, saves, old, session, last, history>>

(* ...and written.  A running game goes by its new name: gamepak_filename, *)
(* states_open_game.                                                       *)
Finish ==
  /\ At("order")
  /\ order' = job.order
  /\ IF job.from = gamepak_filename
     THEN /\ gamepak_filename' = job.to
          /\ base_path' = Name(job.to)
          /\ LookUp(job.to)
          /\ UNCHANGED <<playing, paged, game_file>>
     ELSE UNCHANGED <<session, last>>
  /\ job' = None
  /\ UNCHANGED <<rom, saves, old, history>>

PowerLoss ==
  /\ gamepak_filename' = None /\ playing' = None /\ paged' = FALSE
  /\ base_path' = None /\ game_file' = None
  /\ last' = None /\ job' = None
  /\ cut' = IF At("remove") \/ At("move") THEN BetweenNames ELSE cut
  /\ listed' = IF At("move") \/ At("order") THEN None ELSE listed
  /\ UNCHANGED <<files, saved>>

OldFiles == {x \in Bases \X Kinds : old[x[1]][x[2]] # None}

Next ==
  \/ \E n \in RomNames :
       \/ Start(n) \/ rom_compress(n) \/ rom_uncompress(n)
       \/ \E which \in SUBSET OldFiles : StartIsCut(n, which)
  \/ SaveGame \/ SaveState \/ SaveSettings
  \/ WriteTemp \/ check_new_file \/ Rename \/ RemoveOld \/ MoveSave \/ OpenOrder \/ Finish
  \/ PowerLoss

Spec == Init /\ [][Next]_vars

-----------------------------------------------------------------------------
(* What is asked of a folder that is started from, for the saves to be     *)
(* kept and found.                                                         *)

(* Name, before a zip was looked into.                                     *)
NameOn(d, n) == IF n.ext = "zip" THEN d.rom[n].inner ELSE Base(n.stem)

(* The file that a game finds under a name: an older build's is moved when *)
(* it is started, unless there is one.                                     *)
Found(theSaves, theOld, b, k) ==
  IF theSaves[b][k] # None THEN theSaves[b][k] ELSE theOld[b][k]

(* No name is used by two games: two ROMs called the same, one of them in  *)
(* a zip, share their saves.                                               *)
Owns(owner, d) ==
  /\ \A n \in RomNames : d.rom[n] # None =>
       owner[n.stem] = d.rom[n].game /\ owner[NameOn(d, n).stem] = d.rom[n].game
  /\ \A b \in Bases : \A k \in Kinds : \A m \in {d.saves[b][k], d.old[b][k]} :
       m # None => owner[b.stem] = m.by
OwnNames == \A d \in DISKS : \E owner \in [Stems -> Games] : Owns(owner, d)

(* Each game's last save and state are under the name it looks them up by. *)
FoundAtFirst ==
  \A d \in DISKS : \A n \in RomNames : d.rom[n] # None =>
    \A k \in {"sav", "state"} :
      Latest(d.rom[n].game, k, d) = Found(d.saves, d.old, NameOn(d, n), k)

(* A ROM that will get another name finds it free, has started under its   *)
(* own before if it has old files, and its zip's name is not that name.    *)
NewNamesFree ==
  \A d \in DISKS : \A n \in RomNames : d.rom[n] # None /\ NameOn(d, n).ext # "gba" =>
    /\ NameOn(d, n).stem # n.stem
    /\ \A k \in {"sav", "state"} :
         /\ d.old[NameOn(d, n)][k] = None
         /\ Found(d.saves, d.old, Base(NameOn(d, n).stem), k) = None

-----------------------------------------------------------------------------
(* Properties.                                                             *)

(* Whatever happens, each game's ROM is there, whole: the old file does    *)
(* not go before the new one has been checked and has its name.            *)
RomsAreKept == \A g \in Games : \E n \in RomNames : rom[n] \in File /\ rom[n].game = g

(* No file that was not written to its end, or does not read back right,   *)
(* gets the name of a ROM.                                                 *)
NoHalfRoms == \A n \in RomNames : rom[n] \notin {Torn, Bad}

(* "The game's saves keep working": under the name that each ROM is looked *)
(* up by are the saves and states its game made, also beside the ROM until *)
(* the game is started, unless power went while they were being moved or   *)
(* the ROM they were moved from could not be removed.                      *)
SavesAreFound ==
  Idle => \A n \in RomNames : rom[n] \in File /\ rom[n].game \notin cut =>
    \A k \in {"sav", "state"} :
      saved[rom[n].game][k] = Found(saves, old, Name(n), k)

(* The last save, state and settings of a game are somewhere: none was     *)
(* replaced by another game's or by what an older build left.              *)
SavesAreKept ==
  \A g \in Games : \A k \in Kinds : saved[g][k] # None =>
    \E b \in Bases : saved[g][k] \in {saves[b][k], old[b][k]}

(* The running game's path leads to its ROM whenever the game can go on,   *)
(* and all the time if it still reads its file.                            *)
RunningGameHasItsRom ==
  playing # None /\ (Idle \/ paged) =>
    rom[gamepak_filename] \in File /\ rom[gamepak_filename].game = playing

(* Converted games keep their places in the player's order.                *)
ListKeepsPlaces ==
  Idle /\ listed # None =>
    /\ Len(order) = Len(listed)
    /\ \A i \in 1 .. Len(order) : rom[order[i]] \in File /\ rom[order[i]].game = listed[i]

=============================================================================

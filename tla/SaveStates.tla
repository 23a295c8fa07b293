----------------------------- MODULE SaveStates -----------------------------
(***************************************************************************)
(* The save states of one game: nspire_states.c.                           *)
(*                                                                         *)
(* A state is a file per slot.  The program keeps a table of the slots,    *)
(* read from the folder when the game starts, and picks the newest state   *)
(* and the next counter from that table alone.  Saving and re-packing      *)
(* write a temporary file, remove the slot's file and rename the temporary *)
(* one; the calculator can lose power between any two of those calls, and  *)
(* the write and the rename can fail.  A reset of the calculator puts its  *)
(* clock back, so file times do not order the states; counters in the      *)
(* headers do.                                                             *)
(*                                                                         *)
(* A moment of the game is a number: each save stores a later one, so the  *)
(* order of the moments is the order in which the states were saved.       *)
(***************************************************************************)
EXTENDS Naturals

CONSTANTS
  STATE_SLOTS,  \* how many slots a game has (1000 in the code)
  OldSaves,     \* how many states older builds saved before
  MaxSaves,     \* bound: the last save there is
  MaxClock,     \* bound: how far the clock of the file times goes
  OldDisks,     \* the files older builds can have left
  NoFile,       \* no file of that name
  Partial,      \* a file whose writing has not finished
  NoJob         \* no save or re-packing under way

Slots == 0 .. STATE_SLOTS - 1

(* "raw": gpSP's first states, no header.  "uncounted": a header without   *)
(* STATE_FLAG_COUNTED, the first QoL build's.  "counted": this build's.    *)
Kinds == {"raw", "uncounted", "counted"}

File == [kind : Kinds, stored : BOOLEAN, counter : Nat, mtime : Nat, moment : Nat \ {0}]

Info == [used : BOOLEAN, counted : BOOLEAN, counter : Nat, mtime : Nat]

Job == [what : {"save", "repack"}, slot : Slots, file : File, fresh : BOOLEAN]

ASSUME SlotsAssumption == STATE_SLOTS \in Nat \ {0}

ASSUME BoundsAssumption == OldSaves \in Nat /\ MaxSaves \in Nat /\ MaxClock \in Nat

ASSUME MarkersAssumption ==
  /\ NoFile \notin File
  /\ Partial \notin File
  /\ NoFile # Partial
  /\ NoJob \notin Job
  /\ NoJob \notin [slot : Slots, old : Nat]

(* No state of an older build is counted, and each was saved before now.   *)
ASSUME OldDisksAssumption ==
  \A disk \in OldDisks :
    /\ disk \in [Slots -> File \cup {NoFile}]
    /\ \A s \in Slots :
         disk[s] # NoFile => disk[s].kind # "counted" /\ disk[s].moment <= OldSaves

VARIABLES
  files,      \* the file of each slot
  temps,      \* the temporary file of each slot
  clock,      \* the calculator's clock, which file times come from
  table,      \* used, counted, counters and mtimes
  pc,         \* how far the job under way is; "off" when no game is open
  job,        \* the save or re-packing under way
  saves,      \* the last moment saved
  deleted     \* history: the slots the player deleted and has not saved to since

vars == <<files, temps, clock, table, pc, job, saves, deleted>>

Unused == [used |-> FALSE, counted |-> FALSE, counter |-> 0, mtime |-> 0]

(* read_slot_info: what a slot's file says of it.                          *)
ReadInfo(f) ==
  IF f = NoFile
  THEN Unused
  ELSE [used |-> TRUE, counted |-> f.kind = "counted",
        counter |-> IF f.kind = "raw" THEN 0 ELSE f.counter, mtime |-> f.mtime]

Used(s) == table[s].used

(* Variants of the code's definitions, each with a slip such code could     *)
(* have, show that the properties tell them apart; the first numbers a save *)
(* like the newest state instead of after it.                               *)
IsNextCounterTied(n) ==
  /\ n >= 1
  /\ \A s \in Slots : Used(s) => table[s].counter <= n
  /\ n = 1 \/ \E s \in Slots : Used(s) /\ n = table[s].counter

(* The counter of the next save: one more than the largest in use.         *)
IsNextCounter(n) ==
  /\ n >= 1
  /\ \A s \in Slots : Used(s) => table[s].counter < n
  /\ n = 1 \/ \E s \in Slots : Used(s) /\ n = table[s].counter + 1

(* states_next_new_slot: after the highest slot in use, or else the first  *)
(* free one.                                                               *)
IsNextNewSlot(s) ==
  \/ /\ \A t \in Slots : Used(t) => t < s
     /\ \A t \in Slots : t + 1 = s => Used(t)
  \/ /\ Used(STATE_SLOTS - 1)
     /\ ~Used(s)
     /\ \A t \in Slots : t < s => Used(t)

AnyCounted == \E s \in Slots : Used(s) /\ table[s].counted

(* states_newest compares counters when there are counted states, and file *)
(* times otherwise; the higher slot wins a tie.                            *)
NotNewer(t, s) ==
  LET a == table[t]
      b == table[s]
  IN IF AnyCounted
     THEN a.counter < b.counter \/ (a.counter = b.counter /\ t <= s)
     ELSE \/ a.mtime < b.mtime
          \/ a.mtime = b.mtime /\ a.counter < b.counter
          \/ a.mtime = b.mtime /\ a.counter = b.counter /\ t <= s

IsNewest(s) ==
  LET Candidate(t) == Used(t) /\ (AnyCounted => table[t].counted)
  IN Candidate(s) /\ \A t \in Slots : Candidate(t) => NotNewer(t, s)

-----------------------------------------------------------------------------
Init ==
  /\ files \in OldDisks
  /\ temps = [s \in Slots |-> NoFile]
  /\ clock = 0
  /\ table = [s \in Slots |-> Unused]
  /\ pc = "off"
  /\ job = NoJob
  /\ saves = OldSaves
  /\ deleted = {}

(* states_open_game: the table is read again from the folder.  Temporary   *)
(* files are not slots, so one left behind is not looked at.               *)
OpenGame ==
  /\ pc = "off"
  /\ table' = [s \in Slots |-> ReadInfo(files[s])]
  /\ pc' = "idle"
  /\ UNCHANGED <<files, temps, clock, job, saves, deleted>>

(* Variant: the slot's file goes before its replacement is written.         *)
BeginByRemoving(newJob) ==
  /\ job' = newJob
  /\ files' = [files EXCEPT ![newJob.slot] = NoFile]
  /\ temps' = [temps EXCEPT ![newJob.slot] = Partial]
  /\ pc' = "writing"
  /\ UNCHANGED <<clock, table, deleted>>

(* Both kinds of job begin by opening the slot's temporary file.           *)
Begin(newJob) ==
  /\ job' = newJob
  /\ temps' = [temps EXCEPT ![newJob.slot] = Partial]
  /\ pc' = "writing"
  /\ UNCHANGED <<files, clock, table, deleted>>

(* states_save: the header is filled in from the table.  "fresh" when the  *)
(* slot is the next new one (auto increment), not the current slot.        *)
SavedFile(n, stored) ==
  [kind |-> "counted", stored |-> stored, counter |-> n, mtime |-> clock,
   moment |-> saves + 1]

StartSave(s, fresh) ==
  /\ pc = "idle"
  /\ saves < MaxSaves
  /\ fresh => IsNextNewSlot(s)
  /\ saves' = saves + 1
  /\ \E n \in 1 .. MaxSaves, stored \in BOOLEAN :
       /\ IsNextCounter(n)
       /\ Begin([what |-> "save", slot |-> s, fresh |-> fresh,
                 file |-> SavedFile(n, stored)])

(* Variant: the flag that the state is counted is lost in re-packing.       *)
RepackedFileUncounted(s) ==
  [kind |-> "uncounted", stored |-> ~files[s].stored, counter |-> files[s].counter,
   mtime |-> clock, moment |-> files[s].moment]

(* states_set_compressed keeps a file's header; a state without one gets   *)
(* what the table says of it.                                              *)
RepackedFile(s) ==
  [kind |-> IF files[s].kind # "raw" THEN files[s].kind
            ELSE IF table[s].counted THEN "counted" ELSE "uncounted",
   stored |-> ~files[s].stored,
   counter |-> IF files[s].kind # "raw" THEN files[s].counter ELSE table[s].counter,
   mtime |-> clock,
   moment |-> files[s].moment]

(* A state that is already as asked is left alone, so this one isn't.      *)
StartRepack(s) ==
  /\ pc = "idle"
  /\ Used(s)
  /\ files[s] # NoFile
  /\ Begin([what |-> "repack", slot |-> s, fresh |-> FALSE, file |-> RepackedFile(s)])
  /\ UNCHANGED saves

WriteTemp ==
  /\ pc = "writing"
  /\ temps' = [temps EXCEPT ![job.slot] = job.file]
  /\ pc' = "written"
  /\ UNCHANGED <<files, clock, table, job, saves, deleted>>

(* Giving up: the temporary file goes, the table stays as it was.          *)
GiveUp ==
  /\ temps' = [temps EXCEPT ![job.slot] = NoFile]
  /\ job' = NoJob
  /\ pc' = "idle"
  /\ UNCHANGED <<files, clock, table, saves, deleted>>

WriteFails ==
  /\ pc = "writing"
  /\ GiveUp

(* remove(path), whose result is not looked at.                            *)
RemoveOld ==
  /\ pc = "written"
  /\ files' = [files EXCEPT ![job.slot] = NoFile] \/ UNCHANGED files
  /\ pc' = "removed"
  /\ deleted' = deleted \ {job.slot}
  /\ UNCHANGED <<temps, clock, table, job, saves>>

(* Variant: the table learns the counter but not that the slot is used.     *)
FinishedUnused(s) ==
  IF job.what = "save"
  THEN [table[s] EXCEPT !.counted = TRUE, !.counter = job.file.counter]
  ELSE ReadInfo(temps[s])

(* After a save the table gets the counter but not the file's time; after  *)
(* re-packing the slot is read again.                                      *)
Finished(s) ==
  IF job.what = "save"
  THEN [table[s] EXCEPT !.used = TRUE, !.counted = TRUE, !.counter = job.file.counter]
  ELSE ReadInfo(temps[s])

RenameTemp ==
  /\ pc = "removed"
  /\ files' = [files EXCEPT ![job.slot] = temps[job.slot]]
  /\ temps' = [temps EXCEPT ![job.slot] = NoFile]
  /\ table' = [table EXCEPT ![job.slot] = Finished(job.slot)]
  /\ job' = NoJob
  /\ pc' = "idle"
  /\ UNCHANGED <<clock, saves, deleted>>

RenameFails ==
  /\ pc = "removed"
  /\ GiveUp

(* states_load of a slot whose file went away: the slot is no longer used. *)
LoadMissing(s) ==
  /\ pc = "idle"
  /\ Used(s)
  /\ files[s] = NoFile
  /\ table' = [table EXCEPT ![s].used = FALSE]
  /\ UNCHANGED <<files, temps, clock, pc, job, saves, deleted>>

(* states_delete                                                           *)
Delete(s) ==
  /\ pc = "idle"
  /\ Used(s)
  /\ files[s] # NoFile
  /\ files' = [files EXCEPT ![s] = NoFile]
  /\ table' = [table EXCEPT ![s] = Unused]
  /\ deleted' = deleted \cup {s}
  /\ UNCHANGED <<temps, clock, pc, job, saves>>

(* Leaving the game, or the calculator losing power at any point, which    *)
(* also puts its clock back.                                               *)
Stop(clockAfter) ==
  /\ pc' = "off"
  /\ job' = NoJob
  /\ table' = [s \in Slots |-> Unused]
  /\ clock' = clockAfter
  /\ UNCHANGED <<files, temps, saves, deleted>>

LeaveGame == pc = "idle" /\ Stop(clock)

Crash == pc # "off" /\ Stop(0)

Tick ==
  /\ clock < MaxClock
  /\ clock' = clock + 1
  /\ UNCHANGED <<files, temps, table, pc, job, saves, deleted>>

Next ==
  \/ OpenGame
  \/ \E s \in Slots, fresh \in BOOLEAN : StartSave(s, fresh)
  \/ \E s \in Slots : StartRepack(s) \/ LoadMissing(s) \/ Delete(s)
  \/ WriteTemp \/ WriteFails
  \/ RemoveOld
  \/ RenameTemp \/ RenameFails
  \/ LeaveGame \/ Crash
  \/ Tick

Spec == Init /\ [][Next]_vars

-----------------------------------------------------------------------------
(* The values each variable can have; a job is there exactly while a file  *)
(* is being replaced.                                                      *)
TypeOK ==
  /\ files \in [Slots -> File \cup {NoFile}]
  /\ temps \in [Slots -> File \cup {NoFile, Partial}]
  /\ clock \in Nat
  /\ table \in [Slots -> Info]
  /\ pc \in {"off", "idle", "writing", "written", "removed"}
  /\ job \in Job \cup {NoJob}
  /\ saves \in Nat
  /\ deleted \subseteq Slots
  /\ pc \in {"off", "idle"} <=> job = NoJob

(* While a game is open, every slot file there is in the table with its    *)
(* counter, whatever was saved, re-packed, deleted or failed since the     *)
(* folder was read: nothing on the disk is invisible to states_newest, and *)
(* no counter can be given out twice.                                      *)
FilesAreListed ==
  pc # "off" =>
    \A s \in Slots : files[s] # NoFile =>
      /\ Used(s)
      /\ table[s].counted = (files[s].kind = "counted")
      /\ table[s].counter = ReadInfo(files[s]).counter

(* A slot in the table whose file is gone: a rename failed after the old   *)
(* file had been removed.                                                  *)
Phantom(s) == Used(s) /\ files[s] = NoFile

(* The state states_newest picks is the last one saved of those there are, *)
(* across restarts, clock resets, deletions and re-packing.                *)
NewestIsLastSaved ==
  pc = "idle" /\ (\A s \in Slots : ~Phantom(s)) =>
    \A s, t \in Slots :
      IsNewest(s) /\ files[t] # NoFile /\ files[t].kind = "counted"
        => files[t].moment <= files[s].moment

(* Saving to a new slot never replaces a state: the slot picked from the   *)
(* table has no file on the disk when the temporary file is renamed to it. *)
NewSlotIsFree == pc # "off" /\ job # NoJob => (job.fresh => files[job.slot] = NoFile)

(* Re-packing a state leaves the newest one the newest when the game has a *)
(* state of this build.                                                    *)
RepackKeepsNewest ==
  [][pc = "removed" /\ job.what = "repack" /\ RenameTemp /\ AnyCounted
       => \A s \in Slots : IsNewest(s) <=> IsNewest(s)']_vars

(* The slots as the abstract store has them: a slot whose old file has     *)
(* been removed already counts as holding its replacement.                 *)
OnDisk(s) == IF files[s] = NoFile THEN 0 ELSE files[s].moment

Held ==
  [s \in Slots |-> IF pc = "removed" /\ s = job.slot THEN job.file.moment ELSE OnDisk(s)]

Unsettled ==
  IF pc = "removed" THEN [slot |-> job.slot, old |-> OnDisk(job.slot)] ELSE NoJob

Store == INSTANCE StateStore WITH Settled <- NoJob, store <- Held, pending <- Unsettled

(* Every save, re-packing, deletion, failure and loss of power is a step   *)
(* of the abstract store: only the slot being replaced can be lost, and    *)
(* only once its complete replacement is on the disk.                      *)
StatesAreKept == Store!Spec
=============================================================================

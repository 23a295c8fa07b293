-------------------------- MODULE SaveStatesProofs --------------------------
(***************************************************************************)
(* Proofs about the save states, for any number of slots and any files of  *)
(* older builds.                                                           *)
(***************************************************************************)
EXTENDS SaveStates, TLAPS

(* What holds of the job under way: its complete temporary file, and where *)
(* it stands among the other states.                                       *)
JobFits ==
  job # NoJob =>
    /\ pc \in {"written", "removed"} => temps[job.slot] = job.file
    /\ job.file.moment <= saves
    /\ job.what = "save" =>
         /\ job.file.kind = "counted"
         /\ \A s \in Slots : files[s] # NoFile => files[s].moment < job.file.moment
         /\ \A s \in Slots : Used(s) => table[s].counter < job.file.counter
    /\ job.what = "repack" =>
         /\ Used(job.slot)
         /\ ~job.fresh
         /\ job.file.kind # "raw"
         /\ table[job.slot].counted = (job.file.kind = "counted")
         /\ table[job.slot].counter = job.file.counter
         /\ job.file.kind = "counted" =>
              \A t \in Slots \ {job.slot} :
                files[t] # NoFile /\ files[t].kind = "counted" =>
                  /\ files[t].moment < job.file.moment => files[t].counter < job.file.counter
                  /\ job.file.moment < files[t].moment => job.file.counter < files[t].counter

(* The counters of this build's states follow the order of their saving.   *)
CountersFollowSaves ==
  \A s, t \in Slots :
    /\ files[s] # NoFile /\ files[s].kind = "counted"
    /\ files[t] # NoFile /\ files[t].kind = "counted"
    /\ s # t
    /\ files[s].moment < files[t].moment
    => files[s].counter < files[t].counter

MomentsSoFar == \A s \in Slots : files[s] # NoFile => files[s].moment <= saves

IInv ==
  /\ TypeOK
  /\ FilesAreListed
  /\ NewSlotIsFree
  /\ JobFits
  /\ CountersFollowSaves
  /\ MomentsSoFar

LEMMA ReadInfoType ==
  ASSUME NEW f \in File \cup {NoFile}
  PROVE  ReadInfo(f) \in Info
BY DEF ReadInfo, Info, File, Unused

LEMMA InitInv == Init => IInv
<1> SUFFICES ASSUME Init PROVE IInv
  OBVIOUS
<1> USE OldDisksAssumption, BoundsAssumption, MarkersAssumption DEF Init
<1>1. TypeOK
  BY DEF TypeOK, Unused, Info
<1>2. FilesAreListed /\ NewSlotIsFree /\ JobFits
  BY DEF FilesAreListed, NewSlotIsFree, JobFits
<1>3. CountersFollowSaves /\ MomentsSoFar
  BY DEF CountersFollowSaves, MomentsSoFar
<1>4. QED
  BY <1>1, <1>2, <1>3 DEF IInv

LEMMA SavedFileType ==
  ASSUME TypeOK, NEW n \in 1 .. MaxSaves, NEW stored \in BOOLEAN
  PROVE  SavedFile(n, stored) \in File
BY BoundsAssumption DEF TypeOK, SavedFile, File, Kinds

LEMMA RepackedFileType ==
  ASSUME TypeOK, NEW s \in Slots, files[s] # NoFile
  PROVE  RepackedFile(s) \in File
<1>1. files[s] \in File /\ table[s] \in Info /\ clock \in Nat
  BY DEF TypeOK
<1>2. files[s].kind \in Kinds /\ files[s].stored \in BOOLEAN /\ files[s].counter \in Nat
      /\ files[s].moment \in Nat \ {0}
  BY <1>1 DEF File
<1>3. table[s].counted \in BOOLEAN /\ table[s].counter \in Nat
  BY <1>1 DEF Info
<1>4. (~files[s].stored) \in BOOLEAN
  OBVIOUS
<1>5. QED
  BY <1>1, <1>2, <1>3, <1>4 DEF RepackedFile, File, Kinds

(* One lemma per action: each keeps the invariant.                         *)
LEMMA OpenGameStep == IInv /\ OpenGame => IInv'
<1> SUFFICES ASSUME IInv, OpenGame PROVE IInv'
  OBVIOUS
<1> USE DEF OpenGame
<1>1. TypeOK'
  <2>1. table' \in [Slots -> Info]
    BY ReadInfoType DEF IInv, TypeOK
  <2>2. QED
    BY <2>1 DEF IInv, TypeOK
<1>2. FilesAreListed'
  BY DEF IInv, TypeOK, FilesAreListed, Used, ReadInfo
<1>3. (NewSlotIsFree /\ JobFits)'
  BY DEF IInv, TypeOK, NewSlotIsFree, JobFits
<1>4. (CountersFollowSaves /\ MomentsSoFar)'
  BY DEF IInv, CountersFollowSaves, MomentsSoFar
<1>5. QED
  BY <1>1, <1>2, <1>3, <1>4 DEF IInv

LEMMA StartSaveStep ==
  ASSUME IInv, NEW s \in Slots, NEW fresh \in BOOLEAN, StartSave(s, fresh)
  PROVE  IInv'
<1>1. PICK n \in 1 .. MaxSaves, stored \in BOOLEAN :
        /\ IsNextCounter(n)
        /\ Begin([what |-> "save", slot |-> s, fresh |-> fresh,
                  file |-> SavedFile(n, stored)])
  BY DEF StartSave
<1> DEFINE f == SavedFile(n, stored)
<1>2. f \in File
  BY SavedFileType DEF IInv
<1>3. f.kind = "counted" /\ f.counter = n /\ f.moment = saves + 1
  BY DEF SavedFile
<1> HIDE DEF f
<1>4. /\ job' = [what |-> "save", slot |-> s, fresh |-> fresh, file |-> f]
      /\ temps' = [temps EXCEPT ![s] = Partial]
      /\ pc' = "writing" /\ pc = "idle"
      /\ UNCHANGED <<files, clock, table, deleted>>
      /\ saves' = saves + 1
      /\ fresh => IsNextNewSlot(s)
  BY <1>1 DEF Begin, StartSave, f
<1>5. TypeOK'
  <2>1. job' \in Job
    BY <1>2, <1>4 DEF Job
  <2>2. QED
    BY <1>4, <2>1, MarkersAssumption DEF IInv, TypeOK
<1>6. FilesAreListed'
  BY <1>4 DEF IInv, FilesAreListed, Used, ReadInfo
<1>7. NewSlotIsFree'
  <2>1. fresh => ~Used(s)
    BY <1>4 DEF IsNextNewSlot, Slots
  <2>2. QED
    BY <1>4, <2>1 DEF IInv, FilesAreListed, NewSlotIsFree
<1>8. JobFits'
  <2>1. \A t \in Slots : Used(t) => table[t].counter < f.counter
    BY <1>1, <1>3 DEF IsNextCounter
  <2>2. \A t \in Slots : files[t] # NoFile => files[t].moment < f.moment
    BY <1>3 DEF IInv, MomentsSoFar, TypeOK, File
  <2>3. QED
    BY <1>3, <1>4, <2>1, <2>2 DEF IInv, TypeOK, JobFits, Used
<1>9. (CountersFollowSaves /\ MomentsSoFar)'
  BY <1>4 DEF IInv, TypeOK, CountersFollowSaves, MomentsSoFar, File
<1>10. QED
  BY <1>5, <1>6, <1>7, <1>8, <1>9 DEF IInv

LEMMA StartRepackStep ==
  ASSUME IInv, NEW s \in Slots, StartRepack(s)
  PROVE  IInv'
<1> DEFINE f == RepackedFile(s)
<1>1. f \in File
  BY RepackedFileType DEF IInv, StartRepack
<1>2. files[s] # NoFile /\ Used(s) /\ pc = "idle" /\ table[s] \in Info
  BY DEF StartRepack, IInv, TypeOK
<1>3. table[s].counted = (files[s].kind = "counted")
  BY <1>2 DEF IInv, FilesAreListed
<1>4. f.moment = files[s].moment /\ f.kind # "raw"
      /\ (f.kind = "counted") = table[s].counted
      /\ f.counter = table[s].counter
      /\ (f.kind = "counted" => files[s].kind = "counted" /\ f.counter = files[s].counter)
  BY <1>2, <1>3 DEF RepackedFile, IInv, FilesAreListed, ReadInfo
<1>5. /\ job' = [what |-> "repack", slot |-> s, fresh |-> FALSE, file |-> f]
      /\ temps' = [temps EXCEPT ![s] = Partial]
      /\ pc' = "writing"
      /\ UNCHANGED <<files, clock, table, saves, deleted>>
  BY DEF Begin, StartRepack
<1> HIDE DEF f
<1>6. TypeOK'
  <2>1. job' \in Job
    BY <1>1, <1>5 DEF Job
  <2>2. QED
    BY <1>5, <2>1, MarkersAssumption DEF IInv, TypeOK
<1>7. (FilesAreListed /\ NewSlotIsFree)'
  BY <1>2, <1>5 DEF IInv, FilesAreListed, NewSlotIsFree, Used, ReadInfo
<1>8. JobFits'
  <2>1. f.moment <= saves
    BY <1>2, <1>4 DEF IInv, MomentsSoFar
  <2>2. ASSUME f.kind = "counted", NEW t \in Slots \ {s},
               files[t] # NoFile, files[t].kind = "counted"
        PROVE  /\ files[t].moment < f.moment => files[t].counter < f.counter
               /\ f.moment < files[t].moment => f.counter < files[t].counter
    BY <1>2, <1>4, <2>2 DEF IInv, CountersFollowSaves
  <2>3. QED
    BY <1>2, <1>4, <1>5, <2>1, <2>2 DEF JobFits, Used
<1>9. (CountersFollowSaves /\ MomentsSoFar)'
  BY <1>5 DEF IInv, CountersFollowSaves, MomentsSoFar
<1>10. QED
  BY <1>6, <1>7, <1>8, <1>9 DEF IInv

LEMMA WriteTempStep == IInv /\ WriteTemp => IInv'
<1> SUFFICES ASSUME IInv, WriteTemp PROVE IInv'
  OBVIOUS
<1>1. job \in Job /\ job.slot \in Slots /\ job.file \in File
  BY DEF IInv, TypeOK, WriteTemp, Job
<1>2. TypeOK'
  BY <1>1 DEF IInv, TypeOK, WriteTemp
<1>3. (FilesAreListed /\ NewSlotIsFree)'
  BY DEF IInv, FilesAreListed, NewSlotIsFree, Used, ReadInfo, WriteTemp
<1>4. JobFits'
  BY <1>1 DEF IInv, TypeOK, JobFits, Used, WriteTemp
<1>5. (CountersFollowSaves /\ MomentsSoFar)'
  BY DEF IInv, CountersFollowSaves, MomentsSoFar, WriteTemp
<1>6. QED
  BY <1>2, <1>3, <1>4, <1>5 DEF IInv

LEMMA GiveUpStep == IInv /\ pc \in {"writing", "removed"} /\ GiveUp => IInv'
<1> SUFFICES ASSUME IInv, pc \in {"writing", "removed"}, GiveUp PROVE IInv'
  OBVIOUS
<1>1. TypeOK'
  BY DEF IInv, TypeOK, GiveUp
<1>2. (FilesAreListed /\ NewSlotIsFree /\ JobFits)'
  BY DEF IInv, FilesAreListed, NewSlotIsFree, JobFits, Used, ReadInfo, GiveUp
<1>3. (CountersFollowSaves /\ MomentsSoFar)'
  BY DEF IInv, CountersFollowSaves, MomentsSoFar, GiveUp
<1>4. QED
  BY <1>1, <1>2, <1>3 DEF IInv

(* Removing a file, or not, takes no state out of order.                   *)
LEMMA RemoveOldStep == IInv /\ RemoveOld => IInv'
<1> SUFFICES ASSUME IInv, RemoveOld PROVE IInv'
  OBVIOUS
<1>1. job \in Job /\ job.slot \in Slots
  BY DEF IInv, TypeOK, RemoveOld, Job
<1>2. \A s \in Slots : files'[s] # NoFile => files'[s] = files[s]
  BY <1>1 DEF IInv, TypeOK, RemoveOld
<1>3. TypeOK'
  BY DEF IInv, TypeOK, RemoveOld
<1>4. FilesAreListed'
  BY <1>2 DEF IInv, FilesAreListed, Used, ReadInfo, RemoveOld
<1>5. NewSlotIsFree'
  BY <1>1, <1>2 DEF IInv, NewSlotIsFree, RemoveOld
<1>6. JobFits'
  BY <1>1, <1>2 DEF IInv, JobFits, Used, RemoveOld
<1>7. (CountersFollowSaves /\ MomentsSoFar)'
  BY <1>2 DEF IInv, CountersFollowSaves, MomentsSoFar, RemoveOld
<1>8. QED
  BY <1>3, <1>4, <1>5, <1>6, <1>7 DEF IInv

LEMMA RenameTempStep == IInv /\ RenameTemp => IInv'
<1> SUFFICES ASSUME IInv, RenameTemp PROVE IInv'
  OBVIOUS
<1> DEFINE d == job.slot
           f == job.file
<1>1. /\ job \in Job /\ d \in Slots /\ f \in File /\ job # NoJob
      /\ job.what \in {"save", "repack"} /\ temps[d] = f
      /\ f # NoFile /\ f.counter \in Nat /\ f.moment \in Nat /\ f.kind \in Kinds
  BY MarkersAssumption DEF IInv, TypeOK, JobFits, RenameTemp, Job, File
<1>2. /\ files' = [files EXCEPT ![d] = f]
      /\ temps' = [temps EXCEPT ![d] = NoFile]
      /\ table' = [table EXCEPT ![d] = Finished(d)]
      /\ job' = NoJob /\ pc' = "idle"
      /\ UNCHANGED <<clock, saves, deleted>>
  BY <1>1 DEF RenameTemp
<1>3. Finished(d) \in Info /\ Finished(d).used
      /\ Finished(d).counted = (f.kind = "counted")
      /\ Finished(d).counter = ReadInfo(f).counter
  <2>1. CASE job.what = "save"
    <3>1. Finished(d) = [table[d] EXCEPT !.used = TRUE, !.counted = TRUE,
                                         !.counter = f.counter]
      BY <2>1 DEF Finished
    <3>2. table[d] \in Info /\ f.kind = "counted"
      BY <1>1, <2>1 DEF IInv, TypeOK, JobFits
    <3>3. ReadInfo(f).counter = f.counter
      BY <1>1, <3>2 DEF ReadInfo
    <3>4. QED
      BY <1>1, <3>1, <3>2, <3>3 DEF Info
  <2>2. CASE job.what = "repack"
    BY <1>1, <2>2, ReadInfoType DEF Finished, ReadInfo
  <2>3. QED
    BY <1>1, <2>1, <2>2
<1> HIDE DEF d, f
<1>4. TypeOK'
  BY <1>1, <1>2, <1>3 DEF IInv, TypeOK
<1>5. FilesAreListed'
  <2>1. ASSUME NEW s \in Slots, files'[s] # NoFile
        PROVE  /\ table'[s].used
               /\ table'[s].counted = (files'[s].kind = "counted")
               /\ table'[s].counter = ReadInfo(files'[s]).counter
    <3>1. CASE s = d
      BY <1>1, <1>2, <1>3, <3>1 DEF IInv, TypeOK
    <3>2. CASE s # d
      BY <1>1, <1>2, <2>1, <3>2 DEF IInv, TypeOK, FilesAreListed, Used, RenameTemp
    <3>3. QED
      BY <3>1, <3>2
  <2>2. QED
    BY <2>1 DEF FilesAreListed, Used, ReadInfo
<1>6. (NewSlotIsFree /\ JobFits)'
  BY <1>2 DEF NewSlotIsFree, JobFits
<1>7. CountersFollowSaves'
  <2>1. ASSUME NEW t \in Slots, t # d, files[t] # NoFile, files[t].kind = "counted",
               f.kind = "counted"
        PROVE  /\ files[t].moment < f.moment => files[t].counter < f.counter
               /\ f.moment < files[t].moment => f.counter < files[t].counter
    <3>1. files[t].counter \in Nat /\ files[t].moment \in Nat
      BY <2>1 DEF IInv, TypeOK, File
    <3>2. CASE job.what = "save"
      <4>1. Used(t) /\ table[t].counter = files[t].counter
        BY <2>1 DEF IInv, FilesAreListed, ReadInfo, RenameTemp
      <4>2. QED
        BY <1>1, <2>1, <3>1, <3>2, <4>1 DEF IInv, JobFits, f
    <3>3. CASE job.what = "repack"
      BY <1>1, <2>1, <3>3 DEF IInv, JobFits, f, d
    <3>4. QED
      BY <1>1, <3>2, <3>3
  <2>2. QED
    BY <1>1, <1>2, <2>1 DEF IInv, TypeOK, CountersFollowSaves
<1>8. MomentsSoFar'
  BY <1>1, <1>2 DEF IInv, TypeOK, MomentsSoFar, JobFits, f
<1>9. QED
  BY <1>4, <1>5, <1>6, <1>7, <1>8 DEF IInv

LEMMA SlotStep ==
  ASSUME IInv, NEW s \in Slots, LoadMissing(s) \/ Delete(s)
  PROVE  IInv'
<1>1. TypeOK'
  <2>1. table[s] \in Info
    BY DEF IInv, TypeOK
  <2>2. [table[s] EXCEPT !.used = FALSE] \in Info /\ Unused \in Info
    BY <2>1 DEF Info, Unused
  <2>3. CASE LoadMissing(s)
    <3>1. table' = [table EXCEPT ![s] = [table[s] EXCEPT !.used = FALSE]]
      BY <2>3 DEF LoadMissing, IInv, TypeOK
    <3>2. QED
      BY <2>2, <2>3, <3>1 DEF IInv, TypeOK, LoadMissing
  <2>4. CASE Delete(s)
    BY <2>2, <2>4 DEF IInv, TypeOK, Delete
  <2>5. QED
    BY <2>3, <2>4
<1>2. \A t \in Slots : files'[t] # NoFile => files'[t] = files[t] /\ table'[t] = table[t]
  BY DEF IInv, TypeOK, LoadMissing, Delete
<1>3. FilesAreListed'
  BY <1>2 DEF IInv, FilesAreListed, Used, ReadInfo, LoadMissing, Delete
<1>4. (NewSlotIsFree /\ JobFits)'
  BY DEF IInv, TypeOK, NewSlotIsFree, JobFits, LoadMissing, Delete
<1>5. (CountersFollowSaves /\ MomentsSoFar)'
  BY <1>2 DEF IInv, CountersFollowSaves, MomentsSoFar, LoadMissing, Delete
<1>6. QED
  BY <1>1, <1>3, <1>4, <1>5 DEF IInv

LEMMA StopStep ==
  ASSUME IInv, NEW clockAfter \in Nat, Stop(clockAfter)
  PROVE  IInv'
<1>1. TypeOK'
  BY DEF IInv, TypeOK, Stop, Info, Unused
<1>2. (FilesAreListed /\ NewSlotIsFree /\ JobFits)'
  BY DEF FilesAreListed, NewSlotIsFree, JobFits, Stop
<1>3. (CountersFollowSaves /\ MomentsSoFar)'
  BY DEF IInv, CountersFollowSaves, MomentsSoFar, Stop
<1>4. QED
  BY <1>1, <1>2, <1>3 DEF IInv

LEMMA TickStep == IInv /\ (Tick \/ UNCHANGED vars) => IInv'
BY DEF IInv, TypeOK, FilesAreListed, NewSlotIsFree, JobFits, CountersFollowSaves,
       MomentsSoFar, Used, ReadInfo, Tick, vars

LEMMA InvStep == IInv /\ [Next]_vars => IInv'
<1> SUFFICES ASSUME IInv, [Next]_vars PROVE IInv'
  OBVIOUS
<1>1. CASE WriteFails \/ RenameFails
  BY <1>1, GiveUpStep DEF WriteFails, RenameFails
<1>2. CASE LeaveGame \/ Crash
  BY <1>2, StopStep DEF LeaveGame, Crash, IInv, TypeOK
<1>3. QED
  BY <1>1, <1>2, OpenGameStep, StartSaveStep, StartRepackStep, WriteTempStep,
     RemoveOldStep, RenameTempStep, SlotStep, TickStep DEF Next

LEMMA Invariance == Spec => []IInv
BY InitInv, InvStep, PTL DEF Spec

(* Every variable has its type in every reachable state.                   *)
THEOREM TypeCorrect == Spec => []TypeOK
<1>1. IInv => TypeOK
  BY DEF IInv
<1>2. QED
  BY <1>1, Invariance, PTL

(* No slot file is ever missing from the table, however saves, re-packing, *)
(* deletions, failures and restarts are mixed.                             *)
THEOREM TableListsFiles == Spec => []FilesAreListed
<1>1. IInv => FilesAreListed
  BY DEF IInv
<1>2. QED
  BY <1>1, Invariance, PTL

(* A save to a new slot replaces no state.                                 *)
THEOREM NewSlotsAreFree == Spec => []NewSlotIsFree
<1>1. IInv => NewSlotIsFree
  BY DEF IInv
<1>2. QED
  BY <1>1, Invariance, PTL

(* states_newest finds the state this build saved last.                    *)
THEOREM NewestCorrect == Spec => []NewestIsLastSaved
<1>1. IInv => NewestIsLastSaved
  <2> SUFFICES ASSUME IInv, pc = "idle", \A s \in Slots : ~Phantom(s),
                      NEW s \in Slots, NEW t \in Slots, IsNewest(s),
                      files[t] # NoFile, files[t].kind = "counted"
               PROVE  files[t].moment <= files[s].moment
    BY DEF NewestIsLastSaved
  <2>1. Used(t) /\ table[t].counted /\ table[t].counter = files[t].counter
    BY DEF IInv, FilesAreListed, ReadInfo
  <2>2. AnyCounted
    BY <2>1 DEF AnyCounted
  <2>3. Used(s) /\ table[s].counted /\ NotNewer(t, s)
    BY <2>1, <2>2 DEF IsNewest
  <2>4. files[s] # NoFile
    BY <2>3 DEF Phantom
  <2>5. files[s].kind = "counted" /\ table[s].counter = files[s].counter
    BY <2>3, <2>4 DEF IInv, FilesAreListed, ReadInfo
  <2>6. table[t].counter <= table[s].counter
    BY <2>2, <2>3 DEF NotNewer, IInv, TypeOK, Info
  <2>7. files[s] \in File /\ files[t] \in File
    BY <2>4 DEF IInv, TypeOK
  <2>8. ~(files[s].moment < files[t].moment)
    BY <2>1, <2>4, <2>5, <2>6, <2>7 DEF IInv, CountersFollowSaves, File
  <2>9. QED
    BY <2>7, <2>8 DEF File
<1>2. QED
  BY <1>1, Invariance, PTL

(* With a state of this build in the table, re-packing changes only a file *)
(* time, which states_newest then does not look at.                        *)
LEMMA RepackStep ==
  IInv /\ [Next]_vars =>
    [pc = "removed" /\ job.what = "repack" /\ RenameTemp /\ AnyCounted
       => \A s \in Slots : IsNewest(s) <=> IsNewest(s)']_vars
<1> SUFFICES ASSUME IInv, pc = "removed", job.what = "repack", RenameTemp, AnyCounted
             PROVE  \A s \in Slots : IsNewest(s) <=> IsNewest(s)'
  OBVIOUS
<1>1. /\ job # NoJob /\ job.slot \in Slots /\ job.file \in File /\ job.file # NoFile
      /\ job.file.kind # "raw" /\ temps[job.slot] = job.file
      /\ Used(job.slot)
      /\ table[job.slot].counted = (job.file.kind = "counted")
      /\ table[job.slot].counter = job.file.counter
  BY MarkersAssumption DEF IInv, TypeOK, JobFits, Job
<1>2. table' = [table EXCEPT ![job.slot] = ReadInfo(job.file)]
  BY <1>1 DEF RenameTemp, Finished
<1>3. \A s \in Slots : /\ table'[s].used = table[s].used
                       /\ table'[s].counted = table[s].counted
                       /\ table'[s].counter = table[s].counter
  BY <1>1, <1>2 DEF IInv, TypeOK, ReadInfo, Used
<1>4. AnyCounted'
  BY <1>3 DEF AnyCounted, Used
<1>5. \A s, t \in Slots : NotNewer(t, s) <=> NotNewer(t, s)'
  BY <1>3, <1>4 DEF NotNewer
<1>6. QED
  BY <1>3, <1>4, <1>5 DEF IsNewest, Used

(* Compressing or uncompressing a state leaves the newest one the newest.  *)
THEOREM RepackCorrect == Spec => RepackKeepsNewest
BY RepackStep, Invariance, PTL DEF Spec, RepackKeepsNewest


(* Refinement: what each step does to the store the files stand for.       *)
LEMMA RefineInit == Init => Store!Init
<1> SUFFICES ASSUME Init PROVE Store!Init
  OBVIOUS
<1>1. files \in [Slots -> File \cup {NoFile}]
  BY OldDisksAssumption DEF Init
<1>2. Held \in [Slots -> Nat]
  BY <1>1 DEF Init, Held, OnDisk, File
<1>3. Unsettled = NoJob
  BY DEF Init, Unsettled
<1>4. QED
  BY <1>2, <1>3 DEF Init, Store!Init

(* Away from the moment between remove and rename, the store is the disk.  *)
LEMMA AwayFromSwap ==
  ASSUME pc # "removed"
  PROVE  Held = [s \in Slots |-> OnDisk(s)] /\ Unsettled = NoJob
BY DEF Held, Unsettled

LEMMA QuietStep ==
  ASSUME pc # "removed", pc' # "removed", UNCHANGED <<files, deleted>>
  PROVE  UNCHANGED Store!vars
BY DEF Held, Unsettled, OnDisk, Store!vars

LEMMA RefineStep == IInv /\ [Next]_vars => [Store!Next]_(Store!vars)
<1> SUFFICES ASSUME IInv, [Next]_vars PROVE [Store!Next]_(Store!vars)
  OBVIOUS
<1> DEFINE d == job.slot
<1>1. CASE \/ OpenGame \/ WriteTemp \/ WriteFails \/ LeaveGame
           \/ \E s \in Slots : LoadMissing(s) \/ StartRepack(s)
           \/ \E s \in Slots, fresh \in BOOLEAN : StartSave(s, fresh)
  <2>1. pc # "removed" /\ pc' # "removed" /\ UNCHANGED <<files, deleted>>
    BY <1>1 DEF OpenGame, WriteTemp, WriteFails, GiveUp, LeaveGame, Stop, LoadMissing,
                StartRepack, StartSave, Begin
  <2>2. QED
    BY <2>1, QuietStep
<1>2. CASE RemoveOld
  <2>1. job \in Job /\ d \in Slots /\ job.file \in File
    BY <1>2 DEF IInv, TypeOK, RemoveOld, Job
  <2>2. /\ pc = "written" /\ pc' = "removed" /\ UNCHANGED job
        /\ files' = [files EXCEPT ![d] = NoFile] \/ UNCHANGED files
        /\ deleted' = deleted \ {d}
    BY <1>2 DEF RemoveOld
  <2>3. Held = [s \in Slots |-> OnDisk(s)] /\ Unsettled = NoJob
    BY <2>2, AwayFromSwap
  <2>4. \A s \in Slots \ {d} : OnDisk(s)' = OnDisk(s)
    BY <2>1, <2>2 DEF OnDisk, IInv, TypeOK
  <2>5. Held' = [Held EXCEPT ![d] = job.file.moment]
    BY <2>1, <2>2, <2>3, <2>4 DEF Held
  <2>6. OnDisk(d)' \in {OnDisk(d), 0}
    BY <2>1, <2>2 DEF OnDisk, IInv, TypeOK
  <2>7. Unsettled' = [slot |-> d, old |-> OnDisk(d)']
    BY <2>2 DEF Unsettled, OnDisk
  <2>8. Held[d] = OnDisk(d) /\ Held'[d] = job.file.moment /\ job.file.moment \in Nat \ {0}
    BY <2>1, <2>3, <2>5 DEF File
  <2>9. Store!Replace(d)
    BY <2>1, <2>2, <2>3, <2>5, <2>6, <2>7, <2>8 DEF Store!Replace
  <2>10. QED
    BY <2>1, <2>9 DEF Store!Next
<1>3. ASSUME pc = "removed"
      PROVE  /\ job \in Job /\ job # NoJob /\ d \in Slots
             /\ Unsettled = [slot |-> d, old |-> OnDisk(d)]
             /\ Unsettled \in Store!Pending
  <2>1. job \in Job /\ job # NoJob /\ d \in Slots
    BY <1>3 DEF IInv, TypeOK, Job
  <2>2. OnDisk(d) \in Nat
    BY <2>1 DEF OnDisk, IInv, TypeOK, File
  <2>3. QED
    BY <1>3, <2>1, <2>2 DEF Unsettled, Store!Pending
<1>4. ASSUME pc = "removed"
      PROVE  Unsettled # NoJob
  BY <1>3, <1>4, MarkersAssumption DEF Store!Pending
<1>5. CASE RenameTemp
  <2>1. /\ pc = "removed" /\ pc' = "idle" /\ job.file \in File
        /\ files' = [files EXCEPT ![d] = job.file] /\ job.file # NoFile /\ UNCHANGED deleted
    BY <1>3, <1>5, MarkersAssumption DEF IInv, JobFits, RenameTemp, Job
  <2>2. Held' = Held
    BY <1>3, <2>1 DEF Held, OnDisk, IInv, TypeOK
  <2>3. Unsettled' = NoJob
    BY <2>1 DEF Unsettled
  <2>4. Store!Settle
    BY <1>4, <2>1, <2>2, <2>3 DEF Store!Settle
  <2>5. QED
    BY <2>4 DEF Store!Next
<1>6. CASE pc = "removed" /\ pc' # "removed" /\ UNCHANGED <<files, deleted>>
  <2>1. Unsettled.slot = d /\ Unsettled.old = OnDisk(d)
    BY <1>3, <1>6
  <2>2. Held' = [Held EXCEPT ![d] = OnDisk(d)]
    BY <1>3, <1>6 DEF Held, OnDisk
  <2>3. Unsettled' = NoJob
    BY <1>6 DEF Unsettled
  <2>4. Store!Fail
    BY <1>4, <1>6, <2>1, <2>2, <2>3 DEF Store!Fail
  <2>5. QED
    BY <2>4 DEF Store!Next
<1>7. CASE RenameFails \/ Crash
  <2>1. pc' # "removed" /\ UNCHANGED <<files, deleted>>
    BY <1>7 DEF RenameFails, GiveUp, Crash, Stop
  <2>2. QED
    BY <1>6, <2>1, QuietStep
<1>8. ASSUME NEW s \in Slots, Delete(s)
      PROVE  Store!Next
  <2>1. pc # "removed" /\ pc' # "removed" /\ files' = [files EXCEPT ![s] = NoFile]
        /\ deleted' = deleted \cup {s}
    BY <1>8 DEF Delete
  <2>2. Held' = [Held EXCEPT ![s] = 0] /\ Unsettled = NoJob /\ Unsettled' = NoJob
    BY <2>1 DEF Held, Unsettled, OnDisk, IInv, TypeOK
  <2>3. Store!Delete(s)
    BY <2>1, <2>2 DEF Store!Delete
  <2>4. QED
    BY <2>3 DEF Store!Next
<1>9. CASE Tick \/ UNCHANGED vars
  BY <1>9 DEF Tick, vars, Held, Unsettled, OnDisk, Store!vars
<1>10. QED
  BY <1>1, <1>2, <1>5, <1>7, <1>8, <1>9 DEF Next

(* The files, tables and failures of the code implement the abstract store *)
(* of states.                                                              *)
THEOREM Refinement == Spec => StatesAreKept
<1>1. Spec => Store!Spec
  BY RefineInit, RefineStep, Invariance, PTL DEF Spec, Store!Spec
<1>2. QED
  BY <1>1 DEF StatesAreKept

=============================================================================

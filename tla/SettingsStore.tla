--------------------------- MODULE SettingsStore ---------------------------
(***************************************************************************)
(* What gpSP promises about one kind of choices, its settings or its keys: *)
(* there are those for all games, a game may have its own, and a change    *)
(* goes to the ones in use and to no others.  What was saved is what the   *)
(* next start finds.                                                       *)
(***************************************************************************)
CONSTANTS
  Games, NoGame, None, Values,
  SlowedTo   \* what becomes of values when the speed goes back to normal

VARIABLES
  shared,       \* the values for all games
  own,          \* each game's own, or None
  current,      \* the game that is open
  savedShared,  \* what the next start would find of both
  savedOwn,
  inProgram     \* the program file has the values for all games

store == <<shared, own, current, savedShared, savedOwn, inProgram>>

Init ==
  /\ shared \in Values /\ savedShared = shared
  /\ own \in [Games -> Values \cup {None}] /\ savedOwn = own
  /\ current = NoGame
  /\ inProgram \in BOOLEAN

HasOwn == current # NoGame /\ own[current] # None

(* A change of the values in use.                                          *)
Edit(v) ==
  IF HasOwn THEN /\ own' = [own EXCEPT ![current] = v]
                 /\ UNCHANGED shared
            ELSE /\ shared' = v
                 /\ UNCHANGED own

Change ==
  /\ \E v \in Values : Edit(v)
  /\ UNCHANGED <<current, savedShared, savedOwn, inProgram>>

(* "This game only" starts from the values in use ...                      *)
MakeOwn ==
  /\ current # NoGame /\ ~HasOwn
  /\ own' = [own EXCEPT ![current] = shared]
  /\ UNCHANGED <<shared, current, savedShared, savedOwn, inProgram>>

(* ... and "all games" drops them.                                         *)
DropOwn ==
  /\ HasOwn
  /\ own' = [own EXCEPT ![current] = None]
  /\ UNCHANGED <<shared, current, savedShared, savedOwn, inProgram>>

Open ==
  /\ current = NoGame
  /\ current' \in Games
  /\ UNCHANGED <<shared, own, savedShared, savedOwn, inProgram>>

(* Opening the game that froze also slows it, and saves that.              *)
OpenFrozen ==
  /\ current = NoGame
  /\ current' \in Games
  /\ IF own[current'] # None
       THEN /\ own' = [own EXCEPT ![current'] = SlowedTo[@]]
            /\ savedOwn' \in {savedOwn, own'}
            /\ UNCHANGED shared
       ELSE /\ shared' = SlowedTo[shared]
            /\ UNCHANGED <<own, savedOwn>>
  /\ UNCHANGED <<savedShared, inProgram>>

(* Closing a game saves its own, or goes back to what is saved when that   *)
(* cannot be written.                                                      *)
Close ==
  /\ current # NoGame
  /\ current' = NoGame
  /\ \/ savedOwn' = [savedOwn EXCEPT ![current] = own[current]] /\ UNCHANGED own
     \/ own' = [own EXCEPT ![current] = savedOwn[current]] /\ UNCHANGED savedOwn
  /\ UNCHANGED <<shared, savedShared, inProgram>>

SaveOwn ==
  /\ current # NoGame
  /\ savedOwn' = [savedOwn EXCEPT ![current] = own[current]]
  /\ UNCHANGED <<shared, own, current, savedShared, inProgram>>

SaveShared ==
  /\ savedShared' = shared
  /\ inProgram' \in {inProgram, TRUE}
  /\ UNCHANGED <<shared, own, current, savedOwn>>

(* Only until they are in the program file can the values for all games    *)
(* get lost, while the only copy is written again.                         *)
LoseShared ==
  /\ ~inProgram
  /\ savedShared' \in Values
  /\ UNCHANGED <<shared, own, current, savedOwn, inProgram>>

(* A new program file has no settings: the copy's, saved with them or      *)
(* since, come back.                                                       *)
Restart ==
  /\ shared' = savedShared /\ own' = savedOwn
  /\ current' = NoGame
  /\ UNCHANGED <<savedShared, savedOwn, inProgram>>

NewProgram ==
  /\ inProgram' = FALSE
  /\ shared' = savedShared' /\ savedShared' \in Values
  /\ UNCHANGED <<own, current, savedOwn>>

Next ==
  \/ Change \/ MakeOwn \/ DropOwn
  \/ Open \/ OpenFrozen \/ Close
  \/ SaveOwn \/ SaveShared \/ LoseShared
  \/ Restart \/ NewProgram

Spec == Init /\ [][Next]_store
=============================================================================

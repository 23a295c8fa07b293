----------------------------- MODULE StateStore -----------------------------
(***************************************************************************)
(* What the save states of a game promise, without files or tables: each   *)
(* slot holds one saved moment of the game or none.  Saving over a slot    *)
(* replaces it in one step; until that replacement has settled it may      *)
(* still fail, and then that slot alone falls back to what was left of it. *)
(***************************************************************************)
EXTENDS Naturals

CONSTANTS
  Slots,      \* the slots of a game
  Settled     \* "no replacement is under way"

VARIABLES
  store,      \* the moment each slot holds, 0 for an empty slot
  pending,    \* the replacement that can still fail: the slot and its fallback
  deleted     \* the slots emptied because the player asked for it

vars == <<store, pending, deleted>>

Pending == [slot : Slots, old : Nat]

TypeOK ==
  /\ store \in [Slots -> Nat]
  /\ pending \in Pending \cup {Settled}
  /\ deleted \subseteq Slots

Init ==
  /\ store \in [Slots -> Nat]
  /\ pending = Settled
  /\ deleted = {}

(* A slot gets a new moment (or the one it has, rewritten).  Should it fail *)
(* before it settles, the slot is back to what it held, or empty.           *)
Replace(s) ==
  /\ pending = Settled
  /\ store'[s] \in Nat \ {0}
  /\ store' = [store EXCEPT ![s] = store'[s]]
  /\ \E old \in {store[s], 0} : pending' = [slot |-> s, old |-> old]
  /\ deleted' = deleted \ {s}

Settle ==
  /\ pending # Settled
  /\ pending' = Settled
  /\ UNCHANGED <<store, deleted>>

Fail ==
  /\ pending # Settled
  /\ store' = [store EXCEPT ![pending.slot] = pending.old]
  /\ pending' = Settled
  /\ UNCHANGED deleted

Delete(s) ==
  /\ pending = Settled
  /\ store' = [store EXCEPT ![s] = 0]
  /\ deleted' = deleted \cup {s}
  /\ UNCHANGED pending

Next ==
  \/ \E s \in Slots : Replace(s) \/ Delete(s)
  \/ Settle
  \/ Fail

Spec == Init /\ [][Next]_vars

=============================================================================

------------------------------ MODULE SlotPool ------------------------------
(***************************************************************************)
(* What the guards of a session promise, without the counter: a fixed      *)
(* number of slots, each held by a call that spawns or closes a teammate   *)
(* or by the teammate itself.  A slot is taken only while one is free,     *)
(* changes hands in one piece, and is given back once.  A teammate can be  *)
(* found only while it holds a slot.  SpawnGuards implements this.         *)
(***************************************************************************)
EXTENDS Naturals

CONSTANTS
  Holder,   \* whoever may hold a slot
  Slots     \* how many there are

VARIABLES
  free,      \* how many slots nobody holds
  held,      \* those that hold a slot
  findable   \* those that can be found

Init == free = Slots /\ held = {} /\ findable = {}

Take(h) ==
  /\ free > 0 /\ h \notin held
  /\ free' = free - 1
  /\ held' = held \cup {h}
  /\ UNCHANGED findable

\* A slot goes from one holder to another.
Pass(h, k) ==
  /\ h \in held \ findable /\ k \notin held
  /\ held' = (held \ {h}) \cup {k}
  /\ UNCHANGED <<free, findable>>

GiveBack(h) ==
  /\ h \in held \ findable
  /\ free' = free + 1
  /\ held' = held \ {h}
  /\ UNCHANGED findable

Show(h) == h \in held /\ findable' = findable \cup {h} /\ UNCHANGED <<free, held>>
Hide(h) == findable' = findable \ {h} /\ UNCHANGED <<free, held>>

Next ==
  \/ \E h \in Holder : Take(h) \/ GiveBack(h) \/ Show(h) \/ Hide(h)
  \/ \E h, k \in Holder : Pass(h, k)

Spec == Init /\ [][Next]_<<free, held, findable>>
=============================================================================

----------------------------- MODULE WorkQueue -----------------------------
(***************************************************************************)
(* What the mailbox of a team promises about work, without clocks, readers *)
(* and versions: items wait in queues until somebody takes them.  An item  *)
(* is taken once, the most urgent and then the oldest first; it stays with *)
(* its holder, who alone finishes it, once, unless it lapsed before.  Mail *)
(* is an item of no queue that has its holder, or none, from the start.    *)
(* Mailbox implements this.                                                *)
(***************************************************************************)
EXTENDS Naturals, Sequences, FiniteSets

CONSTANTS
  Worker,     \* whoever may hold an item
  NoOne,      \* the holder of an item that waits
  Queue,      \* the queues
  NoQueue,    \* mail
  Urgency     \* numbers, the most urgent is the highest

Item == [queue : Queue \cup {NoQueue}, urgency : Urgency, holder : Worker \cup {NoOne},
         doneBy : Worker \cup {NoOne}]

VARIABLES
  items,      \* all items, in the order in which they came
  lapsed      \* positions of those whose time is over

Init == items = <<>> /\ lapsed = {}

\* Work begins without a holder; an item may have lapsed when it comes.
Add(item) ==
  /\ item.doneBy = NoOne /\ (item.queue # NoQueue => item.holder = NoOne)
  /\ items' = Append(items, item)
  /\ lapsed' \in {lapsed, lapsed \cup {Len(items) + 1}}

Waiting(q) ==
  {i \in DOMAIN items : items[i].queue = q /\ items[i].holder = NoOne /\ i \notin lapsed}

GoesBefore(i, j) ==
  \/ items[i].urgency > items[j].urgency
  \/ items[i].urgency = items[j].urgency /\ i < j

Take(w, q, taken) ==
  /\ taken \subseteq Waiting(q)
  /\ \A i \in taken, j \in Waiting(q) \ taken : GoesBefore(i, j)
  /\ items' = [i \in DOMAIN items |->
                 IF i \in taken THEN [items[i] EXCEPT !.holder = w] ELSE items[i]]
  /\ UNCHANGED lapsed

Finish(i) ==
  /\ items[i].holder # NoOne /\ items[i].doneBy = NoOne /\ i \notin lapsed
  /\ items' = [items EXCEPT ![i].doneBy = items[i].holder]
  /\ UNCHANGED lapsed

Lapse(late) ==
  /\ lapsed' = lapsed \cup late
  /\ UNCHANGED items

Clear == items' = <<>> /\ lapsed' = {}

Next ==
  \/ \E item \in Item : Add(item)
  \/ \E w \in Worker, q \in Queue : \E taken \in SUBSET Waiting(q) : Take(w, q, taken)
  \/ \E i \in DOMAIN items : Finish(i)
  \/ \E late \in SUBSET (DOMAIN items) : Lapse(late)
  \/ Clear

Spec == Init /\ [][Next]_<<items, lapsed>>
=============================================================================

------------------------- MODULE SpawnGuardsProofs -------------------------
(***************************************************************************)
(* The slot counter is exact for every number of concurrent calls and      *)
(* every limit.                                                            *)
(*                                                                         *)
(* SlotsAccounted needs to know that a call that commits registers a       *)
(* thread no other call registered, and HandlesOccupySlots and             *)
(* KnownThreadsCounted that a thread is unregistered only after its handle *)
(* and its entry in the manager are gone.  ThreadInv says so: a thread     *)
(* belongs to the call that spawned it until its handle is inserted.       *)
(***************************************************************************)
EXTENDS SpawnGuards, FiniteSetTheorems, TLAPS

\* The thread of c is known to no other call and has no handle yet.
Private(c) ==
  /\ mine[c] \in Mate \ handles
  /\ \A d \in Call : d # c => mine[d] # mine[c]

ThreadInv ==
  /\ \A c \in Call :
       /\ pc[c] = "spawned" => Private(c) /\ mine[c] \notin registered
       /\ pc[c] = "launching" => Private(c) /\ mine[c] \in registered
       /\ pc[c] \in {"closing", "removing", "releasing"} => mine[c] \notin handles
       /\ pc[c] = "releasing" => mine[c] \notin known
  /\ HandlesOccupySlots
  /\ KnownThreadsCounted

\* The types that the steps keep whatever the counter is.
Types ==
  /\ registered \subseteq Mate
  /\ known \subseteq Mate
  /\ handles \subseteq Mate
  /\ pc \in [Call -> Place]
  /\ mine \in [Call -> Mate \cup {NoMate}]

\* SlotsAccounted without the types.
Accounted == total = Cardinality(registered) + Cardinality(Owing)

Inv == TypeOK /\ ThreadInv /\ Accounted /\ total <= MaxThreads

USE DEF Goto, Return

LEMMA NextTypes == Types /\ ThreadInv /\ [Next]_vars => Types'
  <1> SUFFICES ASSUME Types, ThreadInv, Next PROVE Types'
    BY DEF Types, vars
  <1>1. PICK c \in Call : Spawning(c) \/ Closing(c) \/ Abandon(c)
    BY DEF Next
  <1>2. CASE LoadCount(c) \/ RefuseSpawn(c) \/ TakeSlot(c) \/ DropReservation(c)
    BY <1>2 DEF Types, Place, Holding, LoadCount, RefuseSpawn, TakeSlot, DropReservation
  <1>3. CASE SpawnThread(c)
    BY <1>3 DEF Types, Place, Holding, SpawnThread
  <1>4. CASE Commit(c)
    BY <1>4 DEF Types, Place, Holding, Commit, ThreadInv, Private
  <1>5. CASE InsertHandle(c)
    BY <1>5 DEF Types, Place, Holding, InsertHandle, ThreadInv, Private
  <1>6. CASE LaunchFails(c) \/ LaunchSucceeds(c) \/ Abandon(c)
    BY <1>6 DEF Types, Place, Holding, LaunchFails, LaunchSucceeds, Abandon
  <1>7. CASE Closing(c)
    BY <1>7 DEF Types, Place, Holding, Closing, TakeHandle, RemoveThread, Unregister,
       ReturnSlot
  <1>8. QED
    BY <1>1, <1>2, <1>3, <1>4, <1>5, <1>6, <1>7 DEF Spawning

\* Handles, registrations and the manager's entries stay in step.
LEMMA NextThreads == Types /\ ThreadInv /\ [Next]_vars => ThreadInv'
  <1> SUFFICES ASSUME Types, ThreadInv, [Next]_vars PROVE ThreadInv'
    OBVIOUS
  <1> USE ConstantsOK DEF ConstantsOK, Types, ThreadInv, Private, HandlesOccupySlots,
      KnownThreadsCounted
  <1>1. CASE UNCHANGED vars
    BY <1>1 DEF vars
  <1>2. ASSUME NEW c \in Call, LoadCount(c) \/ RefuseSpawn(c) \/ TakeSlot(c)
        PROVE  ThreadInv'
    BY <1>2 DEF LoadCount, RefuseSpawn, TakeSlot
  <1>3. ASSUME NEW c \in Call, DropReservation(c)
        PROVE  ThreadInv'
    BY <1>3 DEF DropReservation
  <1>4. ASSUME NEW c \in Call, SpawnThread(c)
        PROVE  ThreadInv'
    <2>1. PICK m \in Mate :
            /\ m \notin known /\ m \notin registered /\ m \notin handles
            /\ \A d \in Call : mine[d] # m
            /\ mine' = [mine EXCEPT ![c] = m]
            /\ known' = known \cup {m}
      BY <1>4, ZenonT(40) DEF SpawnThread
    <2>2. /\ pc[c] = "reserved" /\ pc' = [pc EXCEPT ![c] = "spawned"]
          /\ UNCHANGED <<registered, handles>>
      BY <1>4 DEF SpawnThread
    <2>3. ASSUME NEW d \in Call, d # c
          PROVE  pc'[d] = pc[d] /\ mine'[d] = mine[d] /\ (Private(d) => Private(d)')
      BY <2>1, <2>2, <2>3
    <2>4. pc'[c] = "spawned" /\ mine'[c] = m /\ Private(c)'
      BY <2>1, <2>2
    <2>5. KnownThreadsCounted'
      BY <2>1, <2>2, <2>3, <2>4
    <2>6. QED
      BY <2>1, <2>2, <2>3, <2>4, <2>5
  <1>5. ASSUME NEW c \in Call, Commit(c)
        PROVE  ThreadInv'
    BY <1>5 DEF Commit
  <1>6. ASSUME NEW c \in Call, InsertHandle(c)
        PROVE  ThreadInv'
    <2>1. /\ pc[c] = "launching" /\ pc' = [pc EXCEPT ![c] = "launched"]
          /\ handles' = handles \cup {mine[c]}
          /\ UNCHANGED <<registered, known, mine>>
      BY <1>6 DEF InsertHandle
    <2>2. ASSUME NEW d \in Call, d # c
          PROVE  pc'[d] = pc[d] /\ (mine[d] \notin handles => mine[d] \notin handles')
      BY <2>1, <2>2
    <2>3. pc'[c] = "launched" /\ mine[c] \in registered
      BY <2>1
    <2>4. HandlesOccupySlots' /\ KnownThreadsCounted'
      BY <2>1, <2>2, <2>3
    <2>5. QED
      BY <2>1, <2>2, <2>3, <2>4
  <1>7. ASSUME NEW c \in Call, LaunchFails(c) \/ LaunchSucceeds(c) \/ Abandon(c)
        PROVE  ThreadInv'
    BY <1>7 DEF LaunchFails, LaunchSucceeds, Abandon
  <1>8. ASSUME NEW c \in Call, TakeHandle(c)
        PROVE  ThreadInv'
    BY <1>8 DEF TakeHandle
  <1>9. ASSUME NEW c \in Call, RemoveThread(c)
        PROVE  ThreadInv'
    BY <1>9 DEF RemoveThread
  <1>10. ASSUME NEW c \in Call, Unregister(c)
         PROVE  ThreadInv'
    BY <1>10 DEF Unregister
  <1>11. ASSUME NEW c \in Call, ReturnSlot(c)
         PROVE  ThreadInv'
    BY <1>11 DEF ReturnSlot
  <1>12. QED
    BY <1>1, <1>2, <1>3, <1>4, <1>5, <1>6, <1>7, <1>8, <1>9, <1>10, <1>11
       DEF Next, Spawning, Closing

-----------------------------------------------------------------------------
(* The counter *)

LEMMA CallsFinite ==
  ASSUME NEW S \in SUBSET Call
  PROVE  IsFiniteSet(S) /\ Cardinality(S) \in Nat
  <1>1. IsFiniteSet(S)
    BY ConstantsOK, FS_Subset DEF ConstantsOK
  <1>2. QED
    BY <1>1, FS_CardinalityType

LEMMA MatesFinite ==
  ASSUME NEW S \in SUBSET Mate
  PROVE  IsFiniteSet(S) /\ Cardinality(S) \in Nat
  <1>1. IsFiniteSet(S)
    BY ConstantsOK, FS_Subset DEF ConstantsOK
  <1>2. QED
    BY <1>1, FS_CardinalityType

\* The places that own a slot.
Owes(place) == place \in Holding \cup {"uncounting"}

\* Taking a call into or out of Owing moves its cardinality by one.
LEMMA OwingMoves ==
  ASSUME Types, NEW c \in Call, NEW place \in Place, pc' = [pc EXCEPT ![c] = place]
  PROVE  /\ Owes(pc[c]) = Owes(place) => Owing' = Owing
         /\ ~Owes(pc[c]) /\ Owes(place) => Cardinality(Owing') = Cardinality(Owing) + 1
         /\ Owes(pc[c]) /\ ~Owes(place) => Cardinality(Owing') = Cardinality(Owing) - 1
  <1>1. Owing' = IF Owes(place) THEN Owing \cup {c} ELSE Owing \ {c}
    BY DEF Owing, Owes, Types
  <1>2. (c \in Owing <=> Owes(pc[c])) /\ IsFiniteSet(Owing) /\ Cardinality(Owing) \in Nat
    BY CallsFinite DEF Owing, Owes
  <1>3. Cardinality(Owing \cup {c}) = IF c \in Owing THEN Cardinality(Owing)
                                     ELSE Cardinality(Owing) + 1
    BY <1>2, FS_AddElement
  <1>4. Cardinality(Owing \ {c}) = IF c \in Owing THEN Cardinality(Owing) - 1
                                  ELSE Cardinality(Owing)
    BY <1>2, FS_RemoveElement
  <1>5. Owes(place) = (c \in Owing) => Owing' = Owing
    BY <1>1
  <1>6. QED
    BY <1>1, <1>2, <1>3, <1>4, <1>5

LEMMA NextAccounted ==
  Types /\ total \in Nat /\ ThreadInv /\ Accounted /\ [Next]_vars => Accounted'
  <1> SUFFICES ASSUME Types, total \in Nat, ThreadInv, Accounted, Next
               PROVE  Accounted'
    BY DEF Accounted, Owing, vars
  <1>0. /\ IsFiniteSet(registered) /\ Cardinality(registered) \in Nat
        /\ Cardinality(Owing) \in Nat
    BY CallsFinite, MatesFinite DEF Types, Owing
  <1> USE <1>0 DEF Accounted
  <1>1. PICK c \in Call : Spawning(c) \/ Closing(c) \/ Abandon(c)
    BY DEF Next
  <1>2. CASE LoadCount(c) \/ RefuseSpawn(c) \/ LaunchFails(c) \/ LaunchSucceeds(c)
             \/ TakeHandle(c) \/ Abandon(c) \/ InsertHandle(c) \/ SpawnThread(c)
             \/ RemoveThread(c)
    <2>1. \E place \in Place : pc' = [pc EXCEPT ![c] = place] /\ Owes(pc[c]) = Owes(place)
      BY <1>2 DEF LoadCount, RefuseSpawn, LaunchFails, LaunchSucceeds, TakeHandle, Abandon,
         InsertHandle, SpawnThread, RemoveThread, Place, Holding, Owes
    <2>2. Owing' = Owing
      BY <2>1, OwingMoves
    <2>3. UNCHANGED <<total, registered>>
      BY <1>2 DEF LoadCount, RefuseSpawn, LaunchFails, LaunchSucceeds, TakeHandle, Abandon,
         InsertHandle, SpawnThread, RemoveThread
    <2>4. QED
      BY <2>2, <2>3
  <1>3. CASE TakeSlot(c) /\ total = seen[c]
    <2>1. Cardinality(Owing') = Cardinality(Owing) + 1
      BY <1>3, OwingMoves DEF TakeSlot, Place, Holding, Owes
    <2>2. total' = total + 1 /\ registered' = registered
      BY <1>3 DEF TakeSlot
    <2>3. QED
      BY <2>1, <2>2
  <1>4. CASE TakeSlot(c) /\ total # seen[c]
    BY <1>4 DEF TakeSlot, Owing
  <1>5. CASE DropReservation(c) \/ ReturnSlot(c)
    <2>1. Cardinality(Owing') = Cardinality(Owing) - 1
      BY <1>5, OwingMoves DEF DropReservation, ReturnSlot, Place, Holding, Owes
    <2>2. total' = total - 1 /\ registered' = registered
      BY <1>5 DEF DropReservation, ReturnSlot
    <2>3. QED
      BY <2>1, <2>2
  <1>6. CASE Commit(c)
    <2>0. /\ pc' = [pc EXCEPT ![c] = "launching"] /\ "launching" \in Place
          /\ Owes(pc[c]) /\ ~Owes("launching")
      BY <1>6 DEF Commit, Place, Holding, Owes
    <2>1. Cardinality(Owing') = Cardinality(Owing) - 1
      BY <2>0, OwingMoves
    <2>2. mine[c] \notin registered /\ registered' = registered \cup {mine[c]}
      BY <1>6 DEF Commit, ThreadInv
    <2>3. Cardinality(registered') = Cardinality(registered) + 1
      BY <2>2, FS_AddElement
    <2>4. total' = total
      BY <1>6 DEF Commit
    <2>5. QED
      BY <2>1, <2>3, <2>4
  <1>7. CASE Unregister(c) /\ mine[c] \in registered
    <2>1. Cardinality(Owing') = Cardinality(Owing) + 1
      BY <1>7, OwingMoves DEF Unregister, Place, Holding, Owes
    <2>2. Cardinality(registered') = Cardinality(registered) - 1
      BY <1>7, FS_RemoveElement DEF Unregister
    <2>3. total' = total
      BY <1>7 DEF Unregister
    <2>4. QED
      BY <2>1, <2>2, <2>3
  <1>8. CASE Unregister(c) /\ mine[c] \notin registered
    <2>1. Owing' = Owing
      BY <1>8, OwingMoves DEF Unregister, Place, Holding, Owes
    <2>2. registered' = registered /\ total' = total
      BY <1>8 DEF Unregister
    <2>3. QED
      BY <2>1, <2>2
  <1>9. QED
    BY <1>1, <1>2, <1>3, <1>4, <1>5, <1>6, <1>7, <1>8 DEF Spawning, Closing

LEMMA InitInv == Init => Inv
  <1> SUFFICES ASSUME Init PROVE Inv
    OBVIOUS
  <1>1. TypeOK /\ ThreadInv /\ total <= MaxThreads
    BY ConstantsOK DEF ConstantsOK, Init, TypeOK, Place, Holding, ThreadInv,
       HandlesOccupySlots, KnownThreadsCounted
  <1>2. Owing = {} /\ registered = {}
    BY DEF Init, Owing, Holding
  <1>3. Accounted
    BY <1>2, FS_EmptySet DEF Accounted, Init
  <1>4. QED
    BY <1>1, <1>3 DEF Inv

LEMMA NextInv == Inv /\ [Next]_vars => Inv'
  <1> SUFFICES ASSUME Inv, [Next]_vars PROVE Inv'
    OBVIOUS
  <1>1. Types /\ total \in Nat /\ ThreadInv /\ Accounted
    BY DEF Inv, TypeOK, Types
  <1>2. Types' /\ ThreadInv' /\ Accounted'
    BY <1>1, NextTypes, NextThreads, NextAccounted
  <1>3. total' \in Nat
    <2>1. Cardinality(registered') \in Nat /\ Cardinality(Owing') \in Nat
      BY <1>2, CallsFinite, MatesFinite DEF Types, Owing
    <2>2. QED
      BY <1>2, <2>1 DEF Accounted
  <1>4. seen' \in [Call -> Nat]
    BY <1>1 DEF Inv, TypeOK, vars, Next, Spawning, Closing, LoadCount, RefuseSpawn, TakeSlot,
       DropReservation, SpawnThread, Commit, InsertHandle, LaunchFails, LaunchSucceeds,
       TakeHandle, RemoveThread, Unregister, ReturnSlot, Abandon
  <1>5. total' <= MaxThreads
    BY <1>1, <1>3, ConstantsOK DEF ConstantsOK, Inv, TypeOK, vars, Next, Spawning, Closing,
       LoadCount, RefuseSpawn, TakeSlot, DropReservation, SpawnThread, Commit, InsertHandle,
       LaunchFails, LaunchSucceeds, TakeHandle, RemoveThread, Unregister, ReturnSlot, Abandon
  <1>6. QED
    BY <1>2, <1>3, <1>4, <1>5 DEF Inv, TypeOK, Types

LEMMA InvHolds == Spec => []Inv
  BY InitInv, NextInv, PTL DEF Spec

\* No slot is lost and none is returned twice, for every number of calls.
THEOREM SlotsAreAccounted == Spec => []SlotsAccounted
  <1>1. Inv => SlotsAccounted
    BY DEF Inv, Accounted, SlotsAccounted
  <1>2. QED
    BY <1>1, InvHolds, PTL

\* The limit holds, for every limit and every number of calls that spawn at once.
THEOREM LimitHolds == Spec => []TeammatesWithinLimit
  <1>1. Inv => TeammatesWithinLimit
    <2> SUFFICES ASSUME Inv PROVE TeammatesWithinLimit
      OBVIOUS
    <2>1. Cardinality(registered) \in Nat /\ Cardinality(Owing) \in Nat
      BY CallsFinite, MatesFinite DEF Inv, TypeOK, Owing
    <2>2. QED
      BY <2>1, ConstantsOK DEF ConstantsOK, Inv, TypeOK, Accounted, TeammatesWithinLimit
  <1>2. QED
    BY <1>1, InvHolds, PTL

\* The state keeps its types, whatever calls run and are dropped.
THEOREM GuardTypes == Spec => []TypeOK
  <1>1. Inv => TypeOK
    BY DEF Inv
  <1>2. QED
    BY <1>1, InvHolds, PTL

\* Whoever can be found by its handle holds a slot.
THEOREM HandlesAreCounted == Spec => []HandlesOccupySlots
  <1>1. Inv => HandlesOccupySlots
    BY DEF Inv, ThreadInv
  <1>2. QED
    BY <1>1, InvHolds, PTL

\* A thread that the manager knows counts against the limit.
THEOREM ThreadsAreCounted == Spec => []KnownThreadsCounted
  <1>1. Inv => KnownThreadsCounted
    BY DEF Inv, ThreadInv
  <1>2. QED
    BY <1>1, InvHolds, PTL

-----------------------------------------------------------------------------
(* The pool of slots *)

Held == registered \cup Owing

\* Which calls hold a slot after one of them has moved.
LEMMA OwingKept ==
  ASSUME Types, NEW c \in Call, NEW place \in Place, pc' = [pc EXCEPT ![c] = place]
  PROVE  /\ (Owes(pc[c]) <=> Owes(place)) => Owing' = Owing
         /\ ~Owes(pc[c]) /\ Owes(place) => c \notin Owing /\ Owing' = Owing \cup {c}
         /\ Owes(pc[c]) /\ ~Owes(place) => c \in Owing /\ Owing' = Owing \ {c}
  BY DEF Owing, Owes, Types

LEMMA NextPools == Inv /\ [Next]_vars => [Pool!Next]_<<MaxThreads - total, Held, handles>>
  <1> SUFFICES ASSUME Inv, Next PROVE Pool!Next \/ UNCHANGED <<MaxThreads - total, Held, handles>>
    BY DEF Held, Owing, vars
  <1>0. /\ Types /\ ThreadInv /\ total \in Nat /\ MaxThreads \in Nat
        /\ seen \in [Call -> Nat]
        /\ handles \subseteq registered /\ registered \subseteq Mate /\ Owing \subseteq Call
        /\ Call \cap Mate = {}
    BY ConstantsOK, CallsAreNotMates
       DEF ConstantsOK, Inv, TypeOK, Types, ThreadInv, HandlesOccupySlots, Owing
  <1>1. PICK c \in Call : Spawning(c) \/ Closing(c) \/ Abandon(c)
    BY DEF Next
  <1>2. CASE LoadCount(c) \/ RefuseSpawn(c) \/ LaunchFails(c) \/ LaunchSucceeds(c)
             \/ Abandon(c) \/ SpawnThread(c) \/ RemoveThread(c)
    <2>1. \E place \in Place : pc' = [pc EXCEPT ![c] = place] /\ (Owes(pc[c]) <=> Owes(place))
      BY <1>2 DEF LoadCount, RefuseSpawn, LaunchFails, LaunchSucceeds, Abandon, SpawnThread,
         RemoveThread, Place, Holding, Owes
    <2>2. Owing' = Owing
      BY <1>0, <2>1, OwingKept
    <2>3. UNCHANGED <<total, registered, handles>>
      BY <1>2 DEF LoadCount, RefuseSpawn, LaunchFails, LaunchSucceeds, Abandon, SpawnThread,
         RemoveThread
    <2>4. QED
      BY <2>2, <2>3 DEF Held
  <1>3. CASE TakeSlot(c) /\ total = seen[c]
    <2>1. c \notin Owing /\ Owing' = Owing \cup {c}
      BY <1>0, <1>3, OwingKept DEF TakeSlot, Place, Holding, Owes
    <2>2. /\ total < MaxThreads /\ total' = total + 1
          /\ registered' = registered /\ handles' = handles
      BY <1>0, <1>3 DEF TakeSlot
    <2>3. c \notin Held /\ Held' = Held \cup {c}
      BY <1>0, <2>1, <2>2 DEF Held
    <2>4. Pool!Take(c)
      BY <1>0, <2>2, <2>3 DEF Pool!Take, Held
    <2>5. QED
      BY <2>4 DEF Pool!Next
  <1>4. CASE TakeSlot(c) /\ total # seen[c]
    BY <1>4 DEF TakeSlot, Owing, Held
  <1>5. CASE DropReservation(c) \/ ReturnSlot(c)
    <2>1. c \in Owing /\ Owing' = Owing \ {c}
      BY <1>0, <1>5, OwingKept DEF DropReservation, ReturnSlot, Place, Holding, Owes
    <2>2. total' = total - 1 /\ registered' = registered /\ handles' = handles
      BY <1>5 DEF DropReservation, ReturnSlot
    <2>3. c \in Held \ handles /\ Held' = Held \ {c}
      BY <1>0, <2>1, <2>2 DEF Held
    <2>4. Pool!GiveBack(c)
      BY <1>0, <2>2, <2>3 DEF Pool!GiveBack, Held
    <2>5. QED
      BY <2>4 DEF Pool!Next
  <1>6. CASE Commit(c)
    <2>0. /\ pc' = [pc EXCEPT ![c] = "launching"] /\ "launching" \in Place
          /\ Owes(pc[c]) /\ ~Owes("launching")
      BY <1>6 DEF Commit, Place, Holding, Owes
    <2>1. c \in Owing /\ Owing' = Owing \ {c}
      BY <1>0, <2>0, OwingKept
    <2>2. /\ mine[c] \in Mate /\ mine[c] \notin registered
          /\ registered' = registered \cup {mine[c]}
          /\ handles' = handles /\ total' = total
      BY <1>0, <1>6 DEF Commit, ThreadInv, Private
    <2>3. /\ c \in Held \ handles /\ mine[c] \notin Held
          /\ Held' = (Held \ {c}) \cup {mine[c]}
      BY <1>0, <2>1, <2>2 DEF Held
    <2>4. Pool!Pass(c, mine[c])
      BY <2>2, <2>3 DEF Pool!Pass, Held
    <2>5. QED
      BY <2>2, <2>4 DEF Pool!Next
  <1>7. CASE Unregister(c) /\ mine[c] \in registered
    <2>1. c \notin Owing /\ Owing' = Owing \cup {c}
      BY <1>0, <1>7, OwingKept DEF Unregister, Place, Holding, Owes
    <2>2. /\ mine[c] \in Mate /\ mine[c] \notin handles
          /\ registered' = registered \ {mine[c]}
          /\ handles' = handles /\ total' = total
      BY <1>0, <1>7 DEF Unregister, ThreadInv
    <2>3. /\ mine[c] \in Held \ handles /\ c \notin Held
          /\ Held' = (Held \ {mine[c]}) \cup {c}
      BY <1>0, <1>7, <2>1, <2>2 DEF Held
    <2>4. Pool!Pass(mine[c], c)
      BY <2>2, <2>3 DEF Pool!Pass, Held
    <2>5. QED
      BY <2>2, <2>4 DEF Pool!Next
  <1>8. CASE Unregister(c) /\ mine[c] \notin registered
    <2>1. Owing' = Owing
      BY <1>0, <1>8, OwingKept DEF Unregister, Place, Holding, Owes
    <2>2. UNCHANGED <<total, registered, handles>>
      BY <1>8 DEF Unregister
    <2>3. QED
      BY <2>1, <2>2 DEF Held
  <1>9. CASE InsertHandle(c)
    <2>0. /\ pc' = [pc EXCEPT ![c] = "launched"] /\ "launched" \in Place
          /\ ~Owes(pc[c]) /\ ~Owes("launched")
      BY <1>9 DEF InsertHandle, Place, Holding, Owes
    <2>1. Owing' = Owing
      BY <1>0, <2>0, OwingKept
    <2>2. /\ mine[c] \in registered /\ registered' = registered
          /\ handles' = handles \cup {mine[c]} /\ total' = total
      BY <1>0, <1>9 DEF InsertHandle, ThreadInv
    <2>3. mine[c] \in Mate /\ mine[c] \in Held /\ Held' = Held
      BY <1>0, <2>1, <2>2 DEF Held
    <2>4. Pool!Show(mine[c])
      BY <2>2, <2>3 DEF Pool!Show, Held
    <2>5. QED
      BY <2>3, <2>4 DEF Pool!Next
  <1>10. CASE TakeHandle(c)
    <2>0. /\ pc' = [pc EXCEPT ![c] = "closing"] /\ "closing" \in Place
          /\ ~Owes(pc[c]) /\ ~Owes("closing")
      BY <1>10 DEF TakeHandle, Place, Holding, Owes
    <2>1. Owing' = Owing
      BY <1>0, <2>0, OwingKept
    <2>2. PICK m \in handles : handles' = handles \ {m} /\ total' = total
      BY <1>10 DEF TakeHandle
    <2>3. m \in Mate /\ Held' = Held
      BY <1>0, <1>10, <2>1 DEF TakeHandle, Held
    <2>4. Pool!Hide(m)
      BY <2>2, <2>3 DEF Pool!Hide, Held
    <2>5. QED
      BY <2>3, <2>4 DEF Pool!Next
  <1>11. QED
    BY <1>1, <1>2, <1>3, <1>4, <1>5, <1>6, <1>7, <1>8, <1>9, <1>10 DEF Spawning, Closing

\* The guards are a pool of slots for every limit, every number of calls and of teammates.
THEOREM GuardsArePool == Spec => IsSlotPool
  <1>1. Init => Pool!Init
    BY ConstantsOK DEF ConstantsOK, Init, Pool!Init, Owing, Holding
  <1>2. Inv /\ [Next]_vars => [Pool!Next]_<<MaxThreads - total, registered \cup Owing, handles>>
    BY NextPools DEF Held
  <1>3. QED
    BY <1>1, <1>2, InvHolds, PTL DEF Spec, IsSlotPool, Pool!Spec
=============================================================================

---------------------------- MODULE SpawnGuards ----------------------------
(***************************************************************************)
(* How many teammates a session may have: the lock-free slot counter of    *)
(* Guards (core/src/agent/guards.rs), with the calls that take and return  *)
(* slots, AgentControl::spawn_agent and shutdown_spawned_agent             *)
(* (control.rs), TeamRuntime::spawn_agent, launch_spawned_agent and        *)
(* close_agent (team_runtime.rs).                                          *)
(*                                                                         *)
(* Calls run in parallel.  Each step is one atomic access to shared state: *)
(* the counter, the set of registered threads, the thread manager's map or *)
(* the map of handles.  The future of a call may be dropped wherever it    *)
(* awaits, because its turn was interrupted.                               *)
(***************************************************************************)
EXTENDS Integers, FiniteSets

CONSTANTS
  Call,          \* tool calls that spawn or close a teammate
  Mate,          \* thread identifiers of teammates
  NoMate,        \* the thread of a call that has none yet
  MaxThreads     \* agents.max_threads

ASSUME ConstantsOK ==
  /\ IsFiniteSet(Call) /\ IsFiniteSet(Mate)
  /\ NoMate \notin Mate
  /\ MaxThreads \in Nat
ASSUME CallsAreNotMates == Call \cap Mate = {}

VARIABLES
  total,         \* Guards.total_count
  registered,    \* Guards.threads_set
  known,         \* the spawned threads in ThreadManagerState.threads
  handles,       \* TeamRuntime.handles
  pc,            \* where each call is
  seen,          \* the counter value a spawn call last read
  mine           \* the thread a call spawned or closes

vars == <<total, registered, known, handles, pc, seen, mine>>

\* Where a call is, named for what it does next or holds.
Holding == {"reserved", "spawned"}   \* owns a SpawnReservation still active
Place == Holding \cup
  {"idle", "counting", "launching", "launched", "closing", "removing", "releasing",
   "uncounting"}

Init ==
  /\ total = 0
  /\ registered = {}
  /\ known = {}
  /\ handles = {}
  /\ pc = [c \in Call |-> "idle"]
  /\ seen = [c \in Call |-> 0]
  /\ mine = [c \in Call |-> NoMate]

\* A call that returns drops its local variables.
Goto(c, place) == pc' = [pc EXCEPT ![c] = place]
Return(c) ==
  /\ Goto(c, "idle")
  /\ seen' = [seen EXCEPT ![c] = 0]
  /\ mine' = [mine EXCEPT ![c] = NoMate]

-----------------------------------------------------------------------------
(* spawn_agent *)

\* try_increment_spawned reads the counter before its loop.
LoadCount(c) ==
  /\ pc[c] = "idle"
  /\ seen' = [seen EXCEPT ![c] = total]
  /\ Goto(c, "counting")
  /\ UNCHANGED <<total, registered, known, handles, mine>>

\* AgentLimitReached.
RefuseSpawn(c) ==
  /\ pc[c] = "counting"
  /\ seen[c] >= MaxThreads
  /\ Return(c)
  /\ UNCHANGED <<total, registered, known, handles>>

\* Fault: the counter is read and then incremented.
TakeSlotUnchecked(c) ==
  /\ pc[c] = "counting"
  /\ seen[c] < MaxThreads
  /\ total' = total + 1
  /\ Goto(c, "reserved")
  /\ UNCHANGED <<registered, known, handles, seen, mine>>

\* compare_exchange_weak succeeds only on the value that was read.
TakeSlot(c) ==
  /\ pc[c] = "counting"
  /\ seen[c] < MaxThreads
  /\ IF total = seen[c]
     THEN total' = total + 1 /\ Goto(c, "reserved") /\ UNCHANGED seen
     ELSE seen' = [seen EXCEPT ![c] = total] /\ UNCHANGED <<total, pc>>
  /\ UNCHANGED <<registered, known, handles, mine>>

\* The call is dropped while it sends CollabAgentSpawnBegin: its reservation is, too.
DropReservation(c) ==
  /\ pc[c] = "reserved"
  /\ total' = total - 1
  /\ Return(c)
  /\ UNCHANGED <<registered, known, handles>>

\* spawn_thread: a fresh identifier; one that is in use nowhere may be met again.
SpawnThread(c) ==
  /\ pc[c] = "reserved"
  /\ \E m \in Mate :
       /\ m \notin known \cup registered \cup handles \cup {mine[d] : d \in Call}
       /\ mine' = [mine EXCEPT ![c] = m]
       /\ known' = known \cup {m}
  /\ Goto(c, "spawned")
  /\ UNCHANGED <<total, registered, handles, seen>>

\* commit: the slot now belongs to the registered thread.
Commit(c) ==
  /\ pc[c] = "spawned"
  /\ registered' = registered \cup {mine[c]}
  /\ Goto(c, "launching")
  /\ UNCHANGED <<total, known, handles, seen, mine>>

\* Fault: the handle can be found before the thread is registered.
InsertHandleEarly(c) ==
  /\ pc[c] \in {"spawned", "launching"}
  /\ mine[c] \notin handles
  /\ handles' = handles \cup {mine[c]}
  /\ Goto(c, IF pc[c] = "spawned" THEN "spawned" ELSE "launched")
  /\ UNCHANGED <<total, registered, known, seen, mine>>

\* launch_spawned_agent makes the teammate addressable.
InsertHandle(c) ==
  /\ pc[c] = "launching"
  /\ handles' = handles \cup {mine[c]}
  /\ Goto(c, "launched")
  /\ UNCHANGED <<total, registered, known, seen, mine>>

\* Its tooling cannot be built, or the initial task cannot be sent because the
\* teammate was closed meanwhile: spawn_agent shuts the thread down.
LaunchFails(c) ==
  /\ \/ pc[c] = "launching"
     \/ pc[c] = "launched" /\ mine[c] \notin handles
  /\ Goto(c, "removing")
  /\ UNCHANGED <<total, registered, known, handles, seen, mine>>

LaunchSucceeds(c) ==
  /\ pc[c] = "launched"
  /\ Return(c)
  /\ UNCHANGED <<total, registered, known, handles>>

-----------------------------------------------------------------------------
(* close_agent and shutdown_spawned_agent *)

\* The handle goes first: of two calls that close a teammate, one finds it.
TakeHandle(c) ==
  /\ pc[c] = "idle"
  /\ \E m \in handles :
       handles' = handles \ {m} /\ mine' = [mine EXCEPT ![c] = m]
  /\ Goto(c, "closing")
  /\ UNCHANGED <<total, registered, known, seen>>

\* Fault: the slot is released and the manager keeps the thread.
RemoveThreadKept(c) ==
  /\ pc[c] \in {"closing", "removing"}
  /\ Goto(c, "releasing")
  /\ UNCHANGED <<total, registered, known, handles, seen, mine>>

\* Fault: shutdown_spawned_agent does not ask whether it removed the thread, and
\* release_spawned_thread not whether it removed the registration.
RemoveThreadAlways(c) ==
  /\ pc[c] \in {"closing", "removing"}
  /\ known' = known \ {mine[c]}
  /\ registered' = registered \ {mine[c]}
  /\ Goto(c, "uncounting")
  /\ UNCHANGED <<total, handles, seen, mine>>

\* shutdown_spawned_agent goes on only if the manager still knew the thread.
RemoveThread(c) ==
  /\ pc[c] \in {"closing", "removing"}
  /\ known' = known \ {mine[c]}
  /\ IF mine[c] \in known
     THEN Goto(c, "releasing") /\ UNCHANGED <<seen, mine>>
     ELSE Return(c)
  /\ UNCHANGED <<total, registered, handles>>

\* release_spawned_thread: the counter goes down only if the thread was registered.
Unregister(c) ==
  /\ pc[c] = "releasing"
  /\ registered' = registered \ {mine[c]}
  /\ IF mine[c] \in registered
     THEN Goto(c, "uncounting") /\ UNCHANGED <<seen, mine>>
     ELSE Return(c)
  /\ UNCHANGED <<total, known, handles>>

ReturnSlot(c) ==
  /\ pc[c] = "uncounting"
  /\ total' = total - 1
  /\ Return(c)
  /\ UNCHANGED <<registered, known, handles>>

\* The future of the call is dropped where it awaits with nothing to give back: while
\* it sends CollabAgentSpawnEnd or launches, or while close_agent sends Shutdown.
Abandon(c) ==
  /\ pc[c] \in {"launching", "launched", "closing"}
  /\ Return(c)
  /\ UNCHANGED <<total, registered, known, handles>>

-----------------------------------------------------------------------------
Spawning(c) ==
  \/ LoadCount(c)
  \/ RefuseSpawn(c)
  \/ TakeSlot(c)
  \/ DropReservation(c)
  \/ SpawnThread(c)
  \/ Commit(c)
  \/ InsertHandle(c)
  \/ LaunchFails(c)
  \/ LaunchSucceeds(c)

Closing(c) ==
  \/ TakeHandle(c)
  \/ RemoveThread(c)
  \/ Unregister(c)
  \/ ReturnSlot(c)

Next == \E c \in Call : Spawning(c) \/ Closing(c) \/ Abandon(c)

Spec == Init /\ [][Next]_vars

-----------------------------------------------------------------------------
(* What makes the limit hold *)

TypeOK ==
  /\ total \in Nat
  /\ registered \subseteq Mate
  /\ known \subseteq Mate
  /\ handles \subseteq Mate
  /\ pc \in [Call -> Place]
  /\ seen \in [Call -> Nat]
  /\ mine \in [Call -> Mate \cup {NoMate}]

\* The calls that own a slot themselves: they hold a reservation, or have taken a
\* thread out of the registry and not yet decremented the counter.
Owing == {c \in Call : pc[c] \in Holding \cup {"uncounting"}}

\* Every unit of the counter is owned exactly once, by a registered thread or by a call
\* in progress: no interleaving of spawns, failed launches, closes and dropped futures
\* loses a slot or returns one twice (which would wrap the unsigned counter).
SlotsAccounted ==
  /\ TypeOK
  /\ total = Cardinality(registered) + Cardinality(Owing)

\* A session never has more teammates than agents.max_threads, however many calls
\* spawn at once.
TeammatesWithinLimit == total <= MaxThreads /\ Cardinality(registered) <= MaxThreads

\* Whoever can be found by its handle occupies a slot, so that closing it returns one.
HandlesOccupySlots == handles \subseteq registered

\* A slot is freed only after the thread manager forgot its thread: while a thread can
\* still be resolved, it counts against the limit.
KnownThreadsCounted ==
  \A m \in known : m \in registered \/ \E c \in Call : pc[c] = "spawned" /\ mine[c] = m

\* The counter, the registry and the places of the calls together are a pool of slots:
\* no interleaving takes a slot that is not free, returns one twice, or lets a teammate
\* be found that holds none.
Pool ==
  INSTANCE SlotPool WITH
    Holder <- Call \cup Mate,
    Slots <- MaxThreads,
    free <- MaxThreads - total,
    held <- registered \cup Owing,
    findable <- handles
IsSlotPool == Pool!Spec
=============================================================================

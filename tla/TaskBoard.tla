----------------------------- MODULE TaskBoard -----------------------------
(***************************************************************************)
(* The shared task graph of a team: tasks, their dependency edges and the  *)
(* ownership leases over files, as kept by TeamState                       *)
(* (core/src/agent/team_state.rs).  Every method of TeamState runs under   *)
(* one mutex of the runtime, so each method is one action here.            *)
(*                                                                         *)
(* Abstractions.  A scope (file, directory, glob or module) is a value of  *)
(* Scope and what scopes_overlap says of two scopes is the constant        *)
(* relation Overlap; write_scope_rank is the constant function Rank.       *)
(* Titles, notes, reasons and timestamps are left out, except the age of a *)
(* lease's heartbeat, which is either past the staleness limit or not.     *)
(***************************************************************************)
EXTENDS Naturals, FiniteSets

CONSTANTS
  Task,          \* the identifiers a created task can take
  Thread,        \* agent threads: the leader and its teammates
  Leader,        \* the root thread
  None,          \* the absent thread (Option::None)
  Scope,         \* ownership scopes
  File,          \* the scopes of kind File: what a tool call writes
  Overlap,       \* the pairs of scopes scopes_overlap holds of
  Rank,          \* write_scope_rank of each scope
  RequestSets,   \* the values of requested_scopes that callers give
  Updates,       \* the argument records that callers give update_task
  Links,         \* the <<dependency, dependent>> pairs that callers ask to link
  Mates,         \* the threads that can be launched as teammates
  MaxBlockers    \* bound: active manual blockers of one task

Access == {"SharedRead", "ExclusiveWrite", "Review"}
Status == {"Pending", "InProgress", "Review", "Completed", "Failed", "Canceled"}
ReviewState == {"NotRequested", "Requested", "Approved", "ChangesRequested"}
Heartbeat == {"fresh", "old"}
ReadyState == {"Ready", "Blocked", "Claimed", "Review", "Completed", "Failed", "Canceled"}
MaybeThread == Thread \cup {None}
ScopeRequest == [scope : Scope, access : Access]
OwnershipLease ==
  [task : Task, owner : Thread, scope : Scope, access : Access, heartbeat : Heartbeat]
\* The arguments of update_task: gives names the optional ones the call passes.
Argument == {"status", "assignee", "owner", "reviewer", "requested", "granted", "review"}
UpdateArgs ==
  [gives : SUBSET Argument, status : Status, assignee : MaybeThread, owner : MaybeThread,
   requested : SUBSET ScopeRequest, granted : SUBSET ScopeRequest, review : ReviewState]

ASSUME ConstantsOK ==
  /\ Leader \in Thread
  /\ None \notin Thread
  /\ File \subseteq Scope
  /\ Overlap \subseteq Scope \X Scope
  /\ \A f \in File : <<f, f>> \in Overlap
  /\ \A f \in File, s \in Scope : <<f, s>> \in Overlap <=> <<s, f>> \in Overlap
  /\ Rank \in [Scope -> Nat]
  /\ RequestSets \subseteq SUBSET ScopeRequest
  /\ Updates \subseteq UpdateArgs
  /\ Links \subseteq Task \X Task
  /\ Mates \subseteq Thread
  /\ MaxBlockers \in Nat

VARIABLES
  tasks,         \* the ids of the tasks on the board
  status,        \* status of each task
  review,        \* review_state of each task
  assignee,      \* assignee_thread_id of each task
  owner,         \* owner_thread_id of each task
  requested,     \* requested_scopes of each task
  manual,        \* number of active manual blockers of each task
  ready,         \* the cached ready_state of each task
  edges,         \* task_edges: <<dependency, dependent>>
  memory,        \* task_scope_memory: the last known scopes of each task
  leases,        \* ownership_leases
  active         \* threads whose handle is neither Shutdown nor NotFound

board == <<tasks, status, review, assignee, owner, requested, manual, ready,
           edges, memory, leases>>
vars == <<board, active>>

-----------------------------------------------------------------------------
(* Scopes and leases *)

Overlaps(r, s) == <<r, s>> \in Overlap

AccessesCompatible(a, b) == a = "SharedRead" \/ b = "SharedRead"

LeasesOf(t) == {l \in leases : l.task = t}

\* granted_scopes of a task is rebuilt from its leases at the end of every method.
Granted(t) == {[scope |-> l.scope, access |-> l.access] : l \in LeasesOf(t)}

\* Fault: the remembered scopes are not consulted.
EffectiveNoMemory(asked, remembered, grantedNow) ==
  IF asked # {} THEN asked ELSE grantedNow

\* resolve_effective_scope_requests: requested, else remembered, else granted.
Effective(asked, remembered, grantedNow) ==
  CASE asked # {} -> asked
    [] asked = {} /\ remembered # {} -> remembered
    [] OTHER -> grantedNow

EffectiveScopes(t) == Effective(requested[t], memory[t], Granted(t))

\* remember_task_scopes: an empty set of scopes is never remembered.
Remember(t, scopes) ==
  IF scopes = {} THEN memory ELSE [memory EXCEPT ![t] = scopes]

\* The leases apply_task_leases creates; no other lease is looked at.
LeasesFor(t, th, scopes) ==
  {[task |-> t, owner |-> th, scope |-> r.scope, access |-> r.access, heartbeat |-> "fresh"] :
     r \in scopes}

\* Its access_override for a review.
ForReview(scopes) == {[scope |-> r.scope, access |-> "Review"] : r \in scopes}

-----------------------------------------------------------------------------
(* The dependency graph and readiness *)

DependenciesOf(t) == {d \in Task : <<d, t>> \in edges}

\* The tasks the depth-first search of add_task_dependency visits from t: the least
\* set that holds t and the dependents of its members.
ForwardClosed(S) == \A e \in edges : e[1] \in S => e[2] \in S
Visited(t) == {u \in Task : \A S \in SUBSET Task : t \in S /\ ForwardClosed(S) => u \in S}

Requester(t) == IF owner[t] # None THEN owner[t] ELSE assignee[t]

LeaseBlocks(l, t) ==
  /\ l.task # t
  /\ l.owner # Requester(t)
  /\ \E r \in EffectiveScopes(t) :
       Overlaps(r.scope, l.scope) /\ ~AccessesCompatible(r.access, l.access)

HasActiveBlocker(t) ==
  \/ manual[t] > 0
  \/ \E d \in DependenciesOf(t) : status[d] # "Completed"
  \/ \E l \in leases : LeaseBlocks(l, t)

ReadyStateOf(t) ==
  CASE status[t] = "Pending" -> IF HasActiveBlocker(t) THEN "Blocked" ELSE "Ready"
    [] status[t] = "InProgress" -> "Claimed"
    [] OTHER -> status[t]

\* Fault: completing a task leaves its review open.
NormalReviewOpen(st, rv) ==
  IF st = "Review" /\ rv = "NotRequested" THEN "Requested" ELSE rv

NormalReview(st, rv) ==
  CASE st = "Review" /\ rv = "NotRequested" -> "Requested"
    [] st = "Completed" /\ rv = "Requested" -> "Approved"
    [] OTHER -> rv

\* recompute_task_graph, the last call of every method that changes the board: rv is
\* the review state the method leaves before the graph is recomputed.  Its pruning of
\* edges, leases and remembered scopes of unknown tasks finds none: only Clear removes
\* tasks, and it removes those too.
RecomputeTaskGraph(rv) ==
  /\ review' = [t \in Task |-> NormalReview(status'[t], rv[t])]
  /\ ready' = [t \in Task |-> ReadyStateOf(t)']

-----------------------------------------------------------------------------
Init ==
  /\ tasks = {}
  /\ status = [t \in Task |-> "Pending"]
  /\ review = [t \in Task |-> "NotRequested"]
  /\ assignee = [t \in Task |-> None]
  /\ owner = [t \in Task |-> None]
  /\ requested = [t \in Task |-> {}]
  /\ manual = [t \in Task |-> 0]
  /\ ready = [t \in Task |-> "Ready"]
  /\ edges = {}
  /\ memory = [t \in Task |-> {}]
  /\ leases = {}
  /\ active = {Leader}

\* create_task: a new task is Pending; a blocking reason adds a manual blocker.
CreateTask(t, own, asg, scopes, blocked) ==
  /\ t \notin tasks
  /\ blocked => MaxBlockers > 0
  /\ tasks' = tasks \cup {t}
  /\ owner' = [owner EXCEPT ![t] = IF own # None THEN own ELSE asg]
  /\ assignee' = [assignee EXCEPT ![t] = asg]
  /\ requested' = [requested EXCEPT ![t] = scopes]
  /\ manual' = [manual EXCEPT ![t] = IF blocked THEN 1 ELSE 0]
  /\ memory' = Remember(t, scopes)
  /\ UNCHANGED <<status, edges, leases, active>>
  /\ RecomputeTaskGraph(review)

-----------------------------------------------------------------------------
(* update_task *)

Given(u, arg, new, old) == IF arg \in u.gives THEN new ELSE old

\* The arguments that make update_task refresh the task's leases.
Refreshes(u) ==
  u.gives \cap {"status", "assignee", "owner", "reviewer", "requested"} # {}

\* Fault: a task that leaves review or work keeps its leases.
RefreshedLeasesKept(t, st, own, scopes) ==
  IF st = "Review" /\ own # None
  THEN (leases \ LeasesOf(t)) \cup LeasesFor(t, own, ForReview(scopes))
  ELSE leases

\* refresh_leases_after_update: a task in review gets Review leases over its scopes,
\* any other task loses its leases.
RefreshedLeases(t, st, own, scopes) ==
  (leases \ LeasesOf(t)) \cup
    (IF st = "Review" /\ own # None
     THEN LeasesFor(t, own, ForReview(scopes))
     ELSE {})

UpdateTask(t, u) ==
  LET st == Given(u, "status", u.status, status[t])
      own == Given(u, "owner", u.owner, owner[t])
      asked == Given(u, "requested", u.requested, requested[t])
      rv == Given(u, "review", u.review, review[t])
      scopes == Effective(asked, memory[t], Given(u, "granted", u.granted, Granted(t)))
      resets == u.gives \cap {"granted", "review"} = {} /\ st = "Pending"
  IN /\ t \in tasks
     /\ status' = [status EXCEPT ![t] = st]
     /\ assignee' = [assignee EXCEPT ![t] = Given(u, "assignee", u.assignee, @)]
     /\ owner' = [owner EXCEPT ![t] = own]
     /\ requested' = [requested EXCEPT ![t] = asked]
     /\ memory' = Remember(t, scopes)
     /\ leases' = IF Refreshes(u) THEN RefreshedLeases(t, st, own, scopes) ELSE leases
     /\ UNCHANGED <<tasks, manual, edges, active>>
     /\ RecomputeTaskGraph([review EXCEPT ![t] = IF resets THEN "NotRequested" ELSE rv])

-----------------------------------------------------------------------------
(* Assignment, handoff and claims *)

\* assign_task: the task goes back to Pending for its new owner, without leases.
AssignTask(t, th) ==
  /\ t \in tasks
  /\ assignee' = [assignee EXCEPT ![t] = th]
  /\ owner' = [owner EXCEPT ![t] = th]
  /\ status' = [status EXCEPT ![t] = "Pending"]
  /\ leases' = leases \ LeasesOf(t)
  /\ UNCHANGED <<tasks, requested, manual, edges, memory, active>>
  /\ RecomputeTaskGraph([review EXCEPT ![t] = "NotRequested"])

\* handoff_task: the new owner gets leases over the task's scopes at once, with Review
\* access in review mode and the requested access otherwise.
HandoffTask(t, th, reviewMode) ==
  LET scopes == EffectiveScopes(t)
  IN /\ t \in tasks
     /\ assignee' = [assignee EXCEPT ![t] = th]
     /\ owner' = [owner EXCEPT ![t] = th]
     /\ status' = [status EXCEPT ![t] = IF reviewMode THEN "Review" ELSE "Pending"]
     /\ memory' = Remember(t, scopes)
     /\ leases' = (leases \ LeasesOf(t)) \cup
                    LeasesFor(t, th, IF reviewMode THEN ForReview(scopes) ELSE scopes)
     /\ UNCHANGED <<tasks, requested, manual, edges, active>>
     /\ RecomputeTaskGraph([review EXCEPT ![t] =
                              IF reviewMode THEN "Requested" ELSE "NotRequested"])

\* Fault: the assignee is not checked.
CanClaimAnyTask(t, th) == t \in tasks /\ ReadyStateOf(t) = "Ready"

\* can_claim_task: the graph is recomputed, the task must be Ready, and it must be
\* unassigned or assigned to the claimer.
CanClaimTask(t, th) ==
  /\ t \in tasks
  /\ ReadyStateOf(t) = "Ready"
  /\ assignee[t] \in {None, th}

\* claim_task and claim_ready_task: no lease is taken and none is released.
ClaimTask(t, th) ==
  /\ CanClaimTask(t, th)
  /\ assignee' = [assignee EXCEPT ![t] = th]
  /\ owner' = [owner EXCEPT ![t] = th]
  /\ status' = [status EXCEPT ![t] = "InProgress"]
  /\ memory' = Remember(t, EffectiveScopes(t))
  /\ UNCHANGED <<tasks, requested, manual, edges, leases, active>>
  /\ RecomputeTaskGraph([review EXCEPT ![t] = "NotRequested"])

-----------------------------------------------------------------------------
(* Dependencies and manual blockers *)

\* Fault: the search follows the edges backwards.
CanDependBackwards(t, d) == t # d /\ {t, d} \subseteq tasks /\ t \notin Visited(d)

\* t may depend on d: both exist and d is not reachable from t already.
CanDepend(t, d) == t # d /\ {t, d} \subseteq tasks /\ d \notin Visited(t)

AddTaskDependency(t, d) ==
  /\ CanDepend(t, d)
  /\ edges' = edges \cup {<<d, t>>}
  /\ UNCHANGED <<tasks, status, assignee, owner, requested, manual, memory, leases, active>>
  /\ RecomputeTaskGraph(review)

RemoveTaskDependency(t, d) ==
  /\ <<d, t>> \in edges
  /\ edges' = edges \ {<<d, t>>}
  /\ UNCHANGED <<tasks, status, assignee, owner, requested, manual, memory, leases, active>>
  /\ RecomputeTaskGraph(review)

BlockTask(t) ==
  /\ t \in tasks
  /\ manual[t] < MaxBlockers
  /\ manual' = [manual EXCEPT ![t] = @ + 1]
  /\ UNCHANGED <<tasks, status, assignee, owner, requested, edges, memory, leases, active>>
  /\ RecomputeTaskGraph(review)

\* Fault: a blocker is cleared whether or not one is active.
UnblockAnyTask(t) ==
  /\ t \in tasks
  /\ manual' = [manual EXCEPT ![t] = @ - 1]
  /\ UNCHANGED <<tasks, status, assignee, owner, requested, edges, memory, leases, active>>
  /\ RecomputeTaskGraph(review)

\* unblock_task clears the blocker it names, or every manual blocker.
UnblockTask(t) ==
  /\ t \in tasks
  /\ manual[t] > 0
  /\ manual' \in {[manual EXCEPT ![t] = @ - 1], [manual EXCEPT ![t] = 0]}
  /\ UNCHANGED <<tasks, status, assignee, owner, requested, edges, memory, leases, active>>
  /\ RecomputeTaskGraph(review)

-----------------------------------------------------------------------------
(* Leases *)

\* Fault: the graph is not recomputed after leases go.
KeepOnlyStale(kept) ==
  /\ leases' = kept
  /\ UNCHANGED <<tasks, status, review, assignee, owner, requested, manual, ready, edges,
                 memory, active>>

KeepOnly(kept) ==
  /\ leases' = kept
  /\ UNCHANGED <<tasks, status, assignee, owner, requested, manual, edges, memory, active>>
  /\ RecomputeTaskGraph(review)

ReleaseTaskLeases(t) == t \in tasks /\ KeepOnly(leases \ LeasesOf(t))

ForceReleaseLease(l) == l \in leases /\ KeepOnly(leases \ {l})

ReleaseThreadLeases(th) ==
  /\ \E l \in leases : l.owner = th
  /\ KeepOnly({l \in leases : l.owner # th})

\* cleanup_stale_leases: expires_at is never set, so only a stale heartbeat of an
\* inactive owner removes a lease.
StaleLeases == {l \in leases : l.owner \notin active /\ l.heartbeat = "old"}
CleanupStaleLeases == StaleLeases # {} /\ KeepOnly(leases \ StaleLeases)

TouchThreadLeases(th) ==
  /\ leases' = {IF l.owner = th THEN [l EXCEPT !.heartbeat = "fresh"] ELSE l : l \in leases}
  /\ UNCHANGED <<tasks, status, review, assignee, owner, requested, manual, ready, edges,
                 memory, active>>

OwnsWrite(th, f) ==
  \E l \in leases : l.owner = th /\ l.access = "ExclusiveWrite" /\ Overlaps(f, l.scope)

\* Fault: another thread's read and review leases are overlooked.
BlockedByWriter(th, f) ==
  \E l \in leases : l.owner # th /\ l.access = "ExclusiveWrite" /\ Overlaps(f, l.scope)

BlockedByOther(th, f) == \E l \in leases : l.owner # th /\ Overlaps(f, l.scope)

WriteScopes(t, f) ==
  {r \in EffectiveScopes(t) : r.access = "ExclusiveWrite" /\ Overlaps(r.scope, f)}

WriteCandidates(th, f) ==
  {t \in tasks : status[t] = "InProgress" /\ owner[t] = th /\ WriteScopes(t, f) # {}}

\* t has a scope over f that ranks at least as high as every scope of u over f.
RanksAtLeast(t, u, f) ==
  \E r \in WriteScopes(t, f) : \A s \in WriteScopes(u, f) : Rank[s.scope] <= Rank[r.scope]

\* select_write_task_for_path: the claimed task with the best-ranking scope, if unique.
SelectWriteTask(th, f) ==
  {t \in WriteCandidates(th, f) :
     \A u \in WriteCandidates(th, f) : u # t => ~RanksAtLeast(u, t, f)}

\* ensure_write_paths_owned: all paths get a lease or none does.
EnsureWritePathsOwned(th, paths) ==
  LET missing == {f \in paths : ~OwnsWrite(th, f)}
  IN /\ missing # {}
     /\ \A f \in missing : ~BlockedByOther(th, f) /\ SelectWriteTask(th, f) # {}
     /\ leases' = leases \cup
          {[task |-> CHOOSE t \in SelectWriteTask(th, f) : TRUE, owner |-> th, scope |-> f,
            access |-> "ExclusiveWrite", heartbeat |-> "fresh"] : f \in missing}
     /\ UNCHANGED <<tasks, status, assignee, owner, requested, manual, edges, memory, active>>
     /\ RecomputeTaskGraph(review)

\* clear: the board is empty again.
Clear ==
  /\ tasks # {}
  /\ tasks' = {}
  /\ status' = [t \in Task |-> "Pending"]
  /\ review' = [t \in Task |-> "NotRequested"]
  /\ assignee' = [t \in Task |-> None]
  /\ owner' = [t \in Task |-> None]
  /\ requested' = [t \in Task |-> {}]
  /\ manual' = [t \in Task |-> 0]
  /\ ready' = [t \in Task |-> "Ready"]
  /\ edges' = {}
  /\ memory' = [t \in Task |-> {}]
  /\ leases' = {}
  /\ UNCHANGED active

-----------------------------------------------------------------------------
(* What happens around the board *)

\* A teammate is launched, or its handle is shut down or lost in a restart.
ThreadStarts(th) == th \notin active /\ active' = active \cup {th} /\ UNCHANGED board
ThreadStops(th) == th \in active \ {Leader} /\ active' = active \ {th} /\ UNCHANGED board

\* LEASE_STALE_AFTER_SECS go by: every heartbeat is now old.
HeartbeatsAge ==
  /\ \E l \in leases : l.heartbeat = "fresh"
  /\ leases' = {[l EXCEPT !.heartbeat = "old"] : l \in leases}
  /\ UNCHANGED <<tasks, status, review, assignee, owner, requested, manual, ready, edges,
                 memory, active>>

-----------------------------------------------------------------------------
Next ==
  \/ \E t \in Task, own, asg \in MaybeThread, scopes \in RequestSets, b \in BOOLEAN :
       CreateTask(t, own, asg, scopes, b)
  \/ \E t \in Task, u \in Updates : UpdateTask(t, u)
  \/ \E t \in Task, th \in Thread : AssignTask(t, th)
  \/ \E t \in Task, th \in Thread, reviewMode \in BOOLEAN : HandoffTask(t, th, reviewMode)
  \/ \E t \in Task, th \in Thread : ClaimTask(t, th)
  \/ \E t, d \in Task : <<d, t>> \in Links /\ AddTaskDependency(t, d)
  \/ \E t, d \in Task : RemoveTaskDependency(t, d)
  \/ \E t \in Task : BlockTask(t)
  \/ \E t \in Task : UnblockTask(t)
  \/ \E t \in Task : ReleaseTaskLeases(t)
  \/ \E l \in leases : ForceReleaseLease(l)
  \/ \E th \in Thread : ReleaseThreadLeases(th)
  \/ CleanupStaleLeases
  \/ \E th \in Thread : TouchThreadLeases(th)
  \/ \E th \in Thread, paths \in SUBSET File : EnsureWritePathsOwned(th, paths)
  \/ Clear
  \/ \E th \in Mates : ThreadStarts(th)
  \/ \E th \in Mates : ThreadStops(th)
  \/ HeartbeatsAge

Spec == Init /\ [][Next]_vars

-----------------------------------------------------------------------------
(* What makes the board correct *)

TypeOK ==
  /\ tasks \subseteq Task
  /\ status \in [Task -> Status]
  /\ review \in [Task -> ReviewState]
  /\ assignee \in [Task -> MaybeThread]
  /\ owner \in [Task -> MaybeThread]
  /\ requested \in [Task -> SUBSET ScopeRequest]
  /\ manual \in [Task -> Nat]
  /\ ready \in [Task -> ReadyState]
  /\ edges \subseteq tasks \X tasks
  /\ memory \in [Task -> SUBSET ScopeRequest]
  /\ leases \subseteq OwnershipLease
  /\ active \subseteq Thread

\* No circular wait among tasks: every non-empty set of tasks has one that depends on
\* none of them.  add_task_dependency's search must refuse every edge that closes a
\* cycle, in whatever order edges are added and removed.
DependenciesAcyclic ==
  \A S \in SUBSET Task : S # {} => \E t \in S : DependenciesOf(t) \cap S = {}

\* The cached ready_state that snapshots and list_ready_tasks show is what the present
\* statuses, edges, blockers and leases say: no method forgets to recompute it for the
\* tasks its change frees or blocks.
ReadyStateCurrent == \A t \in tasks : ready[t] = ReadyStateOf(t)

\* A lease belongs to the present owner of a task on the board: assignment, handoff,
\* claim and update never leave a lease with the thread that lost the task, which
\* would block the new owner's writes and let the old one go on writing.
LeaseFollowsOwner == \A l \in leases : l.task \in tasks /\ owner[l.task] = l.owner

\* A finished task holds no lease, and a task in review is held with Review access
\* only, so that nobody can write under it.
LeasesMatchStatus ==
  \A l \in leases :
    /\ status[l.task] \in {"Pending", "InProgress", "Review"}
    /\ status[l.task] = "Review" => l.access = "Review"

\* A task in review has a review open or decided, and a task that is completed has none
\* left open, whatever review state update_task is given.
ReviewStateConsistent ==
  \A t \in tasks :
    /\ status[t] = "Review" => review[t] # "NotRequested"
    /\ status[t] = "Completed" => review[t] # "Requested"

\* A file lease granted on a write is exclusive when it is granted: no other thread
\* holds any lease over the file, whichever task, kind of scope or access it has.
\* Only ensure_write_paths_owned grants leases on a task that stays InProgress.
GrantsExclusively ==
  \A l \in leases' \ leases :
    (status[l.task] = "InProgress" /\ status'[l.task] = "InProgress"
       /\ \A k \in leases : [k EXCEPT !.heartbeat = l.heartbeat] # l)
    => \A k \in leases' : Overlaps(l.scope, k.scope) => k.owner = l.owner

\* Two threads hold leases to write over scopes that overlap.  Nothing but a handoff, which
\* does not look at the leases of others, brings that about: no update, claim, write,
\* cleanup or restart.
WriteConflict ==
  \E l, k \in leases :
    /\ l.owner # k.owner /\ Overlaps(l.scope, k.scope)
    /\ l.access = "ExclusiveWrite" /\ k.access = "ExclusiveWrite"
OnlyHandoffsConflict ==
  WriteConflict' => WriteConflict \/ \E t \in Task, th \in Thread : HandoffTask(t, th, FALSE)

\* What ensure_write_paths_owned grants is exclusive, and leases that are in conflict go
\* back to a handoff.
WriteGrantExclusive == [][GrantsExclusively /\ OnlyHandoffsConflict]_vars

\* A task that once asked for scopes never loses track of them: a handoff, a lost
\* lease or an update that empties the request leaves the remembered scopes, so the
\* next owner can still write.  Only clearing the board forgets them.
ScopesNeverForgotten ==
  [][\A t \in tasks \cap tasks' : EffectiveScopes(t) # {} => EffectiveScopes(t)' # {}]_vars

\* Two threads never hold the right to write the same file at once.
WritersExclusive ==
  \A f \in File, th, other \in Thread : OwnsWrite(th, f) /\ OwnsWrite(other, f) => th = other
=============================================================================

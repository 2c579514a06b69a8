-------------------------- MODULE TaskBoardProofs --------------------------
(***************************************************************************)
(* What holds of the task board for every set of tasks, threads and        *)
(* scopes, every overlap relation and every argument callers may give.     *)
(***************************************************************************)
EXTENDS TaskBoard, TLAPS

-----------------------------------------------------------------------------
(* Types *)

\* The leases apply_task_leases creates are leases.
LEMMA LeasesForType ==
  ASSUME NEW t \in Task, NEW th \in Thread, NEW scopes \in SUBSET ScopeRequest
  PROVE  LeasesFor(t, th, scopes) \subseteq OwnershipLease
  BY DEF LeasesFor, OwnershipLease, ScopeRequest, Heartbeat

LEMMA ForReviewType ==
  ASSUME NEW scopes \in SUBSET ScopeRequest
  PROVE  ForReview(scopes) \in SUBSET ScopeRequest
  BY DEF ForReview, ScopeRequest, Access

\* The effective scopes of a task are scope requests.
LEMMA EffectiveType ==
  ASSUME NEW a \in SUBSET ScopeRequest, NEW b \in SUBSET ScopeRequest,
         NEW c \in SUBSET ScopeRequest
  PROVE  Effective(a, b, c) \in SUBSET ScopeRequest
  BY DEF Effective

LEMMA GrantedType ==
  ASSUME TypeOK, NEW t \in Task
  PROVE  Granted(t) \in SUBSET ScopeRequest
  BY DEF TypeOK, Granted, LeasesOf, OwnershipLease, ScopeRequest

LEMMA EffectiveScopesType ==
  ASSUME TypeOK, NEW t \in Task
  PROVE  EffectiveScopes(t) \in SUBSET ScopeRequest
  <1>1. requested[t] \in SUBSET ScopeRequest /\ memory[t] \in SUBSET ScopeRequest
    BY DEF TypeOK
  <1>2. QED
    BY <1>1, GrantedType, EffectiveType DEF EffectiveScopes

LEMMA RememberType ==
  ASSUME TypeOK, NEW t \in Task, NEW scopes \in SUBSET ScopeRequest
  PROVE  Remember(t, scopes) \in [Task -> SUBSET ScopeRequest]
  BY DEF TypeOK, Remember

\* Recomputing the graph keeps review and ready states within their types.
LEMMA RecomputeType ==
  ASSUME NEW rv \in [Task -> ReviewState], status' \in [Task -> Status],
         RecomputeTaskGraph(rv)
  PROVE  review' \in [Task -> ReviewState] /\ ready' \in [Task -> ReadyState]
  <1>1. ASSUME NEW t \in Task
        PROVE  NormalReview(status'[t], rv[t]) \in ReviewState
    BY DEF NormalReview, ReviewState
  <1>2. ASSUME NEW t \in Task
        PROVE  ReadyStateOf(t)' \in ReadyState
    <2>1. status'[t] \in Status
      OBVIOUS
    <2>2. QED
      BY <2>1 DEF ReadyStateOf, ReadyState, Status
  <1>3. QED
    BY <1>1, <1>2 DEF RecomputeTaskGraph

\* The review states a method leaves before the graph is recomputed.
LEMMA ReviewExceptType ==
  ASSUME TypeOK, NEW t \in Task, NEW rv \in ReviewState
  PROVE  [review EXCEPT ![t] = rv] \in [Task -> ReviewState]
  BY DEF TypeOK

\* create_task keeps the types.
LEMMA CreateTaskType ==
  ASSUME TypeOK, NEW t \in Task, NEW own \in MaybeThread, NEW asg \in MaybeThread,
         NEW scopes \in RequestSets, NEW b \in BOOLEAN, CreateTask(t, own, asg, scopes, b)
  PROVE  TypeOK'
  <1>1. scopes \in SUBSET ScopeRequest
    BY ConstantsOK DEF ConstantsOK
  <1>2. memory' \in [Task -> SUBSET ScopeRequest]
    BY <1>1, RememberType DEF CreateTask
  <1>3. status' \in [Task -> Status] /\ review \in [Task -> ReviewState]
    BY DEF TypeOK, CreateTask
  <1>4. review' \in [Task -> ReviewState] /\ ready' \in [Task -> ReadyState]
    BY <1>3, RecomputeType DEF CreateTask
  <1>5. owner' \in [Task -> MaybeThread] /\ assignee' \in [Task -> MaybeThread]
    BY DEF TypeOK, CreateTask
  <1>6. requested' \in [Task -> SUBSET ScopeRequest] /\ manual' \in [Task -> Nat]
    BY <1>1 DEF TypeOK, CreateTask
  <1>7. tasks' \subseteq Task /\ edges' \subseteq tasks' \X tasks'
    BY DEF TypeOK, CreateTask
  <1>8. leases' \subseteq OwnershipLease /\ active' \subseteq Thread
    BY DEF TypeOK, CreateTask
  <1>9. QED
    BY <1>2, <1>3, <1>4, <1>5, <1>6, <1>7, <1>8 DEF TypeOK

\* update_task keeps the types, whatever arguments are given.
LEMMA UpdateTaskType ==
  ASSUME TypeOK, NEW t \in Task, NEW u \in Updates, UpdateTask(t, u)
  PROVE  TypeOK'
  <1> DEFINE st == Given(u, "status", u.status, status[t])
             own == Given(u, "owner", u.owner, owner[t])
             asked == Given(u, "requested", u.requested, requested[t])
             rv == Given(u, "review", u.review, review[t])
             granted == Given(u, "granted", u.granted, Granted(t))
             scopes == Effective(asked, memory[t], granted)
             resets == u.gives \cap {"granted", "review"} = {} /\ st = "Pending"
             rvs == [review EXCEPT ![t] = IF resets THEN "NotRequested" ELSE rv]
  <1>1. u \in UpdateArgs
    BY ConstantsOK DEF ConstantsOK
  <1>2. st \in Status /\ own \in MaybeThread /\ asked \in SUBSET ScopeRequest
        /\ rv \in ReviewState /\ granted \in SUBSET ScopeRequest
    BY <1>1, GrantedType DEF TypeOK, Given, UpdateArgs
  <1>3. scopes \in SUBSET ScopeRequest
    <2>1. memory[t] \in SUBSET ScopeRequest
      BY DEF TypeOK
    <2>2. QED
      BY <1>2, <2>1, EffectiveType
  <1>4. /\ status' = [status EXCEPT ![t] = st]
        /\ assignee' = [assignee EXCEPT ![t] = Given(u, "assignee", u.assignee, @)]
        /\ owner' = [owner EXCEPT ![t] = own]
        /\ requested' = [requested EXCEPT ![t] = asked]
        /\ memory' = Remember(t, scopes)
        /\ leases' = IF Refreshes(u) THEN RefreshedLeases(t, st, own, scopes) ELSE leases
        /\ UNCHANGED <<tasks, manual, edges, active>>
        /\ RecomputeTaskGraph(rvs)
    BY DEF UpdateTask
  <1> HIDE DEF st, own, asked, rv, granted, scopes
  <1>5. status' \in [Task -> Status] /\ owner' \in [Task -> MaybeThread]
        /\ requested' \in [Task -> SUBSET ScopeRequest]
    BY <1>2, <1>4 DEF TypeOK
  <1>6. assignee' \in [Task -> MaybeThread]
    BY <1>1, <1>4 DEF TypeOK, Given, UpdateArgs
  <1>7. memory' \in [Task -> SUBSET ScopeRequest]
    BY <1>3, <1>4, RememberType
  <1>8. leases' \subseteq OwnershipLease
    <2>1. leases \subseteq OwnershipLease
      BY DEF TypeOK
    <2>2. own # None => LeasesFor(t, own, ForReview(scopes)) \subseteq OwnershipLease
      BY <1>2, <1>3, ForReviewType, LeasesForType DEF MaybeThread
    <2>3. QED
      BY <1>4, <2>1, <2>2 DEF RefreshedLeases
  <1>9. review' \in [Task -> ReviewState] /\ ready' \in [Task -> ReadyState]
    <2>1. rvs \in [Task -> ReviewState]
      BY <1>2 DEF TypeOK, ReviewState
    <2>2. QED
      BY <1>4, <1>5, <2>1, RecomputeType
  <1>10. tasks' \subseteq Task /\ edges' \subseteq tasks' \X tasks'
         /\ manual' \in [Task -> Nat] /\ active' \subseteq Thread
    BY <1>4 DEF TypeOK
  <1>11. QED
    BY <1>5, <1>6, <1>7, <1>8, <1>9, <1>10 DEF TypeOK

\* Assignment, handoff and claims keep the types.
LEMMA AssignTaskType ==
  ASSUME TypeOK, NEW t \in Task, NEW th \in Thread, AssignTask(t, th)
  PROVE  TypeOK'
  <1>1. status' \in [Task -> Status]
    BY DEF TypeOK, AssignTask, Status
  <1>2. [review EXCEPT ![t] = "NotRequested"] \in [Task -> ReviewState]
    BY ReviewExceptType DEF ReviewState
  <1>3. review' \in [Task -> ReviewState] /\ ready' \in [Task -> ReadyState]
    BY <1>1, <1>2, RecomputeType DEF AssignTask
  <1>4. owner' \in [Task -> MaybeThread] /\ assignee' \in [Task -> MaybeThread]
    BY DEF TypeOK, AssignTask, MaybeThread
  <1>5. QED
    BY <1>1, <1>3, <1>4 DEF TypeOK, AssignTask

LEMMA HandoffTaskType ==
  ASSUME TypeOK, NEW t \in Task, NEW th \in Thread, NEW mode \in BOOLEAN,
         HandoffTask(t, th, mode)
  PROVE  TypeOK'
  <1> DEFINE scopes == EffectiveScopes(t)
             given == IF mode THEN ForReview(scopes) ELSE scopes
             rv == IF mode THEN "Requested" ELSE "NotRequested"
  <1>1. scopes \in SUBSET ScopeRequest
    BY EffectiveScopesType
  <1>2. given \in SUBSET ScopeRequest
    BY <1>1, ForReviewType
  <1>3. leases' = (leases \ LeasesOf(t)) \cup LeasesFor(t, th, given)
    BY DEF HandoffTask
  <1>4. LeasesFor(t, th, given) \subseteq OwnershipLease
    BY <1>2, LeasesForType
  <1>5. leases' \subseteq OwnershipLease
    BY <1>3, <1>4 DEF TypeOK
  <1>6. status' \in [Task -> Status]
    BY DEF TypeOK, HandoffTask, Status
  <1>7. [review EXCEPT ![t] = rv] \in [Task -> ReviewState]
    BY ReviewExceptType DEF ReviewState
  <1>8. review' \in [Task -> ReviewState] /\ ready' \in [Task -> ReadyState]
    BY <1>6, <1>7, RecomputeType DEF HandoffTask
  <1>9. owner' \in [Task -> MaybeThread] /\ assignee' \in [Task -> MaybeThread]
    BY DEF TypeOK, HandoffTask, MaybeThread
  <1>10. memory' \in [Task -> SUBSET ScopeRequest]
    BY <1>1, RememberType DEF HandoffTask
  <1>11. QED
    BY <1>5, <1>6, <1>8, <1>9, <1>10 DEF TypeOK, HandoffTask

LEMMA ClaimTaskType ==
  ASSUME TypeOK, NEW t \in Task, NEW th \in Thread, ClaimTask(t, th)
  PROVE  TypeOK'
  <1>1. status' \in [Task -> Status]
    BY DEF TypeOK, ClaimTask, Status
  <1>2. [review EXCEPT ![t] = "NotRequested"] \in [Task -> ReviewState]
    BY ReviewExceptType DEF ReviewState
  <1>3. review' \in [Task -> ReviewState] /\ ready' \in [Task -> ReadyState]
    BY <1>1, <1>2, RecomputeType DEF ClaimTask
  <1>4. owner' \in [Task -> MaybeThread] /\ assignee' \in [Task -> MaybeThread]
    BY DEF TypeOK, ClaimTask, MaybeThread
  <1>5. memory' \in [Task -> SUBSET ScopeRequest]
    BY EffectiveScopesType, RememberType DEF ClaimTask
  <1>6. QED
    BY <1>1, <1>3, <1>4, <1>5 DEF TypeOK, ClaimTask

\* A method that changes only edges, blockers or leases keeps the types of the rest.
LEMMA GraphStepType ==
  ASSUME TypeOK, edges' \subseteq tasks \X tasks, manual' \in [Task -> Nat],
         leases' \subseteq OwnershipLease,
         UNCHANGED <<tasks, status, assignee, owner, requested, memory, active>>,
         RecomputeTaskGraph(review)
  PROVE  TypeOK'
  <1>1. review' \in [Task -> ReviewState] /\ ready' \in [Task -> ReadyState]
    BY RecomputeType DEF TypeOK
  <1>2. QED
    BY <1>1 DEF TypeOK

LEMMA KeepOnlyType ==
  ASSUME TypeOK, NEW kept \in SUBSET leases, KeepOnly(kept)
  PROVE  TypeOK'
  BY GraphStepType DEF KeepOnly, TypeOK

LEMMA SelectWriteTaskType ==
  ASSUME TypeOK, NEW th \in Thread, NEW f \in File
  PROVE  SelectWriteTask(th, f) \subseteq Task
  BY DEF SelectWriteTask, WriteCandidates, TypeOK

\* A write grants leases over files only.
LEMMA EnsureWritePathsOwnedType ==
  ASSUME TypeOK, NEW th \in Thread, NEW paths \in SUBSET File,
         EnsureWritePathsOwned(th, paths)
  PROVE  TypeOK'
  <1> DEFINE missing == {f \in paths : ~OwnsWrite(th, f)}
             lease(f) == [task |-> CHOOSE t \in SelectWriteTask(th, f) : TRUE,
                          owner |-> th, scope |-> f, access |-> "ExclusiveWrite",
                          heartbeat |-> "fresh"]
  <1>1. ASSUME NEW f \in missing
        PROVE  lease(f) \in OwnershipLease
    <2>1. f \in Scope
      BY ConstantsOK DEF ConstantsOK
    <2>2. (CHOOSE t \in SelectWriteTask(th, f) : TRUE) \in Task
      BY SelectWriteTaskType DEF EnsureWritePathsOwned
    <2>3. QED
      BY <2>1, <2>2 DEF OwnershipLease, Access, Heartbeat
  <1>2. leases' = leases \cup {lease(f) : f \in missing}
    BY DEF EnsureWritePathsOwned
  <1>3. leases' \subseteq OwnershipLease
    BY <1>1, <1>2 DEF TypeOK
  <1>4. QED
    BY <1>3, GraphStepType DEF EnsureWritePathsOwned, TypeOK

-----------------------------------------------------------------------------
\* Every step keeps the types.
LEMMA NextType == TypeOK /\ [Next]_vars => TypeOK'
  <1> SUFFICES ASSUME TypeOK, [Next]_vars
               PROVE  TypeOK'
    OBVIOUS
  <1>1. ASSUME NEW t \in Task, NEW own \in MaybeThread, NEW asg \in MaybeThread,
               NEW scopes \in RequestSets, NEW b \in BOOLEAN,
               CreateTask(t, own, asg, scopes, b)
        PROVE  TypeOK'
    BY <1>1, CreateTaskType
  <1>2. ASSUME NEW t \in Task, NEW u \in Updates, UpdateTask(t, u)
        PROVE  TypeOK'
    BY <1>2, UpdateTaskType
  <1>3. ASSUME NEW t \in Task, NEW th \in Thread, AssignTask(t, th)
        PROVE  TypeOK'
    BY <1>3, AssignTaskType
  <1>4. ASSUME NEW t \in Task, NEW th \in Thread, NEW mode \in BOOLEAN,
               HandoffTask(t, th, mode)
        PROVE  TypeOK'
    BY <1>4, HandoffTaskType
  <1>5. ASSUME NEW t \in Task, NEW th \in Thread, ClaimTask(t, th)
        PROVE  TypeOK'
    BY <1>5, ClaimTaskType
  <1>6. ASSUME NEW t \in Task, NEW d \in Task, AddTaskDependency(t, d)
        PROVE  TypeOK'
    BY <1>6, GraphStepType DEF AddTaskDependency, CanDepend, TypeOK
  <1>7. ASSUME NEW t \in Task, NEW d \in Task, RemoveTaskDependency(t, d)
        PROVE  TypeOK'
    BY <1>7, GraphStepType DEF RemoveTaskDependency, TypeOK
  <1>8. ASSUME NEW t \in Task, BlockTask(t) \/ UnblockTask(t)
        PROVE  TypeOK'
    <2>1. manual' \in [Task -> Nat]
      BY <1>8 DEF BlockTask, UnblockTask, TypeOK
    <2>2. QED
      BY <1>8, <2>1, GraphStepType DEF BlockTask, UnblockTask, TypeOK
  <1>9. ASSUME NEW t \in Task, ReleaseTaskLeases(t)
        PROVE  TypeOK'
    BY <1>9, KeepOnlyType DEF ReleaseTaskLeases
  <1>10. ASSUME NEW l \in leases, ForceReleaseLease(l)
         PROVE  TypeOK'
    BY <1>10, KeepOnlyType DEF ForceReleaseLease
  <1>11. ASSUME NEW th \in Thread, ReleaseThreadLeases(th)
         PROVE  TypeOK'
    BY <1>11, KeepOnlyType DEF ReleaseThreadLeases
  <1>12. CASE CleanupStaleLeases
    BY <1>12, KeepOnlyType DEF CleanupStaleLeases
  <1>13. ASSUME NEW th \in Thread, TouchThreadLeases(th)
         PROVE  TypeOK'
    BY <1>13 DEF TouchThreadLeases, TypeOK, OwnershipLease, Heartbeat
  <1>14. ASSUME NEW th \in Thread, NEW paths \in SUBSET File,
                EnsureWritePathsOwned(th, paths)
         PROVE  TypeOK'
    BY <1>14, EnsureWritePathsOwnedType
  <1>15. CASE Clear
    BY <1>15 DEF Clear, TypeOK, Status, ReviewState, ReadyState, MaybeThread
  <1>16. ASSUME NEW th \in Mates, ThreadStarts(th) \/ ThreadStops(th)
         PROVE  TypeOK'
    BY <1>16, ConstantsOK DEF ConstantsOK, ThreadStarts, ThreadStops, board, TypeOK
  <1>17. CASE HeartbeatsAge
    BY <1>17 DEF HeartbeatsAge, TypeOK, OwnershipLease, Heartbeat
  <1>18. CASE UNCHANGED vars
    BY <1>18 DEF vars, board, TypeOK
  <1>19. QED
    BY <1>1, <1>2, <1>3, <1>4, <1>5, <1>6, <1>7, <1>8, <1>9, <1>10, <1>11, <1>12, <1>13,
       <1>14, <1>15, <1>16, <1>17, <1>18 DEF Next

\* The board's variables keep their types in every behaviour, for every set of tasks,
\* threads and scopes: TeamState's maps never hold a task, owner, lease or edge that
\* its methods do not know of.
THEOREM BoardTypes == Spec => []TypeOK
  <1>1. Init => TypeOK
    BY ConstantsOK DEF ConstantsOK, Init, TypeOK, Status, ReviewState, ReadyState, MaybeThread
  <1>2. TypeOK /\ [Next]_vars => TypeOK'
    BY NextType
  <1>3. QED
    BY <1>1, <1>2, PTL DEF Spec
-----------------------------------------------------------------------------
(* The dependency graph and readiness *)

\* The search of add_task_dependency is enough: if d is not reached from t along the
\* edges, the edge from d to t closes no cycle.  A set closed under the edges that
\* holds t and not d splits any set of tasks in two parts, and a task minimal in the
\* part outside it, if there is one, is minimal in the whole.
LEMMA NewEdgeAcyclic ==
  ASSUME DependenciesAcyclic, NEW t \in Task, NEW d \in Task, d \notin Visited(t),
         edges' = edges \cup {<<d, t>>}
  PROVE  DependenciesAcyclic'
  <1>1. PICK R \in SUBSET Task : t \in R /\ ForwardClosed(R) /\ d \notin R
    BY DEF Visited
  <1>2. SUFFICES ASSUME NEW S \in SUBSET Task, S # {}
                 PROVE  \E x \in S : DependenciesOf(x)' \cap S = {}
    BY DEF DependenciesAcyclic
  <1>3. CASE S \subseteq R
    <2>1. PICK x \in S : DependenciesOf(x) \cap S = {}
      BY <1>2 DEF DependenciesAcyclic
    <2>2. ASSUME NEW y \in S, <<y, x>> \in edges'
          PROVE  FALSE
      <3>1. y # d
        BY <1>1, <1>3
      <3>2. <<y, x>> \in edges
        BY <2>2, <3>1
      <3>3. QED
        BY <2>1, <3>2 DEF DependenciesOf
    <2>3. QED
      BY <2>2 DEF DependenciesOf
  <1>4. CASE ~(S \subseteq R)
    <2>1. PICK x \in S \ R : DependenciesOf(x) \cap (S \ R) = {}
      <3>1. S \ R # {} /\ S \ R \in SUBSET Task
        BY <1>4
      <3>2. QED
        BY <3>1 DEF DependenciesAcyclic
    <2>2. ASSUME NEW y \in S, <<y, x>> \in edges'
          PROVE  FALSE
      <3>1. x # t
        BY <1>1, <2>1
      <3>2. <<y, x>> \in edges
        BY <2>2, <3>1
      <3>3. y \notin R
        BY <1>1, <2>1, <3>2 DEF ForwardClosed
      <3>4. QED
        BY <2>1, <3>2, <3>3 DEF DependenciesOf
    <2>3. QED
      BY <2>2 DEF DependenciesOf
  <1>5. QED
    BY <1>3, <1>4

\* Taking edges away closes no cycle.
LEMMA FewerEdgesAcyclic ==
  ASSUME DependenciesAcyclic, edges' \subseteq edges
  PROVE  DependenciesAcyclic'
  BY DEF DependenciesAcyclic, DependenciesOf

\* Every step keeps the graph acyclic: only add_task_dependency adds an edge.
LEMMA NextAcyclic == DependenciesAcyclic /\ [Next]_vars => DependenciesAcyclic'
  <1> SUFFICES ASSUME DependenciesAcyclic, [Next]_vars
               PROVE  DependenciesAcyclic'
    OBVIOUS
  <1>1. ASSUME NEW t \in Task, NEW d \in Task, AddTaskDependency(t, d)
        PROVE  DependenciesAcyclic'
    BY <1>1, NewEdgeAcyclic DEF AddTaskDependency, CanDepend
  <1>2. ASSUME NEW t \in Task, NEW d \in Task, RemoveTaskDependency(t, d)
        PROVE  DependenciesAcyclic'
    BY <1>2, FewerEdgesAcyclic DEF RemoveTaskDependency
  <1>3. CASE Clear
    BY <1>3, FewerEdgesAcyclic DEF Clear
  <1>4. CASE UNCHANGED edges
    BY <1>4, FewerEdgesAcyclic
  <1>5. ASSUME Next, ~Clear,
               ~(\E t, d \in Task : AddTaskDependency(t, d)),
               ~(\E t, d \in Task : RemoveTaskDependency(t, d))
        PROVE  UNCHANGED edges
    BY <1>5 DEF Next, CreateTask, UpdateTask, AssignTask, HandoffTask, ClaimTask, BlockTask,
       UnblockTask, KeepOnly, ReleaseTaskLeases, ForceReleaseLease, ReleaseThreadLeases,
       CleanupStaleLeases, TouchThreadLeases, EnsureWritePathsOwned, ThreadStarts,
       ThreadStops, HeartbeatsAge, board
  <1>6. QED
    BY <1>1, <1>2, <1>3, <1>4, <1>5 DEF vars, board

\* No circular wait among tasks, however many there are and in whatever order
\* dependencies are added and removed.
THEOREM BoardAcyclic == Spec => []DependenciesAcyclic
  <1>1. Init => DependenciesAcyclic
    BY DEF Init, DependenciesAcyclic, DependenciesOf
  <1>2. DependenciesAcyclic /\ [Next]_vars => DependenciesAcyclic'
    BY NextAcyclic
  <1>3. QED
    BY <1>1, <1>2, PTL DEF Spec

-----------------------------------------------------------------------------
(* The cached readiness *)

SameButHeartbeat(k, l) ==
  k.task = l.task /\ k.owner = l.owner /\ k.scope = l.scope /\ k.access = l.access

\* Leases that differ in their heartbeats only give every task the same readiness.
LEMMA HeartbeatsDoNotMatter ==
  ASSUME \A l \in leases : \E k \in leases' : SameButHeartbeat(k, l),
         \A k \in leases' : \E l \in leases : SameButHeartbeat(k, l),
         UNCHANGED <<status, assignee, owner, requested, manual, edges, memory>>,
         NEW t \in Task
  PROVE  ReadyStateOf(t)' = ReadyStateOf(t)
  <1>1. Granted(t)' = Granted(t)
    BY DEF Granted, LeasesOf, SameButHeartbeat
  <1>2. EffectiveScopes(t)' = EffectiveScopes(t)
    BY <1>1 DEF EffectiveScopes
  <1>3. (\E l \in leases' : LeaseBlocks(l, t)') <=> (\E l \in leases : LeaseBlocks(l, t))
    BY <1>2 DEF LeaseBlocks, Requester, SameButHeartbeat
  <1>4. HasActiveBlocker(t)' <=> HasActiveBlocker(t)
    BY <1>3 DEF HasActiveBlocker, DependenciesOf
  <1>5. QED
    BY <1>4 DEF ReadyStateOf

\* A step that recomputes the graph leaves the readiness current.
LEMMA RecomputeCurrent ==
  ASSUME TypeOK', NEW rv, RecomputeTaskGraph(rv)
  PROVE  ReadyStateCurrent'
  BY DEF RecomputeTaskGraph, ReadyStateCurrent, TypeOK

LEMMA NextReadyStateCurrent ==
  TypeOK /\ TypeOK' /\ ReadyStateCurrent /\ [Next]_vars => ReadyStateCurrent'
  <1> SUFFICES ASSUME TypeOK, TypeOK', ReadyStateCurrent, [Next]_vars
               PROVE  ReadyStateCurrent'
    OBVIOUS
  <1>1. ASSUME NEW th \in Thread, TouchThreadLeases(th)
        PROVE  ReadyStateCurrent'
    <2>1. ASSUME NEW l \in leases
          PROVE  \E k \in leases' : SameButHeartbeat(k, l)
      <3> DEFINE k == IF l.owner = th THEN [l EXCEPT !.heartbeat = "fresh"] ELSE l
      <3>1. k \in leases'
        BY <1>1 DEF TouchThreadLeases
      <3>2. SameButHeartbeat(k, l)
        BY DEF TypeOK, OwnershipLease, SameButHeartbeat
      <3>3. QED
        BY <3>1, <3>2
    <2>2. \A k \in leases' : \E l \in leases : SameButHeartbeat(k, l)
      BY <1>1 DEF TouchThreadLeases, TypeOK, OwnershipLease, SameButHeartbeat
    <2>3. \A t \in Task : ReadyStateOf(t)' = ReadyStateOf(t)
      BY <1>1, <2>1, <2>2, HeartbeatsDoNotMatter DEF TouchThreadLeases
    <2>4. QED
      BY <1>1, <2>3 DEF TouchThreadLeases, ReadyStateCurrent, TypeOK
  <1>2. CASE HeartbeatsAge
    <2>1. ASSUME NEW l \in leases
          PROVE  \E k \in leases' : SameButHeartbeat(k, l)
      <3> DEFINE k == [l EXCEPT !.heartbeat = "old"]
      <3>1. k \in leases'
        BY <1>2 DEF HeartbeatsAge
      <3>2. SameButHeartbeat(k, l)
        BY DEF TypeOK, OwnershipLease, SameButHeartbeat
      <3>3. QED
        BY <3>1, <3>2
    <2>2. \A k \in leases' : \E l \in leases : SameButHeartbeat(k, l)
      BY <1>2 DEF HeartbeatsAge, TypeOK, OwnershipLease, SameButHeartbeat
    <2>3. \A t \in Task : ReadyStateOf(t)' = ReadyStateOf(t)
      BY <1>2, <2>1, <2>2, HeartbeatsDoNotMatter DEF HeartbeatsAge
    <2>4. QED
      BY <1>2, <2>3 DEF HeartbeatsAge, ReadyStateCurrent, TypeOK
  <1>3. CASE Clear
    BY <1>3 DEF Clear, ReadyStateCurrent
  <1>4. CASE UNCHANGED board
    BY <1>4, ZenonT(40) DEF board, ReadyStateCurrent, ReadyStateOf, HasActiveBlocker, DependenciesOf,
       LeaseBlocks, EffectiveScopes, Granted, LeasesOf, Requester
  <1>5. CASE \E rv : RecomputeTaskGraph(rv)
    BY <1>5, RecomputeCurrent
  <1>6. ASSUME Next, ~Clear, ~HeartbeatsAge, ~UNCHANGED board,
               ~(\E th \in Thread : TouchThreadLeases(th))
        PROVE  \E rv : RecomputeTaskGraph(rv)
    BY <1>6 DEF Next, CreateTask, UpdateTask, AssignTask, HandoffTask, ClaimTask,
       AddTaskDependency, RemoveTaskDependency, BlockTask, UnblockTask, KeepOnly,
       ReleaseTaskLeases, ForceReleaseLease, ReleaseThreadLeases, CleanupStaleLeases,
       EnsureWritePathsOwned, ThreadStarts, ThreadStops
  <1>7. QED
    BY <1>1, <1>2, <1>3, <1>4, <1>5, <1>6 DEF vars

\* The ready_state that snapshots and list_ready_tasks show is never behind the board.
THEOREM BoardReadiness == Spec => []ReadyStateCurrent
  <1>1. Init => ReadyStateCurrent
    BY DEF Init, ReadyStateCurrent
  <1>2. TypeOK /\ TypeOK' /\ ReadyStateCurrent /\ [Next]_vars => ReadyStateCurrent'
    BY NextReadyStateCurrent
  <1>3. QED
    BY <1>1, <1>2, BoardTypes, PTL DEF Spec
-----------------------------------------------------------------------------
(* Who may hold a lease.  LeaseFollowsOwner is not inductive: a claim changes the owner *)
(* of an unassigned task and keeps its leases.  It may, because a task that is Pending  *)
(* and holds leases was handed off, hence assigned to its owner, and only the assignee  *)
(* can claim it.                                                                        *)

PendingLeasesAssigned ==
  \A l \in leases : status[l.task] = "Pending" => assignee[l.task] = owner[l.task]

LeaseInv == LeaseFollowsOwner /\ LeasesMatchStatus /\ PendingLeasesAssigned

\* What the invariant says of one lease on the board as it stands.
GoodLease(l) ==
  /\ l.task \in tasks
  /\ owner[l.task] = l.owner
  /\ status[l.task] \in {"Pending", "InProgress", "Review"}
  /\ status[l.task] = "Review" => l.access = "Review"
  /\ status[l.task] = "Pending" => assignee[l.task] = owner[l.task]

LEMMA LeaseInvIsGoodLeases == LeaseInv <=> \A l \in leases : GoodLease(l)
  BY DEF LeaseInv, LeaseFollowsOwner, LeasesMatchStatus, PendingLeasesAssigned, GoodLease

LEMMA GoodLeasesMakeInv ==
  ASSUME \A l \in leases' : GoodLease(l)'
  PROVE  LeaseInv'
  BY DEF LeaseInv, LeaseFollowsOwner, LeasesMatchStatus, PendingLeasesAssigned, GoodLease

\* A method that changes one task t leaves the other leases good.
LEMMA OtherLeasesGood ==
  ASSUME TypeOK, LeaseInv, NEW t \in Task, NEW l \in leases, l.task # t,
         tasks' \in {tasks, tasks \cup {t}},
         \E x : status' = [status EXCEPT ![t] = x],
         \E x : owner' = [owner EXCEPT ![t] = x],
         \E x : assignee' = [assignee EXCEPT ![t] = x]
  PROVE  GoodLease(l)'
  <1>1. l.task \in Task /\ GoodLease(l)
    BY LeaseInvIsGoodLeases DEF TypeOK, OwnershipLease
  <1>2. l.task \in tasks' /\ status'[l.task] = status[l.task]
        /\ owner'[l.task] = owner[l.task] /\ assignee'[l.task] = assignee[l.task]
    BY <1>1 DEF TypeOK, GoodLease
  <1>3. QED
    BY <1>1, <1>2 DEF GoodLease

LEMMA CreateTaskLeases ==
  ASSUME TypeOK, LeaseInv, NEW t \in Task, NEW own \in MaybeThread, NEW asg \in MaybeThread,
         NEW scopes \in RequestSets, NEW b \in BOOLEAN, CreateTask(t, own, asg, scopes, b)
  PROVE  LeaseInv'
  <1>1. ASSUME NEW l \in leases
        PROVE  GoodLease(l)'
    <2>1. l.task # t
      BY DEF LeaseInv, LeaseFollowsOwner, CreateTask
    <2>2. l.task \in Task /\ GoodLease(l)
      BY LeaseInvIsGoodLeases DEF TypeOK, OwnershipLease
    <2>3. QED
      BY <2>1, <2>2 DEF CreateTask, GoodLease, TypeOK
  <1>2. leases' = leases
    BY DEF CreateTask
  <1>3. QED
    BY <1>1, <1>2, GoodLeasesMakeInv

\* An update that changes the status, the owner or the assignee refreshes the leases.
LEMMA UpdateTaskLeases ==
  ASSUME TypeOK, LeaseInv, NEW t \in Task, NEW u \in Updates, UpdateTask(t, u)
  PROVE  LeaseInv'
  <1> DEFINE st == Given(u, "status", u.status, status[t])
             own == Given(u, "owner", u.owner, owner[t])
             asked == Given(u, "requested", u.requested, requested[t])
             granted == Given(u, "granted", u.granted, Granted(t))
             scopes == Effective(asked, memory[t], granted)
             asg == Given(u, "assignee", u.assignee, assignee[t])
  <1>1. /\ t \in tasks
        /\ status' = [status EXCEPT ![t] = st]
        /\ assignee' = [assignee EXCEPT ![t] = asg]
        /\ owner' = [owner EXCEPT ![t] = own]
        /\ tasks' = tasks
        /\ leases' = IF Refreshes(u) THEN RefreshedLeases(t, st, own, scopes) ELSE leases
    BY DEF UpdateTask, TypeOK
  <1>2. CASE Refreshes(u)
    <2>1. ASSUME NEW l \in leases', l \in leases, l.task # t
          PROVE  GoodLease(l)'
      BY <1>1, <2>1, OtherLeasesGood
    <2>2. ASSUME NEW l \in LeasesFor(t, own, ForReview(scopes)), st = "Review"
          PROVE  GoodLease(l)'
      <3>1. l.task = t /\ l.owner = own /\ l.access = "Review"
        BY DEF LeasesFor, ForReview
      <3> HIDE DEF st, own, scopes, asg
      <3>2. QED
        BY <1>1, <2>2, <3>1 DEF GoodLease, TypeOK
    <2> HIDE DEF st, own, scopes, asg
    <2>3. ASSUME NEW l \in leases'
          PROVE  GoodLease(l)'
      BY <1>1, <1>2, <2>1, <2>2 DEF RefreshedLeases, LeasesOf
    <2>4. QED
      BY <2>3, GoodLeasesMakeInv
  <1>3. CASE ~Refreshes(u)
    <2>1. st = status[t] /\ own = owner[t] /\ asg = assignee[t]
      BY <1>3 DEF Refreshes, Given
    <2> HIDE DEF st, own, scopes, asg
    <2>2. UNCHANGED <<tasks, status, owner, assignee, leases>>
      BY <1>1, <1>3, <2>1 DEF TypeOK
    <2>3. QED
      BY <2>2 DEF LeaseInv, LeaseFollowsOwner, LeasesMatchStatus, PendingLeasesAssigned
  <1>4. QED
    BY <1>2, <1>3

LEMMA AssignTaskLeases ==
  ASSUME TypeOK, LeaseInv, NEW t \in Task, NEW th \in Thread, AssignTask(t, th)
  PROVE  LeaseInv'
  <1>1. ASSUME NEW l \in leases'
        PROVE  GoodLease(l)'
    BY OtherLeasesGood DEF AssignTask, LeasesOf
  <1>2. QED
    BY <1>1, GoodLeasesMakeInv

LEMMA HandoffTaskLeases ==
  ASSUME TypeOK, LeaseInv, NEW t \in Task, NEW th \in Thread, NEW rm \in BOOLEAN,
         HandoffTask(t, th, rm)
  PROVE  LeaseInv'
  <1> DEFINE given == IF rm THEN ForReview(EffectiveScopes(t)) ELSE EffectiveScopes(t)
             st == IF rm THEN "Review" ELSE "Pending"
  <1>1. /\ t \in tasks
        /\ tasks' = tasks
        /\ assignee' = [assignee EXCEPT ![t] = th]
        /\ owner' = [owner EXCEPT ![t] = th]
        /\ status' = [status EXCEPT ![t] = st]
        /\ leases' = (leases \ LeasesOf(t)) \cup LeasesFor(t, th, given)
    BY DEF HandoffTask
  <1>2. ASSUME NEW l \in leases, l.task # t
        PROVE  GoodLease(l)'
    BY <1>1, <1>2, OtherLeasesGood
  <1>3. ASSUME NEW l \in LeasesFor(t, th, given)
        PROVE  GoodLease(l)'
    <2>1. l.task = t /\ l.owner = th /\ (rm => l.access = "Review")
      BY DEF LeasesFor, ForReview
    <2>2. QED
      BY <1>1, <2>1 DEF GoodLease, TypeOK
  <1>4. ASSUME NEW l \in leases'
        PROVE  GoodLease(l)'
    BY <1>1, <1>2, <1>3 DEF LeasesOf
  <1>5. QED
    BY <1>4, GoodLeasesMakeInv

\* Whoever claims a task that holds leases is its assignee, hence already its owner.
LEMMA ClaimTaskLeases ==
  ASSUME TypeOK, LeaseInv, NEW t \in Task, NEW th \in Thread, ClaimTask(t, th)
  PROVE  LeaseInv'
  <1>1. status[t] = "Pending"
    <2>1. status[t] \in Status
      BY DEF TypeOK
    <2>2. QED
      BY <2>1 DEF ClaimTask, CanClaimTask, ReadyStateOf, Status
  <1>2. ASSUME NEW l \in leases, l.task = t
        PROVE  GoodLease(l)'
    <2>1. l.owner = owner[t] /\ assignee[t] = owner[t] /\ l.owner \in Thread
      BY <1>1, <1>2 DEF LeaseInv, LeaseFollowsOwner, PendingLeasesAssigned, TypeOK,
         OwnershipLease
    <2>2. owner[t] = th
      BY <2>1, ConstantsOK DEF ConstantsOK, ClaimTask, CanClaimTask
    <2>3. QED
      BY <1>2, <2>1, <2>2 DEF ClaimTask, CanClaimTask, GoodLease, TypeOK
  <1>3. ASSUME NEW l \in leases'
        PROVE  GoodLease(l)'
    BY <1>2, OtherLeasesGood DEF ClaimTask
  <1>4. QED
    BY <1>3, GoodLeasesMakeInv

LEMMA EnsureWriteLeases ==
  ASSUME TypeOK, LeaseInv, NEW th \in Thread, NEW paths \in SUBSET File,
         EnsureWritePathsOwned(th, paths)
  PROVE  LeaseInv'
  <1> DEFINE missing == {f \in paths : ~OwnsWrite(th, f)}
  <1>1. ASSUME NEW f \in missing
        PROVE  LET t == CHOOSE t \in SelectWriteTask(th, f) : TRUE
               IN  t \in tasks /\ status[t] = "InProgress" /\ owner[t] = th
    BY DEF EnsureWritePathsOwned, SelectWriteTask, WriteCandidates
  <1>2. ASSUME NEW l \in leases' \ leases
        PROVE  /\ l.task \in tasks /\ status[l.task] = "InProgress"
               /\ owner[l.task] = th /\ l.owner = th
    BY <1>1 DEF EnsureWritePathsOwned
  <1>3. UNCHANGED <<tasks, status, owner, assignee>>
    BY DEF EnsureWritePathsOwned
  <1>4. QED
    BY <1>2, <1>3 DEF LeaseInv, LeaseFollowsOwner, LeasesMatchStatus, PendingLeasesAssigned

\* Fewer leases, or the same ones with other heartbeats, are as good.
LEMMA SameLeasesGood ==
  ASSUME LeaseInv, UNCHANGED <<tasks, status, owner, assignee>>,
         \A l \in leases' : \E k \in leases :
            k.task = l.task /\ k.owner = l.owner /\ k.access = l.access
  PROVE  LeaseInv'
  BY DEF LeaseInv, LeaseFollowsOwner, LeasesMatchStatus, PendingLeasesAssigned

LEMMA NextLeases == TypeOK /\ LeaseInv /\ [Next]_vars => LeaseInv'
  <1> SUFFICES ASSUME TypeOK, LeaseInv, [Next]_vars
               PROVE  LeaseInv'
    OBVIOUS
  <1>1. CASE UNCHANGED <<tasks, status, owner, assignee>> /\ leases' \subseteq leases
    BY <1>1, SameLeasesGood
  <1>2. ASSUME NEW th \in Thread, TouchThreadLeases(th)
        PROVE  LeaseInv'
    BY <1>2, SameLeasesGood DEF TouchThreadLeases, TypeOK, OwnershipLease
  <1>3. CASE HeartbeatsAge
    BY <1>3, SameLeasesGood DEF HeartbeatsAge, TypeOK, OwnershipLease
  <1>4. CASE Clear
    BY <1>4 DEF Clear, LeaseInv, LeaseFollowsOwner, LeasesMatchStatus, PendingLeasesAssigned
  <1>5. ASSUME Next,
               ~(\E t \in Task, own, asg \in MaybeThread, scopes \in RequestSets,
                    b \in BOOLEAN : CreateTask(t, own, asg, scopes, b)),
               ~(\E t \in Task, u \in Updates : UpdateTask(t, u)),
               ~(\E t \in Task, th \in Thread : AssignTask(t, th)),
               ~(\E t \in Task, th \in Thread, rm \in BOOLEAN : HandoffTask(t, th, rm)),
               ~(\E t \in Task, th \in Thread : ClaimTask(t, th)),
               ~(\E th \in Thread : TouchThreadLeases(th)),
               ~(\E th \in Thread, paths \in SUBSET File : EnsureWritePathsOwned(th, paths)),
               ~Clear, ~HeartbeatsAge
        PROVE  UNCHANGED <<tasks, status, owner, assignee>> /\ leases' \subseteq leases
    BY <1>5 DEF Next, AddTaskDependency, RemoveTaskDependency, BlockTask, UnblockTask,
       KeepOnly, ReleaseTaskLeases, ForceReleaseLease, ReleaseThreadLeases,
       CleanupStaleLeases, ThreadStarts, ThreadStops, board
  <1>6. QED
    BY <1>1, <1>2, <1>3, <1>4, <1>5, CreateTaskLeases, UpdateTaskLeases, AssignTaskLeases,
       HandoffTaskLeases, ClaimTaskLeases, EnsureWriteLeases DEF vars, board

LEMMA LeaseInvHolds == Spec => []LeaseInv
  <1>1. Init => LeaseInv
    BY DEF Init, LeaseInv, LeaseFollowsOwner, LeasesMatchStatus, PendingLeasesAssigned
  <1>2. QED
    BY <1>1, NextLeases, BoardTypes, PTL DEF Spec

\* No thread keeps a lease over a task that has another owner.
THEOREM BoardLeaseOwners == Spec => []LeaseFollowsOwner
  <1>1. LeaseInv => LeaseFollowsOwner
    BY DEF LeaseInv
  <1>2. QED
    BY <1>1, LeaseInvHolds, PTL

\* Finished tasks hold no lease and tasks in review hold no lease to write.
THEOREM BoardLeaseStatus == Spec => []LeasesMatchStatus
  <1>1. LeaseInv => LeasesMatchStatus
    BY DEF LeaseInv
  <1>2. QED
    BY <1>1, LeaseInvHolds, PTL

-----------------------------------------------------------------------------
(* Grants *)

\* Every lease that a step adds, other than by ensure_write_paths_owned, is for a task
\* that the step leaves Pending or in Review, or is an old lease with a new heartbeat.
LEMMA NextGrants == TypeOK /\ [Next]_vars => GrantsExclusively \/ UNCHANGED vars
  <1> SUFFICES ASSUME TypeOK, Next
               PROVE  GrantsExclusively
    OBVIOUS
  <1>1. CASE leases' \subseteq leases
    BY <1>1 DEF GrantsExclusively
  <1>2. ASSUME NEW t \in Task, NEW th \in Thread, NEW rm \in BOOLEAN, HandoffTask(t, th, rm)
        PROVE  GrantsExclusively
    <2>1. \A l \in leases' \ leases : l.task = t
      BY <1>2 DEF HandoffTask, LeasesFor
    <2>2. status'[t] # "InProgress"
      BY <1>2 DEF HandoffTask, TypeOK
    <2>3. QED
      BY <2>1, <2>2 DEF GrantsExclusively
  <1>3. ASSUME NEW t \in Task, NEW u \in Updates, UpdateTask(t, u)
        PROVE  GrantsExclusively
    <2> DEFINE st == Given(u, "status", u.status, status[t])
    <2>1. status' = [status EXCEPT ![t] = st]
      BY <1>3 DEF UpdateTask
    <2>2. \A l \in leases' \ leases : l.task = t /\ st = "Review"
      BY <1>3 DEF UpdateTask, RefreshedLeases, LeasesFor
    <2> HIDE DEF st
    <2>3. QED
      BY <2>1, <2>2 DEF GrantsExclusively, TypeOK
  <1>4. ASSUME NEW th \in Thread, NEW paths \in SUBSET File, EnsureWritePathsOwned(th, paths)
        PROVE  GrantsExclusively
    <2> DEFINE missing == {f \in paths : ~OwnsWrite(th, f)}
    <2>1. \A l \in leases' \ leases : l.owner = th /\ l.scope \in missing
      BY <1>4 DEF EnsureWritePathsOwned
    <2>2. \A f \in missing : \A k \in leases : Overlaps(f, k.scope) => k.owner = th
      BY <1>4 DEF EnsureWritePathsOwned, BlockedByOther
    <2> HIDE DEF missing
    <2>3. QED
      BY <2>1, <2>2 DEF GrantsExclusively
  <1>5. ASSUME NEW th \in Thread, TouchThreadLeases(th)
        PROVE  GrantsExclusively
    BY <1>5 DEF TouchThreadLeases, GrantsExclusively, TypeOK, OwnershipLease, Heartbeat
  <1>6. CASE HeartbeatsAge
    BY <1>6 DEF HeartbeatsAge, GrantsExclusively, TypeOK, OwnershipLease, Heartbeat
  <1>7. ASSUME ~(\E t \in Task, th \in Thread, rm \in BOOLEAN : HandoffTask(t, th, rm)),
               ~(\E t \in Task, u \in Updates : UpdateTask(t, u)),
               ~(\E th \in Thread : TouchThreadLeases(th)),
               ~(\E th \in Thread, paths \in SUBSET File : EnsureWritePathsOwned(th, paths)),
               ~HeartbeatsAge
        PROVE  leases' \subseteq leases
    BY <1>7 DEF Next, CreateTask, AssignTask, ClaimTask, AddTaskDependency,
       RemoveTaskDependency, BlockTask, UnblockTask, KeepOnly, ReleaseTaskLeases,
       ForceReleaseLease, ReleaseThreadLeases, CleanupStaleLeases, Clear, ThreadStarts,
       ThreadStops, board
  <1>8. QED
    BY <1>1, <1>2, <1>3, <1>4, <1>5, <1>6, <1>7

\* Leases with other heartbeats are in conflict as they were.
LEMMA HeartbeatsDoNotConflict ==
  ASSUME WriteConflict',
         \A l \in leases' : \E k \in leases :
           k.owner = l.owner /\ k.scope = l.scope /\ k.access = l.access
  PROVE  WriteConflict
  <1>1. PICK l \in leases', k \in leases' :
          /\ l.owner # k.owner /\ Overlaps(l.scope, k.scope)
          /\ l.access = "ExclusiveWrite" /\ k.access = "ExclusiveWrite"
    BY DEF WriteConflict, Overlaps
  <1>2. PICK l0 \in leases : l0.owner = l.owner /\ l0.scope = l.scope /\ l0.access = l.access
    OBVIOUS
  <1>3. PICK k0 \in leases : k0.owner = k.owner /\ k0.scope = k.scope /\ k0.access = k.access
    OBVIOUS
  <1>4. QED
    BY <1>1, <1>2, <1>3, ZenonT(40) DEF WriteConflict, Overlaps

\* Leases that write and are new in a step other than a handoff are those of one thread, on
\* files over which no other thread has a lease.
LEMMA NextConflicts == TypeOK /\ [Next]_vars => OnlyHandoffsConflict \/ UNCHANGED vars
  <1> SUFFICES ASSUME TypeOK, Next, WriteConflict',
                      ~\E t \in Task, th \in Thread : HandoffTask(t, th, FALSE)
               PROVE  WriteConflict
    BY DEF OnlyHandoffsConflict
  <1>1. CASE leases' \subseteq leases
    BY <1>1 DEF WriteConflict, Overlaps
  <1>2. ASSUME \A l \in leases' \ leases : l.access # "ExclusiveWrite"
        PROVE  WriteConflict
    BY <1>2 DEF WriteConflict, Overlaps
  <1>3. ASSUME NEW t \in Task, NEW th \in Thread, NEW rm \in BOOLEAN, HandoffTask(t, th, rm)
        PROVE  WriteConflict
    <2>1. HandoffTask(t, th, TRUE)
      BY <1>3
    <2>2. \A l \in leases' \ leases : l.access = "Review"
      BY <2>1 DEF HandoffTask, LeasesFor, ForReview
    <2>3. QED
      BY <1>2, <2>2
  <1>4. ASSUME NEW t \in Task, NEW u \in Updates, UpdateTask(t, u)
        PROVE  WriteConflict
    <2>1. \A l \in leases' \ leases : l.access = "Review"
      BY <1>4 DEF UpdateTask, RefreshedLeases, LeasesFor, ForReview
    <2>2. QED
      BY <1>2, <2>1
  <1>5. ASSUME NEW th \in Thread, NEW paths \in SUBSET File, EnsureWritePathsOwned(th, paths)
        PROVE  WriteConflict
    <2> DEFINE missing == {f \in paths : ~OwnsWrite(th, f)}
    <2>1. \A l \in leases' \ leases : l.owner = th /\ l.scope \in missing /\ l.scope \in File
      BY <1>5 DEF EnsureWritePathsOwned
    <2>2. \A f \in missing : \A k \in leases : Overlaps(f, k.scope) => k.owner = th
      BY <1>5 DEF EnsureWritePathsOwned, BlockedByOther
    <2>3. \A k \in leases : k.scope \in Scope
      BY DEF TypeOK, OwnershipLease
    <2>4. \A l \in leases' \ leases, k \in leases :
            (Overlaps(l.scope, k.scope) <=> Overlaps(k.scope, l.scope))
      BY <2>1, <2>3, ConstantsOK DEF ConstantsOK, Overlaps
    <2> HIDE DEF missing
    <2>5. \A l \in leases' \ leases, k \in leases' :
            Overlaps(l.scope, k.scope) \/ Overlaps(k.scope, l.scope) => l.owner = k.owner
      BY <2>1, <2>2, <2>4
    <2>6. PICK l \in leases', k \in leases' :
            /\ l.owner # k.owner /\ Overlaps(l.scope, k.scope)
            /\ l.access = "ExclusiveWrite" /\ k.access = "ExclusiveWrite"
      BY DEF WriteConflict, Overlaps
    <2>7. l \in leases /\ k \in leases
      BY <2>5, <2>6
    <2>8. QED
      BY <2>6, <2>7 DEF WriteConflict
  <1>6. ASSUME NEW th \in Thread, TouchThreadLeases(th)
        PROVE  WriteConflict
    <2>1. \A l \in leases' : \E k \in leases :
            k.owner = l.owner /\ k.scope = l.scope /\ k.access = l.access
      BY <1>6 DEF TouchThreadLeases, TypeOK, OwnershipLease
    <2>2. QED
      BY <2>1, HeartbeatsDoNotConflict
  <1>7. CASE HeartbeatsAge
    <2>1. \A l \in leases' : \E k \in leases :
            k.owner = l.owner /\ k.scope = l.scope /\ k.access = l.access
      BY <1>7 DEF HeartbeatsAge, TypeOK, OwnershipLease
    <2>2. QED
      BY <2>1, HeartbeatsDoNotConflict
  <1>8. ASSUME ~(\E t \in Task, th \in Thread, rm \in BOOLEAN : HandoffTask(t, th, rm)),
               ~(\E t \in Task, u \in Updates : UpdateTask(t, u)),
               ~(\E th \in Thread : TouchThreadLeases(th)),
               ~(\E th \in Thread, paths \in SUBSET File : EnsureWritePathsOwned(th, paths)),
               ~HeartbeatsAge
        PROVE  leases' \subseteq leases
    BY <1>8 DEF Next, CreateTask, AssignTask, ClaimTask, AddTaskDependency,
       RemoveTaskDependency, BlockTask, UnblockTask, KeepOnly, ReleaseTaskLeases,
       ForceReleaseLease, ReleaseThreadLeases, CleanupStaleLeases, Clear, ThreadStarts,
       ThreadStops, board
  <1>9. QED
    BY <1>1, <1>3, <1>4, <1>5, <1>6, <1>7, <1>8

\* A file lease granted on a write is exclusive when it is granted, for every overlap
\* relation and however many threads write; and whenever two threads hold leases to write
\* that overlap, a handoff made it so.
THEOREM BoardGrants == Spec => WriteGrantExclusive
  <1>1. TypeOK /\ [Next]_vars => [GrantsExclusively /\ OnlyHandoffsConflict]_vars
    BY NextGrants, NextConflicts
  <1>2. QED
    BY <1>1, BoardTypes, PTL DEF Spec, WriteGrantExclusive

-----------------------------------------------------------------------------
(* Reviews *)

\* Whatever review state a method leaves, recomputing the graph settles it.
LEMMA RecomputeReviews ==
  ASSUME TypeOK', NEW rv, RecomputeTaskGraph(rv)
  PROVE  ReviewStateConsistent'
  BY DEF RecomputeTaskGraph, ReviewStateConsistent, NormalReview, TypeOK

LEMMA NextReviews ==
  TypeOK' /\ ReviewStateConsistent /\ [Next]_vars => ReviewStateConsistent'
  <1> SUFFICES ASSUME TypeOK', ReviewStateConsistent, [Next]_vars
               PROVE  ReviewStateConsistent'
    OBVIOUS
  <1>1. CASE Clear
    BY <1>1 DEF Clear, ReviewStateConsistent
  <1>2. CASE UNCHANGED <<tasks, status, review>>
    BY <1>2 DEF ReviewStateConsistent
  <1>3. CASE \E rv : RecomputeTaskGraph(rv)
    BY <1>3, RecomputeReviews
  <1>4. ASSUME Next, ~Clear, ~UNCHANGED <<tasks, status, review>>
        PROVE  \E rv : RecomputeTaskGraph(rv)
    BY <1>4 DEF Next, CreateTask, UpdateTask, AssignTask, HandoffTask, ClaimTask,
       AddTaskDependency, RemoveTaskDependency, BlockTask, UnblockTask, KeepOnly,
       ReleaseTaskLeases, ForceReleaseLease, ReleaseThreadLeases, CleanupStaleLeases,
       TouchThreadLeases, EnsureWritePathsOwned, ThreadStarts, ThreadStops, HeartbeatsAge, board
  <1>5. QED
    BY <1>1, <1>2, <1>3, <1>4 DEF vars, board

\* A task in review always has a review to decide, and one that is completed none that is
\* open: update_task takes status and review state apart, and no other method keeps them
\* in step.
THEOREM BoardReviews == Spec => []ReviewStateConsistent
  <1>1. Init => ReviewStateConsistent
    BY DEF Init, ReviewStateConsistent
  <1>2. QED
    BY <1>1, NextReviews, BoardTypes, PTL DEF Spec

-----------------------------------------------------------------------------
(* Remembered scopes *)

\* The property speaks of requested, remembered and granted scopes, of which any may go
\* from one step to the next.  It rests on the invariant that whatever is requested or
\* granted is remembered too, so that only the memory has to be followed.
ScopesRemembered ==
  \A t \in tasks : EffectiveScopes(t) # {} => memory[t] # {}

LEMMA EffectiveIsRemembered ==
  ASSUME ScopesRemembered, LeaseInv, TypeOK
  PROVE  /\ \A l \in leases : l.task \in tasks /\ memory[l.task] # {}
         /\ \A t \in tasks : requested[t] # {} => memory[t] # {}
         /\ \A t \in tasks : EffectiveScopes(t) # {} <=> memory[t] # {}
  <1>1. ASSUME NEW l \in leases
        PROVE  l.task \in tasks /\ memory[l.task] # {}
    <2>1. l.task \in tasks
      BY DEF LeaseInv, LeaseFollowsOwner
    <2>2. [scope |-> l.scope, access |-> l.access] \in Granted(l.task)
      BY DEF Granted, LeasesOf
    <2>3. EffectiveScopes(l.task) # {}
      BY <2>2 DEF EffectiveScopes, Effective
    <2>4. QED
      BY <2>1, <2>3 DEF ScopesRemembered
  <1>2. \A t \in tasks : requested[t] # {} => memory[t] # {}
    BY DEF ScopesRemembered, EffectiveScopes, Effective
  <1>3. \A t \in tasks : memory[t] # {} => EffectiveScopes(t) # {}
    BY DEF EffectiveScopes, Effective
  <1>4. QED
    BY <1>1, <1>2, <1>3 DEF ScopesRemembered
\* Remembering never empties a memory.
LEMMA RememberKeeps ==
  ASSUME TypeOK, NEW t \in Task, NEW scopes, memory' = Remember(t, scopes)
  PROVE  /\ \A u \in Task : memory[u] # {} => memory'[u] # {}
         /\ scopes # {} => memory'[t] = scopes
  BY DEF Remember, TypeOK

MemoryKept ==
  /\ ScopesRemembered'
  /\ \A t \in tasks \cap tasks' : memory[t] # {} => memory'[t] # {}

\* A step keeps the memory if all that is new in requests and leases is in it.
LEMMA MemoryIsKept ==
  ASSUME TypeOK, TypeOK', LeaseInv, ScopesRemembered,
         \A u \in tasks : memory[u] # {} => memory'[u] # {},
         \A l \in leases' \ leases : memory'[l.task] # {},
         \A u \in tasks' : \/ requested'[u] = {}
                         \/ memory'[u] # {}
                         \/ (u \in tasks /\ requested'[u] = requested[u])
  PROVE  MemoryKept
  <1>1. \A l \in leases' : memory'[l.task] # {}
    BY EffectiveIsRemembered
  <1>2. \A u \in tasks' : requested'[u] # {} => memory'[u] # {}
    BY EffectiveIsRemembered
  <1>3. ScopesRemembered'
    BY <1>1, <1>2 DEF ScopesRemembered, EffectiveScopes, Effective, Granted, LeasesOf
  <1>4. QED
    BY <1>3 DEF MemoryKept

LEMMA NextScopes ==
  TypeOK /\ TypeOK' /\ LeaseInv /\ ScopesRemembered /\ [Next]_vars => MemoryKept
  <1> SUFFICES ASSUME TypeOK, TypeOK', LeaseInv, ScopesRemembered, [Next]_vars
               PROVE  MemoryKept
    OBVIOUS
  <1> tasks \subseteq Task
    BY DEF TypeOK
  <1>1. ASSUME NEW t \in Task, NEW own \in MaybeThread, NEW asg \in MaybeThread,
               NEW scopes \in RequestSets, NEW b \in BOOLEAN,
               CreateTask(t, own, asg, scopes, b)
        PROVE  MemoryKept
    <2>1. /\ \A u \in Task : memory[u] # {} => memory'[u] # {}
          /\ scopes # {} => memory'[t] = scopes
      BY <1>1, RememberKeeps DEF CreateTask
    <2>2. requested' = [requested EXCEPT ![t] = scopes] /\ tasks' = tasks \cup {t}
          /\ leases' = leases
      BY <1>1 DEF CreateTask
    <2>3. QED
      BY <2>1, <2>2, MemoryIsKept DEF TypeOK
  <1>2. ASSUME NEW t \in Task, NEW u \in Updates, UpdateTask(t, u)
        PROVE  MemoryKept
    <2> DEFINE asked == Given(u, "requested", u.requested, requested[t])
               own == Given(u, "owner", u.owner, owner[t])
               st == Given(u, "status", u.status, status[t])
               scopes == Effective(asked, memory[t], Given(u, "granted", u.granted, Granted(t)))
    <2>1. /\ \A v \in Task : memory[v] # {} => memory'[v] # {}
          /\ scopes # {} => memory'[t] = scopes
      BY <1>2, RememberKeeps DEF UpdateTask
    <2>2. asked # {} => scopes # {}
      BY DEF Effective
    <2>3. requested' = [requested EXCEPT ![t] = asked] /\ tasks' = tasks /\ t \in tasks
      BY <1>2 DEF UpdateTask
    <2>4. ASSUME NEW l \in leases' \ leases
          PROVE  memory'[l.task] # {}
      <3>1. l \in LeasesFor(t, own, ForReview(scopes))
        BY <1>2 DEF UpdateTask, RefreshedLeases
      <3>2. l.task = t /\ scopes # {}
        BY <3>1 DEF LeasesFor, ForReview
      <3>3. QED
        BY <2>1, <3>2
    <2>5. \A v \in tasks' : \/ requested'[v] = {}
                          \/ memory'[v] # {}
                          \/ (v \in tasks /\ requested'[v] = requested[v])
      BY <2>1, <2>2, <2>3 DEF TypeOK
    <2>6. QED
      BY <2>1, <2>4, <2>5, MemoryIsKept
  <1>3. ASSUME NEW t \in Task, NEW th \in Thread, AssignTask(t, th)
        PROVE  MemoryKept
    BY <1>3, MemoryIsKept DEF AssignTask
  <1>4. ASSUME NEW t \in Task, NEW th \in Thread, NEW mode \in BOOLEAN,
               HandoffTask(t, th, mode)
        PROVE  MemoryKept
    <2>1. /\ \A v \in Task : memory[v] # {} => memory'[v] # {}
          /\ EffectiveScopes(t) # {} => memory'[t] = EffectiveScopes(t)
      BY <1>4, RememberKeeps DEF HandoffTask
    <2>2. ASSUME NEW l \in leases' \ leases
          PROVE  memory'[l.task] # {}
      <3>1. l.task = t /\ EffectiveScopes(t) # {}
        BY <1>4 DEF HandoffTask, LeasesFor, ForReview
      <3>2. QED
        BY <2>1, <3>1
    <2>3. QED
      BY <1>4, <2>1, <2>2, MemoryIsKept DEF HandoffTask
  <1>5. ASSUME NEW t \in Task, NEW th \in Thread, ClaimTask(t, th)
        PROVE  MemoryKept
    <2>1. \A v \in Task : memory[v] # {} => memory'[v] # {}
      BY <1>5, RememberKeeps DEF ClaimTask
    <2>2. QED
      BY <1>5, <2>1, MemoryIsKept DEF ClaimTask
  <1>6. ASSUME NEW th \in Thread, TouchThreadLeases(th)
        PROVE  MemoryKept
    <2>1. \A l \in leases' : \E k \in leases : l.task = k.task
      BY <1>6 DEF TouchThreadLeases, TypeOK, OwnershipLease
    <2>2. QED
      BY <1>6, <2>1, EffectiveIsRemembered, MemoryIsKept DEF TouchThreadLeases
  <1>7. CASE HeartbeatsAge
    <2>1. \A l \in leases' : \E k \in leases : l.task = k.task
      BY <1>7 DEF HeartbeatsAge, TypeOK, OwnershipLease
    <2>2. QED
      BY <1>7, <2>1, EffectiveIsRemembered, MemoryIsKept DEF HeartbeatsAge
  <1>8. ASSUME NEW th \in Thread, NEW paths \in SUBSET File, EnsureWritePathsOwned(th, paths)
        PROVE  MemoryKept
    <2>1. ASSUME NEW l \in leases' \ leases
          PROVE  memory[l.task] # {}
      <3>1. PICK f \in paths : l.task = (CHOOSE t \in SelectWriteTask(th, f) : TRUE)
                               /\ SelectWriteTask(th, f) # {}
        BY <1>8 DEF EnsureWritePathsOwned
      <3>2. l.task \in WriteCandidates(th, f)
        BY <3>1 DEF SelectWriteTask
      <3>3. l.task \in tasks /\ EffectiveScopes(l.task) # {}
        BY <3>2 DEF WriteCandidates, WriteScopes
      <3>4. QED
        BY <3>3 DEF ScopesRemembered
    <2>2. UNCHANGED <<tasks, requested, memory>>
      BY <1>8 DEF EnsureWritePathsOwned
    <2>3. QED
      BY <2>1, <2>2, MemoryIsKept
  <1>9. CASE Clear
    BY <1>9 DEF Clear, MemoryKept, ScopesRemembered
  <1>10. CASE UNCHANGED <<tasks, requested, memory>> /\ leases' \subseteq leases
    BY <1>10, MemoryIsKept
  <1>11. ASSUME Next,
                ~(\E t \in Task, own, asg \in MaybeThread, scopes \in RequestSets,
                     b \in BOOLEAN : CreateTask(t, own, asg, scopes, b)),
                ~(\E t \in Task, u \in Updates : UpdateTask(t, u)),
                ~(\E t \in Task, th \in Thread : AssignTask(t, th)),
                ~(\E t \in Task, th \in Thread, mode \in BOOLEAN : HandoffTask(t, th, mode)),
                ~(\E t \in Task, th \in Thread : ClaimTask(t, th)),
                ~(\E th \in Thread : TouchThreadLeases(th)),
                ~(\E th \in Thread, paths \in SUBSET File : EnsureWritePathsOwned(th, paths)),
                ~Clear, ~HeartbeatsAge
         PROVE  UNCHANGED <<tasks, requested, memory>> /\ leases' \subseteq leases
    BY <1>11 DEF Next, AddTaskDependency, RemoveTaskDependency, BlockTask, UnblockTask,
       KeepOnly, ReleaseTaskLeases, ForceReleaseLease, ReleaseThreadLeases,
       CleanupStaleLeases, ThreadStarts, ThreadStops, board
  <1>12. QED
    BY <1>1, <1>2, <1>3, <1>4, <1>5, <1>6, <1>7, <1>8, <1>9, <1>10, <1>11 DEF vars, board

LEMMA ScopesRememberedHolds == Spec => []ScopesRemembered
  <1>1. Init => ScopesRemembered
    BY DEF Init, ScopesRemembered
  <1>2. TypeOK /\ TypeOK' /\ LeaseInv /\ ScopesRemembered /\ [Next]_vars => ScopesRemembered'
    BY NextScopes DEF MemoryKept
  <1>3. QED
    BY <1>1, <1>2, BoardTypes, LeaseInvHolds, PTL DEF Spec

\* A task that has scopes keeps some through every assignment, handoff, update, claim and
\* lost lease, so that whoever owns it next can still be granted a write.
THEOREM BoardScopes == Spec => ScopesNeverForgotten
  <1> DEFINE Keeps ==
        \A t \in tasks \cap tasks' : EffectiveScopes(t) # {} => EffectiveScopes(t)' # {}
  <1>1. TypeOK /\ TypeOK' /\ LeaseInv /\ LeaseInv' /\ ScopesRemembered /\ [Next]_vars
          => [Keeps]_vars
    <2> SUFFICES ASSUME TypeOK, TypeOK', LeaseInv, LeaseInv', ScopesRemembered, [Next]_vars,
                        NEW t \in tasks \cap tasks', EffectiveScopes(t) # {}
                 PROVE  EffectiveScopes(t)' # {}
      OBVIOUS
    <2>1. memory[t] # {}
      BY DEF ScopesRemembered
    <2>2. memory'[t] # {}
      BY <2>1, NextScopes DEF MemoryKept
    <2>3. QED
      BY <2>2 DEF EffectiveScopes, Effective
  <1>2. QED
    BY <1>1, BoardTypes, LeaseInvHolds, ScopesRememberedHolds, PTL
    DEF Spec, ScopesNeverForgotten
=============================================================================

# The agent team of Cokra, verified

Cokra is a command-line coding agent that works as a team: a root agent spawns teammates,
and all of them run in one process, on one tokio runtime, over one shared workspace. This
directory models the part of `src/cokra-rs/core` that makes that possible: the task
board, the mailbox, the scheduling of teammates, the limit on their number and what is
kept across restarts; and the part every agent runs on: the submission loop, the turn with
its history and compaction, the approvals, and the gate its tool calls pass. TLC checks the
models, and TLAPS proves their safety for every size. Paths below are
relative to `src/cokra-rs/`, and `core/src/agent/` is the home of most of it.

Contents: [the system](#the-system) · [the modules](#the-modules) · [the runs](#the-runs) ·
[the proofs](#the-proofs) · [what disagrees with its documentation](#where-the-code-and-its-documentation-disagree) ·
[what is not modelled](#what-is-not-modelled) · [the plan](#the-plan)

## The system

| Component | State it keeps | Operations |
| --- | --- | --- |
| Task board (`agent/team_state.rs`) | tasks, dependency edges, ownership leases, remembered scopes | create, update, assign, hand off, claim, link, unlink, block, unblock, release, touch, ensure write paths, clean up stale leases |
| Mailbox (`agent/team_state.rs`) | messages, mailbox version | post, peek, read, claim from a queue, acknowledge, expire, clear |
| Team runtime (`agent/team_runtime.rs`) | handles of teammates, a watch channel with the mailbox version, the two states above behind mutexes, workflow runs | the calls of the team tools: each locks a state, changes it, saves it, publishes, wakes teammates |
| Teammate loop (`agent/team_runtime.rs`) | a watched state (lifecycle, generations), a wake queue, a bounded command channel | schedule a turn, run turns, close, wait |
| Guards and control (`agent/guards.rs`, `agent/control.rs`, `thread_manager.rs`) | the slot counter, the registered threads, the thread map | reserve, commit, release |
| State database (`state/src/database.rs`) | one row per key in SQLite | load, save, delete |
| Submission loop and session (`core/src/cokra.rs`, `core/src/session`) | the channel of submissions and a queue, the active turn, pending approvals, questions and steering input | submit, interrupt, approve, answer, steer, shut down |
| Turns and compaction (`core/src/turn`, `core/src/compaction`) | the recorded history, the prompt, retry counters | record, sample, run calls, compact, take steering |
| Tool dispatch (`core/src/tools/{router,registry,parallel,orchestrator,sandboxing}.rs`) | a read-write gate per turn, approvals | validate, gate on plan and ownership, run, retry without the sandbox |
| Network approvals (`core/src/tools/network_approval.rs`) | decisions pending per host, decisions of the session, attempts | authorize, decide, finish |
| Models, sign-in, compaction, execution policy, MCP, LSP, skills, integrations | connections, tokens, caches | calls to external services and pure conversions |
| Configuration, protocol, apply-patch, file search, terminal interface, command line | settings, types, the screen | parsing, matching, rendering |

How they interact. A tool call of any agent's turn reaches the team runtime through a
handler in `core/src/tools/handlers`. The runtime takes the mutex of the team state for one
method at a time, never across an await, so a method is atomic and a call is not: between
the method and the return lie the save (an await on the database), the publication of the
mailbox version, and the wake-up of other teammates (an await on their command channels).
Calls of different teammates, and several calls of one model response, run in parallel.
When the user interrupts a turn the future of the call is dropped at the await it is in.
Teammates are tokio tasks that take commands from their channel and run turns; those who
wait for them watch their state. The database is the only thing that outlives the process.

What is hard about it, and what correctness means:

* *Task board.* Any thread may call any method in any order. Leases must follow the owner
  and the status of their task, a file granted for writing must be exclusive, the
  dependency graph must stay without cycles, and the readiness cached in each task must be
  what the board says.
* *Mailbox.* Work items must have one holder, go out in order of urgency, and every
  observable change must raise the version, because watchers look at nothing else.
* *Watching.* A check, a subscription and a second check race with publications that are
  themselves three steps, and the channel stores nothing while nobody listens. What is told
  must be shown, and it must be clear which changes can be missed.
* *Persistence.* Clones are saved outside the lock, errors are dropped, calls are
  interrupted, the program dies; memory and rows have to agree again.
* *Teammate loop.* Its state is read, changed and written without a lock; scheduling
  decides on a lifecycle that may be outdated. No message may be lost or worked on twice, no
  teammate left idle beside its work, no waiter left behind when a teammate is closed.
* *Spawning.* A lock-free counter and reservations dropped on every exit path: the limit
  must hold and every slot be returned once.
* *Submission loop.* Between turns one loop handles submissions, during a turn another one
  does, and a teammate's requests wait in a session of their own. Each answer must reach its
  question, nothing may stay pending behind a turn, and inputs keep their order.
* *Turns and compaction.* A turn can be dropped at any await, compacts the history it is in
  the middle of, and retries for two reasons. No message may be lost, no result may lose its
  call, history and prompt must not diverge, and retrying must end.
* *Tool calls.* Calls of a response run in parallel or alone, ask the user or rely on an
  earlier answer, run again outside the sandbox, and share one decision about a host with
  calls of other agents. Each may be dropped wherever it waits.

The hazards these come from are listed with their lines in `PROJECT.json`.

## The modules

Every module is translated from the code that `map` in `PROJECT.json` names, definition by
definition. Definitions whose comment begins with "Fault:" are not used by the
specifications: each is a plausible bug (a dropped guard, a stale value), and a run in
which it replaces the definition it stands before has to fail, which shows that the property
has something to say about the code.

### TaskBoard

Models `TeamState`'s tasks and leases; one method is one action, since the runtime holds
the mutex during it. `tasks`, `status`, `review`, `assignee`, `owner`, `requested` are the
fields of the same names of `TeamTask`; `manual` counts active manual blockers; `ready` is
the cached `ready_state` that `RecomputeTaskGraph` brings up to date, as part of
every action whose method calls it; `edges`, `memory` and `leases` are `task_edges`,
`task_scope_memory` and `ownership_leases`; `active` is the set of threads with a live
handle, from which the maintenance of leases takes whom to treat as dead.

Data is abstracted where no property needs it. `scopes_overlap` is the constant relation
`Overlap` and `write_scope_rank` the constant `Rank`; of them the proofs use only that files
overlap themselves and that overlap with a file is symmetric. A heartbeat is fresh or old.
The arguments of `update_task`, seven optional values, are records from `Updates` that name
the arguments given.

### Mailbox

Models the messages: `messages` is the list in order of posting, `version` the mailbox
version, `now` the clock. Direct, channel and broadcast mail differ in having a recipient;
a message with a queue name is a work item, and may have a recipient too, since the tools
accept both. A nudge carries `expires`. Every reading operation sweeps expired messages
first, as `expire_messages` does, and raises the version when that changed anything.
A claim is the set of the first items by priority, then age.

`WorkQueue` is the abstract specification of it: items of work that are added, taken once, in
order, finished once by their holder, or lapse. It knows no clock, reader or version.
`IsWorkQueue` maps the holder of an item to the claimer of a queue item or the recipient of
mail; reads, sweeps and refused acknowledgements are stutters.

### InboxWatch

Models the runtime's side of watching: change number `v` of the mailbox makes version
`v` (`Mailbox` shows that every change raises it). A call changes the mailbox, saves (an
interruption may end it there), reads the version, compares it with the channel's value
and sends it, in three steps. The channel's only receivers are those of the watches under way
(`receivers`; the first one is dropped when the team is registered, `team_runtime.rs:280`), and
`SendVersion` stores nothing without one, as `watch::Sender::send` does. `watch_inbox` is
followed from its first check over subscription, second check, waiting, peek and the reading of
the returned version; `after` is the cursor a teammate hands to its next watch, `shown` the
changes it was shown. `WaitersAreWoken` is the safety behind the liveness property: a watch that
waits while there are changes it has not seen is marked to look again, or a call is about to
publish one. Two histories name what it excepts: `missed` is the last change that was published,
or given up, before the subscription, when the channel had nothing to show to the second check,
and `hindered` says that an interrupted call or an older version sent late stands between.

### AgentWake

Models one teammate: `state` is the value of the watch channel, `wakes` the wake queue,
`channel` the bounded command channel. `ReadState` and `WriteState` are the two halves of
`update_state`, so updates of different processes overlap as they do in the code; `pc` and
`copy` say where every process is and what it is about to write. Processes are the call
that launches the teammate, from the moment its handle can be found, the calls that schedule
work, calls of `wait`, the loop of `launch_spawned_agent` and one call of `close_agent`. The
first state of the launch (Busy, generation 1) is thus one update among the others, which
may overwrite them. A turn ends well or with an error. `done` and `dropped` are history:
messages worked on, and messages deliberately dropped. `ShutdownArrives` is the safety behind
the liveness property: a close that ran to its end has put exactly one command to stop into the
channel, where it stays until the loop takes it, and nothing else stops the loop.

### SpawnGuards

Models spawning and closing: `total` and `registered` are the counter and the set of
`Guards`, `known` the spawned threads of the thread manager, `handles` the map of the
runtime. Each step is one atomic access; a failed compare-and-swap is a return to
`LoadCount`. `SpawnReservation`'s drop is `DropReservation`; `Abandon` drops a call where it
awaits, which after `commit` leaves the slot with the registered thread.

`SlotPool` is the abstract specification of it: a number of slots, each taken, passed on
and given back in one step, and threads that can be found only while they hold one.
`IsSlotPool` maps a slot's holder to the call that reserved it or to the registered thread;
the compare-and-swap, whose load may be outdated, is a stutter until it succeeds.

### TeamStore

Models persistence: `team` and `run` are the states in memory, `savedTeam`, `savedRun` and
`legacy` the rows. A content is the set of changes it has. A call changes team, run or
both, clones and saves; `StoreFails` drops an error as `let _ =` does, `Abandon` is an
interrupted turn, `Crash` and `Restart` the end of the process and `register_team_runtime`.
`ClearTeam` to `DeleteLegacy` are `clear_state` step by step. `disturbed` is history: whether
since the start calls overlapped, or one failed or was interrupted.

### TurnLoop

Models `submission_loop` and the loop inside `run_turn_with_interrupt`. `inbox` is the
channel, `queue` what the inner loop put off; `loop` says which of the two runs. The turn's
future is not polled while a submission is handled, so handling one is one step. `turn` is
the turn that runs, `active` and `inputs` are the `active_turn_state` of the session, which
the loop begins and the turn's executor begins again. `requests` are all requests for approval
and all questions ever made, `pending` and `byTurn` the two maps of the tables, of the root
session and of teammates together. A request's key is the id under which it waits: one that
never comes again (the model provider's id of a call), the number of a call in its response
(calls found in text, `text_function_calls.rs:190`, and those streamed without an id), or the
turn's id (questions). Numbers start again with every response of every session, so several
sessions may wait under one, and an older entry may be met; within a session the calls of one
response differ, and the next response comes when none of them waits (`CallKeys`). `Answered`
offers an answer to the root session first and then to the teammates, in any order.
`accepted`, `taken` and `handled` are history, and so is the `answer` of a request: the one the
user meant.

### TurnHistory

Models the conversation of one session. `history` is the session's, `prompt` the messages a
turn sends, without the prefix that never changes in a turn. A step is what happens between
two awaits at which an interrupt can drop the turn (`phase`), so a turn can end between a
response and its results (`due`), during the summary of a compaction, or with steering
waiting. Messages have a number and a weight, the estimate of their tokens; a summary has
the set of numbers it stands for. The search for a place to cut (`ValidBoundary`,
`SafeTailStart`) and the choice of a prompt's window are the code's, over weights. `retries`
and `overflows` are the counters of `run_sampling_request`; a change of model between turns
is a change of `limit`, and a model without a known window takes the last `HistoryCap`
messages.

### NetworkApproval and ToolCalls

`NetworkApproval` has the tables of `network_approval.rs` and the steps of
`authorize_http_url`, one for each lock it takes: `pending` is the entry of a host,
`decisions` the decision of every entry made, `approved` and `denied` the two sets of the
session. A waiter creates its notification, looks, and only then sleeps (`Listen`, `Look`), in
the order in which the code does, which is what makes the notification impossible to miss:
`NobodyWaitsInVain` says that whoever sleeps without a notification has an owner who has yet to
notify, unless that owner was dropped (`OwnerDropped`), and that only calls which go on hold the
gate or stand in its line.

`ToolCalls` extends it with what a call does around that: the read-write gate of its turn,
fair and so a line (`line`, `holding`), the checks of plan and leases, whose results are
choices here, the approval that the policy and the class of the tool require, an attempt in
the sandbox and a second one outside of it. `always` holds the approvals for the session by
key. A turn that is interrupted drops its calls wherever they are (`cut`). The two modules
are one state machine: places of a call (`at`) run through both.

## The runs

The `MC` modules only give values to constants and define symmetries. Symmetry sets are
used where TLC checks safety only, over values the specification treats alike.

| Run | Asks | Bounds | Distinct states |
| --- | --- | --- | --- |
| `taskboard` | Do leases follow owner and status through assignment, handoff, claim, update and writing? Is a granted write exclusive, and do leases to write conflict by a handoff only? Are scopes remembered? Is the cached readiness current through blockers, dependencies, dying threads and stale leases? Do links form no cycle? | 2 tasks, 2 threads, a directory and a file in it, requests to write the directory, every link, 1 manual blocker, 1 thread that comes and goes | 276,270 |
| `taskboard_writers` | Can two threads own one file? (yes) | 2 tasks that ask for the directory or the file, no links, no blockers | violation |
| `mailbox` | Is it a queue of work (refinement)? Who sees an item? Are claims in order and never short? Does every change raise the version? | 3 threads, 1 queue, 2 priorities, 2 messages, clock 0..1 | 137,796 |
| `inbox_watch` | Is what woke a watch shown? Who is left waiting beside a change? Does any other change wake the waiter without the timeout? (the last: liveness) | 2 posters, 2 watchers, one of each interrupted, 2 changes, 2 watches each | 2,234,103 |
| `agent_wake` | Is every message in exactly one place? Is the loop told to stop once, and does it hear it? Does closing free the waiters? (the last: liveness) | the launch, 1 sender, 1 waiter, 2 messages, channel of 1 | 940,968 |
| `wake_stranded` | Can work stay queued with the teammate idle? (yes) | the launch, 1 sender, 2 messages, channel of 4 | violation |
| `spawn_guards` | Is the counter exact and within the limit? Is it a pool of slots? (refinement) | 3 calls, limit 2, 4 thread ids | 3,932 |
| `team_store` | Does undisturbed work leave memory saved? | 2 calls and a cleanup, each may fail or be interrupted, 2 crashes | 514,052 |
| `turn_history` | Does compaction keep every message once and every result behind its call? Is the prompt the end of the history? Are calls answered? Do retries end? | 6 messages of weight 1 or 3, windows 4, 7 and unknown, 2 calls a response, 1 steering input, 1 retry of each kind | 367,927 |
| `steering_lost` | Can accepted steering be dropped? (yes) | 3 messages | violation |
| `turn_loop` | Do answers reach their question? Is pending what waits? Is steering kept, the order kept and nothing passed over, every input handled? (the last: liveness) | 4 submissions of any kind, 2 requests, 1 teammate, 1 number | 790,844 |
| `tool_calls` | One prompt per host? The user's answer for all? Changes alone? Nothing unasked? Does nobody wait in vain? Does every call end? (the last: liveness) | 2 fetches of one host by 2 turns, 1 command, policies `onFailure` and `unlessTrusted` | 173,264 |

Why these bounds are enough. Two threads and two tasks are the smallest board on which a
lease can be in the wrong hands, and the lease properties speak of pairs; a directory and a
file in it give overlapping scopes that differ and different ranks (tasks ask for the
directory, writes refine it to the file). Two tasks show only cycles of length two; longer
ones, where an edge is found over a third task, are left to `BoardAcyclic`, which is proved
for any set of tasks. Items may be passed over by a claim only if there are two, and a third
thread is needed for a reader who neither sent nor claimed. A publication can go back only
with two posters, and the second watch is the first that has a cursor; a second watcher is what
makes the channel store what the first one has yet to subscribe to. A channel with one
place makes both the callers and the loop itself meet a full channel, which the real capacity
of 32 makes rare and not impossible; the launch is a second sender beside the one that looks
at the state. Three calls against a limit of two make the compare-and-swap fail and the limit
bite. Two crashes let the second session save over what the first one left.

Six messages are an input, a response with two calls, their results and what follows: enough
for a compaction that has to keep results with their calls, for a second one that finds the
summary of the first, and for a turn cut short before either; the windows let a message of
weight 3 fit once or twice. Four submissions are an input, an interrupt or answer, and two
inputs of which one waits in the queue and one in the channel. Two requests and one number
are the root and a teammate, or two requests of one of them, under one id; that two teammates
share a number is left to the proof. Two fetches by different turns
make an owner and a waiter, and the command in the turn of the first makes the gate wait; the
two policies are those under which a call runs before it asks and after, and the sandbox that
can deny is the restricted one. Longer lines at the gate and more calls about a host are
covered by the proofs.

For each property a run checks, `PROJECT.json` lists a fault under which that run reports the
property violated, within the same bounds.

Deadlock is checked for the task board, the mailbox and spawning, where some operation is
always possible. It is switched off in the runs whose processes finish (all calls made,
teammate closed) and whose bounds then leave nothing to do.

`MaxMessages`, `MaxTime`, `MaxBlockers`, `MaxChanges`, `MaxWatches`, `MaxCrashes`, `MaxCalls`,
`MaxSteering`, `MaxSubmissions` and `MaxRequests` bound counters that are unbounded in the code,
in the guards of the actions that raise them; `Number` bounds the calls of one response that are
numbered; `MayBeDenied` names the calls whose failure can read like a denial by the sandbox. The
mailbox run also has the constraint `BoundedVersion`, since versions grow with every sweep; no
step compares the version with anything.

### Fairness

Four properties rest on fairness; everything else holds of every behaviour.

* `CloseFreesWaiters` assumes that a started tokio task goes on (the loop, calls once they have
  begun, each half of an update), which is what the multi-threaded runtime gives to tasks that
  are ready, and that a turn ends; nobody has to send, close, wait or time out. It says that a
  close frees the waiters unless `CloseHindered`: the close was interrupted while it waited for
  room in a full channel, or the loop waits for room in the channel that only the loop
  empties. Both need the command channel to be full when the teammate is closed, and both are
  reached with the channel of one place.
* `ChangeWakesWatcher` assumes that publishing calls and watches go on; nobody has to change or
  to watch, and the timeout never has to help. Its exceptions are those of `WaitersAreWoken`: a
  change that was published before the teammate subscribed (`missed`), and a teammate to which
  an interrupted call, or two that published in the opposite order of their changes, did not
  announce it (`hindered`).
* `InputsHandled` assumes that the loop takes what is in its channel or queue, that a ready
  future is polled, and that a turn which waits for nobody ends (the model's requests have
  timeouts, tools end). Nobody has to answer, so it excepts a turn that waits for an answer for
  ever.
* `CallsEnd` assumes that a turn polls its calls, that tools end and that the user answers what
  is asked; nobody has to interrupt. It excepts calls of a turn with a fetch of a host whose
  question was dropped with its owner (`OwnerDropped`: the host has a pending entry and no
  call is at a place where its owner would answer it).

## The proofs

Proved with TLAPS, for all values of the constants that satisfy the assumptions the modules
name (`ConstantsOK`, `WatchConstantsOK`, `NetworkConstantsOK`, `ToolConstantsOK`, `LoopConstantsOK`,
`HistoryConstantsOK`); of the sets of processes they ask at most that they are disjoint and,
where a number counts them, finite:

| Theorem | Says |
| --- | --- |
| `TaskBoardProofs!BoardTypes` | types of the board |
| `TaskBoardProofs!BoardAcyclic` | the dependency graph has no cycle |
| `TaskBoardProofs!BoardReadiness` | cached readiness is current |
| `TaskBoardProofs!BoardLeaseOwners`, `BoardLeaseStatus` | leases follow owner and status |
| `TaskBoardProofs!BoardGrants` | a lease granted on a write is exclusive at that moment; leases to write come into conflict by a handoff only |
| `TaskBoardProofs!BoardReviews`, `BoardScopes` | review states fit the status; scopes, once had, are never forgotten |
| `MailboxProofs!MailboxIsWorkQueue` | the mailbox implements `WorkQueue` |
| `MailboxProofs!QueueItemsPrivate`, `AcksAreRightful` | types; items and acknowledgements stay with their holder |
| `MailboxProofs!ChangesAreVersioned`, `ClaimsAreOrdered` | changes raise the version; claims are in order and take as many as they ask for |
| `MailboxProofs!NewsReachesWatchers`, `WatchersAreWoken` | types of `InboxWatch`; what woke a watch is shown; who waits beside a change is told of it, with the named exceptions |
| `SpawnGuardsProofs!GuardTypes`, `SlotsAreAccounted`, `LimitHolds` | types, the counter, the limit |
| `SpawnGuardsProofs!ThreadsAreCounted`, `HandlesAreCounted` | what can be found holds a slot |
| `SpawnGuardsProofs!GuardsArePool` | the guards implement `SlotPool` |
| `AgentWakeProofs!MessagesAreAccounted`, `ShutdownsArrive` | types; a message is in exactly one place; the loop is told to stop once and hears it |
| `TeamStoreProofs!StoreTypes`, `QuietStateIsSaved` | types; undisturbed work is saved |
| `ToolCallsProofs!OneOwnerHolds`, `VerdictHolds`, `SessionHolds` | one question per host, its answer for all, the session's sets |
| `ToolCallsProofs!AloneHolds`, `AskedHolds` | types; changes alone in their turn; nothing runs unasked |
| `ToolCallsProofs!WaitsAreForSomething` | nobody waits in vain, for a decision or at the gate |
| `TurnLoopProofs!LoopInvariant`, `LoopPending`, `LoopAnswers` | types; the tables hold what waits; answers reach their question, or another under a number both have |
| `TurnLoopProofs!LoopSteering`, `LoopOrder` | accepted steering is kept; inputs are handled in order and none is passed over |
| `TurnHistoryProofs!HistoryInvariant`, `HistoryLosesNothing` | types; every message once and in order, in the summary or behind it |
| `TurnHistoryProofs!HistoryKeepsPairs`, `HistoryAnswersCalls` | results stand behind their calls; calls are answered |
| `TurnHistoryProofs!HistoryEndsInPrompt`, `HistoryGivesUp` | the prompt is the end of the history; retrying ends |

How they go:

* *No cycle.* Stated as: every non-empty set of tasks has a member that depends on no other
  of the set. The search of `add_task_dependency` is the least set closed under the
  edges; if the dependency is not in it, that set splits any other in two, and a minimal
  member of the part outside it, if there is one, else of the part inside, is minimal with
  the new edge. Induction over the length of paths is thereby avoided.
* *Readiness.* Not by induction on a strengthening but by the lemma that
  `RecomputeTaskGraph` establishes the property, together with the list of methods that do
  not call it and change nothing that it reads.
* *Leases.* `LeaseFollowsOwner` is not inductive: a claim changes the owner of a task that
  may hold leases. `PendingLeasesAssigned` closes the gap: a pending task with leases was
  handed off, so its assignee is its owner, and only the assignee can claim it.
* *Mailbox.* All operations but posting and clearing replace messages one by one, so the
  invariant `GoodMessage` is proved of one message before and after. The number of messages
  ahead of a message is its place in the order: of two messages the one that goes before has
  fewer ahead (`FewerAreAhead`), which gives the order of claims; and it makes the places a
  function without repetition into as many numbers as there are messages, hence onto them, which
  gives the size of a claim (`FirstOnesCounted`) without an induction over the sort.
* *Work queue.* Each operation is first a sweep, which changes no item (`SweptItems`), then a
  change that is one step of `WorkQueue` or keeps queue, priority, holder and acknowledgement of
  every message (`SameItems`). Time passing is `Lapse`, since only the clock decides on it.
* *Conflicts.* Leases to write that are new in a step are of one thread unless it is a handoff,
  and over files which `ensure_write_paths_owned` found free of others; those of an update to
  review have Review access, and new heartbeats change nothing (`HeartbeatsDoNotConflict`).
* *Spawning.* The counter is a sum of two cardinalities; every step moves one element. That
  a commit registers a thread nobody registered needs `ThreadInv`: a thread belongs to the
  call that spawned it until its handle is in the map. With the same invariant every step is
  one of `SlotPool` or changes nothing it sees. `Call` and `Mate` are assumed finite.
* *Teammate loop.* `MessagesAccounted` is a sum of five counts, of which three are
  cardinalities. `Accounted` adds that messages to come are nowhere, and `CarryInv` where a
  process has a message in hand: two halves of one update never hold different ones. Every step
  moves one process; `BalancedKeeps` shows once that such a step keeps the sum if what it takes
  from the hand, the queues and the sets it puts into another, and the rest of the proof is
  that each step is `Balanced`. Clearing a queue into `dropped` is balanced because the sum
  itself says that the queue held no message twice.
* *Tool calls.* The service's invariants speak of places of calls that ToolCalls moves, so the
  steps outside of it are summed up once (`Outside`, `Quiet`). `Owners` (the pending entry of
  a host is that of the call that asks) gives `OneOwner`; with it `Settled` (a decision is the
  user's answer to its entry) gives `VerdictIsAnswer`; `Remembered` says what the two sets hold
  between the steps that change them, and nobody else can be changing them, because nobody
  else owns the host. `Gate` is the read-write lock as an invariant of its line. `Consent`
  and `Attempts` carry an approval from the prompt to the run that relies on it.
* *Persistence.* The property speaks of rest only. The invariant `Undisturbed` says what
  holds on the way: one process at most is under way, and at each of its places the part it
  has not yet to save is what a restart would find.

* *Scopes.* `ScopesNeverForgotten` speaks of what is requested, remembered or granted, any of
  which may go in a step. `ScopesRemembered` (who has scopes has some remembered) makes it
  enough to follow the memory, which no method empties.
* *Watching.* `NewsIsOld` is what `NewsIsShown` lacks: a watch is told of versions that exist,
  because what a call carries to the channel was read from the state. How far the channel lags
  does not matter then. `WaitersAreWoken` follows from `WakeInv`, which says the same of whoever
  has subscribed (`Subscribed`, at its second check or waiting; `ToldOf`): from there on its
  receiver keeps the channel storing, so what is sent either has a later version than its cursor
  and marks it, or is one of the two hindrances. An announcement that is not followed by one of
  those stays an announcement (`StillAnnounced`).
* *The end of a teammate.* `Told` adds to `ShutdownArrives` where the closer and the loop can be.
  Every send of another process appends a message, which is not the command
  (`AppendedMessage`, from the invariant of the messages), and only the loop takes from the
  channel; what is left is to follow the closer's one send and the loop's one receipt.
* *Waiting.* `Awaited` says of a waiter that created its notification that it is among those who
  are notified, and of a sleeping one that its entry is still pending and no owner has notified
  for it already; `Owners` names the owner who has yet to. `Lines` says that a call that waits is
  in the line of its turn, that only such calls are, and that who holds the gate is inside it.
* *Submission loop.* The submissions that wait, in the queue and then in the channel, are in
  the order of their numbers and later than the last one handled (`OrderInv`), so a turn never
  comes twice. Therefore a request dropped with its turn is never of the turn that runs
  (`GoodRequest`), a session has at most one pending request under a key although keys come
  again (`OnePends`), and an answer on its way has settled nothing yet (`AnswerInv`). Where it
  settles another request than its own (`AnswersMatch`), the two share a number, and the code's
  order, root first, leaves only the cases that `AnswersTheQuestion` names; its own request
  cannot get into another case later, for one that waits no longer never waits again. What the
  operations on the tables do to the requests is said once, by `Settles`. A step takes at most
  the head of the queue or of the channel, and handles it, puts it off or is not one of those
  that wait for the end of a turn (`LeavesHandled`).
* *History.* `Numbered` says that a summary at the head stands for messages 1 to c and the
  others follow with their numbers, so that a message is found by its number. While results
  are due, the response and the results so far are the end of the history (`DueInv`). A boundary
  that `compute_valid_kept_boundaries` accepts then leaves no result without its call
  (`ValidIsClosed`: the response it looked for is the only one with that number), whatever was
  cut short before. That the search always finds one boundary nearer than all others
  (`SafeTailIsValid`) needs that a longer tail has more tokens, which is a statement about
  cardinalities (`LongerTailHasMore`): the tokens of a tail are counted as a set, so no
  induction over a sum is needed. `Begins` says where the prompt begins in the history, and
  that it does so before the response whose results are due.
* *Retries.* `requests <= overflows * (MaxRetries + 1) + retries + 1`: each overflow pays for the
  retries it gives back.

Only model-checked: the four liveness properties (`CloseFreesWaiters`, `ChangeWakesWatcher`,
`InputsHandled`, `CallsEnd`), which are out of the prover's reach under fairness, and the three
runs that end in a violation. What each of the four rests on is proved for every size: the
command to stop arrives (`ShutdownsArrive`), who waits beside a change is told of it
(`WatchersAreWoken`), no input is passed over (`LoopOrder`), nobody waits in vain
(`WaitsAreForSomething`); what remains for TLC is that fair processes then get there. Every
other property of a run is the subject of a theorem, and the types of every module are proved
with it.

## Where the code and its documentation disagree

Three runs end in a violation: what a doc, a test or a comment says of the program and what
the code does. `PROJECT.json` quotes each under `findings`.

* `WritersExclusive`: a handoff installs leases without looking at those of others. `BoardGrants`
  shows that nothing else does: with no handoff, no two threads ever hold conflicting leases.
* `NoStrandedWake`: work queued by a call that saw a busy teammate stays queued when the
  teammate settled before it was.
* `SteeringIsTaken`: steering that arrives while the model gives its last response is accepted
  and then cleared at the end of the turn.

Other oddities contradict nothing the code or its documentation promises, or only a word of
it; the models contain them, unless said otherwise, and no property excludes them:

* A change is missed when it is published between the first check of a watch and its
  subscription (`team_runtime.rs:1017`, `:1022`) while nobody else watches: `send` without a
  receiver stores nothing, its error is dropped (`:1620`), and the second check (`:1023`), which
  is there for this case, reads the old value. The teammate sleeps until its timeout or the next
  change. `WaitersAreWoken` excepts exactly this (`missed`). Asking for the version under the
  lock in the second check, or `send_replace` in place of `send`, would close the gap.
* Numbered ids collide: approvals of the root and of a teammate, or of two teammates, may wait
  under `text_call_1` at once (`text_function_calls.rs:190`, `tools/router.rs:918`), and an answer
  meant for the teammate's call settles the root's (`cokra.rs:1286`, `:1291`); an answer to a
  call that waits no longer settles a later one of the same number. `AnswersTheQuestion` says in
  which cases; ids from the provider and questions never go astray.
* Publications overtake each other (`SendVersion` after `ReadVersion` of another call), so the
  channel may go back to an older version and a watch then lasts until the next change
  or its timeout.
* A watch reads the version it returns after the messages (`team_runtime.rs:1046`): the cursor
  may cover a change that was not shown.
* Clones are saved in another order than they were made, so the row may lack a change a
  call has returned, until the next save; a save under way when cleanup deletes the rows
  brings the team back (`team_runtime.rs:1061`). `QuietTeamIsSaved` speaks of calls that did not
  overlap.
* A cleanup that is interrupted or crashes between its three deletes leaves the older rows.
* Updates of a teammate's state overlap (`team_runtime.rs:142`): a generation that is
  overwritten lets a wait return before work that was accepted is done, and a launch that
  writes late leaves a closed teammate Busy.
* A shutdown that arrives during a turn ends the turn and not the loop (`cokra.rs:1358`), though
  the comment at `cokra.rs:220` says "Submission loop runs until Op::Shutdown."; the loop ends
  when the senders of its channel are gone.
* Messages that are in a teammate's channel when its loop ends are never worked on;
  `MessagesAccounted` counts them as in the channel, since no other process takes them from there.
* The owner of a question about a host may be dropped before it answers; its entry stays, and
  whoever waits for it or comes later waits until its own turn is interrupted. An attempt that
  was dropped stays in the table of attempts.
* A prompt may exceed its budget when its last messages cannot be cut, and with an unknown
  window the last messages may begin with a result whose call is cut off (`NoOrphanResults`
  speaks of known windows).
* Not in a model: the plan gate (`team_state.rs:265`, `team_runtime.rs:2051`) is closed while
  any plan of the thread is pending or rejected, so that after a rejected plan a newly submitted
  and approved one does not open it.

## What is not modelled

Planned: the runtime's calls around the board, and plans with their workflow runs. Left out
for good: model providers, sign-in, MCP, LSP and integrations (external services),
configuration, prompts, skills, the terminal interface and the command line (input and
output), apply-patch, file search and execution policy (pure functions over text, whose
correctness is about characters), tool handlers, hooks and events (no state that another
part reads), and the placeholder crates. These make up most of the repository's lines; what
its concurrent core consists of is in the modules.

Within the modelled parts, texts, ids of messages and tasks as strings, events for the screen
and time stamps nothing decides on are left out. The launch of a teammate is in `SpawnGuards` up
to its handle and in `AgentWake` from there. `InboxWatch` has no cleanup, which would start the
versions again. `ToolCalls` takes the answers of the lease and plan checks as choices, so that
the last turn of a teammate that was closed, whose writes the gate lets pass
(`tools/router.rs:755`), is among its behaviours and no property speaks of it. `NetworkApproval`
leaves out the deferred mode, which only a caller that names it in its arguments gets, and the
audit log. `TurnLoop` has one turn and no settings besides; `TurnHistory` leaves out the
truncation of one tool's output and the text of summaries.

## The plan

1. *Done.* TaskBoard, Mailbox with WorkQueue, SpawnGuards with SlotPool, AgentWake, InboxWatch,
   TeamStore, TurnHistory, TurnLoop, NetworkApproval and ToolCalls, with the theorems above.
2. *Extend.*
   * `TeamCalls`: composes TaskBoard with the calls of the runtime around it (the assignee
     checked before the lock, the two states changed one after the other, the maintenance
     of leases when a teammate closes), against "an assigned task must be explicitly
     reassigned or overridden".
   * `WorkflowRuns`: plans and runs: `decide_plan` changes two states under two locks, and
     `note_task_claim` moves a run to another owner while its approval is pending.
   * TaskBoard and ToolCalls in one model small enough to run, for the writes of a closed
     teammate's last turn and the plan gate.
   * Abstract specifications, beside SlotPool and WorkQueue: an atomic mailbox with a cursor
     that InboxWatch with one poster implements; a queue with one consumer that AgentWake
     implements.
   TLC's runs stay few, one per question: a new module takes the place of a run whose question
   it answers too.
3. *Prove.* Every safety property the runs check is proved. What is left is the refinements
   above, once they are stated, and what the new modules of 2 add.

----------------------------- MODULE AgentWake -----------------------------
(***************************************************************************)
(* How work reaches one teammate and how others wait for it: the managed   *)
(* handle, its wake queue and command channel, the teammate's command      *)
(* loop, TeamRuntime::schedule_turn, close_agent and the end of            *)
(* launch_spawned_agent (core/src/agent/team_runtime.rs), and the wait     *)
(* tool (core/src/tools/handlers/wait.rs).                                 *)
(*                                                                         *)
(* The state of the handle is a watch channel.  update_state reads it,     *)
(* changes the copy and sends the copy back: an update is two steps, and   *)
(* updates of several processes overlap.  The wake queue has its own lock. *)
(*                                                                         *)
(* Left out: outcome, summary, attention and the pending count, which      *)
(* nothing reads to decide (the updates that only set these still write    *)
(* the whole copy back), and events.                                       *)
(***************************************************************************)
EXTENDS Naturals, Sequences, FiniteSets

CONSTANTS
  Sender,        \* tool calls that schedule work
  Waiter,        \* calls of the wait tool
  MaxMessages,   \* bound: messages sent to the teammate
  Capacity,      \* CHILD_COMMAND_CHANNEL_CAPACITY
  Launcher,      \* the call of spawn_agent
  Loop,          \* the teammate's command loop
  Closer,        \* the call of close_agent
  Shutdown,      \* the command that ends the loop
  NoState        \* the copy of a process that is not updating

ASSUME ConstantsOK ==
  /\ MaxMessages \in Nat \ {0}
  /\ Capacity \in Nat \ {0}
  /\ Loop # Closer /\ Launcher \notin {Loop, Closer}
  /\ Sender \cap Waiter = {} /\ {Launcher, Loop, Closer} \cap (Sender \cup Waiter) = {}
  /\ IsFiniteSet(Sender) /\ IsFiniteSet(Waiter)
  /\ Shutdown \notin Nat

Process == Sender \cup Waiter \cup {Launcher, Loop, Closer}
Message == 1..MaxMessages
NoMessage == 0
Lifecycle == {"Ready", "Busy", "Error", "Shutdown"}
AgentState == [lifecycle : Lifecycle, scheduled : Nat, inflight : Nat, settled : Nat]

VARIABLES
  state,         \* the watched ManagedAgentState
  wakes,         \* wake_queue
  channel,       \* from tx_cmd to rx_cmd: messages and the Shutdown command
  handled,       \* the handle is in TeamRuntime.handles
  pc,            \* where every process is
  copy,          \* the copy of the state a process is updating
  carried,       \* the message a process works on
  sent,          \* the number of messages so far
  done,          \* messages whose turn ended
  dropped,       \* messages refused, or cleared with the wake queue
  target         \* target_generation of each waiter

vars == <<state, wakes, channel, handled, pc, copy, carried, sent, done, dropped,
          target>>
work == <<wakes, channel, carried, sent, done, dropped>>

\* The handle as launch_spawned_agent makes it.
InitialState == [lifecycle |-> "Ready", scheduled |-> 0, inflight |-> 0, settled |-> 0]

\* The handle is in the map and the loop has begun; the initial task, message 1, is still
\* with the call that launches.
Init ==
  /\ state = InitialState
  /\ wakes = <<>>
  /\ channel = <<>>
  /\ handled = TRUE
  /\ pc = [p \in Process |->
             CASE p = Loop -> "receive" [] p = Launcher -> "launch" [] OTHER -> "idle"]
  /\ copy = [p \in Process |-> NoState]
  /\ carried = [p \in Process |-> IF p = Launcher THEN 1 ELSE NoMessage]
  /\ sent = 1
  /\ done = {}
  /\ dropped = {}
  /\ target = [w \in Waiter |-> 0]

At(p, place) == pc[p] = place
Goto(p, place) == pc' = [pc EXCEPT ![p] = place]
Carry(p, m) == carried' = [carried EXCEPT ![p] = m]
Messages(s) == {s[i] : i \in DOMAIN s} \ {Shutdown}
ChannelFull == Len(channel) >= Capacity

-----------------------------------------------------------------------------
(* update_state *)

\* The places where a process calls update_state, what its mutator does to the copy,
\* and where the process goes on.
UpdateAt == [
  launch |-> "sendFirst",
  clearAttention |-> "look",        dispatch |-> "send",
  countWake |-> "scheduleWake",     scheduleWake |-> "idle",
  uncountFailed |-> "fail",         fail |-> "idle",
  startTurn |-> "turn",             settle |-> "dequeue",
  uncountWake |-> "nextWake",       nextWake |-> "resend",
  uncountAll |-> "failTurn",        failTurn |-> "receive",
  stop |-> "ended",                 close |-> "clearClosed",
  uncountClosed |-> "sendShutdown"]
UpdatePlace == DOMAIN UpdateAt

Mutated(place, s) ==
  CASE place = "launch" -> [s EXCEPT !.scheduled = 1, !.inflight = 1, !.lifecycle = "Busy"]
    [] place = "dispatch" ->
         [s EXCEPT !.scheduled = @ + 1, !.inflight = s.scheduled + 1, !.lifecycle = "Busy"]
    [] place = "scheduleWake" -> [s EXCEPT !.scheduled = @ + 1]
    [] place = "startTurn" -> [s EXCEPT !.lifecycle = "Busy"]
    [] place = "settle" -> [s EXCEPT !.lifecycle = "Ready", !.settled = s.inflight]
    [] place = "nextWake" -> [s EXCEPT !.lifecycle = "Busy", !.inflight = s.settled + 1]
    [] place \in {"fail", "failTurn"} ->
         [s EXCEPT !.lifecycle = "Error", !.settled = s.scheduled]
    [] place \in {"close", "stop"} -> [s EXCEPT !.lifecycle = "Shutdown"]
    [] OTHER -> s

ReadState(p) ==
  /\ pc[p] \in UpdatePlace
  /\ copy[p] = NoState
  /\ copy' = [copy EXCEPT ![p] = state]
  /\ UNCHANGED <<state, handled, pc, work, target>>

WriteState(p) ==
  /\ copy[p] # NoState
  /\ state' = Mutated(pc[p], copy[p])
  /\ copy' = [copy EXCEPT ![p] = NoState]
  /\ Goto(p, UpdateAt[pc[p]])
  /\ carried' = IF UpdateAt[pc[p]] = "idle" THEN [carried EXCEPT ![p] = NoMessage] ELSE carried
  /\ UNCHANGED <<handled, wakes, channel, sent, done, dropped, target>>

-----------------------------------------------------------------------------
(* The end of launch_spawned_agent *)

\* The initial task goes to the loop, unless the teammate was closed meanwhile.
SendFirst ==
  /\ At(Launcher, "sendFirst")
  /\ IF At(Loop, "ended")
     THEN dropped' = dropped \cup {carried[Launcher]} /\ UNCHANGED channel
     ELSE ~ChannelFull /\ channel' = Append(channel, carried[Launcher]) /\ UNCHANGED dropped
  /\ Carry(Launcher, NoMessage)
  /\ Goto(Launcher, "launched")
  /\ UNCHANGED <<state, handled, copy, wakes, sent, done, target>>

\* The caller is interrupted where it reports the state or waits for room: the teammate
\* stays Busy without a task.
AbandonLaunch ==
  /\ At(Launcher, "sendFirst")
  /\ dropped' = dropped \cup {carried[Launcher]}
  /\ Carry(Launcher, NoMessage)
  /\ Goto(Launcher, "launched")
  /\ UNCHANGED <<state, handled, copy, wakes, channel, sent, done, target>>

-----------------------------------------------------------------------------
(* schedule_turn *)

\* handle_for finds the handle; the call keeps it from then on.
FindHandle(s) ==
  /\ At(s, "idle") /\ handled /\ sent < MaxMessages
  /\ sent' = sent + 1
  /\ Carry(s, sent + 1)
  /\ Goto(s, "clearAttention")
  /\ UNCHANGED <<state, handled, copy, wakes, channel, done, dropped, target>>

\* clear_attention looks the handle up again, and it may be gone.
SkipClearAttention(s) ==
  /\ At(s, "clearAttention") /\ copy[s] = NoState /\ ~handled
  /\ Goto(s, "look")
  /\ UNCHANGED <<state, handled, copy, work, target>>

\* The lifecycle decides: dispatch now, queue, or refuse.
LookAtLifecycle(s) ==
  /\ At(s, "look")
  /\ \/ /\ state.lifecycle = "Ready"
        /\ Goto(s, "dispatch")
        /\ UNCHANGED <<carried, dropped>>
     \/ /\ state.lifecycle = "Busy"
        /\ Goto(s, "enqueue")
        /\ UNCHANGED <<carried, dropped>>
     \/ /\ state.lifecycle \in {"Error", "Shutdown"}
        /\ dropped' = dropped \cup {carried[s]}
        /\ Carry(s, NoMessage)
        /\ Goto(s, "idle")
  /\ UNCHANGED <<state, handled, copy, wakes, channel, sent, done, target>>

\* send_turn_now waits for room in the channel.
SendTurn(s) ==
  /\ At(s, "send") /\ ~At(Loop, "ended") /\ ~ChannelFull
  /\ channel' = Append(channel, carried[s])
  /\ Carry(s, NoMessage)
  /\ Goto(s, "idle")
  /\ UNCHANGED <<state, handled, copy, wakes, sent, done, dropped, target>>

\* The loop has ended: the channel is closed, the wakes are cleared.
SendTurnFails(s) ==
  /\ At(s, "send") /\ At(Loop, "ended")
  /\ dropped' = dropped \cup {carried[s]} \cup Messages(wakes)
  /\ wakes' = <<>>
  /\ Carry(s, NoMessage)
  /\ Goto(s, "uncountFailed")
  /\ UNCHANGED <<state, handled, copy, channel, sent, done, target>>

\* The caller is interrupted while the channel is full.
AbandonSend(s) ==
  /\ At(s, "send") /\ ~At(Loop, "ended") /\ ChannelFull
  /\ dropped' = dropped \cup {carried[s]}
  /\ Carry(s, NoMessage)
  /\ Goto(s, "idle")
  /\ UNCHANGED <<state, handled, copy, wakes, channel, sent, done, target>>

EnqueueWake(s) ==
  /\ At(s, "enqueue")
  /\ wakes' = Append(wakes, carried[s])
  /\ Goto(s, "countWake")
  /\ UNCHANGED <<state, handled, copy, channel, carried, sent, done, dropped, target>>

-----------------------------------------------------------------------------
(* The command loop of the teammate *)

Receive ==
  /\ At(Loop, "receive") /\ channel # <<>>
  /\ channel' = Tail(channel)
  /\ IF Head(channel) = Shutdown
     THEN Goto(Loop, "stop") /\ UNCHANGED carried
     ELSE Goto(Loop, "startTurn") /\ Carry(Loop, Head(channel))
  /\ UNCHANGED <<state, handled, copy, wakes, sent, done, dropped, target>>

TurnSucceeds ==
  /\ At(Loop, "turn")
  /\ done' = done \cup {carried[Loop]}
  /\ Carry(Loop, NoMessage)
  /\ Goto(Loop, "settle")
  /\ UNCHANGED <<state, handled, copy, wakes, channel, sent, dropped, target>>

\* An error clears the wakes.
TurnFails ==
  /\ At(Loop, "turn")
  /\ done' = done \cup {carried[Loop]}
  /\ dropped' = dropped \cup Messages(wakes)
  /\ wakes' = <<>>
  /\ Carry(Loop, NoMessage)
  /\ Goto(Loop, "uncountAll")
  /\ UNCHANGED <<state, handled, copy, channel, sent, target>>

\* Fault: the wake stays in the queue.
PeekWake ==
  /\ At(Loop, "dequeue")
  /\ IF wakes = <<>>
     THEN Goto(Loop, "receive") /\ UNCHANGED carried
     ELSE Goto(Loop, "uncountWake") /\ Carry(Loop, Head(wakes))
  /\ UNCHANGED <<state, handled, copy, wakes, channel, sent, done, dropped, target>>

DequeueWake ==
  /\ At(Loop, "dequeue")
  /\ IF wakes = <<>>
     THEN Goto(Loop, "receive") /\ UNCHANGED <<wakes, carried>>
     ELSE /\ wakes' = Tail(wakes)
          /\ Carry(Loop, Head(wakes))
          /\ Goto(Loop, "uncountWake")
  /\ UNCHANGED <<state, handled, copy, channel, sent, done, dropped, target>>

\* The loop sends the wake to itself, and waits for room in the channel it empties.
Resend ==
  /\ At(Loop, "resend") /\ ~ChannelFull
  /\ channel' = Append(channel, carried[Loop])
  /\ Carry(Loop, NoMessage)
  /\ Goto(Loop, "receive")
  /\ UNCHANGED <<state, handled, copy, wakes, sent, done, dropped, target>>

-----------------------------------------------------------------------------
(* close_agent *)

RemoveHandle ==
  /\ At(Closer, "idle") /\ handled
  /\ handled' = FALSE
  /\ Goto(Closer, "close")
  /\ UNCHANGED <<state, copy, work, target>>

ClearWakes ==
  /\ At(Closer, "clearClosed")
  /\ dropped' = dropped \cup Messages(wakes)
  /\ wakes' = <<>>
  /\ Goto(Closer, "uncountClosed")
  /\ UNCHANGED <<state, handled, copy, channel, carried, sent, done, target>>

\* Fault: the loop is not told to stop.
NoShutdown ==
  /\ At(Closer, "sendShutdown")
  /\ Goto(Closer, "closed")
  /\ UNCHANGED <<state, handled, copy, work, target>>

SendShutdown ==
  /\ At(Closer, "sendShutdown") /\ ~ChannelFull
  /\ channel' = Append(channel, Shutdown)
  /\ Goto(Closer, "closed")
  /\ UNCHANGED <<state, handled, copy, wakes, carried, sent, done, dropped, target>>

\* The caller is interrupted while the channel is full.
AbandonClose ==
  /\ At(Closer, "sendShutdown") /\ ChannelFull
  /\ Goto(Closer, "abandoned")
  /\ UNCHANGED <<state, handled, copy, work, target>>

-----------------------------------------------------------------------------
(* wait *)

StartWait(w) ==
  /\ At(w, "idle") /\ handled
  /\ target' = [target EXCEPT ![w] = state.scheduled]
  /\ Goto(w, "subscribe")
  /\ UNCHANGED <<state, handled, copy, work>>

\* subscribe_state looks the handle up again.
Subscribe(w) ==
  /\ At(w, "subscribe")
  /\ Goto(w, IF handled THEN "wait" ELSE "notFound")
  /\ UNCHANGED <<state, handled, copy, work, target>>

IsWaitSatisfied(w) == state.settled >= target[w] /\ state.lifecycle # "Busy"

WaitSettles(w) ==
  /\ At(w, "wait") /\ IsWaitSatisfied(w)
  /\ Goto(w, IF state.lifecycle = "Ready" THEN "settled" ELSE "failed")
  /\ UNCHANGED <<state, handled, copy, work, target>>

\* Every owner of the handle is gone: the watch channel is closed.
HandleFreed ==
  /\ ~handled /\ At(Loop, "ended")
  /\ pc[Closer] \in {"closed", "abandoned"} /\ At(Launcher, "launched")
  /\ \A s \in Sender : At(s, "idle")
WaitDisconnects(w) ==
  /\ At(w, "wait") /\ HandleFreed
  /\ Goto(w, "disconnected")
  /\ UNCHANGED <<state, handled, copy, work, target>>

WaitTimesOut(w) ==
  /\ At(w, "wait") /\ ~IsWaitSatisfied(w)
  /\ Goto(w, "timedOut")
  /\ UNCHANGED <<state, handled, copy, work, target>>

-----------------------------------------------------------------------------
Scheduling(s) ==
  \/ FindHandle(s)
  \/ SkipClearAttention(s)
  \/ LookAtLifecycle(s)
  \/ SendTurn(s)
  \/ SendTurnFails(s)
  \/ AbandonSend(s)
  \/ EnqueueWake(s)

Looping == Receive \/ TurnSucceeds \/ TurnFails \/ DequeueWake \/ Resend
Closing == RemoveHandle \/ ClearWakes \/ SendShutdown \/ AbandonClose
Waiting(w) == StartWait(w) \/ Subscribe(w) \/ WaitSettles(w) \/ WaitDisconnects(w)

Launching == SendFirst \/ AbandonLaunch

Next ==
  \/ Launching
  \/ \E s \in Sender : Scheduling(s)
  \/ Looping
  \/ Closing
  \/ \E w \in Waiter : Waiting(w) \/ WaitTimesOut(w)
  \/ \E p \in Process : ReadState(p) \/ WriteState(p)

Spec == Init /\ [][Next]_vars

\* Every started task of the runtime runs on, turns end, and a process that updates the
\* state is not stopped half way.  Nobody has to send, close or wait, and no call is
\* bound to time out.
Fairness ==
  /\ WF_vars(SendFirst)
  /\ WF_vars(Looping)
  /\ WF_vars(ClearWakes \/ SendShutdown)
  /\ \A s \in Sender : WF_vars(Scheduling(s) /\ ~At(s, "idle"))
  /\ \A w \in Waiter : WF_vars(Waiting(w) /\ ~At(w, "idle"))
  /\ \A p \in Process : WF_vars(ReadState(p) \/ WriteState(p))
FairSpec == Spec /\ Fairness

-----------------------------------------------------------------------------
(* What others rely on *)

Place == UpdatePlace \cup
  {"sendFirst", "launched", "idle", "look", "send", "enqueue", "receive", "turn",
   "dequeue", "resend", "ended", "clearClosed", "sendShutdown", "closed", "abandoned", "subscribe", "wait",
   "settled", "failed", "notFound", "disconnected", "timedOut"}

TypeOK ==
  /\ state \in AgentState
  /\ wakes \in Seq(Message)
  /\ channel \in Seq(Message \cup {Shutdown})
  /\ Len(channel) <= Capacity
  /\ handled \in BOOLEAN
  /\ pc \in [Process -> Place]
  /\ copy \in [Process -> AgentState \cup {NoState}]
  /\ carried \in [Process -> Message \cup {NoMessage}]
  /\ sent \in Message
  /\ done \subseteq Message
  /\ dropped \subseteq Message
  /\ target \in [Waiter -> Nat]

\* A process that enqueued its message no longer holds it.
Holds(p, m) == carried[p] = m /\ pc[p] \notin {"countWake", "scheduleWake"}
Times(s, m) == Cardinality({i \in DOMAIN s : s[i] = m})

\* Each message is in one place: with the call that sends it, in the wake queue, in the
\* channel, with the loop, done or dropped.  None is worked on twice or lost when the
\* loop moves wakes to its own channel, fails, or is closed in the middle of it.
MessagesAccounted ==
  /\ TypeOK
  /\ \A m \in 1..sent :
       Times(wakes, m) + Times(channel, m) + Cardinality({p \in Process : Holds(p, m)})
         + Cardinality({m} \cap done) + Cardinality({m} \cap dropped) = 1

\* The loop is told to stop once, by a close that ran to its end, and by nothing else: the
\* command is in the channel until the loop takes it, whatever turn, wake or failure the
\* close came into and whatever is sent behind it; and nobody finds the handle any more.
ShutdownArrives ==
  LET stopped == pc[Loop] \in {"stop", "ended"}
  IN /\ handled <=> At(Closer, "idle")
     /\ stopped => At(Closer, "closed")
     /\ Times(channel, Shutdown) = IF At(Closer, "closed") /\ ~stopped THEN 1 ELSE 0

\* A close that finds the channel full may be interrupted, and the loop may wait for room
\* in the channel that only itself empties.
CloseHindered == At(Closer, "abandoned") \/ (At(Loop, "resend") /\ ChannelFull)

\* Whoever waits for a teammate is freed when the teammate is closed, without the help
\* of the timeout: the loop gets the Shutdown command after its turn and lets the watch
\* channel go, although the generation waited for never settles.  Only a full channel
\* hinders it.
CloseFreesWaiters ==
  \A w \in Waiter : ~handled ~> pc[w] \notin {"subscribe", "wait"} \/ CloseHindered

\* A teammate is not left idle with work queued: somebody is about to give it the work.
NoStrandedWake ==
  wakes # <<>> /\ handled /\ state.lifecycle = "Ready" =>
    ~At(Loop, "receive") \/ channel # <<>> \/ \E s \in Sender : ~At(s, "idle")
=============================================================================

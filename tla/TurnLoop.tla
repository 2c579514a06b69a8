------------------------------ MODULE TurnLoop ------------------------------
(***************************************************************************)
(* The submission loop of the root agent, the turn it runs, and the        *)
(* requests a turn makes to the user (core/src/cokra.rs, core/src/session, *)
(* core/src/turn).                                                         *)
(*                                                                         *)
(* Submissions come over a channel.  Between turns the loop takes them one *)
(* by one; while a turn runs, a second loop answers, steers, interrupts or *)
(* stops it and puts everything else into a queue.  The turn's future is   *)
(* not polled while that loop handles a submission, so each is one step,   *)
(* and it is dropped when the loop leaves the turn.                        *)
(*                                                                         *)
(* A teammate's requests wait in its own session; an answer that the root  *)
(* session does not know is offered to the teammates.  A request waits     *)
(* under the id of its call.  Most ids come from the model's provider, but *)
(* calls found in text, and calls streamed without an id, are numbered     *)
(* anew in every response: such ids come again, in other sessions and in   *)
(* later responses of the same one.                                        *)
(*                                                                         *)
(* What turns do besides is TurnHistory and ToolCalls; configuration and   *)
(* compaction between turns are the submission "other".                    *)
(***************************************************************************)
EXTENDS Naturals, FiniteSets, SequencesExt

CONSTANTS
  Mate,            \* teammates
  Number,          \* bound: numbers of the calls of one response that have no other id
  MaxSubmissions,  \* bound: submissions
  MaxRequests      \* bound: requests for approval and questions

ASSUME LoopConstantsOK ==
  /\ "root" \notin Mate /\ Number \subseteq Nat
  /\ MaxSubmissions \in Nat /\ MaxRequests \in Nat

VARIABLES
  sent,          \* submissions so far
  closed,        \* every sender of the channel is gone
  inbox,         \* rx_sub
  queue,         \* queue of submission_loop
  loop,          \* between turns, in run_turn_with_interrupt, or ended
  turn,          \* the turn that runs, 0 for none
  polled,        \* its future has come to begin_turn
  active,        \* active_turn_state.turn_id, 0 for none
  inputs,        \* active_turn_state.pending_inputs
  requests,      \* every request made so far
  said,          \* the requests the user has answered
  pending,       \* by_id of the sessions: the requests in the tables
  byTurn,        \* ids_by_turn of the root session
  accepted,      \* history: steering inputs accepted for the turn
  taken,         \* history: those of them the turn has taken
  handled        \* history: the last submission that was handled and not an answer,
                 \* steering or a stop

vars == <<sent, closed, inbox, queue, loop, turn, polled, active, inputs, requests, said,
          pending, byTurn, accepted, taken, handled>>
channel == <<sent, closed>>
activeTurn == <<active, inputs, accepted, taken>>
tables == <<requests, pending, byTurn>>

Session == {"root"} \cup Mate
RequestKey == Nat \X {"approval", "numbered", "question"}
Request ==
  [session : Session, turn : 0 .. MaxSubmissions, key : RequestKey,
   state : {"waiting", "answered", "denied", "dropped"}, answer : 0 .. MaxRequests]
\* about is the request an answer is meant for, or the turn that steering expects.
Submission ==
  [n : 1 .. MaxSubmissions, about : Nat,
   kind : {"input", "empty", "other", "steer", "answer", "interrupt", "shutdown"}]

Init ==
  /\ sent = 0
  /\ closed = FALSE
  /\ inbox = <<>>
  /\ queue = <<>>
  /\ loop = "between"
  /\ turn = 0
  /\ polled = FALSE
  /\ active = 0
  /\ inputs = <<>>
  /\ requests = <<>>
  /\ said = {}
  /\ pending = {}
  /\ byTurn = {}
  /\ accepted = {}
  /\ taken = {}
  /\ handled = 0

Waiting(r) == requests[r].state = "waiting"
RequestsOf(session) == {r \in DOMAIN requests : requests[r].session = session}

-----------------------------------------------------------------------------
(* The user *)

\* What a user may say: answers are to requests that were shown, once each (the prompt is
\* taken away with the answer), and steering names the turn that is shown or none.
Sayable ==
  {<<k, 0>> : k \in {"input", "empty", "other", "steer", "interrupt", "shutdown"}}
    \cup {<<"steer", turn>>}
    \cup {<<"answer", r>> : r \in DOMAIN requests \ said}

\* submit fails once the loop has ended.
Submit(kind, about) ==
  /\ ~closed /\ loop # "ended"
  /\ sent < MaxSubmissions
  /\ sent' = sent + 1
  /\ inbox' = Append(inbox, [n |-> sent + 1, kind |-> kind, about |-> about])
  /\ said' = IF kind = "answer" THEN said \cup {about} ELSE said
  /\ UNCHANGED <<closed, queue, loop, turn, polled, activeTurn, tables, handled>>

Close ==
  /\ ~closed
  /\ closed' = TRUE
  /\ UNCHANGED <<said, sent, inbox, queue, loop, turn, polled, activeTurn, tables, handled>>

-----------------------------------------------------------------------------
(* The tables of pending requests *)

\* The id of a call, given by the model's provider.
FreshId == Len(requests) + 1

\* The ids under which a call of a session may wait for approval.  The calls of one
\* response have different numbers, and the next response comes when none of them waits.
CallKeys(session) ==
  {<<FreshId, "approval">>} \cup
  {key \in Number \X {"numbered"} :
     ~\E r \in RequestsOf(session) : Waiting(r) /\ requests[r].key = key}

\* request_user_input waits under the id of the turn; it is asked alone.
QuestionKeys ==
  {key \in {<<turn, "question">>} : \A r \in RequestsOf("root") : ~Waiting(r)}

\* request_exec_approval and request_user_input: a request that waits under the same key
\* is sent away.
AddRequest(session, t, key) ==
  LET new == Len(requests) + 1
      previous == {r \in pending : requests[r].session = session /\ requests[r].key = key}
      request ==
        [session |-> session, turn |-> t, key |-> key, state |-> "waiting", answer |-> 0]
  IN /\ requests' = Append([r \in DOMAIN requests |->
                              IF r \in previous /\ Waiting(r)
                              THEN [requests[r] EXCEPT !.state = "denied"] ELSE requests[r]],
                           request)
     /\ pending' = (pending \ previous) \cup {new}
     /\ byTurn' = IF session = "root"
                  THEN {e \in byTurn : previous = {} \/ e[2] # key} \cup {<<t, key>>}
                  ELSE byTurn

\* The sender of the answer's oneshot is taken out of the table and used.
Receives(request, answer) == [request EXCEPT !.state = "answered", !.answer = answer]

\* The requests that are pending under a key in the tables of a session.
Known(session, key) == {r \in pending : requests[r].session = session /\ requests[r].key = key}

\* Fault: an answer is offered to the teammates though the root session took it.
OfferedToAll(sub) ==
  LET key == requests[sub.about].key
      found == UNION {Known(s, key) : s \in Session}
  IN /\ pending' = pending \ found
     /\ requests' = [r \in DOMAIN requests |->
                       IF r \in found /\ Waiting(r)
                       THEN Receives(requests[r], sub.about) ELSE requests[r]]
     /\ byTurn' = {e \in byTurn : e[2] # key}

\* notify_exec_approval, notify_user_input: the root session first, then the teammates in
\* any order, until one of them knows the id.
Answered(sub) ==
  LET key == requests[sub.about].key
      Knowing == {s \in Session : Known(s, key) # {}}
  IN \E session \in IF "root" \in Knowing \/ Knowing = {} THEN {"root"} ELSE Knowing :
       LET found == Known(session, key)
       IN /\ pending' = pending \ found
          /\ requests' = [r \in DOMAIN requests |->
                            IF r \in found /\ Waiting(r)
                            THEN Receives(requests[r], sub.about) ELSE requests[r]]
          /\ byTurn' = IF session = "root" /\ found # {}
                       THEN {e \in byTurn : e[2] # key} ELSE byTurn

-----------------------------------------------------------------------------
(* The turn's future *)

\* Fault: begin_turn starts the turn anew each time.
BeginAgain(t) == active' = t /\ inputs' = <<>>

\* Session::begin_turn
BeginTurn(t) ==
  IF active = t THEN UNCHANGED <<active, inputs>> ELSE active' = t /\ inputs' = <<>>

\* process_turn comes to run_turn_with_id.
Poll ==
  /\ loop = "turn" /\ ~polled
  /\ polled' = TRUE
  /\ BeginTurn(turn)
  /\ UNCHANGED <<said, channel, inbox, queue, loop, turn, accepted, taken, tables, handled>>

\* take_pending_inputs, at the top of the loop that samples the model.
Take ==
  /\ loop = "turn" /\ polled /\ inputs # <<>>
  /\ taken' = taken \cup {inputs[i] : i \in DOMAIN inputs}
  /\ inputs' = <<>>
  /\ UNCHANGED <<said, channel, inbox, queue, loop, turn, polled, active, accepted, tables,
                 handled>>

\* Calls run side by side and wait for approvals, or one of them asks a question.
Ask ==
  /\ loop = "turn" /\ polled
  /\ Len(requests) < MaxRequests
  /\ \E key \in CallKeys("root") \cup QuestionKeys : AddRequest("root", turn, key)
  /\ UNCHANGED <<channel, inbox, queue, loop, turn, polled, activeTurn, said, handled>>

\* A turn of a teammate; it may not ask questions.
MateAsks(mate) ==
  /\ Len(requests) < MaxRequests
  /\ \E key \in CallKeys(mate) : AddRequest(mate, 0, key)
  /\ UNCHANGED <<channel, inbox, queue, loop, turn, polled, activeTurn, said, handled>>

\* The teammate's turn fails or is cut short; its session keeps what is pending.
MateDropped(mate) ==
  /\ \E r \in RequestsOf(mate) : Waiting(r)
  /\ requests' = [r \in DOMAIN requests |->
                    IF r \in RequestsOf(mate) /\ Waiting(r)
                    THEN [requests[r] EXCEPT !.state = "dropped"] ELSE requests[r]]
  /\ UNCHANGED <<channel, inbox, queue, loop, turn, polled, activeTurn, said, pending, byTurn,
                 handled>>

-----------------------------------------------------------------------------
(* The end of a turn *)

\* Fault: the end of a turn clears the requests of every session.
ClearEverything == pending' = {} /\ byTurn' = {}

\* clear_pending_approvals_for_turn, clear_pending_user_inputs_for_turn
ClearTurn ==
  LET keys == {e[2] : e \in {e \in byTurn : e[1] = turn}}
  IN /\ pending' = {r \in pending : requests[r].session # "root" \/ requests[r].key \notin keys}
     /\ byTurn' = {e \in byTurn : e[1] # turn}

\* Session::end_turn
EndTurn == active' = 0 /\ inputs' = <<>>

\* The future of the turn is gone, and with it whoever waits in it; end_turn follows.
LeaveTurn ==
  /\ ClearTurn
  /\ requests' = [r \in DOMAIN requests |->
                    IF r \in RequestsOf("root") /\ Waiting(r)
                    THEN [requests[r] EXCEPT !.state = "dropped"] ELSE requests[r]]
  /\ loop' = "between"
  /\ turn' = 0
  /\ polled' = FALSE
  /\ EndTurn
  /\ accepted' = {} /\ taken' = {}

\* The turn comes to its end when nobody waits for the user.
TurnReturns ==
  /\ loop = "turn" /\ polled
  /\ \A r \in RequestsOf("root") : ~Waiting(r)
  /\ LeaveTurn
  /\ UNCHANGED <<said, channel, inbox, queue, handled>>

\* One call fails for good and the others are dropped with it.
TurnFails ==
  /\ loop = "turn" /\ polled
  /\ \E r \in RequestsOf("root") : Waiting(r)
  /\ LeaveTurn
  /\ UNCHANGED <<said, channel, inbox, queue, handled>>

-----------------------------------------------------------------------------
(* submission_loop *)

\* Fault: what comes over the channel goes before what waits in the queue.
ChannelFirst(sub) ==
  IF inbox # <<>>
  THEN sub = Head(inbox) /\ inbox' = Tail(inbox) /\ UNCHANGED queue
  ELSE queue # <<>> /\ sub = Head(queue) /\ queue' = Tail(queue) /\ UNCHANGED inbox

NextSubmission(sub) ==
  IF queue # <<>>
  THEN sub = Head(queue) /\ queue' = Tail(queue) /\ UNCHANGED inbox
  ELSE inbox # <<>> /\ sub = Head(inbox) /\ inbox' = Tail(inbox) /\ UNCHANGED queue

StartTurn(sub) ==
  /\ loop' = "turn"
  /\ turn' = sub.n
  /\ polled' = FALSE
  /\ BeginTurn(sub.n)
  /\ UNCHANGED <<accepted, taken, tables>>

Between(sub) ==
  /\ loop = "between"
  /\ NextSubmission(sub)
  /\ handled' = IF sub.kind \in {"input", "empty", "other"} THEN sub.n ELSE handled
  /\ CASE sub.kind = "input" -> StartTurn(sub)
       [] sub.kind = "answer" -> Answered(sub) /\ UNCHANGED <<loop, turn, polled, activeTurn>>
       [] sub.kind = "shutdown" ->
            loop' = "ended" /\ UNCHANGED <<turn, polled, activeTurn, tables>>
       [] OTHER -> UNCHANGED <<loop, turn, polled, activeTurn, tables>>
  /\ UNCHANGED <<said, channel>>

\* Nobody can submit any more, and nothing is left.
LoopEnds ==
  /\ loop = "between" /\ closed /\ queue = <<>> /\ inbox = <<>>
  /\ loop' = "ended"
  /\ UNCHANGED <<said, channel, inbox, queue, turn, polled, activeTurn, tables, handled>>

-----------------------------------------------------------------------------
(* run_turn_with_interrupt *)

During(kinds) ==
  /\ loop = "turn"
  /\ inbox # <<>>
  /\ Head(inbox).kind \in kinds
  /\ inbox' = Tail(inbox)

AnswerDuring ==
  /\ During({"answer"})
  /\ Answered(Head(inbox))
  /\ UNCHANGED <<said, channel, queue, loop, turn, polled, activeTurn, handled>>

\* steer_input: an input for another turn is refused.
SteerDuring ==
  /\ During({"steer"})
  /\ IF active # 0 /\ Head(inbox).about \in {0, active}
     THEN /\ inputs' = Append(inputs, Head(inbox).n)
          /\ accepted' = accepted \cup {Head(inbox).n}
     ELSE UNCHANGED <<inputs, accepted>>
  /\ UNCHANGED <<said, channel, queue, loop, turn, polled, active, taken, tables, handled>>

\* An interrupt ends the turn, and so does a shutdown: the loop goes on after it.
StopDuring ==
  /\ During({"interrupt", "shutdown"})
  /\ LeaveTurn
  /\ UNCHANGED <<said, channel, queue, handled>>

\* Fault: what cannot be done during a turn is forgotten.
Ignore == UNCHANGED queue

Defer == queue' = Append(queue, Head(inbox))

DeferDuring ==
  /\ During({"input", "empty", "other"})
  /\ Defer
  /\ UNCHANGED <<said, channel, loop, turn, polled, activeTurn, tables, handled>>

\* The channel is closed and empty.
ClosedDuring ==
  /\ loop = "turn" /\ closed /\ inbox = <<>>
  /\ LeaveTurn
  /\ UNCHANGED <<said, channel, inbox, queue, handled>>

-----------------------------------------------------------------------------
LoopStep ==
  \/ \E sub \in ToSet(queue) \cup ToSet(inbox) : Between(sub)
  \/ LoopEnds
  \/ AnswerDuring
  \/ SteerDuring
  \/ StopDuring
  \/ DeferDuring
  \/ ClosedDuring

Next ==
  \/ \E s \in Sayable : Submit(s[1], s[2])
  \/ Close
  \/ Poll
  \/ Take
  \/ Ask
  \/ \E mate \in Mate : MateAsks(mate) \/ MateDropped(mate)
  \/ TurnReturns
  \/ TurnFails
  \/ LoopStep

Spec == Init /\ [][Next]_vars

\* The loop goes on, a future that is ready is polled, and a turn that waits for nobody
\* comes to its end.
Fairness == WF_vars(LoopStep) /\ WF_vars(Poll) /\ WF_vars(TurnReturns)
FairSpec == Spec /\ Fairness

-----------------------------------------------------------------------------
(* What the user relies on *)

TypeOK ==
  /\ sent \in 0 .. MaxSubmissions /\ closed \in BOOLEAN
  /\ inbox \in Seq(Submission) /\ queue \in Seq(Submission)
  /\ loop \in {"between", "turn", "ended"}
  /\ turn \in 0 .. MaxSubmissions /\ active \in {0, turn} /\ polled \in BOOLEAN
  /\ inputs \in Seq(1 .. MaxSubmissions)
  /\ requests \in Seq(Request) /\ said \subseteq DOMAIN requests
  /\ pending \subseteq DOMAIN requests
  /\ byTurn \subseteq (0 .. MaxSubmissions) \X RequestKey
  /\ accepted \subseteq 1 .. MaxSubmissions /\ taken \subseteq accepted
  /\ handled \in 0 .. MaxSubmissions

\* Pending is exactly what waits: a request that waits can be answered, what the root
\* session holds pending belongs to the turn that runs, and the two maps of its tables
\* agree.  No turn, however it ends, leaves a request behind that a later answer could
\* reach, or takes those of a teammate with it.
PendingIsWaiting ==
  /\ TypeOK
  /\ \A r \in DOMAIN requests : Waiting(r) => r \in pending
  /\ \A r \in pending \cap RequestsOf("root") :
       requests[r].turn = turn /\ <<turn, requests[r].key>> \in byTurn
  /\ \A e \in byTurn :
       \E r \in pending \cap RequestsOf("root") : e = <<requests[r].turn, requests[r].key>>

\* An answer settles one request at most, whatever turns end and begin between the
\* question and the answer, and it is the one the answer was given to, unless both are
\* calls with the same number.  Then the answer goes astray only if its own request waits
\* no longer, or waits with a teammate while another session has that number.
AnswersTheQuestion ==
  \A r \in DOMAIN requests : requests[r].state = "answered" =>
    LET asked == requests[r].answer
    IN /\ asked \in DOMAIN requests
       /\ \/ asked = r
          \/ /\ requests[asked].key = requests[r].key /\ requests[r].key[2] = "numbered"
             /\ Waiting(asked) => requests[asked].session \notin {"root", requests[r].session}
       /\ \A q \in DOMAIN requests :
            requests[q].state = "answered" /\ requests[q].answer = asked => q = r

\* Steering that was accepted for a turn is with the turn or waits for it, though the
\* turn is begun twice.
SteeringKept ==
  accepted = taken \cup ToSet(inputs)

\* What waits, in the queue or in the channel, to take effect between two turns.
Outstanding ==
  {s \in ToSet(queue) \cup ToSet(inbox) : s.kind \in {"input", "empty", "other"}}

\* Inputs and changes of the configuration take effect in the order in which they were
\* submitted, though some of them wait in the queue while others wait in the channel, and
\* none is passed over: what no longer waits was handled, before all that still does.
HandledInOrder ==
  [][/\ handled' >= handled
     /\ \A s \in Outstanding \ Outstanding' :
          handled' = s.n /\ \A t \in Outstanding' : s.n < t.n]_vars

\* An input that was submitted is handled in the end, unless the loop ends, or a turn
\* waits for an answer that never comes.
InputsHandled ==
  \/ <>[](loop = "turn" /\ \E r \in RequestsOf("root") : Waiting(r))
  \/ \A n \in 1 .. MaxSubmissions :
       (\E i \in DOMAIN inbox : inbox[i].n = n /\ inbox[i].kind = "input")
         ~> (handled >= n \/ loop = "ended")
=============================================================================

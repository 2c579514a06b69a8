---------------------------- MODULE TurnHistory ----------------------------
(***************************************************************************)
(* The conversation of one session: the recorded history, the prompt that *)
(* a turn sends to the model, and the compaction that replaces old         *)
(* messages by a summary (core/src/turn/{executor,sse_executor}.rs,        *)
(* core/src/compaction/mod.rs, core/src/session/mod.rs, core/src/cokra.rs).*)
(*                                                                         *)
(* A session runs one turn at a time, so a step is what happens between    *)
(* two points at which an interrupt can drop the turn.  Messages are       *)
(* numbered in order of recording; their text is a weight, the estimate of *)
(* its tokens.  The prefix of a prompt (instructions, environment, tools)  *)
(* never changes within a turn and is left out: prompt is what follows it. *)
(* Only user, assistant and tool messages are ever recorded, so the code   *)
(* that keeps system messages of the history apart has nothing to keep.    *)
(* Compaction is enabled, as it is by default.                             *)
(***************************************************************************)
EXTENDS Naturals, FiniteSets, SequencesExt

CONSTANTS
  Weights,             \* estimates of the tokens of a recorded message
  SummaryWeight,       \* the same of a summary
  Limits,              \* context windows of the models a session can switch to
  NoLimit,             \* a model whose context window is not known
  HistoryCap,          \* messages of a prompt for such a model
  PrefixTokens,        \* the estimate of a prompt's prefix
  ReserveTokens,       \* compaction.reserve_tokens
  KeepRecentTokens,    \* compaction.keep_recent_tokens
  MaxRetries,          \* max_retries of run_sampling_request
  MaxOverflowRetries,  \* its max_overflow_retries
  MaxCalls,            \* bound: tool calls of one response
  MaxMessages,         \* bound: messages recorded
  MaxSteering          \* bound: steering inputs that wait

ASSUME HistoryConstantsOK ==
  /\ Weights \subseteq Nat \ {0}
  /\ SummaryWeight \in Nat \ {0}
  /\ Limits \subseteq Nat
  /\ NoLimit \notin Nat
  /\ {HistoryCap, PrefixTokens, ReserveTokens, KeepRecentTokens, MaxRetries, MaxOverflowRetries,
      MaxCalls, MaxMessages, MaxSteering} \subseteq Nat

VARIABLES
  history,      \* session.history
  prompt,       \* messages of run_sse_interaction, without its prefix
  recorded,     \* number of messages ever recorded
  phase,        \* where the turn is
  due,          \* calls of the last response whose results are not recorded
  steering,     \* number of pending_inputs of the active turn
  retries,      \* retries of run_sampling_request
  overflows,    \* its overflow_retries
  limit,        \* context_window_limit of the turn configuration
  requests,     \* history: requests of the present sampling
  cut           \* history: responses whose turn ended before all results

vars == <<history, prompt, recorded, phase, due, steering, retries, overflows, limit,
          requests, cut>>

\* The points of a turn at which it waits: before it looks at steering inputs, while
\* it compacts, for the model, for the next result.
Phase == {"idle", "head", "compacting", "sampling", "calling"}
CallId == (1 .. MaxMessages) \X (1 .. MaxCalls)
Message ==
  [kind : {"user"}, id : 1 .. MaxMessages, weight : Weights]
    \cup [kind : {"assistant"}, id : 1 .. MaxMessages, weight : Weights, calls : 0 .. MaxCalls]
    \cup [kind : {"tool"}, id : 1 .. MaxMessages, weight : Weights, call : CallId]
    \cup [kind : {"summary"}, covers : SUBSET (1 .. MaxMessages), weight : {SummaryWeight}]

-----------------------------------------------------------------------------
(* Where a tail of the history may begin *)

\* suffix_tokens: the tokens of h[i] and of all behind it, counted one by one.
TokensFrom(h, i) == Cardinality(UNION {{k} \X (1 .. h[k].weight) : k \in i .. Len(h)})
Tokens(s) == TokensFrom(s, 1)
From(s, i) == SubSeq(s, i, Len(s))
Distance(a, b) == IF a >= b THEN a - b ELSE b - a

IsSummary(m) == m.kind = "summary"
Answers(m, a) == a.kind = "assistant" /\ m.call[1] = a.id /\ m.call[2] <= a.calls

\* Fault: any message may begin the tail.
ValidAnywhere(h, i) == i \in 1 .. Len(h) + 1

\* compute_valid_kept_boundaries: no result from i on answers a call before i.
ValidBoundary(h, i) ==
  /\ i = Len(h) + 1 \/ h[i].kind # "tool"
  /\ \A j \in i .. Len(h) :
       h[j].kind = "tool" => \E k \in i .. j - 1 : Answers(h[j], h[k])

\* find_safe_tail_start_index, with 0 for None: the boundary whose tail comes nearest
\* to keep, the longer tail if two are as near.
SafeTailStart(h, start, keep, allowStart) ==
  LET tail(i) == TokensFrom(h, i)
      least == IF allowStart THEN start ELSE start + 1
      valid == {i \in least .. Len(h) + 1 : ValidBoundary(h, i)}
      nearer(i, j) ==
        \/ Distance(tail(i), keep) < Distance(tail(j), keep)
        \/ Distance(tail(i), keep) = Distance(tail(j), keep) /\ tail(i) > tail(j)
  IN CASE start > Len(h) -> Len(h) + 1
       [] start <= Len(h) /\ tail(start) <= keep -> IF allowStart THEN start ELSE 0
       [] OTHER -> CHOOSE i \in valid : \A j \in valid \ {i} : nearer(i, j)

\* get_history_for_prompt, or get_history for a model without a known limit.
Window(h) ==
  IF limit = NoLimit
  THEN IF Len(h) <= HistoryCap THEN h ELSE From(h, Len(h) - HistoryCap + 1)
  ELSE IF limit = 0 \/ h = <<>> THEN <<>> ELSE From(h, SafeTailStart(h, 1, limit, TRUE))

-----------------------------------------------------------------------------
(* Compaction *)

Ids(s) == {s[i].id : i \in {j \in 1 .. Len(s) : ~IsSummary(s[j])}}
Summaries(h) == {i \in 1 .. Len(h) : IsSummary(h[i])}

\* Fault: the summary before is summarised like any message.
AfterNothing(h) == 1

\* boundary_start of prepare_compaction: what follows the last summary.
AfterSummary(h) ==
  IF Summaries(h) = {} THEN 1 ELSE (CHOOSE i \in Summaries(h) : \A j \in Summaries(h) : j <= i) + 1

\* first_kept_index of prepare_compaction, with 0 if there is nothing to compact.
FirstKept(h) ==
  IF AfterSummary(h) > Len(h) THEN 0
  ELSE SafeTailStart(h, AfterSummary(h), KeepRecentTokens, FALSE)

CanCompact(h) == FirstKept(h) > 0

\* apply_compaction: the summary carries on the one before it and is followed by the
\* messages that are kept, among which no summary is left to take out: they are behind
\* the last one.
Compacted(h) ==
  LET start == AfterSummary(h)
      previous == IF start = 1 THEN {} ELSE h[start - 1].covers
  IN <<[kind |-> "summary", weight |-> SummaryWeight,
        covers |-> previous \cup Ids(SubSeq(h, start, FirstKept(h) - 1))]>>
       \o From(h, FirstKept(h))

-----------------------------------------------------------------------------
Init ==
  /\ history = <<>>
  /\ prompt = <<>>
  /\ recorded = 0
  /\ phase = "idle"
  /\ due = <<>>
  /\ steering = 0
  /\ retries = 0
  /\ overflows = 0
  /\ limit \in Limits \cup {NoLimit}
  /\ requests = 0
  /\ cut = {}

\* One message goes to the history and, within a turn, to the prompt.
Record(m, before) ==
  /\ recorded < MaxMessages
  /\ recorded' = recorded + 1
  /\ history' = Append(history, m)
  /\ prompt' = Append(before, m)

User(w) == [kind |-> "user", id |-> recorded + 1, weight |-> w]

\* run_turn_with_id: the prompt is built from the history so far and the new message.
BeginTurn(w) ==
  /\ phase = "idle"
  /\ Record(User(w), Window(history))
  /\ phase' = "head"
  /\ UNCHANGED <<due, steering, retries, overflows, limit, requests, cut>>

\* The turn is over: end_turn forgets the steering inputs it did not take, and of a
\* turn that is dropped or fails while results are due some are never recorded.
EndTurn ==
  /\ phase' = "idle"
  /\ steering' = 0
  /\ due' = <<>>
  /\ prompt' = <<>>
  /\ retries' = 0
  /\ overflows' = 0
  /\ requests' = 0
  /\ cut' = cut \cup {due[i][1] : i \in 1 .. Len(due)}

\* steer_input of an active turn.
Steer ==
  /\ phase # "idle"
  /\ steering < MaxSteering
  /\ steering' = steering + 1
  /\ UNCHANGED <<history, prompt, recorded, phase, due, retries, overflows, limit, requests,
                 cut>>

\* The top of run_sse_interaction's loop: take_pending_inputs, and each is recorded.
TakeInputs(w) ==
  /\ phase = "head"
  /\ recorded + steering <= MaxMessages
  /\ LET items == [i \in 1 .. steering |-> [kind |-> "user", id |-> recorded + i, weight |-> w]]
     IN history' = history \o items /\ prompt' = prompt \o items
  /\ recorded' = recorded + steering
  /\ steering' = 0
  /\ phase' = "compacting"
  /\ UNCHANGED <<due, retries, overflows, limit, requests, cut>>

\* Fault: the turn goes on with the prompt it had.
ReplaceHistoryOnly == history' = Compacted(history) /\ prompt' = prompt

\* compact_messages once the model has summarised: the history is replaced and the
\* prompt is built from it again.
ReplaceHistory == history' = Compacted(history) /\ prompt' = Window(history')

StartSampling == phase' = "sampling" /\ retries' = 0 /\ overflows' = 0 /\ requests' = 1

\* maybe_run_auto_compact_for_messages: only near the limit, and if there is something
\* to summarise.
OverThreshold ==
  /\ limit # NoLimit /\ limit > ReserveTokens
  /\ PrefixTokens + Tokens(prompt) >= limit - ReserveTokens

AutoCompact ==
  /\ phase = "compacting"
  /\ IF OverThreshold /\ CanCompact(history)
     THEN ReplaceHistory
     ELSE UNCHANGED <<history, prompt>>
  /\ StartSampling
  /\ UNCHANGED <<recorded, due, steering, limit, cut>>

\* The request for the summary fails, and the turn with it.
AutoCompactFails ==
  /\ phase = "compacting"
  /\ OverThreshold /\ CanCompact(history)
  /\ EndTurn
  /\ UNCHANGED <<history, recorded, limit>>

-----------------------------------------------------------------------------
(* A request to the model and what comes of it *)

\* A response with n calls is recorded; the turn ends unless results are due.
Respond(n, w) ==
  LET message == [kind |-> "assistant", id |-> recorded + 1, weight |-> w, calls |-> n]
  IN /\ phase = "sampling"
     /\ recorded < MaxMessages
     /\ recorded' = recorded + 1
     /\ history' = Append(history, message)
     /\ IF n = 0
        THEN EndTurn
        ELSE /\ prompt' = Append(prompt, message)
             /\ phase' = "calling"
             /\ due' = [i \in 1 .. n |-> <<recorded + 1, i>>]
             /\ UNCHANGED <<steering, retries, overflows, requests, cut>>
     /\ UNCHANGED limit

\* Fault: a compaction starts the count of overflows again.
OverflowForgotten == overflows' = 0

OverflowCounted == overflows' = overflows + 1

\* A prompt that is too long is compacted and sent again, with fresh retries.
OverflowRetry ==
  /\ phase = "sampling"
  /\ overflows < MaxOverflowRetries
  /\ CanCompact(history)
  /\ ReplaceHistory
  /\ OverflowCounted
  /\ retries' = 0
  /\ requests' = requests + 1
  /\ UNCHANGED <<recorded, phase, due, steering, limit, cut>>

\* A broken stream is tried again with the same prompt.
StreamRetry ==
  /\ phase = "sampling"
  /\ retries < MaxRetries
  /\ retries' = retries + 1
  /\ requests' = requests + 1
  /\ UNCHANGED <<history, prompt, recorded, phase, due, steering, overflows, limit, cut>>

\* Any other error, or one of these once its retries are used up, ends the turn; so
\* does a failing compaction after an overflow.
SamplingFails ==
  /\ phase = "sampling"
  /\ EndTurn
  /\ UNCHANGED <<history, recorded, limit>>

-----------------------------------------------------------------------------
(* Tool calls run together; their results are recorded in the order of the calls *)

\* Fault: a tool that fails leaves no result.
RecordSuccess(w) ==
  /\ phase = "calling"
  /\ due' = Tail(due)
  /\ phase' = IF Len(due) = 1 THEN "head" ELSE "calling"
  /\ UNCHANGED <<history, prompt, recorded, steering, retries, overflows, limit, requests, cut>>

RecordResult(w) ==
  /\ phase = "calling"
  /\ Record([kind |-> "tool", id |-> recorded + 1, weight |-> w, call |-> Head(due)], prompt)
  /\ due' = Tail(due)
  /\ phase' = IF Len(due) = 1 THEN "head" ELSE "calling"
  /\ UNCHANGED <<steering, retries, overflows, limit, requests, cut>>

\* An error that is not of the tool itself (what failing tools report is a result) ends
\* the turn; the calls behind it are dropped.
FatalTool ==
  /\ phase = "calling"
  /\ EndTurn
  /\ UNCHANGED <<history, recorded, limit>>

\* The user interrupts, and the future of the turn is dropped where it waits.
Interrupt ==
  /\ phase # "idle"
  /\ EndTurn
  /\ UNCHANGED <<history, recorded, limit>>

-----------------------------------------------------------------------------
(* Between turns *)

\* run_manual_compaction: a failed request changes nothing.
ManualCompact ==
  /\ phase = "idle"
  /\ CanCompact(history)
  /\ history' = Compacted(history)
  /\ UNCHANGED <<prompt, recorded, phase, due, steering, retries, overflows, limit, requests,
                 cut>>

\* maybe_compact_before_model_switch: a smaller window that the history would fill is
\* met with a compaction, which may fail.
SwitchModel(l) ==
  LET compacts ==
        /\ NoLimit \notin {l, limit} /\ limit > l /\ l > ReserveTokens
        /\ Tokens(history) >= l - ReserveTokens
        /\ CanCompact(history)
  IN /\ phase = "idle"
     /\ l # limit
     /\ limit' = l
     /\ history' = history \/ (compacts /\ history' = Compacted(history))
     /\ UNCHANGED <<prompt, recorded, phase, due, steering, retries, overflows, requests, cut>>

Next ==
  \/ \E w \in Weights : BeginTurn(w)
  \/ Steer
  \/ \E w \in Weights : TakeInputs(w)
  \/ AutoCompact
  \/ AutoCompactFails
  \/ \E n \in 0 .. MaxCalls, w \in Weights : Respond(n, w)
  \/ OverflowRetry
  \/ StreamRetry
  \/ SamplingFails
  \/ \E w \in Weights : RecordResult(w)
  \/ FatalTool
  \/ Interrupt
  \/ ManualCompact
  \/ \E l \in Limits \cup {NoLimit} : SwitchModel(l)

Spec == Init /\ [][Next]_vars

-----------------------------------------------------------------------------
(* What makes the conversation correct *)

TypeOK ==
  /\ history \in Seq(Message)
  /\ prompt \in Seq(Message)
  /\ recorded \in 0 .. MaxMessages
  /\ phase \in Phase
  /\ due \in Seq(CallId)
  /\ steering \in 0 .. MaxSteering
  /\ retries \in 0 .. MaxRetries
  /\ overflows \in 0 .. MaxOverflowRetries
  /\ limit \in Limits \cup {NoLimit}
  /\ requests \in Nat
  /\ cut \subseteq 1 .. MaxMessages

\* Every message that was recorded is in the history or in the summary at its head, in
\* order and once: no compaction, whatever asks for it and whatever turn was cut short
\* before, loses a message or leaves it in both.
NothingLost ==
  LET covered == UNION {history[i].covers : i \in Summaries(history)}
      n == Cardinality(Summaries(history))
  IN /\ TypeOK
     /\ Summaries(history) \subseteq {1}
     /\ covered = 1 .. Cardinality(covered)
     /\ \A i \in n + 1 .. Len(history) : history[i].id = Cardinality(covered) + i - n
     /\ recorded = Cardinality(covered) + Len(history) - n

\* A result in a conversation stands behind the response that asked for it, in the
\* order of the calls and with nothing but results between.
ResultsFollowCalls(s) ==
  \A j \in 1 .. Len(s) :
    s[j].kind = "tool" =>
      LET k == j - s[j].call[2]
      IN /\ k >= 1
         /\ Answers(s[j], s[k])
         /\ \A i \in k + 1 .. j : s[i].kind = "tool"

\* Neither the history nor a prompt that was cut to a known limit holds a result
\* without its call, which model providers reject: compaction and the choice of
\* the window find their boundaries around results.
NoOrphanResults ==
  /\ ResultsFollowCalls(history)
  /\ limit # NoLimit => ResultsFollowCalls(prompt)

\* What a turn shows the model is the end of what the session has recorded, also
\* after the turn compacted its own history: the two are kept apart in the code and
\* never diverge.
PromptIsRecorded == IsSuffix(prompt, history)

\* A call in the history without a result belongs to the turn that is under way or to
\* one that was cut short; a turn that goes its way answers every call.
CallsAnswered ==
  \A k \in 1 .. Len(history) :
    history[k].kind = "assistant" =>
      \/ history[k].id \in cut
      \/ \E i \in 1 .. Len(due) : due[i][1] = history[k].id
      \/ \A c \in 1 .. history[k].calls :
           k + c <= Len(history) /\ history[k + c].kind = "tool"
             /\ history[k + c].call = <<history[k].id, c>>

\* One sampling sends a bounded number of requests, though every overflow gives the
\* broken streams their retries back.
SamplingGivesUp == requests <= (MaxRetries + 1) * (MaxOverflowRetries + 1)

\* A steering input is injected "into the currently active turn": a turn that comes to
\* its end by a response without calls has taken every input it accepted.
SteeringIsTaken ==
  [][phase = "sampling" /\ phase' = "idle" /\ recorded' > recorded => steering = 0]_vars
=============================================================================

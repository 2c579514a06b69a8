----------------------------- MODULE ToolCalls -----------------------------
(***************************************************************************)
(* The tool calls of the turns that are under way: the gate in which calls *)
(* of one response wait for each other (core/src/tools/parallel.rs), the   *)
(* approval, the attempts in and outside the sandbox                       *)
(* (core/src/tools/{router,orchestrator,sandboxing}.rs,                    *)
(* core/src/exec_policy.rs) and the approval of hosts (NetworkApproval).   *)
(*                                                                         *)
(* Every turn has a gate of its own; the approvals for good and the        *)
(* network service are shared by all.  What a tool does is a result.  The  *)
(* checks that depend on the team (leases of files, approval of a plan)    *)
(* are choices here; TaskBoard has the leases.                             *)
(***************************************************************************)
EXTENDS NetworkApproval

CONSTANTS
  Turn,       \* turns under way, of one agent each
  TurnOf,     \* the turn that makes a call
  ToolOf,     \* what the router knows of the tool of a call
  KeyOf,      \* approval_keys of a call: tool and arguments
  Policies,   \* approval policies that a session may have
  Sandboxes,  \* and its sandboxes
  MayBeDenied \* bound: calls whose failure can read like a denial by the sandbox

\* spec.permissions and flags, is_mutating of the handler, and of a command its class.
Tool ==
  [needsApproval : BOOLEAN, network : BOOLEAN, mutates : BOOLEAN, parallel : BOOLEAN,
   handlerMutates : BOOLEAN, escalated : BOOLEAN,
   command : {"none", "safe", "dangerous", "patch", "other"}]

AskForApproval == {"never", "onFailure", "onRequest", "unlessTrusted"}

ASSUME ToolConstantsOK ==
  /\ TurnOf \in [Call -> Turn]
  /\ ToolOf \in [Call -> Tool]
  /\ Policies \subseteq AskForApproval
  /\ Sandboxes \subseteq {"full", "external", "restricted"}
  /\ MayBeDenied \subseteq Call

\* The specs of shell and unified_exec declare that they mutate.
ASSUME CommandsMutate == \A c \in Call : ToolOf[c].command # "none" => ToolOf[c].mutates

VARIABLES
  policy,      \* approval_policy of the turns
  sandbox,     \* sandbox_policy of the turns
  line,        \* the queue of a turn's gate, a fair RwLock
  holding,     \* calls that hold their gate
  always,      \* approval_store: keys approved for good
  attempt,     \* number of the attempt a call is in
  result,      \* what the attempt a call is in came to
  cut,         \* turns that were interrupted
  consented    \* history: calls the user approved

toolVars == <<policy, sandbox, line, holding, always, attempt, result, cut, consented>>
vars == <<at, networkVars, toolVars>>
settings == <<policy, sandbox>>
gate == <<line, holding>>

\* Inside the gate and before the end.
DispatchPlace ==
  {"ownership", "approval", "prompt", "begin", "run", "execute", "finish", "retryPrompt"}
Place == {"called", "line", "done", "dropped"} \cup DispatchPlace \cup NetworkPlace

Init ==
  /\ NetworkInit
  /\ at = [c \in Call |-> "called"]
  /\ policy \in Policies
  /\ sandbox \in Sandboxes
  /\ line = [t \in Turn |-> <<>>]
  /\ holding = {}
  /\ always = {}
  /\ attempt = [c \in Call |-> 0]
  /\ result = [c \in Call |-> "none"]
  /\ cut = {}
  /\ consented = {}

-----------------------------------------------------------------------------
(* What is decided of a call without a state *)

\* Fault: every call takes the lock for reading.
AlwaysParallel(c) == TRUE

\* tool_supports_parallel
SupportsParallel(c) ==
  ToolOf[c].parallel /\ ~ToolOf[c].mutates /\ ~ToolOf[c].handlerMutates

\* is_mutating_call
Mutating(c) ==
  \/ ToolOf[c].mutates \/ ToolOf[c].handlerMutates
  \/ ToolOf[c].command \in {"dangerous", "patch", "other"}

\* eval_exec_approval; apply_patch may not be run as a command ("patch").
CommandRequirement(c) ==
  LET tool == ToolOf[c]
      forbidden == \/ tool.command = "patch"
                   \/ tool.escalated /\ policy # "onRequest"
                   \/ tool.command = "dangerous" /\ policy = "never"
      asked == \/ tool.command = "dangerous"
               \/ /\ tool.command # "safe"
                  /\ \/ policy = "unlessTrusted"
                     \/ policy = "onRequest" /\ sandbox = "restricted" /\ tool.escalated
  IN IF forbidden THEN "forbidden" ELSE IF asked THEN "needsApproval" ELSE "skip"

\* exec_approval_requirement of the router's runtime.
Requirement(c) ==
  CASE ~ToolOf[c].needsApproval -> "skip"
    [] ToolOf[c].needsApproval /\ ToolOf[c].command # "none" -> CommandRequirement(c)
    [] OTHER ->
         IF policy = "never" THEN "forbidden"
         ELSE IF policy = "onFailure" THEN "skip" ELSE "needsApproval"

\* select_initial_sandbox for SandboxablePreference::Auto.
FirstAttemptSandboxed == sandbox # "full"

\* wants_no_sandbox_approval; the reason of a denial is never the network here.
MayRetry == policy \notin {"never", "onRequest"}

-----------------------------------------------------------------------------
(* The gate of a turn *)

\* A call of a response is polled and takes its place in the queue of the lock.
EnterLine(c) ==
  /\ At(c, "called")
  /\ line' = [line EXCEPT ![TurnOf[c]] = Append(@, c)]
  /\ Goto(c, "line")
  /\ UNCHANGED <<networkVars, settings, holding, always, attempt, result, cut, consented>>

GateHolders(t) == {c \in holding : TurnOf[c] = t}

\* The lock is fair: a reader waits behind a writer that waits.
Acquire(c) ==
  /\ At(c, "line")
  /\ line[TurnOf[c]] # <<>> /\ Head(line[TurnOf[c]]) = c
  /\ \A d \in GateHolders(TurnOf[c]) : SupportsParallel(c) /\ SupportsParallel(d)
  /\ line' = [line EXCEPT ![TurnOf[c]] = Tail(@)]
  /\ holding' = holding \cup {c}
  /\ Goto(c, "ownership")
  /\ UNCHANGED <<networkVars, settings, always, attempt, result, cut, consented>>

\* The call returns, well or not, and the guard is dropped.
Finished(c) ==
  /\ Goto(c, "done")
  /\ result' = [result EXCEPT ![c] = "none"]
  /\ holding' = holding \ {c}
  /\ UNCHANGED line

-----------------------------------------------------------------------------
(* dispatch_tool_call and ToolOrchestrator::run *)

\* validate_call may refuse any call, and enforce_ownership_lock_gate one that changes files.
CheckOwnership(c) ==
  /\ At(c, "ownership")
  /\ \/ Goto(c, "approval") /\ UNCHANGED <<gate, result>>
     \/ Finished(c)
  /\ UNCHANGED <<networkVars, settings, always, attempt, cut, consented>>

\* The approval phase: a key that was approved for good is not asked about.
DecideApproval(c) ==
  /\ At(c, "approval")
  /\ CASE Requirement(c) = "forbidden" -> Finished(c)
       [] Requirement(c) = "needsApproval" /\ KeyOf[c] \notin always ->
            Goto(c, "prompt") /\ UNCHANGED <<gate, result>>
       [] OTHER -> Goto(c, "begin") /\ UNCHANGED <<gate, result>>
  /\ UNCHANGED <<networkVars, settings, always, attempt, cut, consented>>

\* Fault: the call goes on whatever the user answered.
AnswerAnything(c, d) ==
  /\ At(c, "prompt")
  /\ Goto(c, "begin")
  /\ always' = IF d = "session" THEN always \cup {KeyOf[c]} ELSE always
  /\ consented' = IF d = "deny" THEN consented ELSE consented \cup {c}
  /\ UNCHANGED <<networkVars, settings, gate, attempt, result, cut>>

Answer(c, d) ==
  /\ At(c, "prompt")
  /\ IF d = "deny"
     THEN Finished(c) /\ UNCHANGED <<always, consented>>
     ELSE /\ Goto(c, "begin")
          /\ always' = IF d = "session" THEN always \cup {KeyOf[c]} ELSE always
          /\ consented' = consented \cup {c}
          /\ UNCHANGED <<gate, result>>
  /\ UNCHANGED <<networkVars, settings, attempt, cut>>

\* run_attempt, begin_network_approval: a network tool gets an attempt with an outcome.
BeginAttempt(c) ==
  /\ At(c, "begin")
  /\ attempt' = [attempt EXCEPT ![c] = @ + 1]
  /\ attempts' = IF ToolOf[c].network /\ Managed
                 THEN [attempts EXCEPT ![c] = "open"] ELSE attempts
  /\ entry' = [entry EXCEPT ![c] = 0]
  /\ Goto(c, "run")
  /\ UNCHANGED <<pending, decisions, waiting, sessionHosts, verdict, given, settings, gate,
                 always, result, cut, consented>>

EndRun(c, r) == Goto(c, "finish") /\ result' = [result EXCEPT ![c] = r]

\* The gates of the runtime's run: plan approval, and ownership once more.
CheckAgain(c) ==
  /\ At(c, "run")
  /\ \/ /\ Goto(c, IF ToolOf[c].network THEN "checkPolicy" ELSE "execute")
        /\ UNCHANGED result
     \/ Mutating(c) /\ EndRun(c, "returned")
  /\ UNCHANGED <<networkVars, settings, gate, always, attempt, cut, consented>>

Authorize(c) ==
  /\ Authorizing(c, policy # "never")
  /\ UNCHANGED toolVars

AskAboutHost(c, d) == AnswerHost(c, d) /\ UNCHANGED toolVars

\* A handler whose host was refused answers the model with the reason.
UseVerdict(c) ==
  /\ At(c, "authorized")
  /\ IF verdict[c] = "ok" THEN Goto(c, "execute") /\ UNCHANGED result ELSE EndRun(c, "returned")
  /\ verdict' = [verdict EXCEPT ![c] = "none"]
  /\ UNCHANGED <<attempts, pending, decisions, entry, waiting, sessionHosts, given, settings,
                 gate, always, attempt, cut, consented>>

CanBeDenied(c) == attempt[c] = 1 /\ FirstAttemptSandboxed /\ c \in MayBeDenied

\* The handler or the command runs; only a sandboxed attempt can fail for the sandbox.
Execute(c) ==
  /\ At(c, "execute")
  /\ \E r \in {"returned"} \cup (IF CanBeDenied(c) THEN {"sandboxDenied"} ELSE {}) :
       EndRun(c, r)
  /\ UNCHANGED <<networkVars, settings, gate, always, attempt, cut, consented>>

\* An approval given before holds for the retry; a key approved for good does not count.
Retry(c) ==
  Goto(c, IF Requirement(c) = "needsApproval" THEN "begin" ELSE "retryPrompt")

\* finish_immediate_network_approval, then what becomes of the result.
FinishAttempt(c) ==
  LET refused == attempts[c] \in {"deniedByUser", "deniedByPolicy"}
  IN /\ At(c, "finish")
     /\ attempts' = [attempts EXCEPT ![c] = "none"]
     /\ IF ~refused /\ result[c] = "sandboxDenied" /\ MayRetry
        THEN Retry(c) /\ result' = [result EXCEPT ![c] = "none"] /\ UNCHANGED gate
        ELSE Finished(c)
     /\ UNCHANGED <<pending, decisions, entry, waiting, sessionHosts, verdict, given, settings,
                    always, attempt, cut, consented>>

\* The question whether to run without the sandbox; its answer is not remembered.
AnswerRetry(c, d) ==
  /\ At(c, "retryPrompt")
  /\ IF d = "deny"
     THEN Finished(c) /\ UNCHANGED consented
     ELSE /\ Goto(c, "begin") /\ consented' = consented \cup {c}
          /\ UNCHANGED <<gate, result>>
  /\ UNCHANGED <<networkVars, settings, always, attempt, cut>>

-----------------------------------------------------------------------------
Live(c) == at[c] \notin {"done", "dropped"}

\* A turn is dropped with its calls, at whatever they wait for.  Locks and futures go with
\* them; an attempt that is registered and an entry that is pending stay.
Interrupt(t) ==
  LET dropped == {c \in Call : TurnOf[c] = t /\ Live(c)}
  IN /\ dropped # {}
     /\ cut' = cut \cup {t}
     /\ at' = [c \in Call |-> IF c \in dropped THEN "dropped" ELSE at[c]]
     /\ line' = [line EXCEPT ![t] = <<>>]
     /\ holding' = holding \ dropped
     /\ listening' = listening \ dropped
     /\ UNCHANGED <<attempts, pending, decisions, entry, notified, sessionHosts, verdict, given,
                    settings, always, attempt, result, consented>>

UserAnswers(c) == \E d \in Decision : Answer(c, d) \/ AnswerRetry(c, d) \/ AskAboutHost(c, d)

CallStep(c) ==
  \/ EnterLine(c)
  \/ Acquire(c)
  \/ CheckOwnership(c)
  \/ DecideApproval(c)
  \/ BeginAttempt(c)
  \/ CheckAgain(c)
  \/ Authorize(c)
  \/ UseVerdict(c)
  \/ Execute(c)
  \/ FinishAttempt(c)

Next ==
  \/ \E c \in Call : CallStep(c) \/ UserAnswers(c)
  \/ \E t \in Turn : Interrupt(t)

Spec == Init /\ [][Next]_vars

\* A turn polls its calls until they return, a tool comes to an end, and the user answers
\* what is asked.  Nobody has to interrupt.
Fairness == \A c \in Call : WF_vars(CallStep(c)) /\ WF_vars(UserAnswers(c))
FairSpec == Spec /\ Fairness

-----------------------------------------------------------------------------
(* What users and turns rely on *)

TypeOK ==
  /\ NetworkTypeOK
  /\ at \in [Call -> Place]
  /\ policy \in Policies /\ sandbox \in Sandboxes
  /\ line \in [Turn -> Seq(Call)]
  /\ holding \subseteq Call
  /\ always \subseteq {KeyOf[c] : c \in Call}
  /\ attempt \in [Call -> 0 .. 2]
  /\ result \in [Call -> {"none", "returned", "sandboxDenied"}]
  /\ cut \subseteq Turn
  /\ consented \subseteq Call

\* A call that may change files is alone in its turn from its first check to its result,
\* whatever its spec declares: no other call of the turn runs between the look at the
\* leases and the change.
ChangesAlone ==
  /\ TypeOK
  /\ \A c, d \in holding : c # d /\ TurnOf[c] = TurnOf[d] => ~Mutating(c) /\ ~Mutating(d)

\* What needs an approval runs only after the user gave it, for this call or for good;
\* and nothing runs a second time, outside the sandbox, without one.
NothingRunsUnasked ==
  \A c \in Call :
    At(c, "execute") /\ (Requirement(c) = "needsApproval" \/ attempt[c] = 2) =>
      c \in consented \/ KeyOf[c] \in always

\* The host's question is pending and nobody asks it or carries out its answer: its owner
\* was dropped.
OwnerDropped(h) ==
  pending[h] # 0 /\ \A c \in Call : HostOf[c] = h => at[c] \notin OwnerPlace

\* Nobody waits for what has passed.  A call that sleeps without a notification waits for
\* the question that is still pending, and its owner, unless it was dropped, has yet to
\* notify.  A call before the gate is in its line, among calls that wait as it does, and
\* the gate is held by calls that are on their way to a result: no refusal, error or
\* interrupt leaves a guard or a place behind.
NobodyWaitsInVain ==
  /\ \A c \in Call :
       At(c, "sleep") /\ c \notin notified =>
         /\ pending[HostOf[c]] = entry[c]
         /\ \/ OwnerDropped(HostOf[c])
            \/ \E d \in Call : at[d] \in OwnerPlace \ {"clearPending"} /\ entry[d] = entry[c]
  /\ \A c \in Call : At(c, "line") => \E i \in DOMAIN line[TurnOf[c]] : line[TurnOf[c]][i] = c
  /\ \A t \in Turn : \A i \in DOMAIN line[t] : At(line[t][i], "line") /\ TurnOf[line[t][i]] = t
  /\ \A c \in holding : at[c] \in DispatchPlace \cup NetworkPlace

\* Every call comes to its end once the user answers, unless its turn is dropped: no lost
\* notification leaves a waiter asleep, and no order of readers and writers blocks the
\* gate.  The one exception is what the code leaves behind: the entry of an owner that was
\* dropped is never removed, and those who wait for it wait for ever.
CallsEnd ==
  \A c \in Call :
    at[c] = "called" ~> \/ at[c] \in {"done", "dropped"}
                        \/ \E d \in Call : TurnOf[d] = TurnOf[c] /\ OwnerDropped(HostOf[d])
=============================================================================

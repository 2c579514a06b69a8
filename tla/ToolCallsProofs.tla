--------------------------- MODULE ToolCallsProofs ---------------------------
(***************************************************************************)
(* What holds of the tool calls for any number of turns, calls and hosts,  *)
(* whatever their tools are and whatever the user answers.                 *)
(*                                                                         *)
(* The steps outside of the network service change little of what its      *)
(* invariants speak of: Outside says what, and is proved once for all of   *)
(* them.  The invariants of the service are then proved step by step:      *)
(* Owners, who owns a pending entry; Settled, what its answer is; and      *)
(* Remembered, what the session's sets hold while an answer is carried out.*)
(***************************************************************************)
EXTENDS ToolCalls, SequenceTheorems, TLAPS

\* Only a failure in the first attempt leads to a second.
Attempts ==
  \A c \in Call :
    /\ at[c] \in {"called", "line", "ownership", "approval", "prompt"} => attempt[c] = 0
    /\ at[c] \in {"begin", "retryPrompt"} => attempt[c] <= 1
    /\ result[c] = "sandboxDenied" => at[c] \in {"finish", "dropped"} /\ attempt[c] = 1

\* A call that asks owns the pending entry of its host, and no entry is that of two hosts.
Owners ==
  /\ \A c \in Call : at[c] \in OwnerPlace => entry[c] # 0 /\ pending[HostOf[c]] = entry[c]
  /\ \A g, h \in Host : pending[g] = pending[h] /\ pending[g] # 0 => g = h

\* A decision that is made is the user's answer, and a call knows how far its own is.
Settled ==
  /\ \A e \in 1 .. Len(decisions) : decisions[e] # "open" => decisions[e] = given[e]
  /\ \A c \in Call :
       /\ at[c] \in {"run", "checkPolicy", "checkDenied", "checkApproved", "getPending"}
            => entry[c] = 0
       /\ at[c] = "ask" => given[entry[c]] = "open"
       /\ at[c] \in {"forget", "remember"} => given[entry[c]] \in {"session", "deny"}
       /\ at[c] \in {"decide", "notify", "clearPending"} => given[entry[c]] # "open"
       /\ at[c] \in WaiterPlace => entry[c] # 0

\* The session's sets agree with the last decision about a host.
Agrees(h) == (h \in approved <=> lastRule[h] = "session") /\ (h \in denied <=> lastRule[h] = "deny")

\* While an answer is carried out, the sets are ready for it or have it.
Remembered ==
  \A c \in Call :
    /\ at[c] \in OwnerPlace \ {"remember"} => Agrees(HostOf[c])
    /\ at[c] = "remember" /\ given[entry[c]] = "session" => HostOf[c] \notin denied
    /\ at[c] = "remember" /\ given[entry[c]] = "deny" => HostOf[c] \notin approved

NetworkInv == Owners /\ OneOwner /\ Settled /\ VerdictIsAnswer /\ Remembered /\ SessionRemembers

USE DEF At, Goto

-----------------------------------------------------------------------------
(* Types *)

\* The places, by name.
LEMMA Places ==
  Place = {"called", "line", "done", "dropped", "ownership", "approval", "prompt", "begin",
           "run", "execute", "finish", "retryPrompt", "checkPolicy", "checkDenied",
           "checkApproved", "getPending", "authorized", "ask", "forget", "remember", "decide",
           "notify", "clearPending", "listen", "look", "sleep"}
  BY DEF Place, DispatchPlace, NetworkPlace, OwnerPlace, WaiterPlace

AnswerOrOpen == Decision \cup {"open"}

\* What appending to a list of answers does.
LEMMA Appended ==
  ASSUME NEW s \in Seq(AnswerOrOpen)
  PROVE  /\ Append(s, "open") \in Seq(AnswerOrOpen)
         /\ Len(Append(s, "open")) = Len(s) + 1
         /\ \A i \in 1 .. Len(s) : Append(s, "open")[i] = s[i]
         /\ Append(s, "open")[Len(s) + 1] = "open"
  BY AppendProperties DEF AnswerOrOpen

\* What setting one answer does.
LEMMA Replaced ==
  ASSUME NEW s \in Seq(AnswerOrOpen), NEW i \in 1 .. Len(s), NEW v \in AnswerOrOpen
  PROVE  /\ [s EXCEPT ![i] = v] \in Seq(AnswerOrOpen)
         /\ Len([s EXCEPT ![i] = v]) = Len(s)
         /\ \A j \in 1 .. Len(s) :
              [s EXCEPT ![i] = v][j] = IF j = i THEN v ELSE s[j]
  BY ExceptSeq

\* An owner has an entry.
LEMMA OwnerHasEntry ==
  ASSUME TypeOK, Owners, NEW c \in Call, at[c] \in OwnerPlace
  PROVE  entry[c] \in 1 .. Len(decisions) /\ entry[c] \in 1 .. Len(given)
  BY DEF TypeOK, NetworkTypeOK, Owners

\* The service keeps its types.
LEMMA NetworkTypes ==
  ASSUME TypeOK, Owners, Settled, NEW c \in Call, NEW d \in Decision,
         AnswerHost(c, d) \/ \E prompts \in BOOLEAN : Authorizing(c, prompts)
  PROVE  NetworkTypeOK' /\ at' \in [Call -> Place]
  <1>1. CASE AnswerHost(c, d)
    <2>1. given' \in Seq(AnswerOrOpen) /\ Len(given') = Len(given)
      BY <1>1, OwnerHasEntry, Replaced
         DEF AnswerHost, OwnerPlace, TypeOK, NetworkTypeOK, AnswerOrOpen
    <2>2. QED
      BY <1>1, <2>1, Places
         DEF AnswerHost, TypeOK, NetworkTypeOK, AnswerOrOpen, waiting, sessionHosts
  <1>2. CASE Decide(c)
    <2>1. decisions' \in Seq(AnswerOrOpen) /\ Len(decisions') = Len(decisions)
      <3>1. given[entry[c]] \in AnswerOrOpen
        BY <1>2, OwnerHasEntry DEF Decide, OwnerPlace, TypeOK, NetworkTypeOK, AnswerOrOpen
      <3>2. QED
        BY <1>2, <3>1, OwnerHasEntry, Replaced
           DEF Decide, OwnerPlace, TypeOK, NetworkTypeOK, AnswerOrOpen
    <2>2. QED
      BY <1>2, <2>1, Places DEF Decide, TypeOK, NetworkTypeOK, AnswerOrOpen, waiting, sessionHosts
  <1>3. CASE GetPending(c)
    <2>0. "ask" \in Place /\ "listen" \in Place /\ HostOf[c] \in Host
      BY Places, NetworkConstantsOK DEF NetworkConstantsOK
    <2>1. /\ at \in [Call -> Place] /\ entry \in [Call -> 0 .. Len(decisions)]
          /\ pending \in [Host -> 0 .. Len(decisions)] /\ Len(decisions) \in Nat
          /\ decisions \in Seq(AnswerOrOpen) /\ given \in Seq(AnswerOrOpen)
          /\ Len(given) = Len(decisions)
      BY DEF TypeOK, NetworkTypeOK, AnswerOrOpen
    <2>2. CASE pending[HostOf[c]] # 0
      <3>1. /\ at' = [at EXCEPT ![c] = "listen"]
            /\ entry' = [entry EXCEPT ![c] = pending[HostOf[c]]]
            /\ pending' = pending /\ decisions' = decisions /\ given' = given
        BY <1>3, <2>2 DEF GetPending
      <3>2. at' \in [Call -> Place] /\ entry' \in [Call -> 0 .. Len(decisions)]
        BY <2>0, <2>1, <3>1
      <3>3. QED
        BY <1>3, <3>1, <3>2 DEF GetPending, TypeOK, NetworkTypeOK, waiting, sessionHosts
    <2>3. CASE pending[HostOf[c]] = 0
      <3>1. /\ at' = [at EXCEPT ![c] = "ask"]
            /\ entry' = [entry EXCEPT ![c] = Len(decisions) + 1]
            /\ pending' = [pending EXCEPT ![HostOf[c]] = Len(decisions) + 1]
            /\ decisions' = Append(decisions, "open") /\ given' = Append(given, "open")
        BY <1>3, <2>3 DEF GetPending
      <3>2. /\ decisions' \in Seq(AnswerOrOpen) /\ given' \in Seq(AnswerOrOpen)
            /\ Len(decisions') = Len(decisions) + 1 /\ Len(given') = Len(decisions')
        BY <2>1, <3>1, Appended
      <3>3. /\ at' \in [Call -> Place]
            /\ entry' \in [Call -> 0 .. Len(decisions')]
            /\ pending' \in [Host -> 0 .. Len(decisions')]
        BY <2>0, <2>1, <3>1, <3>2
      <3>4. QED
        BY <1>3, <3>2, <3>3
           DEF GetPending, TypeOK, NetworkTypeOK, AnswerOrOpen, waiting, sessionHosts
    <2>4. QED
      BY <2>2, <2>3
  <1>4. CASE Remember(c)
    <2>0. "decide" \in Place /\ HostOf[c] \in Host
      BY Places, NetworkConstantsOK DEF NetworkConstantsOK
    <2>1. given[entry[c]] \in {"session", "deny"}
      BY <1>4 DEF Remember, Settled
    <2>2. /\ at' = [at EXCEPT ![c] = "decide"]
          /\ lastRule' = [lastRule EXCEPT ![HostOf[c]] = given[entry[c]]]
      BY <1>4 DEF Remember
    <2>5. at' \in [Call -> Place] /\ lastRule' \in [Host -> {"none", "session", "deny"}]
      BY <2>0, <2>1, <2>2 DEF TypeOK, NetworkTypeOK
    <2>3. attempts' \in [Call -> Outcome]
      <3>1. attempts' = attempts \/ attempts' = [attempts EXCEPT ![c] = "deniedByUser"]
        BY <1>4 DEF Remember, WithOutcome
      <3>2. QED
        BY <3>1 DEF TypeOK, NetworkTypeOK, Outcome
    <2>6. approved' \subseteq Host /\ denied' \subseteq Host
      <3>1. /\ approved' = approved \/ approved' = approved \cup {HostOf[c]}
            /\ denied' = denied \/ denied' = denied \cup {HostOf[c]}
        BY <1>4 DEF Remember
      <3>2. QED
        BY <2>0, <3>1 DEF TypeOK, NetworkTypeOK
    <2>4. QED
      BY <1>4, <2>3, <2>5, <2>6 DEF Remember, TypeOK, NetworkTypeOK, waiting
  <1>5. CASE CheckPolicy(c) \/ CheckDenied(c) \/ \E prompts \in BOOLEAN : CheckApproved(c, prompts)
    <2>1. /\ \/ at' = [at EXCEPT ![c] = "authorized"]
             \/ at' = [at EXCEPT ![c] = "checkDenied"]
             \/ at' = [at EXCEPT ![c] = "checkApproved"]
             \/ at' = [at EXCEPT ![c] = "getPending"]
          /\ \/ attempts' = attempts
             \/ attempts' = [attempts EXCEPT ![c] = "deniedByUser"]
             \/ attempts' = [attempts EXCEPT ![c] = "deniedByPolicy"]
          /\ \/ verdict' = verdict
             \/ verdict' = [verdict EXCEPT ![c] = "ok"]
             \/ verdict' = [verdict EXCEPT ![c] = "rejected"]
      BY <1>5 DEF CheckPolicy, CheckDenied, CheckApproved, Return, WithOutcome
    <2>2. UNCHANGED <<pending, decisions, entry, notified, listening, approved, denied, lastRule,
                      given>>
      BY <1>5 DEF CheckPolicy, CheckDenied, CheckApproved, waiting, sessionHosts
    <2>3. at' \in [Call -> Place]
      BY <2>1, Places DEF TypeOK
    <2>4. attempts' \in [Call -> Outcome] /\ verdict' \in [Call -> {"none", "ok", "rejected"}]
      BY <2>1 DEF TypeOK, NetworkTypeOK, Outcome
    <2>5. QED
      BY <2>2, <2>3, <2>4 DEF TypeOK, NetworkTypeOK
  <1> USE NetworkConstantsOK, Places
      DEF NetworkConstantsOK, TypeOK, NetworkTypeOK, Outcome, WithOutcome, Return, Verdict,
          waiting, sessionHosts, networkVars
  <1>8. CASE Forget(c)
    BY <1>8 DEF Forget
  <1>9. CASE NotifyWaiters(c)
    BY <1>9 DEF NotifyWaiters
  <1>10. CASE ClearPending(c)
    BY <1>10 DEF ClearPending
  <1>11. CASE Listen(c)
    BY <1>11 DEF Listen
  <1>12. CASE Look(c)
    <2>1. /\ at' = [at EXCEPT ![c] = "sleep"] \/ at' = [at EXCEPT ![c] = "authorized"]
          /\ \/ verdict' = verdict
             \/ verdict' = [verdict EXCEPT ![c] = "ok"]
             \/ verdict' = [verdict EXCEPT ![c] = "rejected"]
          /\ listening' \subseteq listening /\ notified' \subseteq notified
      BY <1>12 DEF Look
    <2>2. UNCHANGED <<attempts, pending, decisions, entry, approved, denied, given, lastRule>>
      BY <1>12 DEF Look
    <2>3. QED
      BY <2>1, <2>2
  <1>13. CASE Wake(c)
    BY <1>13 DEF Wake
  <1>14. QED
    BY <1>1, <1>2, <1>3, <1>4, <1>5, <1>8, <1>9, <1>10, <1>11, <1>12, <1>13
       DEF Authorizing

-----------------------------------------------------------------------------
(* The steps of a call outside of the service *)

OwnStep(c) ==
  \/ EnterLine(c) \/ Acquire(c) \/ CheckOwnership(c) \/ DecideApproval(c) \/ BeginAttempt(c)
  \/ CheckAgain(c) \/ UseVerdict(c) \/ Execute(c) \/ FinishAttempt(c)
  \/ \E d \in Decision : Answer(c, d)
  \/ \E d \in Decision : AnswerRetry(c, d)

\* What the service's invariants need to know of them.
Outside ==
  /\ UNCHANGED <<pending, decisions, approved, denied, given, lastRule>>
  /\ \A c \in Call :
       \/ at'[c] = at[c] /\ entry'[c] = entry[c] /\ verdict'[c] = verdict[c]
       \/ at'[c] \notin NetworkPlace \cup {"run"}
       \/ at'[c] = "run" /\ entry'[c] = 0
       \/ at[c] = "run" /\ at'[c] = "checkPolicy" /\ entry'[c] = entry[c]

\* No step of a call but those of the service touches what the service decides.
LEMMA OwnOutside ==
  ASSUME TypeOK, NEW c \in Call, OwnStep(c)
  PROVE  Outside
  <1> USE DEF TypeOK, NetworkTypeOK, Outside, networkVars, sessionHosts, waiting, NetworkPlace,
              OwnerPlace, WaiterPlace
  <1>1. CASE EnterLine(c)
    BY <1>1 DEF EnterLine
  <1>2. CASE Acquire(c)
    BY <1>2 DEF Acquire, GateHolders
  <1>3. CASE CheckOwnership(c)
    BY <1>3 DEF CheckOwnership, Finished, gate
  <1>4. CASE DecideApproval(c)
    BY <1>4 DEF DecideApproval, Finished, gate
  <1>5. CASE BeginAttempt(c)
    BY <1>5 DEF BeginAttempt, waiting, sessionHosts, Outcome
  <1>6. CASE CheckAgain(c)
    BY <1>6 DEF CheckAgain, EndRun, gate
  <1>7. CASE UseVerdict(c)
    BY <1>7 DEF UseVerdict, EndRun, gate, sessionHosts, waiting
  <1>8. CASE Execute(c)
    BY <1>8 DEF Execute, EndRun, gate, CanBeDenied
  <1>9. CASE FinishAttempt(c)
    BY <1>9 DEF FinishAttempt, Finished, gate, Retry, sessionHosts, waiting, Outcome
  <1>10. CASE \E d \in Decision : Answer(c, d)
    BY <1>10 DEF Answer, Finished, gate
  <1>11. CASE \E d \in Decision : AnswerRetry(c, d)
    BY <1>11 DEF AnswerRetry, Finished, gate
  <1>20. QED
    BY <1>1, <1>2, <1>3, <1>4, <1>5, <1>6, <1>7, <1>8, <1>9, <1>10, <1>11 DEF OwnStep

\* They keep the types of the service.
LEMMA OwnNetworkTypes ==
  ASSUME TypeOK, NEW c \in Call, OwnStep(c)
  PROVE  NetworkTypeOK'
  <1> USE DEF TypeOK, NetworkTypeOK, networkVars, sessionHosts, waiting
  <1>1. CASE EnterLine(c)
    BY <1>1 DEF EnterLine
  <1>2. CASE Acquire(c)
    BY <1>2 DEF Acquire, GateHolders
  <1>3. CASE CheckOwnership(c)
    BY <1>3 DEF CheckOwnership, Finished, gate
  <1>4. CASE DecideApproval(c)
    BY <1>4 DEF DecideApproval, Finished, gate
  <1>5. CASE BeginAttempt(c)
    BY <1>5 DEF BeginAttempt, waiting, sessionHosts, Outcome
  <1>6. CASE CheckAgain(c)
    BY <1>6 DEF CheckAgain, EndRun, gate
  <1>7. CASE UseVerdict(c)
    BY <1>7 DEF UseVerdict, EndRun, gate, sessionHosts, waiting
  <1>8. CASE Execute(c)
    BY <1>8 DEF Execute, EndRun, gate, CanBeDenied
  <1>9. CASE FinishAttempt(c)
    BY <1>9 DEF FinishAttempt, Finished, gate, Retry, sessionHosts, waiting, Outcome
  <1>10. CASE \E d \in Decision : Answer(c, d)
    BY <1>10 DEF Answer, Finished, gate
  <1>11. CASE \E d \in Decision : AnswerRetry(c, d)
    BY <1>11 DEF AnswerRetry, Finished, gate
  <1>20. QED
    BY <1>1, <1>2, <1>3, <1>4, <1>5, <1>6, <1>7, <1>8, <1>9, <1>10, <1>11 DEF OwnStep

\* They keep their own types, and count their attempts.
LEMMA OwnTypes ==
  ASSUME TypeOK, Attempts, NEW c \in Call, OwnStep(c)
  PROVE  Attempts' /\ at' \in [Call -> Place]
           /\ attempt' \in [Call -> 0 .. 2]
           /\ result' \in [Call -> {"none", "returned", "sandboxDenied"}]
  <1> USE Places DEF TypeOK, Attempts
  <1>1. CASE EnterLine(c)
    BY <1>1 DEF EnterLine
  <1>2. CASE Acquire(c)
    BY <1>2 DEF Acquire, GateHolders
  <1>3. CASE CheckOwnership(c)
    BY <1>3 DEF CheckOwnership, Finished, gate
  <1>4. CASE DecideApproval(c)
    BY <1>4 DEF DecideApproval, Finished, gate
  <1>5. CASE BeginAttempt(c)
    BY <1>5 DEF BeginAttempt, waiting, sessionHosts, Outcome
  <1>6. CASE CheckAgain(c)
    <2>1. /\ at[c] = "run" /\ attempt' = attempt
          /\ \/ at' = [at EXCEPT ![c] = "checkPolicy"] /\ result' = result
             \/ at' = [at EXCEPT ![c] = "execute"] /\ result' = result
             \/ at' = [at EXCEPT ![c] = "finish"] /\ result' = [result EXCEPT ![c] = "returned"]
      BY <1>6 DEF CheckAgain, EndRun
    <2>2. QED
      BY <2>1
  <1>7. CASE UseVerdict(c)
    <2>1. /\ at[c] = "authorized" /\ attempt' = attempt
          /\ \/ at' = [at EXCEPT ![c] = "execute"] /\ result' = result
             \/ at' = [at EXCEPT ![c] = "finish"] /\ result' = [result EXCEPT ![c] = "returned"]
      BY <1>7 DEF UseVerdict, EndRun
    <2>2. CASE at' = [at EXCEPT ![c] = "execute"] /\ result' = result
      BY <2>1, <2>2
    <2>3. CASE at' = [at EXCEPT ![c] = "finish"] /\ result' = [result EXCEPT ![c] = "returned"]
      BY <2>1, <2>3
    <2>4. QED
      BY <2>1, <2>2, <2>3
  <1>8. CASE Execute(c)
    BY <1>8 DEF Execute, EndRun, gate, CanBeDenied
  <1>9. CASE FinishAttempt(c)
    <2>1. /\ at[c] = "finish" /\ attempt' = attempt
          /\ result' = [result EXCEPT ![c] = "none"]
          /\ \/ at' = [at EXCEPT ![c] = "done"]
             \/ /\ result[c] = "sandboxDenied"
                /\ \/ at' = [at EXCEPT ![c] = "begin"]
                   \/ at' = [at EXCEPT ![c] = "retryPrompt"]
      BY <1>9 DEF FinishAttempt, Finished, Retry
    <2>2. QED
      BY <2>1
  <1>10. CASE \E d \in Decision : Answer(c, d)
    <2>1. /\ at[c] = "prompt" /\ attempt' = attempt
          /\ \/ at' = [at EXCEPT ![c] = "begin"] /\ result' = result
             \/ at' = [at EXCEPT ![c] = "done"] /\ result' = [result EXCEPT ![c] = "none"]
      BY <1>10 DEF Answer, Finished, gate
    <2>2. CASE at' = [at EXCEPT ![c] = "begin"] /\ result' = result
      BY <2>1, <2>2
    <2>3. CASE at' = [at EXCEPT ![c] = "done"] /\ result' = [result EXCEPT ![c] = "none"]
      BY <2>1, <2>3
    <2>4. QED
      BY <2>1, <2>2, <2>3
  <1>11. CASE \E d \in Decision : AnswerRetry(c, d)
    <2>1. /\ at[c] = "retryPrompt" /\ attempt' = attempt
          /\ \/ at' = [at EXCEPT ![c] = "begin"] /\ result' = result
             \/ at' = [at EXCEPT ![c] = "done"] /\ result' = [result EXCEPT ![c] = "none"]
      BY <1>11 DEF AnswerRetry, Finished, gate
    <2>2. CASE at' = [at EXCEPT ![c] = "begin"] /\ result' = result
      BY <2>1, <2>2
    <2>3. CASE at' = [at EXCEPT ![c] = "done"] /\ result' = [result EXCEPT ![c] = "none"]
      BY <2>1, <2>3
    <2>4. QED
      BY <2>1, <2>2, <2>3
  <1>20. QED
    BY <1>1, <1>2, <1>3, <1>4, <1>5, <1>6, <1>7, <1>8, <1>9, <1>10, <1>11 DEF OwnStep

\* An interrupt drops calls and leaves the service as it is.
LEMMA InterruptSteps ==
  ASSUME TypeOK, Attempts, NEW t \in Turn, Interrupt(t)
  PROVE  TypeOK' /\ Attempts' /\ Outside /\ holding' \subseteq holding
  <1>1. /\ UNCHANGED <<attempts, pending, decisions, entry, notified, approved, denied, lastRule,
                       verdict, given, policy, sandbox, always, attempt, result, consented>>
        /\ \A c \in Call : at'[c] = at[c] \/ at'[c] = "dropped"
        /\ at' \in [Call -> Place]
        /\ line' = [line EXCEPT ![t] = <<>>]
        /\ cut' = cut \cup {t} /\ listening' \subseteq listening /\ holding' \subseteq holding
    BY Places DEF Interrupt, TypeOK, sessionHosts, settings
  <1>2. line' \in [Turn -> Seq(Call)]
    BY <1>1 DEF TypeOK
  <1>3. TypeOK'
    BY <1>1, <1>2 DEF TypeOK, NetworkTypeOK
  <1>4. Attempts'
    BY <1>1 DEF Attempts
  <1>5. Outside
    BY <1>1 DEF Outside, NetworkPlace, OwnerPlace, WaiterPlace
  <1>6. QED
    BY <1>1, <1>3, <1>4, <1>5

NetworkStep(c) == Authorize(c) \/ \E d \in Decision : AskAboutHost(c, d)

\* The steps of the service leave the rest as it is.
LEMMA NetworkSteps ==
  ASSUME TypeOK, Attempts, Owners, Settled, NEW c \in Call, NetworkStep(c)
  PROVE  TypeOK' /\ Attempts' /\ UNCHANGED toolVars
  <1>1. UNCHANGED toolVars
    BY DEF NetworkStep, Authorize, AskAboutHost
  <1>2. NetworkTypeOK' /\ at' \in [Call -> Place]
    BY NetworkTypes DEF NetworkStep, Authorize, AskAboutHost, Decision
  <1>3. TypeOK'
    BY <1>1, <1>2 DEF TypeOK, toolVars
  <1>4. \A e \in Call : at'[e] # at[e] => at[e] \in NetworkPlace /\ at'[e] \in NetworkPlace
    BY DEF NetworkStep, Authorize, AskAboutHost, TypeOK, Authorizing, CheckPolicy, CheckDenied,
           CheckApproved, GetPending, AnswerHost, Forget, Remember, Decide, NotifyWaiters,
           ClearPending, Listen, Look, Wake, Return, NetworkPlace, OwnerPlace, WaiterPlace
  <1>5. Attempts'
    BY <1>1, <1>4 DEF Attempts, toolVars, NetworkPlace, OwnerPlace, WaiterPlace
  <1>6. QED
    BY <1>1, <1>3, <1>5

\* What the other steps do to the rest.
LEMMA OwnSteps ==
  ASSUME TypeOK, Attempts, NEW c \in Call, OwnStep(c)
  PROVE  TypeOK' /\ Attempts' /\ UNCHANGED <<policy, sandbox>>
           /\ always \subseteq always' /\ consented \subseteq consented'
  <1>1. /\ UNCHANGED <<policy, sandbox, cut>>
        /\ always' = always \/ always' = always \cup {KeyOf[c]}
        /\ consented' = consented \/ consented' = consented \cup {c}
        /\ holding' \subseteq holding \cup {c}
    BY DEF OwnStep, EnterLine, Acquire, CheckOwnership, DecideApproval, BeginAttempt, CheckAgain,
           UseVerdict, Execute, FinishAttempt, Answer, AnswerRetry, Finished, EndRun, settings, gate
  <1>2. line' \in [Turn -> Seq(Call)]
    <2>0. TurnOf[c] \in Turn /\ line \in [Turn -> Seq(Call)]
      BY ToolConstantsOK DEF ToolConstantsOK, TypeOK
    <2>1. CASE EnterLine(c)
      BY <2>0, <2>1 DEF EnterLine
    <2>2. CASE Acquire(c)
      <3>1. line[TurnOf[c]] \in Seq(Call) /\ line[TurnOf[c]] # <<>>
        BY <2>0, <2>2 DEF Acquire
      <3>2. QED
        BY <2>0, <2>2, <3>1 DEF Acquire
    <2>3. CASE line' = line
      BY <2>0, <2>3
    <2>4. QED
      BY <2>1, <2>2, <2>3
         DEF OwnStep, CheckOwnership, DecideApproval, BeginAttempt, CheckAgain, UseVerdict,
             Execute, FinishAttempt, Answer, AnswerRetry, Finished, EndRun, gate
  <1>3. QED
    BY <1>1, <1>2, OwnNetworkTypes, OwnTypes DEF TypeOK

-----------------------------------------------------------------------------
(* The invariants of the service *)

\* Who owned something after a step outside of the service did so before.
LEMMA OutsideKeeps ==
  ASSUME TypeOK, NetworkInv, Outside
  PROVE  NetworkInv'
  <1>1. \A c \in Call :
          at'[c] \in NetworkPlace =>
            \/ at'[c] = at[c] /\ entry'[c] = entry[c] /\ verdict'[c] = verdict[c]
            \/ at'[c] = "checkPolicy" /\ at[c] = "run" /\ entry'[c] = entry[c]
    BY DEF Outside, NetworkPlace, OwnerPlace, WaiterPlace
  <1>2. \A c \in Call :
          at'[c] \in OwnerPlace \cup WaiterPlace \cup {"authorized"} =>
            at'[c] = at[c] /\ entry'[c] = entry[c] /\ verdict'[c] = verdict[c]
    BY <1>1 DEF NetworkPlace, OwnerPlace, WaiterPlace
  <1>3. UNCHANGED <<pending, decisions, approved, denied, given, lastRule>>
    BY DEF Outside
  <1>4. Owners'
    BY <1>2, <1>3 DEF NetworkInv, Owners
  <1>5. OneOwner'
    BY <1>2, <1>3 DEF NetworkInv, OneOwner
  <1>6. Settled'
    <2>1. \A e \in 1 .. Len(decisions') : decisions'[e] # "open" => decisions'[e] = given'[e]
      BY <1>3 DEF NetworkInv, Settled
    <2>2. \A c \in Call : at'[c] \in OwnerPlace \cup WaiterPlace =>
            at'[c] = at[c] /\ entry'[c] = entry[c]
      BY <1>2
    <2>3. \A c \in Call :
            at'[c] \in {"run", "checkPolicy", "checkDenied", "checkApproved", "getPending"}
              => entry'[c] = 0
      BY DEF NetworkInv, Settled, Outside, NetworkPlace
    <2>4. QED
      BY <1>3, <2>1, <2>2, <2>3 DEF NetworkInv, Settled, OwnerPlace, WaiterPlace
  <1>7. VerdictIsAnswer'
    BY <1>2, <1>3 DEF NetworkInv, VerdictIsAnswer
  <1>8. Remembered'
    BY <1>2, <1>3 DEF NetworkInv, Remembered, Agrees, OwnerPlace
  <1>9. SessionRemembers'
    BY <1>3 DEF NetworkInv, SessionRemembers
  <1>10. QED
    BY <1>4, <1>5, <1>6, <1>7, <1>8, <1>9 DEF NetworkInv

\* A step by which nobody becomes an owner and nothing is decided.
Quiet(c) ==
  /\ UNCHANGED <<pending, decisions, entry, approved, denied, given, lastRule>>
  /\ \A d \in Call \ {c} : at'[d] = at[d] /\ verdict'[d] = verdict[d]
  /\ \/ at'[c] \in {"checkDenied", "checkApproved", "getPending"} /\ entry[c] = 0
     \/ at'[c] \in WaiterPlace /\ entry[c] # 0
     \/ /\ at'[c] = "authorized"
        /\ entry[c] # 0 => /\ given[entry[c]] # "open"
                           /\ verdict'[c] = Verdict(given[entry[c]])
     \/ at[c] = "notify" /\ at'[c] = "clearPending"

LEMMA QuietKeeps ==
  ASSUME TypeOK, NetworkInv, NEW c \in Call, Quiet(c)
  PROVE  NetworkInv'
  <1>1. UNCHANGED <<pending, decisions, entry, approved, denied, given, lastRule>>
    BY DEF Quiet
  <1>2. \A d \in Call : at'[d] \in OwnerPlace =>
          at'[d] = at[d] \/ (at[d] = "notify" /\ at'[d] = "clearPending")
    <2>1. \A d \in Call : d # c => at'[d] = at[d]
      BY DEF Quiet
    <2>2. at'[c] \in OwnerPlace => at[c] = "notify" /\ at'[c] = "clearPending"
      <3>1. \/ at'[c] \in {"checkDenied", "checkApproved", "getPending", "authorized"}
            \/ at'[c] \in WaiterPlace
            \/ at[c] = "notify" /\ at'[c] = "clearPending"
        BY DEF Quiet
      <3>2. QED
        BY <3>1 DEF OwnerPlace, WaiterPlace
    <2>3. QED
      BY <2>1, <2>2
  <1>3. \A d \in Call : at'[d] \in OwnerPlace => at[d] \in OwnerPlace
    BY <1>2 DEF OwnerPlace
  <1>4. Owners'
    BY <1>1, <1>3 DEF NetworkInv, Owners
  <1>5. OneOwner'
    BY <1>1, <1>3 DEF NetworkInv, OneOwner
  <1>6. Settled'
    BY <1>1 DEF NetworkInv, Settled, Quiet, WaiterPlace
  <1>7. VerdictIsAnswer'
    BY <1>1 DEF NetworkInv, VerdictIsAnswer, Quiet, WaiterPlace
  <1>8. Remembered'
    BY <1>1, <1>2 DEF NetworkInv, Remembered, Agrees, OwnerPlace
  <1>9. SessionRemembers'
    BY <1>1 DEF NetworkInv, SessionRemembers
  <1>10. QED
    BY <1>4, <1>5, <1>6, <1>7, <1>8, <1>9 DEF NetworkInv

\* The steps that are quiet.
LEMMA QuietSteps ==
  ASSUME TypeOK, NetworkInv, NEW c \in Call, NEW prompts \in BOOLEAN,
         \/ CheckPolicy(c) \/ CheckDenied(c) \/ CheckApproved(c, prompts)
         \/ NotifyWaiters(c) \/ Listen(c) \/ Look(c) \/ Wake(c)
  PROVE  Quiet(c)
  <1> USE DEF TypeOK, NetworkTypeOK, Quiet, NetworkInv, Settled, sessionHosts, waiting, Return,
              WaiterPlace
  <1>1. CASE CheckPolicy(c)
    BY <1>1 DEF CheckPolicy
  <1>2. CASE CheckDenied(c)
    BY <1>2 DEF CheckDenied
  <1>3. CASE CheckApproved(c, prompts)
    BY <1>3 DEF CheckApproved
  <1>4. CASE NotifyWaiters(c)
    BY <1>4 DEF NotifyWaiters
  <1>5. CASE Listen(c)
    BY <1>5 DEF Listen
  <1>6. CASE Look(c)
    <2>1. entry[c] # 0 /\ entry[c] \in 1 .. Len(decisions)
      BY <1>6 DEF Look
    <2>2. decisions[entry[c]] # "open" => decisions[entry[c]] = given[entry[c]]
      BY <2>1
    <2>3. QED
      BY <1>6, <2>1, <2>2 DEF Look
  <1>7. CASE Wake(c)
    BY <1>7 DEF Wake, networkVars
  <1>8. QED
    BY <1>1, <1>2, <1>3, <1>4, <1>5, <1>6, <1>7

\* The call asks, or joins those who wait.
LEMMA GetPendingKeeps ==
  ASSUME TypeOK, NetworkInv, NEW c \in Call, GetPending(c)
  PROVE  NetworkInv'
  <1> DEFINE h == HostOf[c]
             n == Len(decisions) + 1
  <1>0. /\ h \in Host /\ HostOf \in [Call -> Host] /\ Len(decisions) \in Nat
        /\ at \in [Call -> Place] /\ entry \in [Call -> 0 .. Len(decisions)]
        /\ pending \in [Host -> 0 .. Len(decisions)]
        /\ decisions \in Seq(AnswerOrOpen) /\ given \in Seq(AnswerOrOpen)
        /\ Len(given) = Len(decisions)
    BY NetworkConstantsOK DEF NetworkConstantsOK, TypeOK, NetworkTypeOK, AnswerOrOpen
  <1>1. CASE pending[h] # 0
    <2>1. /\ at' = [at EXCEPT ![c] = "listen"]
          /\ entry' = [entry EXCEPT ![c] = pending[h]]
          /\ UNCHANGED <<pending, decisions, approved, denied, given, lastRule, verdict>>
      BY <1>1 DEF GetPending, sessionHosts
    <2>2. \A d \in Call : d # c => at'[d] = at[d] /\ entry'[d] = entry[d]
      BY <1>0, <2>1
    <2>3. at'[c] = "listen" /\ entry'[c] # 0
      BY <1>0, <1>1, <2>1
    <2>4. \A d \in Call : at'[d] \in OwnerPlace => d # c
      BY <2>3 DEF OwnerPlace
    <2>5. Owners'
      BY <2>1, <2>2, <2>4 DEF NetworkInv, Owners
    <2>6. OneOwner'
      BY <2>1, <2>2, <2>4 DEF NetworkInv, OneOwner
    <2>7. Settled'
      BY <2>1, <2>2, <2>3 DEF NetworkInv, Settled
    <2>8. VerdictIsAnswer'
      BY <2>1, <2>2, <2>3 DEF NetworkInv, VerdictIsAnswer
    <2>9. Remembered'
      BY <2>1, <2>2, <2>3, <2>4 DEF NetworkInv, Remembered, Agrees
    <2>10. SessionRemembers'
      BY <2>1 DEF NetworkInv, SessionRemembers
    <2>11. QED
      BY <2>5, <2>6, <2>7, <2>8, <2>9, <2>10 DEF NetworkInv
  <1>2. CASE pending[h] = 0
    <2>1. /\ at' = [at EXCEPT ![c] = "ask"]
          /\ entry' = [entry EXCEPT ![c] = n]
          /\ pending' = [pending EXCEPT ![h] = n]
          /\ decisions' = Append(decisions, "open") /\ given' = Append(given, "open")
          /\ UNCHANGED <<approved, denied, lastRule, verdict>>
      BY <1>2 DEF GetPending, sessionHosts
    <2>2. \A d \in Call : d # c => at'[d] = at[d] /\ entry'[d] = entry[d]
      BY <1>0, <2>1
    <2>3. at'[c] = "ask" /\ entry'[c] = n /\ pending'[h] = n /\ n # 0
      BY <1>0, <2>1
    <2>4. \A g \in Host : g # h => pending'[g] = pending[g] /\ pending[g] # n
      BY <1>0, <2>1
    <2>5. \A d \in Call : d # c /\ at'[d] \in OwnerPlace => HostOf[d] # h
      BY <1>0, <1>2, <2>2 DEF NetworkInv, Owners
    <2>6. /\ Len(decisions') = n /\ decisions'[n] = "open" /\ given'[n] = "open"
          /\ \A e \in 1 .. Len(decisions) : decisions'[e] = decisions[e] /\ given'[e] = given[e]
      BY <1>0, <2>1, Appended
    <2>7. \A d \in Call : entry[d] # 0 => given'[entry[d]] = given[entry[d]]
      BY <1>0, <2>6
    <2>8. Owners'
      <3>1. \A d \in Call : at'[d] \in OwnerPlace => entry'[d] # 0 /\ pending'[HostOf[d]] = entry'[d]
        BY <1>0, <2>2, <2>3, <2>4, <2>5 DEF NetworkInv, Owners
      <3>2. \A f, g \in Host : pending'[f] = pending'[g] /\ pending'[f] # 0 => f = g
        <4>1. \A f, g \in Host : pending[f] = pending[g] /\ pending[f] # 0 => f = g
          BY DEF NetworkInv, Owners
        <4>2. SUFFICES ASSUME NEW f \in Host, NEW g \in Host,
                              pending'[f] = pending'[g], pending'[f] # 0
                       PROVE  f = g
          OBVIOUS
        <4>3. CASE f # h /\ g # h
          BY <2>4, <4>1, <4>2, <4>3
        <4>4. CASE f = h \/ g = h
          BY <2>3, <2>4, <4>2, <4>4
        <4>5. QED
          BY <4>3, <4>4
      <3>3. QED
        BY <3>1, <3>2 DEF Owners
    <2>9. OneOwner'
      <3>1. \A d \in Call : at'[d] \in OwnerPlace => pending'[HostOf[d]] = entry'[d]
        BY <2>8 DEF Owners
      <3>2. \A d, e \in Call : d # e /\ at'[d] \in OwnerPlace /\ at'[e] \in OwnerPlace
              => HostOf[d] # HostOf[e]
        BY <2>2, <2>5 DEF NetworkInv, OneOwner
      <3>3. QED
        BY <3>1, <3>2 DEF OneOwner
    <2>10. Settled'
      <3>1. \A e \in 1 .. Len(decisions') : decisions'[e] # "open" => decisions'[e] = given'[e]
        BY <1>0, <2>6 DEF NetworkInv, Settled
      <3>2. \A d \in Call : d # c /\ at[d] \in OwnerPlace => entry[d] # 0
        BY DEF NetworkInv, Owners
      <3>3. \A d \in Call : d # c /\ at'[d] \in OwnerPlace
              => given'[entry'[d]] = given[entry[d]]
        BY <2>2, <2>7, <3>2
      <3>4. QED
        BY <2>2, <2>3, <2>6, <3>1, <3>3 DEF NetworkInv, Settled, OwnerPlace, WaiterPlace
    <2>11. VerdictIsAnswer'
      <3>1. \A d \in Call : at'[d] = "authorized" /\ entry'[d] # 0
              => /\ at[d] = "authorized" /\ entry[d] # 0
                 /\ given'[entry'[d]] = given[entry[d]] /\ verdict'[d] = verdict[d]
        BY <2>1, <2>2, <2>3, <2>7
      <3>2. QED
        BY <3>1 DEF NetworkInv, VerdictIsAnswer
    <2>12. Agrees(h)'
      BY <1>0, <1>2, <2>1 DEF NetworkInv, SessionRemembers, Agrees
    <2>13. Remembered'
      <3>1. \A d \in Call : d # c /\ at'[d] \in OwnerPlace
              => entry'[d] = entry[d] /\ at'[d] = at[d] /\ given'[entry'[d]] = given[entry[d]]
        BY <2>2, <2>7 DEF NetworkInv, Owners
      <3>2. \A d \in Call : d # c /\ at'[d] \in OwnerPlace \ {"remember"} => Agrees(HostOf[d])'
        BY <2>1, <3>1 DEF NetworkInv, Remembered, Agrees
      <3>3. \A d \in Call : at'[d] = "remember" =>
              /\ given'[entry'[d]] = "session" => HostOf[d] \notin denied'
              /\ given'[entry'[d]] = "deny" => HostOf[d] \notin approved'
        <4>1. SUFFICES ASSUME NEW d \in Call, at'[d] = "remember"
                       PROVE  /\ given'[entry'[d]] = "session" => HostOf[d] \notin denied'
                              /\ given'[entry'[d]] = "deny" => HostOf[d] \notin approved'
          OBVIOUS
        <4>2. d # c
          BY <2>3, <4>1
        <4>3. at[d] = "remember" /\ given'[entry'[d]] = given[entry[d]]
          BY <3>1, <4>1, <4>2 DEF OwnerPlace
        <4>4. /\ given[entry[d]] = "session" => HostOf[d] \notin denied
              /\ given[entry[d]] = "deny" => HostOf[d] \notin approved
          BY <4>3 DEF NetworkInv, Remembered
        <4>5. QED
          BY <2>1, <4>3, <4>4
      <3>4. \A d \in Call : at'[d] \in OwnerPlace \ {"remember"} => Agrees(HostOf[d])'
        BY <2>12, <3>2
      <3>5. QED
        BY <3>3, <3>4 DEF Remembered
    <2>14. SessionRemembers'
      BY <2>1, <2>3, <2>4 DEF NetworkInv, SessionRemembers
    <2>15. QED
      BY <2>8, <2>9, <2>10, <2>11, <2>13, <2>14 DEF NetworkInv
  <1>3. QED
    BY <1>1, <1>2

\* Two owners have two hosts and two entries.
LEMMA Apart ==
  ASSUME TypeOK, Owners, OneOwner, NEW c \in Call, at[c] \in OwnerPlace,
         NEW d \in Call, d # c, at[d] \in OwnerPlace
  PROVE  HostOf[d] # HostOf[c] /\ entry[d] # entry[c]
  <1>1. HostOf[c] \in Host /\ HostOf[d] \in Host
    BY NetworkConstantsOK DEF NetworkConstantsOK
  <1>2. HostOf[d] # HostOf[c]
    BY DEF OneOwner
  <1>3. /\ pending[HostOf[c]] = entry[c] /\ entry[c] # 0
        /\ pending[HostOf[d]] = entry[d]
    BY DEF Owners
  <1>4. QED
    BY <1>1, <1>2, <1>3 DEF Owners

\* The user answers the question of an owner.
LEMMA AnswerHostKeeps ==
  ASSUME TypeOK, NetworkInv, NEW c \in Call, NEW a \in Decision, AnswerHost(c, a)
  PROVE  NetworkInv'
  <1>0. /\ at[c] = "ask" /\ at[c] \in OwnerPlace /\ given[entry[c]] = "open"
        /\ entry[c] \in 1 .. Len(decisions) /\ entry[c] \in 1 .. Len(given)
        /\ Len(given) = Len(decisions) /\ given \in Seq(AnswerOrOpen)
        /\ a \in AnswerOrOpen /\ a # "open"
    BY OwnerHasEntry
       DEF AnswerHost, NetworkInv, Settled, OwnerPlace, AnswerOrOpen, TypeOK, NetworkTypeOK,
           Decision
  <1>1. /\ at' = [at EXCEPT ![c] = IF a = "once" THEN "decide" ELSE "forget"]
        /\ given' = [given EXCEPT ![entry[c]] = a]
        /\ UNCHANGED <<pending, decisions, entry, approved, denied, lastRule, verdict>>
    BY DEF AnswerHost, sessionHosts
  <1>2. given'[entry[c]] = a /\ \A e \in 1 .. Len(given) : e # entry[c] => given'[e] = given[e]
    BY <1>0, <1>1, Replaced
  <1>3. \A d \in Call : d # c => at'[d] = at[d]
    BY <1>1 DEF TypeOK
  <1>4. at'[c] \in {"decide", "forget"} /\ (at'[c] = "forget" => a \in {"session", "deny"})
    BY <1>1 DEF TypeOK, Decision
  <1>5. \A d \in Call : at'[d] \in OwnerPlace => at[d] \in OwnerPlace
    BY <1>0, <1>3
  <1>6. \A d \in Call : d # c /\ at[d] \in OwnerPlace => given'[entry[d]] = given[entry[d]]
    BY <1>0, <1>2, OwnerHasEntry, Apart DEF NetworkInv
  <1>7. Owners'
    BY <1>1, <1>5 DEF NetworkInv, Owners
  <1>8. OneOwner'
    BY <1>1, <1>5 DEF NetworkInv, OneOwner
  <1>9. Settled'
    <2>1. \A e \in 1 .. Len(decisions) : decisions[e] # "open" => decisions[e] = given'[e]
      BY <1>0, <1>2 DEF NetworkInv, Settled
    <2>2. \A d \in Call : d # c /\ at'[d] \in OwnerPlace
            => at'[d] = at[d] /\ given'[entry[d]] = given[entry[d]]
      BY <1>3, <1>6
    <2>3. QED
      BY <1>0, <1>1, <1>2, <1>3, <1>4, <2>1, <2>2
         DEF NetworkInv, Settled, OwnerPlace, WaiterPlace
  <1>10. VerdictIsAnswer'
    <2>1. \A d \in Call : at'[d] = "authorized" => at[d] = "authorized"
      BY <1>3, <1>4
    <2>2. \A d \in Call : entry[d] # 0 /\ given[entry[d]] # "open"
            => given'[entry[d]] = given[entry[d]]
      <3>1. \A d \in Call : entry[d] \in 0 .. Len(given)
        BY <1>0 DEF TypeOK, NetworkTypeOK
      <3>2. \A d \in Call : entry[d] # 0 => entry[d] \in 1 .. Len(given)
        BY <1>0, <3>1
      <3>3. QED
        BY <1>0, <1>2, <3>2
    <2>3. QED
      BY <1>1, <2>1, <2>2 DEF NetworkInv, VerdictIsAnswer
  <1>11. Remembered'
    BY <1>0, <1>1, <1>3, <1>4, <1>6 DEF NetworkInv, Remembered, Agrees, OwnerPlace
  <1>12. SessionRemembers'
    BY <1>1 DEF NetworkInv, SessionRemembers
  <1>13. QED
    BY <1>7, <1>8, <1>9, <1>10, <1>11, <1>12 DEF NetworkInv

\* An owner carries out the answer in the session's sets.
LEMMA SessionKeeps ==
  ASSUME TypeOK, NetworkInv, NEW c \in Call, Forget(c) \/ Remember(c)
  PROVE  NetworkInv'
  <1> DEFINE h == HostOf[c]
             a == given[entry[c]]
  <1>0. /\ at[c] \in {"forget", "remember"} /\ at[c] \in OwnerPlace
        /\ a \in {"session", "deny"} /\ h \in Host
        /\ entry[c] # 0 /\ pending[h] = entry[c]
    BY NetworkConstantsOK
       DEF Forget, Remember, NetworkInv, Settled, Owners, OwnerPlace, NetworkConstantsOK
  <1>1. /\ UNCHANGED <<pending, decisions, entry, given, verdict>>
        /\ \/ /\ at[c] = "forget" /\ at' = [at EXCEPT ![c] = "remember"] /\ lastRule' = lastRule
              /\ IF a = "session" THEN denied' = denied \ {h} /\ approved' = approved
                                  ELSE approved' = approved \ {h} /\ denied' = denied
           \/ /\ at[c] = "remember" /\ at' = [at EXCEPT ![c] = "decide"]
              /\ lastRule' = [lastRule EXCEPT ![h] = a]
              /\ IF a = "session" THEN approved' = approved \cup {h} /\ denied' = denied
                                  ELSE denied' = denied \cup {h} /\ approved' = approved
    BY DEF Forget, Remember
  <1>2. \A d \in Call : d # c => at'[d] = at[d]
    BY <1>1 DEF TypeOK
  <1>3. (at[c] = "forget" /\ at'[c] = "remember") \/ (at[c] = "remember" /\ at'[c] = "decide")
    BY <1>1 DEF TypeOK
  <1>4. \A d \in Call : at'[d] \in OwnerPlace => at[d] \in OwnerPlace
    BY <1>0, <1>2
  <1>5. \A g \in Host : g # h =>
          /\ g \in approved' <=> g \in approved
          /\ g \in denied' <=> g \in denied
          /\ lastRule'[g] = lastRule[g]
    BY <1>0, <1>1 DEF TypeOK, NetworkTypeOK
  <1>6. \A d \in Call : d # c /\ at'[d] \in OwnerPlace =>
          HostOf[d] \in Host /\ HostOf[d] # h /\ at'[d] = at[d]
    BY <1>0, <1>2, Apart, NetworkConstantsOK DEF NetworkInv, NetworkConstantsOK
  <1>7. Owners'
    BY <1>1, <1>4 DEF NetworkInv, Owners
  <1>8. OneOwner'
    BY <1>1, <1>4 DEF NetworkInv, OneOwner
  <1>9. Settled'
    BY <1>0, <1>1, <1>2, <1>3 DEF NetworkInv, Settled, OwnerPlace, WaiterPlace
  <1>10. VerdictIsAnswer'
    BY <1>1, <1>2, <1>3 DEF NetworkInv, VerdictIsAnswer
  <1>11. Remembered'
    <2>1. at'[c] \in OwnerPlace \ {"remember"} => Agrees(h)'
      <3>1. CASE at[c] = "forget"
        BY <1>3, <3>1
      <3>2. CASE at[c] = "remember"
        <4>1. lastRule'[h] = a
          BY <1>0, <1>1, <3>2 DEF TypeOK, NetworkTypeOK
        <4>2. (a = "session" => h \notin denied) /\ (a = "deny" => h \notin approved)
          BY <3>2 DEF NetworkInv, Remembered
        <4>3. IF a = "session" THEN approved' = approved \cup {h} /\ denied' = denied
                               ELSE denied' = denied \cup {h} /\ approved' = approved
          BY <1>1, <3>2
        <4>4. QED
          BY <1>0, <4>1, <4>2, <4>3 DEF Agrees
      <3>3. QED
        BY <1>0, <3>1, <3>2
    <2>2. at'[c] = "remember" =>
            (a = "session" => h \notin denied') /\ (a = "deny" => h \notin approved')
      BY <1>0, <1>1, <1>3
    <2>3. \A d \in Call : d # c /\ at'[d] \in OwnerPlace \ {"remember"} => Agrees(HostOf[d])'
      BY <1>5, <1>6 DEF NetworkInv, Remembered, Agrees
    <2>4. \A d \in Call : d # c /\ at'[d] = "remember" =>
            /\ given[entry[d]] = "session" => HostOf[d] \notin denied'
            /\ given[entry[d]] = "deny" => HostOf[d] \notin approved'
      BY <1>5, <1>6 DEF NetworkInv, Remembered, OwnerPlace
    <2>5. \A d \in Call : at'[d] \in OwnerPlace \ {"remember"} => Agrees(HostOf[d])'
      BY <2>1, <2>3
    <2>6. QED
      BY <1>1, <2>2, <2>4, <2>5 DEF Remembered
  <1>12. SessionRemembers'
    BY <1>0, <1>1, <1>5 DEF NetworkInv, SessionRemembers
  <1>13. QED
    BY <1>7, <1>8, <1>9, <1>10, <1>11, <1>12 DEF NetworkInv

\* The owner's decision becomes that of the entry.
LEMMA DecideKeeps ==
  ASSUME TypeOK, NetworkInv, NEW c \in Call, Decide(c)
  PROVE  NetworkInv'
  <1>0. /\ at[c] = "decide" /\ at[c] \in OwnerPlace /\ given[entry[c]] # "open"
        /\ entry[c] \in 1 .. Len(decisions) /\ entry[c] \in 1 .. Len(given)
        /\ decisions \in Seq(AnswerOrOpen) /\ given[entry[c]] \in AnswerOrOpen
    BY OwnerHasEntry
       DEF Decide, NetworkInv, Settled, OwnerPlace, AnswerOrOpen, TypeOK, NetworkTypeOK
  <1>1. /\ at' = [at EXCEPT ![c] = "notify"]
        /\ decisions' = [decisions EXCEPT ![entry[c]] = given[entry[c]]]
        /\ UNCHANGED <<pending, entry, approved, denied, lastRule, verdict, given>>
    BY DEF Decide, sessionHosts
  <1>2. /\ Len(decisions') = Len(decisions)
        /\ \A e \in 1 .. Len(decisions) :
             decisions'[e] = IF e = entry[c] THEN given[e] ELSE decisions[e]
    BY <1>0, <1>1, Replaced
  <1>3. (\A d \in Call : d # c => at'[d] = at[d]) /\ at'[c] = "notify"
    BY <1>1 DEF TypeOK
  <1>4. \A d \in Call : at'[d] \in OwnerPlace => at[d] \in OwnerPlace
    BY <1>0, <1>3
  <1>5. Owners'
    BY <1>1, <1>4 DEF NetworkInv, Owners
  <1>6. OneOwner'
    BY <1>1, <1>4 DEF NetworkInv, OneOwner
  <1>7. Settled'
    <2>1. \A e \in 1 .. Len(decisions') : decisions'[e] # "open" => decisions'[e] = given[e]
      BY <1>2 DEF NetworkInv, Settled
    <2>2. QED
      BY <1>0, <1>1, <1>3, <2>1 DEF NetworkInv, Settled, WaiterPlace
  <1>8. VerdictIsAnswer'
    BY <1>1, <1>3 DEF NetworkInv, VerdictIsAnswer
  <1>9. Remembered'
    BY <1>0, <1>1, <1>3 DEF NetworkInv, Remembered, Agrees
  <1>10. SessionRemembers'
    BY <1>1 DEF NetworkInv, SessionRemembers
  <1>11. QED
    BY <1>5, <1>6, <1>7, <1>8, <1>9, <1>10 DEF NetworkInv

\* The owner removes its entry and returns.
LEMMA ClearPendingKeeps ==
  ASSUME TypeOK, NetworkInv, NEW c \in Call, ClearPending(c)
  PROVE  NetworkInv'
  <1> DEFINE h == HostOf[c]
  <1>0. /\ at[c] = "clearPending" /\ at[c] \in OwnerPlace /\ given[entry[c]] # "open"
        /\ entry[c] # 0 /\ h \in Host
    BY NetworkConstantsOK
       DEF ClearPending, NetworkInv, Settled, Owners, OwnerPlace, NetworkConstantsOK
  <1>1. /\ at' = [at EXCEPT ![c] = "authorized"]
        /\ verdict' = [verdict EXCEPT ![c] = Verdict(given[entry[c]])]
        /\ pending' = [pending EXCEPT ![h] = 0]
        /\ UNCHANGED <<decisions, entry, approved, denied, lastRule, given>>
    BY DEF ClearPending, Return, sessionHosts
  <1>2. /\ \A d \in Call : d # c => at'[d] = at[d] /\ verdict'[d] = verdict[d]
        /\ at'[c] = "authorized" /\ verdict'[c] = Verdict(given[entry[c]])
    BY <1>1 DEF TypeOK, NetworkTypeOK
  <1>3. /\ \A g \in Host : g # h => pending'[g] = pending[g]
        /\ pending'[h] = 0
    BY <1>0, <1>1 DEF TypeOK, NetworkTypeOK
  <1>4. \A d \in Call : at'[d] \in OwnerPlace => d # c /\ at'[d] = at[d]
    BY <1>2 DEF OwnerPlace
  <1>5. \A d \in Call : at'[d] \in OwnerPlace =>
          HostOf[d] \in Host /\ pending'[HostOf[d]] = pending[HostOf[d]]
    BY <1>0, <1>3, <1>4, Apart, NetworkConstantsOK DEF NetworkInv, NetworkConstantsOK
  <1>6. Owners'
    <2>1. \A d \in Call : at'[d] \in OwnerPlace => entry'[d] # 0 /\ pending'[HostOf[d]] = entry'[d]
      BY <1>1, <1>4, <1>5 DEF NetworkInv, Owners
    <2>2. \A f, g \in Host : pending'[f] = pending'[g] /\ pending'[f] # 0 => f = g
      BY <1>3 DEF NetworkInv, Owners
    <2>3. QED
      BY <2>1, <2>2 DEF Owners
  <1>7. OneOwner'
    BY <1>1, <1>4, <1>5 DEF NetworkInv, OneOwner
  <1>8. Settled'
    BY <1>1, <1>2 DEF NetworkInv, Settled, WaiterPlace
  <1>9. VerdictIsAnswer'
    BY <1>0, <1>1, <1>2 DEF NetworkInv, VerdictIsAnswer
  <1>10. Remembered'
    BY <1>1, <1>4 DEF NetworkInv, Remembered, Agrees, OwnerPlace
  <1>11. SessionRemembers'
    <2>1. Agrees(h)
      BY <1>0 DEF NetworkInv, Remembered
    <2>2. QED
      BY <1>1, <1>3, <2>1 DEF NetworkInv, SessionRemembers, Agrees
  <1>12. QED
    BY <1>6, <1>7, <1>8, <1>9, <1>10, <1>11 DEF NetworkInv

\* Every step of the service keeps its invariants.
LEMMA NetworkKeeps ==
  ASSUME TypeOK, NetworkInv, NEW c \in Call, NetworkStep(c)
  PROVE  NetworkInv'
  <1>1. CASE \E d \in Decision : AskAboutHost(c, d)
    BY <1>1, AnswerHostKeeps DEF AskAboutHost
  <1>2. CASE Authorize(c)
    <2>1. PICK prompts \in BOOLEAN : Authorizing(c, prompts)
      BY <1>2 DEF Authorize
    <2>2. QED
      BY <2>1, QuietSteps, QuietKeeps, GetPendingKeeps, SessionKeeps, DecideKeeps,
         ClearPendingKeeps
         DEF Authorizing
  <1>3. QED
    BY <1>1, <1>2 DEF NetworkStep

-----------------------------------------------------------------------------
(* The gate and the approvals *)

\* Calls of one turn that hold its gate together read, all of them.
Gate ==
  \A c, d \in holding :
    c # d /\ TurnOf[c] = TurnOf[d] => SupportsParallel(c) /\ SupportsParallel(d)

\* What the user or the store of approvals has said about a call.
Cleared(c) == c \in consented \/ KeyOf[c] \in always

\* A call past its prompt was cleared if it needed to be, and so is one in its second attempt.
Consent ==
  \A c \in Call :
    /\ at[c] \in {"begin", "run", "execute", "finish"} \cup NetworkPlace
         /\ Requirement(c) = "needsApproval" => Cleared(c)
    /\ at[c] \in {"run", "execute"} \cup NetworkPlace /\ attempt[c] = 2 => Cleared(c)
    /\ at[c] = "begin" /\ attempt[c] = 1 => Cleared(c)

\* What a call needs depends on the settings alone, which stay.
LEMMA RequirementStays ==
  ASSUME UNCHANGED <<policy, sandbox>>, NEW c \in Call
  PROVE  Requirement(c)' = Requirement(c)
  BY DEF Requirement, CommandRequirement

\* A call that may change files never reads.
LEMMA MutatingWrites ==
  ASSUME NEW c \in Call, SupportsParallel(c)
  PROVE  ~Mutating(c)
  BY CommandsMutate, ToolConstantsOK DEF SupportsParallel, Mutating, ToolConstantsOK, Tool

\* The steps of a call keep the gate.
LEMMA GateKeeps ==
  ASSUME TypeOK, Gate, NEW c \in Call, OwnStep(c)
  PROVE  Gate'
  <1>1. CASE Acquire(c)
    <2>1. holding' = holding \cup {c}
      BY <1>1 DEF Acquire
    <2>2. \A d \in holding : TurnOf[d] = TurnOf[c] => SupportsParallel(c) /\ SupportsParallel(d)
      BY <1>1 DEF Acquire, GateHolders
    <2>3. QED
      BY <2>1, <2>2 DEF Gate
  <1>2. CASE ~Acquire(c)
    <2>1. holding' \subseteq holding
      BY <1>2
         DEF OwnStep, EnterLine, CheckOwnership, DecideApproval, BeginAttempt, CheckAgain,
             UseVerdict, Execute, FinishAttempt, Answer, AnswerRetry, Finished, EndRun, gate
    <2>2. QED
      BY <2>1 DEF Gate
  <1>3. QED
    BY <1>1, <1>2

\* The steps of a call keep what was consented to.
LEMMA ConsentKeeps ==
  ASSUME TypeOK, Attempts, Consent, NEW c \in Call, OwnStep(c)
  PROVE  Consent'
  <1>1. /\ UNCHANGED <<policy, sandbox>>
        /\ always \subseteq always' /\ consented \subseteq consented'
    BY OwnSteps
  <1>2. \A d \in Call : Requirement(d)' = Requirement(d)
    BY <1>1, RequirementStays
  <1>3. \A d \in Call : Cleared(d) => Cleared(d)'
    BY <1>1 DEF Cleared
  <1>4. SUFFICES Cleared(c)' \/ /\ at'[c] \in {"begin", "run", "execute", "finish"} \cup NetworkPlace
                                     => Requirement(c) # "needsApproval"
                                /\ at'[c] \in {"run", "execute"} \cup NetworkPlace => attempt'[c] # 2
                                /\ at'[c] = "begin" => attempt'[c] # 1
    <2>1. \A d \in Call \ {c} : at'[d] = at[d] /\ attempt'[d] = attempt[d]
      BY DEF OwnStep, EnterLine, Acquire, CheckOwnership, DecideApproval, BeginAttempt, CheckAgain,
             UseVerdict, Execute, FinishAttempt, Answer, AnswerRetry, Finished, EndRun, Retry, TypeOK
    <2>2. QED
      BY <1>2, <1>3, <1>4, <2>1 DEF Consent
  <1>5. CASE EnterLine(c)
    BY <1>5 DEF EnterLine, TypeOK, NetworkPlace, OwnerPlace, WaiterPlace
  <1>6. CASE Acquire(c)
    BY <1>6 DEF Acquire, TypeOK, NetworkPlace, OwnerPlace, WaiterPlace
  <1>7. CASE CheckOwnership(c)
    BY <1>7 DEF CheckOwnership, Finished, TypeOK, NetworkPlace, OwnerPlace, WaiterPlace
  <1>8. CASE DecideApproval(c)
    <2>1. /\ attempt' = attempt /\ attempt[c] = 0
          /\ \/ at' = [at EXCEPT ![c] = "done"] \/ at' = [at EXCEPT ![c] = "prompt"]
             \/ /\ at' = [at EXCEPT ![c] = "begin"]
                /\ Requirement(c) = "needsApproval" => KeyOf[c] \in always
      BY <1>8 DEF DecideApproval, Finished, Attempts
    <2>2. QED
      BY <1>1, <2>1 DEF TypeOK, Cleared, NetworkPlace, OwnerPlace, WaiterPlace
  <1>9. CASE BeginAttempt(c)
    <2>1. at[c] = "begin" /\ at'[c] = "run" /\ attempt'[c] = attempt[c] + 1 /\ attempt[c] \in 0 .. 1
      BY <1>9 DEF BeginAttempt, TypeOK, Attempts
    <2>2. QED
      BY <1>3, <2>1 DEF Consent, NetworkPlace, OwnerPlace, WaiterPlace
  <1>10. CASE CheckAgain(c)
    BY <1>3, <1>10 DEF CheckAgain, EndRun, TypeOK, Consent, NetworkPlace, OwnerPlace, WaiterPlace
  <1>11. CASE UseVerdict(c)
    BY <1>3, <1>11 DEF UseVerdict, EndRun, TypeOK, Consent, NetworkPlace, OwnerPlace, WaiterPlace
  <1>12. CASE Execute(c)
    BY <1>3, <1>12 DEF Execute, EndRun, TypeOK, Consent, NetworkPlace, OwnerPlace, WaiterPlace
  <1>13. CASE FinishAttempt(c)
    <2>1. /\ at[c] = "finish" /\ attempt' = attempt
          /\ \/ at' = [at EXCEPT ![c] = "done"] \/ at' = [at EXCEPT ![c] = "retryPrompt"]
             \/ at' = [at EXCEPT ![c] = "begin"] /\ Requirement(c) = "needsApproval"
      BY <1>13 DEF FinishAttempt, Finished, Retry
    <2>2. QED
      BY <1>3, <2>1 DEF TypeOK, Consent, NetworkPlace, OwnerPlace, WaiterPlace
  <1>14. CASE \E d \in Decision : Answer(c, d)
    BY <1>14 DEF Answer, Finished, TypeOK, Cleared, NetworkPlace, OwnerPlace, WaiterPlace
  <1>15. CASE \E d \in Decision : AnswerRetry(c, d)
    BY <1>15 DEF AnswerRetry, Finished, TypeOK, Cleared, NetworkPlace, OwnerPlace, WaiterPlace
  <1>16. QED
    BY <1>5, <1>6, <1>7, <1>8, <1>9, <1>10, <1>11, <1>12, <1>13, <1>14, <1>15 DEF OwnStep

-----------------------------------------------------------------------------
(* Nobody waits in vain *)

\* What a call that waits for a decision can count on: an open question is pending, and a
\* sleeper nobody notified yet listens for an owner that has not come to its end.
Awaited ==
  \A c \in Call :
    /\ at[c] \in {"notify", "clearPending"} => decisions[entry[c]] # "open"
    /\ at[c] \in WaiterPlace /\ decisions[entry[c]] = "open" => pending[HostOf[c]] = entry[c]
    /\ at[c] \in {"look", "sleep"} => c \in listening
    /\ at[c] = "sleep" /\ c \notin notified =>
         /\ pending[HostOf[c]] = entry[c]
         /\ \A d \in Call : at[d] = "clearPending" => entry[d] # entry[c]

\* The line of a turn has each of its calls that wait, once; whoever holds the gate is inside.
Inside == DispatchPlace \cup NetworkPlace
InLine(c) == \E i \in DOMAIN line[TurnOf[c]] : line[TurnOf[c]][i] = c
Queued(t) ==
  /\ \A i \in DOMAIN line[t] : at[line[t][i]] = "line" /\ TurnOf[line[t][i]] = t
  /\ \A i, j \in DOMAIN line[t] : i # j => line[t][i] # line[t][j]
Lines ==
  /\ \A c \in Call : at[c] = "line" => InLine(c)
  /\ \A t \in Turn : Queued(t)
  /\ \A c \in holding : at[c] \in Inside

LEMMA InsidePlaces ==
  Inside = {"ownership", "approval", "prompt", "begin", "run", "execute", "finish",
            "retryPrompt", "checkPolicy", "checkDenied", "checkApproved", "getPending",
            "authorized", "ask", "forget", "remember", "decide", "notify", "clearPending",
            "listen", "look", "sleep"}
  BY DEF Inside, DispatchPlace, NetworkPlace, OwnerPlace, WaiterPlace

\* A step that leaves the places of waiting and the tables they look at alone.
LEMMA AwaitedStays ==
  ASSUME Awaited, UNCHANGED <<pending, decisions, notified>>,
         \A c \in Call :
           at'[c] \in WaiterPlace \cup {"notify", "clearPending"} =>
             /\ at'[c] = at[c] /\ entry'[c] = entry[c]
             /\ at[c] \in {"look", "sleep"} => (c \in listening => c \in listening')
  PROVE  Awaited'
  BY DEF Awaited, WaiterPlace

LEMMA ListenersStay ==
  ASSUME TypeOK, NEW c \in Call, OwnStep(c)
  PROVE  UNCHANGED <<notified, listening>>
  BY DEF OwnStep, EnterLine, Acquire, CheckOwnership, DecideApproval, BeginAttempt, CheckAgain,
         UseVerdict, Execute, FinishAttempt, Answer, AnswerRetry, networkVars, waiting

\* The steps of a call outside of the service keep what waiters count on.
LEMMA OwnAwaited ==
  ASSUME TypeOK, Awaited, NEW c \in Call, OwnStep(c)
  PROVE  Awaited'
  <1>1. UNCHANGED <<pending, decisions, notified, listening>>
    BY ListenersStay, OwnOutside DEF Outside
  <1>2. ASSUME NEW d \in Call, at'[d] \in WaiterPlace \cup {"notify", "clearPending"}
        PROVE  at'[d] = at[d] /\ entry'[d] = entry[d]
    BY <1>2, OwnOutside DEF Outside, NetworkPlace, OwnerPlace, WaiterPlace
  <1>3. QED
    BY <1>1, <1>2, AwaitedStays

\* The steps of the service, one by one.
LEMMA NetworkAwaited ==
  ASSUME TypeOK, NetworkInv, Awaited, NEW c \in Call, NetworkStep(c)
  PROVE  Awaited'
  <1> DEFINE h == HostOf[c]
  <1>0. /\ at \in [Call -> Place] /\ h \in Host /\ HostOf \in [Call -> Host]
        /\ pending \in [Host -> 0 .. Len(decisions)] /\ Len(decisions) \in Nat
        /\ entry \in [Call -> 0 .. Len(decisions)]
        /\ decisions \in Seq(AnswerOrOpen)
    BY NetworkConstantsOK DEF TypeOK, NetworkTypeOK, NetworkConstantsOK, AnswerOrOpen
  <1>a. \A d \in Call : at[d] \in WaiterPlace => entry[d] # 0
    BY DEF NetworkInv, Settled
  <1>b. \A d \in Call : at[d] \in OwnerPlace => pending[HostOf[d]] = entry[d] /\ entry[d] # 0
    BY DEF NetworkInv, Owners
  <1>1. ASSUME NEW prompts \in BOOLEAN,
               \/ CheckPolicy(c) \/ CheckDenied(c) \/ CheckApproved(c, prompts)
               \/ Forget(c) \/ Remember(c) \/ \E d \in Decision : AnswerHost(c, d)
        PROVE  Awaited'
    <2>1. UNCHANGED <<pending, decisions, notified, listening, entry>>
      BY <1>1
         DEF CheckPolicy, CheckDenied, CheckApproved, Forget, Remember, AnswerHost, waiting
    <2>2. \A d \in Call : d # c => at'[d] = at[d]
      BY <1>0, <1>1
         DEF CheckPolicy, CheckDenied, CheckApproved, Forget, Remember, AnswerHost, Return
    <2>3. at'[c] \in {"checkDenied", "checkApproved", "getPending", "authorized", "remember",
                      "decide", "forget"}
      BY <1>0, <1>1
         DEF CheckPolicy, CheckDenied, CheckApproved, Forget, Remember, AnswerHost, Return
    <2>4. QED
      BY <2>1, <2>2, <2>3, AwaitedStays DEF WaiterPlace
  <1>2. CASE GetPending(c)
    <2>1. CASE pending[h] # 0
      <3>1. /\ at' = [at EXCEPT ![c] = "listen"] /\ entry' = [entry EXCEPT ![c] = pending[h]]
            /\ UNCHANGED <<pending, decisions, notified, listening>> /\ at[c] = "getPending"
        BY <1>2, <2>1 DEF GetPending, waiting
      <3>2. /\ \A d \in Call : d # c => at'[d] = at[d] /\ entry'[d] = entry[d]
            /\ at'[c] = "listen" /\ entry'[c] = pending[h]
        BY <1>0, <3>1
      <3>3. QED
        BY <3>1, <3>2 DEF Awaited, WaiterPlace
    <2>2. CASE pending[h] = 0
      <3> DEFINE n == Len(decisions) + 1
      <3>1. /\ at' = [at EXCEPT ![c] = "ask"] /\ entry' = [entry EXCEPT ![c] = n]
            /\ pending' = [pending EXCEPT ![h] = n] /\ decisions' = Append(decisions, "open")
            /\ UNCHANGED <<notified, listening>>
        BY <1>2, <2>2 DEF GetPending, waiting
      <3>2. /\ \A d \in Call : d # c => at'[d] = at[d] /\ entry'[d] = entry[d]
            /\ at'[c] = "ask"
        BY <1>0, <3>1
      <3>3. \A e \in 1 .. Len(decisions) : decisions'[e] = decisions[e]
        BY <1>0, <3>1, Appended
      <3>4. \A d \in Call : at[d] \in WaiterPlace \cup OwnerPlace =>
              decisions'[entry[d]] = decisions[entry[d]]
        BY <1>0, <1>a, <1>b, <3>3
      <3>5. \A d \in Call : at[d] \in WaiterPlace /\ pending[HostOf[d]] = entry[d] =>
              pending'[HostOf[d]] = entry[d]
        BY <1>0, <1>a, <2>2, <3>1
      <3>6. \A d \in Call : at'[d] \in WaiterPlace \cup {"notify", "clearPending"} =>
              d # c /\ at'[d] = at[d] /\ entry'[d] = entry[d]
        BY <3>2 DEF WaiterPlace
      <3>7. \A d \in Call :
              /\ at'[d] \in {"notify", "clearPending"} => decisions'[entry'[d]] # "open"
              /\ at'[d] \in WaiterPlace /\ decisions'[entry'[d]] = "open"
                   => pending'[HostOf[d]] = entry'[d]
        BY <3>4, <3>5, <3>6 DEF Awaited, WaiterPlace, OwnerPlace
      <3>8. \A d \in Call : at'[d] \in {"look", "sleep"} => d \in listening'
        BY <3>1, <3>6 DEF Awaited, WaiterPlace
      <3>9. ASSUME NEW d \in Call, at'[d] = "sleep", d \notin notified'
            PROVE  /\ pending'[HostOf[d]] = entry'[d]
                   /\ \A e \in Call : at'[e] = "clearPending" => entry'[e] # entry'[d]
        <4>1. at[d] = "sleep" /\ d \notin notified /\ entry'[d] = entry[d]
          BY <3>1, <3>6, <3>9 DEF WaiterPlace
        <4>2. pending'[HostOf[d]] = entry[d]
          BY <3>5, <4>1 DEF Awaited, WaiterPlace
        <4>3. \A e \in Call : at'[e] = "clearPending" => entry'[e] # entry[d]
          BY <3>6, <4>1 DEF Awaited
        <4>4. QED
          BY <4>1, <4>2, <4>3
      <3>10. QED
        BY <3>7, <3>8, <3>9 DEF Awaited
    <2>3. QED
      BY <2>1, <2>2
  <1>3. CASE Decide(c)
    <2>1. /\ at[c] = "decide" /\ given[entry[c]] # "open" /\ entry[c] \in 1 .. Len(decisions)
          /\ given[entry[c]] \in AnswerOrOpen
      BY <1>3, OwnerHasEntry
         DEF Decide, NetworkInv, Settled, OwnerPlace, TypeOK, NetworkTypeOK, AnswerOrOpen
    <2>2. /\ at' = [at EXCEPT ![c] = "notify"]
          /\ decisions' = [decisions EXCEPT ![entry[c]] = given[entry[c]]]
          /\ UNCHANGED <<pending, entry, notified, listening>>
      BY <1>3 DEF Decide, waiting
    <2>3. \A e \in 1 .. Len(decisions) :
            decisions'[e] = IF e = entry[c] THEN given[e] ELSE decisions[e]
      BY <1>0, <2>1, <2>2, Replaced
    <2>4. \A d \in Call : at[d] \in WaiterPlace \cup OwnerPlace =>
            (decisions'[entry[d]] = "open" => decisions[entry[d]] = "open")
      BY <1>0, <1>a, <1>b, <2>1, <2>3
    <2>5. (\A d \in Call : d # c => at'[d] = at[d]) /\ at'[c] = "notify"
          /\ decisions'[entry[c]] # "open"
      BY <1>0, <2>1, <2>2, <2>3
    <2>6. QED
      BY <2>2, <2>4, <2>5 DEF Awaited, WaiterPlace, OwnerPlace
  <1>4. CASE NotifyWaiters(c)
    <2>1. /\ at[c] = "notify" /\ at' = [at EXCEPT ![c] = "clearPending"]
          /\ notified' = notified \cup {w \in listening : entry[w] = entry[c]}
          /\ UNCHANGED <<pending, decisions, entry, listening>>
      BY <1>4 DEF NotifyWaiters
    <2>2. (\A d \in Call : d # c => at'[d] = at[d]) /\ at'[c] = "clearPending"
      BY <1>0, <2>1
    <2>3. \A d \in Call : at'[d] \in WaiterPlace => d # c
      BY <2>2 DEF WaiterPlace
    <2>4. QED
      BY <2>1, <2>2, <2>3 DEF Awaited, WaiterPlace
  <1>5. CASE ClearPending(c)
    <2>1. /\ at[c] = "clearPending" /\ at' = [at EXCEPT ![c] = "authorized"]
          /\ pending' = [pending EXCEPT ![h] = 0]
          /\ UNCHANGED <<decisions, entry, notified, listening>>
      BY <1>5 DEF ClearPending, Return, waiting
    <2>2. (\A d \in Call : d # c => at'[d] = at[d]) /\ at'[c] = "authorized"
      BY <1>0, <2>1
    <2>3. decisions[entry[c]] # "open" /\ pending[h] = entry[c]
      BY <1>b, <2>1 DEF Awaited, OwnerPlace
    <2>4. \A d \in Call : pending[HostOf[d]] = entry[d] /\ entry[d] # entry[c] =>
            pending'[HostOf[d]] = entry[d]
      BY <1>0, <2>1, <2>3
    <2>5. \A d \in Call : at'[d] \in WaiterPlace \cup {"notify", "clearPending"} =>
            d # c /\ at'[d] = at[d]
      BY <2>2 DEF WaiterPlace
    <2>6. QED
      BY <2>1, <2>3, <2>4, <2>5 DEF Awaited, WaiterPlace
  <1>6. CASE Listen(c)
    <2>1. /\ at' = [at EXCEPT ![c] = "look"] /\ listening' = listening \cup {c} /\ at[c] = "listen"
          /\ notified' = notified \ {c} /\ UNCHANGED <<pending, decisions, entry>>
      BY <1>6 DEF Listen
    <2>2. (\A d \in Call : d # c => at'[d] = at[d]) /\ at'[c] = "look"
      BY <1>0, <2>1
    <2>3. QED
      BY <2>1, <2>2 DEF Awaited, WaiterPlace
  <1>7. CASE Look(c)
    <2>1. /\ at[c] = "look" /\ UNCHANGED <<pending, decisions, entry>>
          /\ \/ /\ decisions[entry[c]] # "open" /\ at' = [at EXCEPT ![c] = "authorized"]
                /\ listening' = listening \ {c} /\ notified' = notified \ {c}
             \/ /\ decisions[entry[c]] = "open" /\ at' = [at EXCEPT ![c] = "sleep"]
                /\ UNCHANGED <<notified, listening>>
      BY <1>7 DEF Look, Return, waiting
    <2>2. \A d \in Call : d # c => at'[d] = at[d]
      BY <1>0, <2>1
    <2>3. CASE decisions[entry[c]] # "open"
      <3>1. at'[c] = "authorized" /\ listening' = listening \ {c} /\ notified' = notified \ {c}
        BY <1>0, <2>1, <2>3
      <3>2. QED
        BY <2>1, <2>2, <3>1 DEF Awaited, WaiterPlace
    <2>4. CASE decisions[entry[c]] = "open"
      <3>1. at'[c] = "sleep" /\ UNCHANGED <<notified, listening>>
        BY <1>0, <2>1, <2>4
      <3>2. \A d \in Call : at[d] = "clearPending" => entry[d] # entry[c]
        BY <2>4 DEF Awaited
      <3>3. pending[h] = entry[c]
        BY <2>1, <2>4 DEF Awaited, WaiterPlace
      <3>4. QED
        BY <2>1, <2>2, <3>1, <3>2, <3>3 DEF Awaited, WaiterPlace
    <2>5. QED
      BY <2>3, <2>4
  <1>8. CASE Wake(c)
    <2>1. at' = [at EXCEPT ![c] = "listen"] /\ at[c] = "sleep"
          /\ UNCHANGED <<pending, decisions, entry, notified, listening>>
      BY <1>8 DEF Wake, networkVars, waiting
    <2>2. (\A d \in Call : d # c => at'[d] = at[d]) /\ at'[c] = "listen"
      BY <1>0, <2>1
    <2>3. QED
      BY <2>1, <2>2 DEF Awaited, WaiterPlace
  <1>9. QED
    <2>1. TRUE \in BOOLEAN
      OBVIOUS
    <2>2. CASE \E d \in Decision : AskAboutHost(c, d)
      BY <1>1, <2>1, <2>2 DEF AskAboutHost
    <2>3. CASE Authorize(c)
      <3>1. PICK prompts \in BOOLEAN : Authorizing(c, prompts)
        BY <2>3 DEF Authorize
      <3>2. QED
        BY <1>1, <1>2, <1>3, <1>4, <1>5, <1>6, <1>7, <1>8, <3>1 DEF Authorizing
    <2>4. QED
      BY <2>2, <2>3 DEF NetworkStep

\* A call that is cut off waits for nothing, and takes nobody's place.
LEMMA InterruptAwaited ==
  ASSUME TypeOK, Awaited, NEW t \in Turn, Interrupt(t)
  PROVE  Awaited'
  <1>1. UNCHANGED <<pending, decisions, notified, entry>>
    BY DEF Interrupt
  <1>2. ASSUME NEW d \in Call, at'[d] \in WaiterPlace \cup {"notify", "clearPending"}
        PROVE  at'[d] = at[d] /\ (d \in listening => d \in listening')
    BY <1>2 DEF Interrupt, WaiterPlace
  <1>3. QED
    BY <1>1, <1>2, AwaitedStays

\* The steps of a call keep the lines.
LEMMA OwnLines ==
  ASSUME TypeOK, Lines, NEW c \in Call, OwnStep(c)
  PROVE  Lines'
  <1> DEFINE t == TurnOf[c]
             q == line[t]
  <1>0. /\ t \in Turn /\ TurnOf \in [Call -> Turn] /\ line \in [Turn -> Seq(Call)]
        /\ q \in Seq(Call) /\ at \in [Call -> Place] /\ holding \subseteq Call
    BY ToolConstantsOK DEF ToolConstantsOK, TypeOK
  <1>1. CASE EnterLine(c)
    <2>1. /\ at[c] = "called" /\ at' = [at EXCEPT ![c] = "line"] /\ holding' = holding
          /\ line' = [line EXCEPT ![t] = Append(q, c)]
      BY <1>1 DEF EnterLine
    <2>2. /\ line'[t] = Append(q, c) /\ \A s \in Turn : s # t => line'[s] = line[s]
          /\ at'[c] = "line" /\ \A d \in Call : d # c => at'[d] = at[d]
      BY <1>0, <2>1
    <2>3. /\ DOMAIN line'[t] = 1 .. Len(q) + 1 /\ Len(q) \in Nat /\ DOMAIN q = 1 .. Len(q)
          /\ line'[t][Len(q) + 1] = c /\ \A i \in 1 .. Len(q) : line'[t][i] = q[i]
      BY <1>0, <2>2
    <2>4. \A i \in DOMAIN q : q[i] \in Call /\ q[i] # c
      BY <1>0, <2>1 DEF Lines, Queued
    <2>5. Queued(t)'
      <3>1. \A i \in 1 .. Len(q) + 1 : i \in 1 .. Len(q) \/ i = Len(q) + 1
        BY <2>3
      <3>2. \A i \in 1 .. Len(q) : at'[line'[t][i]] = "line" /\ TurnOf[line'[t][i]] = t
        BY <1>0, <2>2, <2>3, <2>4 DEF Lines, Queued
      <3>3. \A i, j \in 1 .. Len(q) : i # j => line'[t][i] # line'[t][j]
        BY <1>0, <2>3, SMTT(40) DEF Lines, Queued
      <3>4. QED
        BY <2>2, <2>3, <2>4, <3>1, <3>2, <3>3 DEF Queued
    <2>6. \A s \in Turn : s # t => Queued(s)'
      <3>1. ASSUME NEW s \in Turn, s # t, NEW i \in DOMAIN line[s]
            PROVE  at'[line[s][i]] = "line" /\ TurnOf[line[s][i]] = s
        BY <1>0, <2>1, <2>2, <3>1 DEF Lines, Queued
      <3>2. QED
        BY <2>2, <3>1 DEF Lines, Queued
    <2>7. \A d \in Call : at'[d] = "line" => InLine(d)'
      <3>1. InLine(c)'
        BY <2>3 DEF InLine
      <3>2. ASSUME NEW d \in Call, d # c, at'[d] = "line"
            PROVE  InLine(d)'
        <4>1. InLine(d) /\ TurnOf[d] \in Turn
          BY <1>0, <2>2, <3>2 DEF Lines
        <4>2. CASE TurnOf[d] = t
          BY <2>3, <4>1, <4>2 DEF InLine
        <4>3. CASE TurnOf[d] # t
          BY <2>2, <4>1, <4>3 DEF InLine
        <4>4. QED
          BY <4>2, <4>3
      <3>3. QED
        BY <3>1, <3>2
    <2>8. \A d \in holding' : at'[d] \in Inside
      BY <1>0, <2>1, <2>2, InsidePlaces DEF Lines
    <2>9. QED
      BY <2>5, <2>6, <2>7, <2>8 DEF Lines
  <1>2. CASE Acquire(c)
    <2>1. /\ at[c] = "line" /\ at' = [at EXCEPT ![c] = "ownership"]
          /\ holding' = holding \cup {c} /\ q # <<>> /\ Head(q) = c
          /\ line' = [line EXCEPT ![t] = Tail(q)]
      BY <1>2 DEF Acquire
    <2>2. /\ line'[t] = Tail(q) /\ \A s \in Turn : s # t => line'[s] = line[s]
          /\ at'[c] = "ownership" /\ \A d \in Call : d # c => at'[d] = at[d]
      BY <1>0, <2>1
    <2>3. /\ DOMAIN line'[t] = 1 .. Len(q) - 1 /\ Len(q) \in Nat \ {0}
          /\ DOMAIN q = 1 .. Len(q) /\ q[1] = c
          /\ \A i \in 1 .. Len(q) - 1 : line'[t][i] = q[i + 1]
      BY <1>0, <2>1, <2>2
    <2>4. \A i \in 2 .. Len(q) : q[i] # c /\ q[i] \in Call
      <3>1. \A i \in 2 .. Len(q) : i \in DOMAIN q /\ 1 \in DOMAIN q /\ i # 1
        BY <2>3
      <3>2. \A i, j \in DOMAIN q : i # j => q[i] # q[j]
        BY <1>0 DEF Lines, Queued
      <3>3. ASSUME NEW i \in 2 .. Len(q)
            PROVE  q[i] # c /\ q[i] \in Call
        <4>1. i \in DOMAIN q /\ 1 \in DOMAIN q /\ i # 1
          BY <3>1
        <4>2. q[i] # q[1]
          BY <3>2, <4>1
        <4>3. q[i] \in Call
          BY <1>0, <4>1
        <4>4. QED
          BY <2>3, <4>2, <4>3
      <3>4. QED
        BY <3>3
    <2>5. Queued(t)'
      <3>1. \A i \in 1 .. Len(q) - 1 : i + 1 \in 2 .. Len(q) /\ i + 1 \in DOMAIN q
        BY <2>3
      <3>2. \A i \in DOMAIN line'[t] : at'[line'[t][i]] = "line" /\ TurnOf[line'[t][i]] = t
        <4>1. \A i \in DOMAIN q : at[q[i]] = "line" /\ TurnOf[q[i]] = t
          BY <1>0 DEF Lines, Queued
        <4>2. QED
          BY <2>2, <2>3, <2>4, <3>1, <4>1
      <3>3. \A i, j \in DOMAIN line'[t] : i # j => line'[t][i] # line'[t][j]
        <4>1. \A i, j \in DOMAIN q : i # j => q[i] # q[j]
          BY <1>0 DEF Lines, Queued
        <4>2. ASSUME NEW i \in 1 .. Len(q) - 1, NEW j \in 1 .. Len(q) - 1, i # j
              PROVE  line'[t][i] # line'[t][j]
          <5>1. i + 1 \in DOMAIN q /\ j + 1 \in DOMAIN q
            BY <3>1
          <5>2. i + 1 # j + 1
            BY <4>2
          <5>3. q[i + 1] # q[j + 1]
            BY <4>1, <5>1, <5>2
          <5>4. line'[t][i] = q[i + 1] /\ line'[t][j] = q[j + 1]
            BY <2>3
          <5>5. QED
            BY <5>3, <5>4
        <4>3. QED
          BY <2>3, <4>2
      <3>4. QED
        BY <3>2, <3>3 DEF Queued
    <2>6. \A s \in Turn : s # t => Queued(s)'
      <3>1. ASSUME NEW s \in Turn, s # t, NEW i \in DOMAIN line[s]
            PROVE  at'[line[s][i]] = "line" /\ TurnOf[line[s][i]] = s
        <4>1. line[s][i] \in Call /\ TurnOf[line[s][i]] = s /\ at[line[s][i]] = "line"
          BY <1>0 DEF Lines, Queued
        <4>2. QED
          BY <2>2, <3>1, <4>1
      <3>2. QED
        BY <2>2, <3>1 DEF Lines, Queued
    <2>7. ASSUME NEW d \in Call, at'[d] = "line"
          PROVE  InLine(d)'
      <3>1. d # c /\ InLine(d) /\ TurnOf[d] \in Turn
        BY <1>0, <2>2, <2>7 DEF Lines
      <3>2. CASE TurnOf[d] = t
        <4>1. PICK i \in DOMAIN q : q[i] = d
          BY <3>1, <3>2 DEF InLine
        <4>2. i # 1 /\ i \in 1 .. Len(q) /\ Len(q) \in Nat
          BY <2>3, <3>1, <4>1
        <4>3. i - 1 \in 1 .. Len(q) - 1 /\ i = (i - 1) + 1
          <5> DEFINE n == Len(q)
          <5> HIDE DEF n
          <5>1. i # 1 /\ i \in 1 .. n /\ n \in Nat
            BY <4>2 DEF n
          <5>2. i - 1 \in 1 .. n - 1 /\ i = (i - 1) + 1
            BY <5>1
          <5>3. QED
            BY <5>2 DEF n
        <4>4. line'[t][i - 1] = d
          BY <2>3, <4>1, <4>3
        <4>5. QED
          BY <2>3, <3>2, <4>3, <4>4 DEF InLine
      <3>3. CASE TurnOf[d] # t
        BY <2>2, <3>1, <3>3 DEF InLine
      <3>4. QED
        BY <3>2, <3>3
    <2>8. \A d \in holding' : at'[d] \in Inside
      BY <1>0, <2>1, <2>2, InsidePlaces DEF Lines
    <2>9. QED
      BY <2>5, <2>6, <2>7, <2>8 DEF Lines
  <1>3. CASE ~EnterLine(c) /\ ~Acquire(c)
    <2> DEFINE Moves ==
          /\ line' = line /\ at[c] # "line" /\ \A d \in Call : d # c => at'[d] = at[d]
          /\ \/ at'[c] \in Inside /\ holding' = holding
             \/ at'[c] = "done" /\ holding' = holding \ {c}
    <2>1. Moves
      <3> USE <1>0, InsidePlaces
      <3>1. CASE CheckOwnership(c)
        BY <3>1 DEF CheckOwnership, Finished, gate
      <3>2. CASE DecideApproval(c)
        BY <3>2 DEF DecideApproval, Finished, gate
      <3>3. CASE BeginAttempt(c)
        BY <3>3 DEF BeginAttempt, gate
      <3>4. CASE CheckAgain(c)
        BY <3>4 DEF CheckAgain, EndRun, gate
      <3>5. CASE UseVerdict(c)
        BY <3>5 DEF UseVerdict, EndRun, gate
      <3>6. CASE Execute(c)
        BY <3>6 DEF Execute, EndRun, gate
      <3>7. CASE FinishAttempt(c)
        BY <3>7 DEF FinishAttempt, Finished, Retry, gate
      <3>8. CASE \E d \in Decision : Answer(c, d)
        BY <3>8 DEF Answer, Finished, gate
      <3>9. CASE \E d \in Decision : AnswerRetry(c, d)
        BY <3>9 DEF AnswerRetry, Finished, gate
      <3>10. QED
        BY <1>3, <3>1, <3>2, <3>3, <3>4, <3>5, <3>6, <3>7, <3>8, <3>9 DEF OwnStep
    <2>2. \A d \in Call : at'[d] = "line" <=> at[d] = "line"
      BY <2>1, InsidePlaces
    <2>3. \A s \in Turn : \A i \in DOMAIN line[s] : line[s][i] \in Call
      BY <1>0
    <2>4. \A s \in Turn : Queued(s)'
      BY <2>1, <2>2, <2>3 DEF Lines, Queued
    <2>5. \A d \in Call : at'[d] = "line" => InLine(d)'
      BY <2>1, <2>2 DEF Lines, InLine
    <2>6. \A d \in holding' : at'[d] \in Inside
      BY <1>0, <2>1 DEF Lines
    <2>7. QED
      BY <2>4, <2>5, <2>6 DEF Lines
  <1>4. QED
    BY <1>1, <1>2, <1>3

\* So do the steps of the service, which have no part in it.
LEMMA NetworkLines ==
  ASSUME TypeOK, Lines, NEW c \in Call, NetworkStep(c), UNCHANGED toolVars
  PROVE  Lines'
  <1>1. \A d \in Call : at'[d] # at[d] => at[d] \in NetworkPlace /\ at'[d] \in NetworkPlace
    BY DEF NetworkStep, Authorize, AskAboutHost, TypeOK, Authorizing, CheckPolicy, CheckDenied,
           CheckApproved, GetPending, AnswerHost, Forget, Remember, Decide, NotifyWaiters,
           ClearPending, Listen, Look, Wake, Return, NetworkPlace, OwnerPlace, WaiterPlace
  <1>2. "line" \notin NetworkPlace /\ NetworkPlace \subseteq Inside
    BY DEF NetworkPlace, OwnerPlace, WaiterPlace, Inside
  <1>3. line' = line /\ holding' = holding
    BY DEF toolVars
  <1>4. \A s \in Turn : \A i \in DOMAIN line[s] : line[s][i] \in Call
    BY DEF TypeOK
  <1>5. \A s \in Turn : Queued(s)'
    BY <1>1, <1>2, <1>3, <1>4 DEF Lines, Queued
  <1>6. \A d \in Call : at'[d] = "line" => InLine(d)'
    BY <1>1, <1>2, <1>3 DEF Lines, InLine
  <1>7. \A d \in holding' : at'[d] \in Inside
    BY <1>1, <1>2, <1>3 DEF Lines, TypeOK
  <1>8. QED
    BY <1>5, <1>6, <1>7 DEF Lines

\* An interrupt empties the line of its turn and takes its calls from the gate.
LEMMA InterruptLines ==
  ASSUME TypeOK, Lines, NEW t \in Turn, Interrupt(t)
  PROVE  Lines'
  <1> DEFINE dropped == {c \in Call : TurnOf[c] = t /\ Live(c)}
  <1>1. /\ at' = [c \in Call |-> IF c \in dropped THEN "dropped" ELSE at[c]]
        /\ line' = [line EXCEPT ![t] = <<>>] /\ holding' = holding \ dropped
    BY DEF Interrupt
  <1>2. /\ line'[t] = <<>> /\ \A s \in Turn : s # t => line'[s] = line[s]
        /\ \A c \in Call : TurnOf[c] # t => at'[c] = at[c]
        /\ \A c \in Call : c \notin dropped => at'[c] = at[c]
        /\ \A c \in Call : at'[c] = "line" => at[c] = "line" /\ TurnOf[c] # t
    BY <1>1 DEF TypeOK, Live
  <1>3. TurnOf \in [Call -> Turn]
    BY ToolConstantsOK DEF ToolConstantsOK
  <1>4. \A s \in Turn : \A i \in DOMAIN line[s] : line[s][i] \in Call
    BY DEF TypeOK
  <1>5. Queued(t)'
    <2>1. DOMAIN line'[t] = {}
      BY <1>2
    <2>2. QED
      BY <2>1 DEF Queued
  <1>6. \A s \in Turn : s # t => Queued(s)'
    BY <1>2, <1>4 DEF Lines, Queued
  <1>7. \A c \in Call : at'[c] = "line" => InLine(c)'
    BY <1>2, <1>3 DEF Lines, InLine
  <1>8. \A c \in holding' : at'[c] \in Inside
    BY <1>1, <1>2 DEF Lines, TypeOK
  <1>9. QED
    BY <1>5, <1>6, <1>7, <1>8 DEF Lines

\* What the invariants say of those who wait.
LEMMA WaitedFor ==
  ASSUME TypeOK, NetworkInv, Awaited, Lines
  PROVE  NobodyWaitsInVain
  <1>1. ASSUME NEW c \in Call, at[c] = "sleep", c \notin notified
        PROVE  /\ pending[HostOf[c]] = entry[c]
               /\ \/ OwnerDropped(HostOf[c])
                  \/ \E d \in Call : at[d] \in OwnerPlace \ {"clearPending"} /\ entry[d] = entry[c]
    <2>1. /\ pending[HostOf[c]] = entry[c] /\ entry[c] # 0
          /\ \A d \in Call : at[d] = "clearPending" => entry[d] # entry[c]
      BY <1>1 DEF Awaited, NetworkInv, Settled, WaiterPlace
    <2>2. CASE \A d \in Call : HostOf[d] = HostOf[c] => at[d] \notin OwnerPlace
      BY <2>1, <2>2 DEF OwnerDropped
    <2>3. ASSUME NEW d \in Call, HostOf[d] = HostOf[c], at[d] \in OwnerPlace
          PROVE  at[d] \in OwnerPlace \ {"clearPending"} /\ entry[d] = entry[c]
      BY <2>1, <2>3 DEF NetworkInv, Owners
    <2>4. QED
      BY <2>1, <2>2, <2>3
  <1>2. QED
    BY <1>1 DEF NobodyWaitsInVain, Lines, Queued, InLine, Inside

-----------------------------------------------------------------------------
(* The invariant of the specification *)

Inv == TypeOK /\ Attempts /\ NetworkInv /\ Gate /\ Consent /\ Awaited /\ Lines

LEMMA InitInv == Init => Inv
  <1> SUFFICES ASSUME Init PROVE Inv
    OBVIOUS
  <1> USE DEF Init, NetworkInit
  <1>1. at = [c \in Call |-> "called"]
    OBVIOUS
  <1>2. \A c \in Call : at[c] \notin NetworkPlace \cup OwnerPlace \cup WaiterPlace
    BY <1>1 DEF NetworkPlace, OwnerPlace, WaiterPlace
  <1>3. NetworkTypeOK
    <2>1. <<>> \in Seq(Decision \cup {"open"}) /\ Len(<<>>) = 0
      OBVIOUS
    <2>2. QED
      BY <2>1 DEF NetworkTypeOK, Outcome
  <1>4. TypeOK
    <2>1. line \in [Turn -> Seq(Call)]
      OBVIOUS
    <2>2. QED
      BY <1>3, <2>1, Places DEF TypeOK
  <1>5. Attempts
    BY DEF Attempts
  <1>6. Owners /\ OneOwner
    BY <1>2 DEF Owners, OneOwner
  <1>7. Settled /\ VerdictIsAnswer
    BY <1>1 DEF Settled, VerdictIsAnswer, WaiterPlace
  <1>8. Remembered /\ SessionRemembers
    BY <1>1 DEF Remembered, SessionRemembers, OwnerPlace
  <1>9. Gate /\ Consent
    BY <1>1 DEF Gate, Consent, NetworkPlace, OwnerPlace, WaiterPlace
  <1>10. Awaited
    BY <1>1 DEF Awaited, WaiterPlace
  <1>11. Lines
    <2>1. \A t \in Turn : DOMAIN line[t] = {}
      OBVIOUS
    <2>2. QED
      BY <1>1, <2>1 DEF Lines, Queued
  <1>12. QED
    BY <1>4, <1>5, <1>6, <1>7, <1>8, <1>9, <1>10, <1>11 DEF Inv, NetworkInv

LEMMA NextInv == Inv /\ [Next]_vars => Inv'
  <1> SUFFICES ASSUME Inv, [Next]_vars PROVE Inv'
    OBVIOUS
  <1>0. TypeOK /\ Attempts /\ NetworkInv /\ Gate /\ Consent /\ Owners /\ Settled /\ Awaited /\ Lines
    BY DEF Inv, NetworkInv
  <1>1. ASSUME NEW c \in Call, OwnStep(c)
        PROVE  Inv'
    BY <1>0, <1>1, OwnSteps, OwnOutside, OutsideKeeps, GateKeeps, ConsentKeeps, OwnAwaited, OwnLines
       DEF Inv
  <1>2. ASSUME NEW c \in Call, NetworkStep(c)
        PROVE  Inv'
    <2>1. TypeOK' /\ Attempts' /\ UNCHANGED toolVars
      BY <1>0, <1>2, NetworkSteps
    <2>2. NetworkInv'
      BY <1>0, <1>2, NetworkKeeps
    <2>3. Gate'
      BY <1>0, <2>1 DEF Gate, toolVars
    <2>4. Consent'
      <3>1. UNCHANGED <<policy, sandbox, always, consented, attempt>>
        BY <2>1 DEF toolVars
      <3>2. \A d \in Call : at'[d] # at[d] => at[d] \in NetworkPlace /\ at'[d] \in NetworkPlace
        BY <1>0, <1>2
           DEF NetworkStep, Authorize, AskAboutHost, TypeOK, Authorizing, CheckPolicy,
               CheckDenied, CheckApproved, GetPending, AnswerHost, Forget, Remember, Decide,
               NotifyWaiters, ClearPending, Listen, Look, Wake, Return, NetworkPlace, OwnerPlace,
               WaiterPlace
      <3>3. \A d \in Call : (Cleared(d)' <=> Cleared(d)) /\ Requirement(d)' = Requirement(d)
        BY <3>1, RequirementStays DEF Cleared
      <3>4. "begin" \notin NetworkPlace
        BY DEF NetworkPlace, OwnerPlace, WaiterPlace
      <3>5. QED
        BY <1>0, <3>1, <3>2, <3>3, <3>4 DEF Consent
    <2>5. Awaited' /\ Lines'
      BY <1>0, <1>2, <2>1, NetworkAwaited, NetworkLines
    <2>6. QED
      BY <2>1, <2>2, <2>3, <2>4, <2>5 DEF Inv
  <1>3. ASSUME NEW t \in Turn, Interrupt(t)
        PROVE  Inv'
    <2>1. TypeOK' /\ Attempts' /\ Outside /\ holding' \subseteq holding
      BY <1>0, <1>3, InterruptSteps
    <2>2. /\ UNCHANGED <<policy, sandbox, always, consented, attempt>>
          /\ \A d \in Call : at'[d] = at[d] \/ at'[d] = "dropped"
      BY <1>0, <1>3 DEF Interrupt, settings, TypeOK
    <2>3. \A d \in Call : (Cleared(d)' <=> Cleared(d)) /\ Requirement(d)' = Requirement(d)
      BY <2>2, RequirementStays DEF Cleared
    <2>4. Consent'
      BY <1>0, <2>2, <2>3 DEF Consent, NetworkPlace, OwnerPlace, WaiterPlace
    <2>5. Gate'
      BY <1>0, <2>1 DEF Gate
    <2>6. QED
      BY <1>0, <1>3, <2>1, <2>4, <2>5, OutsideKeeps, InterruptAwaited, InterruptLines DEF Inv
  <1>4. CASE UNCHANGED vars
    <2>1. TypeOK' /\ Attempts' /\ NetworkInv' /\ Gate' /\ Consent'
      BY <1>0, <1>4
         DEF vars, networkVars, toolVars, TypeOK, NetworkTypeOK, Attempts, NetworkInv, Owners,
             OneOwner, Settled, VerdictIsAnswer, Remembered, Agrees, SessionRemembers, Gate,
             Consent, Cleared, Requirement, CommandRequirement
    <2>2. Awaited' /\ Lines'
      BY <1>0, <1>4
         DEF vars, networkVars, toolVars, waiting, Awaited, Lines, Queued, InLine
    <2>3. QED
      BY <2>1, <2>2 DEF Inv
  <1>5. QED
    BY <1>1, <1>2, <1>3, <1>4
       DEF Next, CallStep, UserAnswers, OwnStep, NetworkStep

LEMMA SpecInv == Spec => []Inv
  BY InitInv, NextInv, PTL DEF Spec

\* One call at a time asks about a host, and the pending entry of the host is its own,
\* whichever turns and teammates meet in get_or_create_pending_approval.
THEOREM OneOwnerHolds == Spec => []OneOwner
  <1>1. Inv => OneOwner
    BY DEF Inv, NetworkInv
  <1>2. QED
    BY <1>1, SpecInv, PTL

\* A call that asked or waited is told what the user answered to the question it shared,
\* however late wait_for_decision looks.
THEOREM VerdictHolds == Spec => []VerdictIsAnswer
  <1>1. Inv => VerdictIsAnswer
    BY DEF Inv, NetworkInv
  <1>2. QED
    BY <1>1, SpecInv, PTL

\* The two sets of the session, each with a lock of its own, say of a host that nobody
\* settles what the user last decided for the session.
THEOREM SessionHolds == Spec => []SessionRemembers
  <1>1. Inv => SessionRemembers
    BY DEF Inv, NetworkInv
  <1>2. QED
    BY <1>1, SpecInv, PTL

\* A call that may change files is alone behind the gate of its turn, whatever its spec and
\* its handler say of it.
THEOREM AloneHolds == Spec => []ChangesAlone
  <1>1. Inv => ChangesAlone
    <2> SUFFICES ASSUME Inv PROVE ChangesAlone
      OBVIOUS
    <2>1. TypeOK /\ Gate
      BY DEF Inv
    <2>2. \A c, d \in holding : c \in Call /\ d \in Call
      BY <2>1 DEF TypeOK
    <2>3. \A c, d \in holding : c # d /\ TurnOf[c] = TurnOf[d] => ~Mutating(c) /\ ~Mutating(d)
      BY <2>1, <2>2, MutatingWrites DEF Gate
    <2>4. QED
      BY <2>1, <2>3 DEF ChangesAlone
  <1>2. QED
    BY <1>1, SpecInv, PTL

\* Nothing that needs an approval runs without one, and nothing leaves the sandbox for a
\* second attempt without one.
THEOREM AskedHolds == Spec => []NothingRunsUnasked
  <1>1. Inv => NothingRunsUnasked
    BY DEF Inv, Consent, Cleared, NothingRunsUnasked
  <1>2. QED
    BY <1>1, SpecInv, PTL

\* A waiter that sleeps is owed a notification, unless the owner of its question was dropped,
\* and no call waits at the gate but in its line, behind calls that are on their way: for
\* every order of listening, looking, deciding and notifying, and every refusal, error and
\* interrupt.  It is what CallsEnd needs of every state.
THEOREM WaitsAreForSomething == Spec => []NobodyWaitsInVain
  <1>1. Inv => NobodyWaitsInVain
    BY WaitedFor DEF Inv
  <1>2. QED
    BY <1>1, SpecInv, PTL
=============================================================================

-------------------------- MODULE NetworkApproval --------------------------
(***************************************************************************)
(* Who may reach which host: authorize_http_url and the table of attempts  *)
(* (core/src/tools/network_approval.rs).                                   *)
(*                                                                         *)
(* The service is one for the whole process, so calls of different         *)
(* teammates meet in it.  The first call that needs the user's word about a *)
(* host asks; those that come meanwhile wait for its answer.  Every table  *)
(* has a lock of its own, and each step here is what happens under one.    *)
(*                                                                         *)
(* This module has the state and the steps of the service; ToolCalls says  *)
(* when a call takes them.  A call asks about one host.  Left out: the     *)
(* audit log, which nothing reads back, and the matching of host names.    *)
(***************************************************************************)
EXTENDS Naturals, Sequences, FiniteSets

CONSTANTS
  Call,           \* tool calls
  Host,           \* hosts with protocol and port
  HostOf,         \* the host a call wants to reach
  DeniedDomains,  \* hosts that denied_domains matches
  AllowedDomains, \* hosts that allowed_domains or the tool's own list matches
  AllowListGiven, \* allowed_domains is not empty
  Managed         \* has_managed_network_requirements

ASSUME NetworkConstantsOK ==
  /\ HostOf \in [Call -> Host]
  /\ DeniedDomains \subseteq Host /\ AllowedDomains \subseteq Host
  /\ AllowListGiven \in BOOLEAN /\ Managed \in BOOLEAN

VARIABLES
  at,         \* where every call is
  attempts,   \* attempts: the outcome noted for a call's attempt, if it has one
  pending,    \* pending_host_approvals: the entry of a host, 0 for none
  decisions,  \* the decision of every entry made so far
  entry,      \* the entry a call owns or waits for
  notified,   \* waiters for whom notify_waiters has come since they listened
  listening,  \* waiters whose Notified future exists
  approved,   \* session_approved_hosts
  denied,     \* session_denied_hosts
  verdict,    \* what authorize_http_url returned to a call
  given,      \* history: the user's answer to the owner of an entry
  lastRule    \* history: the last decision for the session about a host

networkVars == <<attempts, pending, decisions, entry, notified, listening, approved, denied,
                 verdict, given, lastRule>>
sessionHosts == <<approved, denied, lastRule>>
waiting == <<notified, listening>>

Decision == {"once", "session", "deny"}
Outcome == {"none", "open", "deniedByUser", "deniedByPolicy"}
OwnerPlace == {"ask", "forget", "remember", "decide", "notify", "clearPending"}
WaiterPlace == {"listen", "look", "sleep"}
NetworkPlace ==
  {"checkPolicy", "checkDenied", "checkApproved", "getPending", "authorized"}
    \cup OwnerPlace \cup WaiterPlace

NetworkInit ==
  /\ attempts = [c \in Call |-> "none"]
  /\ pending = [h \in Host |-> 0]
  /\ decisions = <<>>
  /\ entry = [c \in Call |-> 0]
  /\ notified = {}
  /\ listening = {}
  /\ approved = {}
  /\ denied = {}
  /\ verdict = [c \in Call |-> "none"]
  /\ given = <<>>
  /\ lastRule = [h \in Host |-> "none"]

At(c, place) == at[c] = place
Goto(c, place) == at' = [at EXCEPT ![c] = place]
Return(c, v) == Goto(c, "authorized") /\ verdict' = [verdict EXCEPT ![c] = v]
Verdict(d) == IF d = "deny" THEN "rejected" ELSE "ok"

\* set_outcome: only of an attempt that is registered.
WithOutcome(c, o) == IF attempts[c] = "none" THEN attempts ELSE [attempts EXCEPT ![c] = o]

-----------------------------------------------------------------------------
(* What needs no question *)

CheckPolicy(c) ==
  /\ At(c, "checkPolicy")
  /\ IF HostOf[c] \in DeniedDomains
     THEN Return(c, "rejected") /\ attempts' = WithOutcome(c, "deniedByPolicy")
     ELSE /\ UNCHANGED attempts
          /\ IF HostOf[c] \in AllowedDomains
             THEN Return(c, "ok")
             ELSE Goto(c, "checkDenied") /\ UNCHANGED verdict
  /\ UNCHANGED <<pending, decisions, entry, waiting, sessionHosts, given>>

CheckDenied(c) ==
  /\ At(c, "checkDenied")
  /\ IF HostOf[c] \in denied
     THEN Return(c, "rejected") /\ attempts' = WithOutcome(c, "deniedByUser")
     ELSE Goto(c, "checkApproved") /\ UNCHANGED <<attempts, verdict>>
  /\ UNCHANGED <<pending, decisions, entry, waiting, sessionHosts, given>>

\* The approved hosts, then the cases in which nobody is asked: a turn without network
\* requirements, and a policy that never prompts.
CheckApproved(c, prompts) ==
  /\ At(c, "checkApproved")
  /\ CASE HostOf[c] \in approved -> Return(c, "ok") /\ UNCHANGED attempts
       [] HostOf[c] \notin approved /\ ~Managed /\ ~AllowListGiven ->
            Return(c, "ok") /\ UNCHANGED attempts
       [] OTHER ->
            IF prompts
            THEN Goto(c, "getPending") /\ UNCHANGED <<attempts, verdict>>
            ELSE Return(c, "rejected") /\ attempts' = WithOutcome(c, "deniedByPolicy")
  /\ UNCHANGED <<pending, decisions, entry, waiting, sessionHosts, given>>

-----------------------------------------------------------------------------
(* The call that asks *)

\* Fault: every call asks for itself.
AlwaysOwn(c) ==
  /\ At(c, "getPending")
  /\ pending' = [pending EXCEPT ![HostOf[c]] = Len(decisions) + 1]
  /\ entry' = [entry EXCEPT ![c] = Len(decisions) + 1]
  /\ decisions' = Append(decisions, "open")
  /\ given' = Append(given, "open")
  /\ Goto(c, "ask")
  /\ UNCHANGED <<attempts, waiting, sessionHosts, verdict>>

\* get_or_create_pending_approval, under one lock.
GetPending(c) ==
  /\ At(c, "getPending")
  /\ IF pending[HostOf[c]] # 0
     THEN /\ entry' = [entry EXCEPT ![c] = pending[HostOf[c]]]
          /\ Goto(c, "listen")
          /\ UNCHANGED <<pending, decisions, given>>
     ELSE /\ pending' = [pending EXCEPT ![HostOf[c]] = Len(decisions) + 1]
          /\ entry' = [entry EXCEPT ![c] = Len(decisions) + 1]
          /\ decisions' = Append(decisions, "open")
          /\ given' = Append(given, "open")
          /\ Goto(c, "ask")
  /\ UNCHANGED <<attempts, waiting, sessionHosts, verdict>>

\* The user answers.  A decision for once is not remembered.
AnswerHost(c, d) ==
  /\ At(c, "ask")
  /\ given' = [given EXCEPT ![entry[c]] = d]
  /\ Goto(c, IF d = "once" THEN "decide" ELSE "forget")
  /\ UNCHANGED <<attempts, pending, decisions, entry, waiting, sessionHosts, verdict>>

\* Fault: what was decided before stays.
ForgetNothing(c) ==
  /\ At(c, "forget")
  /\ Goto(c, "remember")
  /\ UNCHANGED networkVars

\* The sets of the session are changed one after the other.
Forget(c) ==
  /\ At(c, "forget")
  /\ IF given[entry[c]] = "session"
     THEN denied' = denied \ {HostOf[c]} /\ UNCHANGED approved
     ELSE approved' = approved \ {HostOf[c]} /\ UNCHANGED denied
  /\ Goto(c, "remember")
  /\ UNCHANGED <<attempts, pending, decisions, entry, waiting, verdict, given, lastRule>>

Remember(c) ==
  /\ At(c, "remember")
  /\ IF given[entry[c]] = "session"
     THEN approved' = approved \cup {HostOf[c]} /\ UNCHANGED <<denied, attempts>>
     ELSE /\ denied' = denied \cup {HostOf[c]}
          /\ attempts' = WithOutcome(c, "deniedByUser")
          /\ UNCHANGED approved
  /\ lastRule' = [lastRule EXCEPT ![HostOf[c]] = given[entry[c]]]
  /\ Goto(c, "decide")
  /\ UNCHANGED <<pending, decisions, entry, waiting, verdict, given>>

\* Fault: the waiters are let through whatever the answer.
DecideOpen(c) ==
  /\ At(c, "decide")
  /\ decisions' = [decisions EXCEPT ![entry[c]] = "once"]
  /\ Goto(c, "notify")
  /\ UNCHANGED <<attempts, pending, entry, waiting, sessionHosts, verdict, given>>

\* set_decision, up to the end of its lock.
Decide(c) ==
  /\ At(c, "decide")
  /\ decisions' = [decisions EXCEPT ![entry[c]] = given[entry[c]]]
  /\ Goto(c, "notify")
  /\ UNCHANGED <<attempts, pending, entry, waiting, sessionHosts, verdict, given>>

\* notify_waiters: everyone who listens now.
NotifyWaiters(c) ==
  /\ At(c, "notify")
  /\ notified' = notified \cup {w \in listening : entry[w] = entry[c]}
  /\ Goto(c, "clearPending")
  /\ UNCHANGED <<attempts, pending, decisions, entry, listening, sessionHosts, verdict, given>>

ClearPending(c) ==
  /\ At(c, "clearPending")
  /\ pending' = [pending EXCEPT ![HostOf[c]] = 0]
  /\ Return(c, Verdict(given[entry[c]]))
  /\ UNCHANGED <<attempts, decisions, entry, waiting, sessionHosts, given>>

-----------------------------------------------------------------------------
(* The calls that wait: wait_for_decision *)

\* Fault: the future is made only after the look, and too late for a notification.
LookUnheard(c) ==
  /\ At(c, "listen")
  /\ notified' = notified \ {c}
  /\ Goto(c, "look")
  /\ UNCHANGED <<attempts, pending, decisions, entry, listening, sessionHosts, verdict, given>>

Listen(c) ==
  /\ At(c, "listen")
  /\ listening' = listening \cup {c}
  /\ notified' = notified \ {c}
  /\ Goto(c, "look")
  /\ UNCHANGED <<attempts, pending, decisions, entry, sessionHosts, verdict, given>>

Look(c) ==
  /\ At(c, "look")
  /\ IF decisions[entry[c]] # "open"
     THEN /\ Return(c, Verdict(decisions[entry[c]]))
          /\ listening' = listening \ {c}
          /\ notified' = notified \ {c}
     ELSE Goto(c, "sleep") /\ UNCHANGED <<waiting, verdict>>
  /\ UNCHANGED <<attempts, pending, decisions, entry, sessionHosts, given>>

Wake(c) ==
  /\ At(c, "sleep") /\ c \in notified
  /\ Goto(c, "listen")
  /\ UNCHANGED networkVars

-----------------------------------------------------------------------------
\* The steps a call takes by itself, once it wants to know whether it may.
Authorizing(c, prompts) ==
  \/ CheckPolicy(c)
  \/ CheckDenied(c)
  \/ CheckApproved(c, prompts)
  \/ GetPending(c)
  \/ Forget(c)
  \/ Remember(c)
  \/ Decide(c)
  \/ NotifyWaiters(c)
  \/ ClearPending(c)
  \/ Listen(c)
  \/ Look(c)
  \/ Wake(c)

NetworkTypeOK ==
  /\ attempts \in [Call -> Outcome]
  /\ decisions \in Seq(Decision \cup {"open"}) /\ given \in Seq(Decision \cup {"open"})
  /\ Len(given) = Len(decisions)
  /\ pending \in [Host -> 0 .. Len(decisions)]
  /\ entry \in [Call -> 0 .. Len(decisions)]
  /\ listening \subseteq Call /\ notified \subseteq Call
  /\ approved \subseteq Host /\ denied \subseteq Host
  /\ verdict \in [Call -> {"none", "ok", "rejected"}]
  /\ lastRule \in [Host -> {"none", "session", "deny"}]

\* A host has at most one question before the user, and its pending entry belongs to the
\* call that asks: calls of several teammates come together in one prompt, and the owner
\* removes no entry but its own.
OneOwner ==
  \A c \in Call :
    at[c] \in OwnerPlace =>
      /\ pending[HostOf[c]] = entry[c]
      /\ \A d \in Call \ {c} : at[d] \in OwnerPlace => HostOf[d] # HostOf[c]

\* What a call is told about a host it asked or waited for is what the user answered to
\* the question it shared, however late it looks and whatever was asked since.
VerdictIsAnswer ==
  \A c \in Call :
    At(c, "authorized") /\ entry[c] # 0 =>
      /\ given[entry[c]] # "open"
      /\ verdict[c] = Verdict(given[entry[c]])

\* While nobody settles a host, the session remembers exactly the last decision that was
\* made for the session: one set has the host, never both, whatever the order of the
\* answers.
SessionRemembers ==
  \A h \in Host :
    pending[h] = 0 =>
      /\ h \in approved <=> lastRule[h] = "session"
      /\ h \in denied <=> lastRule[h] = "deny"
=============================================================================

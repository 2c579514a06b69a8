------------------------------ MODULE Mailbox ------------------------------
(***************************************************************************)
(* The messages of a team (core/src/agent/team_state.rs): posting, reading,*)
(* claiming from a queue, acknowledging, expiring and clearing.  Every     *)
(* operation runs under the lock of team_state and is one step here.       *)
(*                                                                         *)
(* Direct, channel and broadcast mail differ only in whether there is a    *)
(* recipient.  A message with a queue name is a queue item, with or        *)
(* without a recipient: send_team_message and send_team_nudge accept both. *)
(*                                                                         *)
(* The clock does not go backwards, so created_at orders messages as the   *)
(* list does.  Left out: bodies, correlation, task ids and time stamps     *)
(* that only snapshots show.                                               *)
(***************************************************************************)
EXTENDS Naturals, Sequences, FiniteSets

CONSTANTS
  Thread,        \* the teammates and the root thread
  NoThread,      \* no recipient, not claimed
  Queue,         \* queue names
  NoQueue,       \* not a queue item
  Priority,      \* ranks of priorities, higher first
  Forever,       \* expires_at of durable mail
  MaxMessages,   \* bound: messages posted between two clears
  MaxTime        \* bound: the clock

ASSUME ConstantsOK ==
  /\ NoThread \notin Thread
  /\ NoQueue \notin Queue
  /\ Priority \subseteq Nat
  /\ Forever \notin Nat
  /\ MaxMessages \in Nat
  /\ MaxTime \in Nat

AckState == {"NotRequired", "Pending", "Acknowledged", "Expired"}
StoredMessage == [
  sender : Thread, recipient : Thread \cup {NoThread}, queue : Queue \cup {NoQueue},
  priority : Priority, expires : Nat \cup {Forever}, claimedBy : Thread \cup {NoThread},
  ack : AckState, ackedBy : Thread \cup {NoThread}, seen : SUBSET Thread]

VARIABLES
  messages,      \* TeamState.messages
  version,       \* TeamState.mailbox_version
  now            \* the clock, in seconds

vars == <<messages, version, now>>

Init == messages = <<>> /\ version = 0 /\ now = 0

\* Only nudges carry an expiry.
IsExpired(m) == m.expires # Forever /\ m.expires <= now

IsVisibleTo(m, t) ==
  \/ m.sender = t
  \/ m.recipient = t
  \/ m.recipient = NoThread /\ (m.queue = NoQueue \/ m.claimedBy = t)

CanAck(m, t) == IF m.queue # NoQueue THEN m.claimedBy = t ELSE m.recipient = t

\* expire_messages, the first thing every operation does.
Expire(m) == IF IsExpired(m) THEN [m EXCEPT !.ack = "Expired"] ELSE m
Swept == [i \in DOMAIN messages |-> Expire(messages[i])]
Bump(before, after) == IF before = after THEN 0 ELSE 1
SweptVersion == version + Bump(messages, Swept)

-----------------------------------------------------------------------------
Posted(sender, recipient, queue, priority, expires) ==
  [sender |-> sender, recipient |-> recipient, queue |-> queue, priority |-> priority,
   expires |-> expires, claimedBy |-> NoThread,
   ack |-> IF recipient # NoThread \/ queue # NoQueue THEN "Pending" ELSE "NotRequired",
   ackedBy |-> NoThread, seen |-> {sender}]

\* send_team_nudge always sets an expiry, and takes one that has passed already.
Post(sender, recipient, queue, priority, expires) ==
  /\ Len(messages) < MaxMessages
  /\ messages' = Append(Swept, Posted(sender, recipient, queue, priority, expires))
  /\ version' = SweptVersion + 1
  /\ UNCHANGED now

Peek ==
  /\ messages' = Swept
  /\ version' = SweptVersion
  /\ UNCHANGED now

\* What collect_messages returns to a reader.
Collected(t, unreadOnly) ==
  {i \in DOMAIN Swept : /\ IsVisibleTo(Swept[i], t)
                        /\ ~IsExpired(Swept[i])
                        /\ ~unreadOnly \/ t \notin Swept[i].seen}

Seen(ms, read, t) ==
  [i \in DOMAIN ms |-> IF i \in read THEN [ms[i] EXCEPT !.seen = @ \cup {t}] ELSE ms[i]]

\* Fault: marking messages as seen does not count as a change.
ReadUnversioned(t, unreadOnly) ==
  /\ messages' = Seen(Swept, Collected(t, unreadOnly), t)
  /\ version' = SweptVersion
  /\ UNCHANGED now

\* Fault: the reader sees the items of a queue before they are claimed.
ReadQueues(t, unreadOnly) ==
  /\ messages' = Seen(Swept, {i \in DOMAIN Swept : Swept[i].recipient = NoThread}, t)
  /\ version' = SweptVersion + Bump(Swept, messages')
  /\ UNCHANGED now

Read(t, unreadOnly) ==
  /\ messages' = Seen(Swept, Collected(t, unreadOnly), t)
  /\ version' = SweptVersion + Bump(Swept, messages')
  /\ UNCHANGED now

-----------------------------------------------------------------------------
(* claim_queue_messages *)

Claimable(i, q) ==
  ~IsExpired(messages[i]) /\ messages[i].queue = q /\ messages[i].claimedBy = NoThread
EligibleIn(q) == {i \in DOMAIN messages : Claimable(i, q)}

\* The sort: higher priority first, then the older message.
Before(i, j) ==
  \/ messages[i].priority > messages[j].priority
  \/ messages[i].priority = messages[j].priority /\ i < j
FirstOf(eligible, limit) ==
  {i \in eligible : Cardinality({j \in eligible : Before(j, i)}) < limit}

Claimed(ms, taken, t) ==
  [i \in DOMAIN ms |->
    IF i \in taken THEN [ms[i] EXCEPT !.claimedBy = t, !.seen = @ \cup {t}] ELSE ms[i]]

\* Fault: an item somebody claimed can be claimed again.
ClaimAgain(t, q, limit) ==
  LET taken == FirstOf({i \in DOMAIN messages : ~IsExpired(messages[i]) /\ messages[i].queue = q},
                       limit)
  IN /\ messages' = Claimed(Swept, taken, t)
     /\ version' = SweptVersion + (IF taken = {} THEN 0 ELSE 1)
     /\ UNCHANGED now

\* Fault: the oldest item goes first, whatever its priority.
ClaimOldest(t, q, limit) ==
  LET taken == {i \in EligibleIn(q) : Cardinality({j \in EligibleIn(q) : j < i}) < limit}
  IN /\ messages' = Claimed(Swept, taken, t)
     /\ version' = SweptVersion + (IF taken = {} THEN 0 ELSE 1)
     /\ UNCHANGED now

Claim(t, q, limit) ==
  LET taken == FirstOf(EligibleIn(q), limit)
  IN /\ messages' = Claimed(Swept, taken, t)
     /\ version' = SweptVersion + (IF taken = {} THEN 0 ELSE 1)
     /\ UNCHANGED now

-----------------------------------------------------------------------------
Acknowledged(ms, i, t) ==
  [ms EXCEPT ![i] = [ms[i] EXCEPT !.ack = "Acknowledged", !.ackedBy = t,
                                  !.seen = ms[i].seen \cup {t}]]

\* A refused acknowledgement only expires messages, as Peek does.
Ack(t, i) ==
  /\ CanAck(Swept[i], t) /\ Swept[i].ack = "Pending"
  /\ messages' = Acknowledged(Swept, i, t)
  /\ version' = SweptVersion + 1
  /\ UNCHANGED now

Clear ==
  /\ messages' = <<>>
  /\ version' = 0
  /\ UNCHANGED now

Tick ==
  /\ now < MaxTime
  /\ now' = now + 1
  /\ UNCHANGED <<messages, version>>

Expiry == 1..MaxTime \cup {Forever}

Next ==
  \/ \E sender \in Thread, recipient \in Thread \cup {NoThread}, queue \in Queue \cup {NoQueue},
        priority \in Priority, expires \in Expiry :
       Post(sender, recipient, queue, priority, expires)
  \/ Peek
  \/ \E t \in Thread, unreadOnly \in BOOLEAN : Read(t, unreadOnly)
  \/ \E t \in Thread, q \in Queue, limit \in 0..MaxMessages : Claim(t, q, limit)
  \/ \E t \in Thread, i \in DOMAIN messages : Ack(t, i)
  \/ Clear
  \/ Tick

Spec == Init /\ [][Next]_vars

-----------------------------------------------------------------------------
(* What the team relies on *)

TypeOK ==
  /\ messages \in Seq(StoredMessage)
  /\ version \in Nat
  /\ now \in Nat

\* A queue item without a recipient is seen by its sender and by the one teammate that
\* claimed it, and nobody else: reads never leak work before it is claimed.
ItemsSeenByHolder ==
  /\ TypeOK
  /\ \A i \in DOMAIN messages :
       LET m == messages[i] IN
       m.queue # NoQueue /\ m.recipient = NoThread => m.seen \subseteq {m.sender, m.claimedBy}

\* A message is acknowledged by the teammate that holds it, whatever happened to it
\* since: the claimer of a queue item, the recipient of mail.
AckedByHolder ==
  \A i \in DOMAIN messages :
    messages[i].ackedBy # NoThread =>
      /\ messages[i].ackedBy = (IF messages[i].queue # NoQueue THEN messages[i].claimedBy
                                ELSE messages[i].recipient)
      /\ messages[i].ack \in {"Acknowledged", "Expired"}

Cleared == messages' = <<>>

\* Everything a reader can observe raises the version, the expiry of a nudge and a mark
\* of another reader included: watch_inbox looks at nothing else.
VersionsChanges == Cleared \/ messages' = messages \/ version' > version
ChangesVersioned == [][VersionsChanges]_vars

\* A claim is never short, and passes over no more urgent item of the same queue and no
\* older one that is as urgent.
TakenNow(i) ==
  i \in DOMAIN messages' /\ messages[i].claimedBy = NoThread /\ messages'[i].claimedBy # NoThread
ClaimsInOrder ==
  Cleared \/ \A i, j \in DOMAIN messages :
    /\ TakenNow(i)
    /\ messages[j].queue = messages[i].queue
    /\ messages'[j].claimedBy = NoThread
    /\ ~IsExpired(messages[j])
    => Before(i, j)

\* And a claim takes as many as it asks for, as long as there are any.
Smaller(m, n) == IF m < n THEN m ELSE n
ClaimsAsked ==
  \A t \in Thread, q \in Queue, limit \in 0..MaxMessages :
    Claim(t, q, limit) =>
      Cardinality({i \in DOMAIN messages : TakenNow(i)})
        = Smaller(limit, Cardinality(EligibleIn(q)))

UrgentFirst == [][ClaimsInOrder /\ ClaimsAsked]_vars

-----------------------------------------------------------------------------
(* The abstract specification *)

\* What WorkQueue sees of the messages: who holds one, and who acknowledged it.
AsItem(m) ==
  [queue |-> m.queue, urgency |-> m.priority, doneBy |-> m.ackedBy,
   holder |-> IF m.queue # NoQueue THEN m.claimedBy ELSE m.recipient]
Items == [i \in DOMAIN messages |-> AsItem(messages[i])]
Lapsed == {i \in DOMAIN messages : IsExpired(messages[i])}

Work == INSTANCE WorkQueue
  WITH Worker <- Thread, NoOne <- NoThread, Urgency <- Priority,
       items <- Items, lapsed <- Lapsed

\* The mailbox is a queue of work: whatever is posted, read, expired and acknowledged in
\* between, an item goes to one claimer, in the order of urgency and age, stays with it,
\* and is finished once, by nobody else and not after its time.
IsWorkQueue == Work!Spec
=============================================================================

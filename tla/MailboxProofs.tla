--------------------------- MODULE MailboxProofs ---------------------------
(***************************************************************************)
(* The mailbox for every team, every number of messages and every clock.   *)
(*                                                                         *)
(* Every operation but Post and Clear replaces messages one by one, so the *)
(* invariants are proved of one message before and after the operation.    *)
(* The last section is about those who watch its version: InboxWatch.      *)
(***************************************************************************)
EXTENDS Mailbox, InboxWatch, FiniteSetTheorems, FunctionTheorems, SequenceTheorems, TLAPS

\* The invariants, of one message.
PrivateItem(m) ==
  m.queue # NoQueue /\ m.recipient = NoThread => m.seen \subseteq {m.sender, m.claimedBy}
AckedRightly(m) ==
  m.ackedBy # NoThread =>
    /\ m.ackedBy = (IF m.queue # NoQueue THEN m.claimedBy ELSE m.recipient)
    /\ m.ack \in {"Acknowledged", "Expired"}
GoodMessage(m) == m \in StoredMessage /\ PrivateItem(m) /\ AckedRightly(m)

MailInv ==
  /\ version \in Nat /\ now \in Nat
  /\ messages \in Seq(StoredMessage)
  /\ \A i \in DOMAIN messages : GoodMessage(messages[i])

LEMMA MailInvIs == MailInv <=> TypeOK /\ ItemsSeenByHolder /\ AckedByHolder
  BY DEF MailInv, GoodMessage, TypeOK, ItemsSeenByHolder, AckedByHolder, PrivateItem, AckedRightly

\* A list made by changing messages one by one.
LEMMA MappedMessages ==
  ASSUME NEW ms \in Seq(StoredMessage), NEW f, f = [i \in DOMAIN ms |-> f[i]],
         \A i \in DOMAIN ms : GoodMessage(f[i])
  PROVE  /\ f \in Seq(StoredMessage)
         /\ DOMAIN f = DOMAIN ms
         /\ \A i \in DOMAIN f : GoodMessage(f[i])
  <1>1. DOMAIN ms = 1..Len(ms) /\ Len(ms) \in Nat
    OBVIOUS
  <1>2. DOMAIN f = DOMAIN ms
    OBVIOUS
  <1>3. \A i \in 1..Len(ms) : f[i] \in StoredMessage
    BY <1>1 DEF GoodMessage
  <1>4. f \in [1..Len(ms) -> StoredMessage]
    BY <1>1, <1>2, <1>3
  <1>5. f \in Seq(StoredMessage)
    BY <1>1, <1>4, SeqDef
  <1>6. QED
    BY <1>2, <1>5

LEMMA ExpireGood ==
  ASSUME NEW m, GoodMessage(m)
  PROVE  /\ GoodMessage(Expire(m))
         /\ Expire(m).sender = m.sender /\ Expire(m).recipient = m.recipient
         /\ Expire(m).queue = m.queue /\ Expire(m).claimedBy = m.claimedBy
         /\ Expire(m).seen = m.seen /\ Expire(m).ackedBy = m.ackedBy
         /\ Expire(m).priority = m.priority /\ Expire(m).expires = m.expires
  BY DEF GoodMessage, Expire, StoredMessage, PrivateItem, AckedRightly, AckState

LEMMA SweptGood ==
  ASSUME MailInv
  PROVE  /\ Swept \in Seq(StoredMessage)
         /\ DOMAIN Swept = DOMAIN messages
         /\ \A i \in DOMAIN messages : Swept[i] = Expire(messages[i]) /\ GoodMessage(Swept[i])
         /\ SweptVersion \in Nat /\ SweptVersion >= version
         /\ Swept # messages => SweptVersion = version + 1
  <1>1. \A i \in DOMAIN messages : Swept[i] = Expire(messages[i]) /\ GoodMessage(Swept[i])
    BY ExpireGood DEF MailInv, Swept
  <1>2. Swept = [i \in DOMAIN messages |-> Swept[i]]
    BY DEF Swept
  <1>3. /\ Swept \in Seq(StoredMessage)
        /\ DOMAIN Swept = DOMAIN messages
    BY <1>1, <1>2, MappedMessages DEF MailInv
  <1>4. /\ SweptVersion \in Nat /\ SweptVersion >= version
        /\ Swept # messages => SweptVersion = version + 1
    BY DEF SweptVersion, Bump, MailInv
  <1>5. QED
    BY <1>1, <1>3, <1>4

LEMMA PostGood ==
  ASSUME MailInv, NEW sender \in Thread, NEW recipient \in Thread \cup {NoThread},
         NEW queue \in Queue \cup {NoQueue}, NEW priority \in Priority,
         NEW expires \in Expiry, Post(sender, recipient, queue, priority, expires)
  PROVE  MailInv'
  <1> DEFINE m == Posted(sender, recipient, queue, priority, expires)
  <1>1. expires \in Nat \cup {Forever}
    BY ConstantsOK DEF Expiry
  <1>2. GoodMessage(m)
    BY <1>1, ConstantsOK DEF Posted, GoodMessage, StoredMessage, AckState, PrivateItem, AckedRightly
  <1>3. messages' = Append(Swept, m) /\ version' = SweptVersion + 1 /\ now' = now
    BY DEF Post
  <1>4. m \in StoredMessage
    BY <1>2 DEF GoodMessage
  <1> HIDE DEF m
  <1>5. messages' \in Seq(StoredMessage) /\ DOMAIN messages' = 1..(Len(Swept) + 1)
        /\ \A i \in DOMAIN messages' : messages'[i] = (IF i <= Len(Swept) THEN Swept[i] ELSE m)
    BY <1>3, <1>4, SweptGood
  <1>6. DOMAIN Swept = 1..Len(Swept) /\ Len(Swept) \in Nat
    BY SweptGood
  <1>7. \A i \in DOMAIN messages' : GoodMessage(messages'[i])
    BY <1>2, <1>5, <1>6, SweptGood
  <1>8. version' \in Nat /\ now' \in Nat
    BY <1>3, SweptGood DEF MailInv
  <1>9. QED
    BY <1>5, <1>7, <1>8 DEF MailInv, GoodMessage, PrivateItem, AckedRightly

LEMMA ReadGood ==
  ASSUME MailInv, NEW t \in Thread, NEW unreadOnly \in BOOLEAN, Read(t, unreadOnly)
  PROVE  MailInv'
  <1> DEFINE read == Collected(t, unreadOnly)
  <1>1. messages' = Seen(Swept, read, t) /\ version' = SweptVersion + Bump(Swept, messages')
        /\ now' = now
    BY DEF Read
  <1>2. ASSUME NEW i \in DOMAIN Swept
        PROVE  GoodMessage(messages'[i])
    <2>1. GoodMessage(Swept[i])
      BY SweptGood
    <2>2. messages'[i] = IF i \in read THEN [Swept[i] EXCEPT !.seen = @ \cup {t}] ELSE Swept[i]
      BY <1>1 DEF Seen
    <2>3. CASE i \in read
      <3>1. IsVisibleTo(Swept[i], t)
        BY <2>3 DEF Collected
      <3>2. messages'[i] = [Swept[i] EXCEPT !.seen = @ \cup {t}]
        BY <2>2, <2>3
      <3>3. QED
        BY <2>1, <3>1, <3>2, ConstantsOK
        DEF GoodMessage, StoredMessage, IsVisibleTo, PrivateItem, AckedRightly
    <2>4. QED
      BY <2>1, <2>2, <2>3
  <1>3. messages' = [i \in DOMAIN Swept |-> messages'[i]]
    BY <1>1 DEF Seen
  <1>4. messages' \in Seq(StoredMessage) /\ \A i \in DOMAIN messages' : GoodMessage(messages'[i])
    BY <1>2, <1>3, SweptGood, MappedMessages
  <1>5. version' \in Nat /\ now' \in Nat
    BY <1>1, SweptGood DEF MailInv, Bump
  <1>6. QED
    BY <1>4, <1>5 DEF MailInv, GoodMessage, PrivateItem, AckedRightly

LEMMA ClaimGood ==
  ASSUME MailInv, NEW t \in Thread, NEW q \in Queue, NEW limit \in Nat, Claim(t, q, limit)
  PROVE  MailInv'
  <1> DEFINE taken == FirstOf(EligibleIn(q), limit)
  <1>1. messages' = Claimed(Swept, taken, t) /\ now' = now
        /\ version' = SweptVersion + (IF taken = {} THEN 0 ELSE 1)
    BY DEF Claim
  <1>2. ASSUME NEW i \in DOMAIN Swept
        PROVE  GoodMessage(messages'[i])
    <2>1. GoodMessage(Swept[i])
      BY SweptGood
    <2>2. messages'[i] = IF i \in taken THEN [Swept[i] EXCEPT !.claimedBy = t, !.seen = @ \cup {t}]
                         ELSE Swept[i]
      BY <1>1 DEF Claimed
    <2>3. CASE i \in taken
      <3>1. messages[i].claimedBy = NoThread
        BY <2>3 DEF FirstOf, EligibleIn, Claimable
      <3>2. Swept[i].claimedBy = NoThread /\ Swept[i].queue = messages[i].queue
        BY <3>1, SweptGood, ExpireGood DEF MailInv
      <3>3. messages'[i] = [Swept[i] EXCEPT !.claimedBy = t, !.seen = @ \cup {t}]
        BY <2>2, <2>3
      <3>4. Swept[i].seen \subseteq Thread
        BY <2>1 DEF GoodMessage, StoredMessage
      <3>5. messages[i].queue = q
        BY <2>3 DEF FirstOf, EligibleIn, Claimable
      <3>6. q # NoQueue
        BY ConstantsOK
      <3>7. messages'[i] \in StoredMessage
        BY <2>1, <3>3, ZenonT(40) DEF GoodMessage, StoredMessage
      <3>8. PrivateItem(messages'[i])
        BY <2>1, <3>2, <3>3, <3>4, ConstantsOK DEF GoodMessage, StoredMessage, PrivateItem
      <3>9. AckedRightly(messages'[i])
        BY <2>1, <3>2, <3>3, <3>5, <3>6 DEF GoodMessage, StoredMessage, AckedRightly
      <3>10. QED
        BY <3>7, <3>8, <3>9 DEF GoodMessage
    <2>4. QED
      BY <2>1, <2>2, <2>3
  <1>3. messages' = [i \in DOMAIN Swept |-> messages'[i]]
    BY <1>1 DEF Claimed
  <1>4. messages' \in Seq(StoredMessage) /\ \A i \in DOMAIN messages' : GoodMessage(messages'[i])
    BY <1>2, <1>3, SweptGood, MappedMessages
  <1>5. version' \in Nat /\ now' \in Nat
    BY <1>1, SweptGood DEF MailInv
  <1>6. QED
    BY <1>4, <1>5 DEF MailInv, GoodMessage, PrivateItem, AckedRightly

LEMMA AckGood ==
  ASSUME MailInv, NEW t \in Thread, NEW k \in DOMAIN messages, Ack(t, k)
  PROVE  MailInv'
  <1>1. messages' = Acknowledged(Swept, k, t) /\ now' = now /\ version' = SweptVersion + 1
        /\ CanAck(Swept[k], t)
    BY DEF Ack
  <1>2. k \in DOMAIN Swept
    BY SweptGood
  <1>3. ASSUME NEW i \in DOMAIN Swept
        PROVE  GoodMessage(messages'[i])
    <2>1. GoodMessage(Swept[i])
      BY SweptGood
    <2>2. CASE i = k
      <3> DEFINE n == [Swept[i] EXCEPT !.ack = "Acknowledged", !.ackedBy = t,
                                       !.seen = Swept[i].seen \cup {t}]
      <3>1. messages'[i] = n
        BY <1>1, <2>2 DEF Acknowledged
      <3>2. n \in StoredMessage
        BY <2>1 DEF GoodMessage, StoredMessage, AckState
      <3>3. PrivateItem(n)
        BY <1>1, <2>1, <2>2 DEF GoodMessage, StoredMessage, CanAck, PrivateItem
      <3>4. AckedRightly(n)
        BY <1>1, <2>1, <2>2 DEF GoodMessage, StoredMessage, CanAck, AckedRightly
      <3>5. QED
        BY <3>1, <3>2, <3>3, <3>4 DEF GoodMessage
    <2>3. CASE i # k
      BY <1>1, <2>1, <2>3 DEF Acknowledged
    <2>4. QED
      BY <2>2, <2>3
  <1>4. messages' = [i \in DOMAIN Swept |-> messages'[i]]
    BY <1>1 DEF Acknowledged
  <1>5. messages' \in Seq(StoredMessage) /\ \A i \in DOMAIN messages' : GoodMessage(messages'[i])
    BY <1>3, <1>4, SweptGood, MappedMessages
  <1>6. version' \in Nat /\ now' \in Nat
    BY <1>1, SweptGood DEF MailInv
  <1>7. QED
    BY <1>5, <1>6 DEF MailInv, GoodMessage, PrivateItem, AckedRightly

LEMMA InitGood == Init => MailInv
  BY DEF Init, MailInv

LEMMA StepGood == MailInv /\ [Next]_vars => MailInv'
  <1> SUFFICES ASSUME MailInv, [Next]_vars
               PROVE  MailInv'
    OBVIOUS
  <1>1. ASSUME NEW sender \in Thread, NEW recipient \in Thread \cup {NoThread},
               NEW queue \in Queue \cup {NoQueue}, NEW priority \in Priority,
               NEW expires \in Expiry, Post(sender, recipient, queue, priority, expires)
        PROVE  MailInv'
    BY <1>1, PostGood
  <1>2. CASE Peek
    BY <1>2, SweptGood DEF Peek, MailInv, GoodMessage, PrivateItem, AckedRightly
  <1>3. ASSUME NEW t \in Thread, NEW unreadOnly \in BOOLEAN, Read(t, unreadOnly)
        PROVE  MailInv'
    BY <1>3, ReadGood
  <1>4. ASSUME NEW t \in Thread, NEW q \in Queue, NEW limit \in 0..MaxMessages, Claim(t, q, limit)
        PROVE  MailInv'
    BY <1>4, ClaimGood, ConstantsOK
  <1>5. ASSUME NEW t \in Thread, NEW i \in DOMAIN messages, Ack(t, i)
        PROVE  MailInv'
    BY <1>5, AckGood
  <1>6. CASE Clear
    BY <1>6 DEF Clear, MailInv
  <1>7. CASE Tick
    BY <1>7 DEF Tick, MailInv, GoodMessage, PrivateItem, AckedRightly
  <1>8. CASE UNCHANGED vars
    BY <1>8 DEF vars, MailInv, GoodMessage, PrivateItem, AckedRightly
  <1>9. QED
    BY <1>1, <1>2, <1>3, <1>4, <1>5, <1>6, <1>7, <1>8 DEF Next

\* For every team and every mailbox: the values have their types.
THEOREM MailboxTypes == Spec => []TypeOK
  <1>1. Spec => []MailInv
    BY InitGood, StepGood, PTL DEF Spec
  <1>2. QED
    BY <1>1, MailInvIs, PTL

\* A queue item without a recipient is seen by nobody but its sender and its claimer:
\* collect_messages shows it to no other reader, and only claim_queue_messages marks it.
THEOREM QueueItemsPrivate == Spec => []ItemsSeenByHolder
  <1>1. Spec => []MailInv
    BY InitGood, StepGood, PTL DEF Spec
  <1>2. QED
    BY <1>1, MailInvIs, PTL

\* Only the claimer of an item or the recipient of mail ever acknowledges it, through
\* can_ack, and the claimer cannot change afterwards.
THEOREM AcksAreRightful == Spec => []AckedByHolder
  <1>1. Spec => []MailInv
    BY InitGood, StepGood, PTL DEF Spec
  <1>2. QED
    BY <1>1, MailInvIs, PTL

-----------------------------------------------------------------------------
(* What a step may not do.  Each operation but Clear and Post keeps the    *)
(* list's length.                                                          *)

LEMMA SweptKeepsClaims ==
  ASSUME MailInv, NEW i \in DOMAIN messages
  PROVE  i \in DOMAIN Swept /\ Swept[i].claimedBy = messages[i].claimedBy
  BY SweptGood, ExpireGood DEF MailInv

LEMMA StepVersionsChanges == MailInv /\ [Next]_vars => [VersionsChanges]_vars
  <1> SUFFICES ASSUME MailInv, Next, ~Cleared, messages' # messages
               PROVE  version' > version
    BY DEF VersionsChanges
  <1>0. version \in Nat
    BY DEF MailInv
  <1>1. ASSUME NEW sender \in Thread, NEW recipient \in Thread \cup {NoThread},
               NEW queue \in Queue \cup {NoQueue}, NEW priority \in Priority,
               NEW expires \in Expiry, Post(sender, recipient, queue, priority, expires)
        PROVE  version' > version
    BY <1>0, <1>1, SweptGood DEF Post
  <1>2. CASE Peek
    BY <1>0, <1>2, SweptGood DEF Peek
  <1>3. ASSUME NEW t \in Thread, NEW unreadOnly \in BOOLEAN, Read(t, unreadOnly)
        PROVE  version' > version
    <2>1. version' = SweptVersion + Bump(Swept, messages')
      BY <1>3 DEF Read
    <2>2. CASE messages' = Swept
      BY <1>0, <2>1, <2>2, SweptGood DEF Bump
    <2>3. CASE messages' # Swept
      BY <1>0, <2>1, <2>3, SweptGood DEF Bump
    <2>4. QED
      BY <2>2, <2>3
  <1>4. ASSUME NEW t \in Thread, NEW q \in Queue, NEW limit \in 0..MaxMessages, Claim(t, q, limit)
        PROVE  version' > version
    <2> DEFINE taken == FirstOf(EligibleIn(q), limit)
    <2>1. messages' = Claimed(Swept, taken, t)
          /\ version' = SweptVersion + (IF taken = {} THEN 0 ELSE 1)
      BY <1>4 DEF Claim
    <2>2. CASE taken = {}
      <3>1. messages' = [i \in DOMAIN Swept |-> Swept[i]]
        BY <2>1, <2>2 DEF Claimed
      <3>2. messages' = Swept
        BY <3>1 DEF Swept
      <3>3. QED
        BY <1>0, <2>1, <2>2, <3>2, SweptGood
    <2>3. CASE taken # {}
      BY <1>0, <2>1, <2>3, SweptGood
    <2>4. QED
      BY <2>2, <2>3
  <1>5. ASSUME NEW t \in Thread, NEW i \in DOMAIN messages, Ack(t, i)
        PROVE  version' > version
    BY <1>0, <1>5, SweptGood DEF Ack
  <1>6. CASE Clear
    BY <1>6 DEF Clear, Cleared
  <1>7. CASE Tick
    BY <1>7 DEF Tick
  <1>8. QED
    BY <1>1, <1>2, <1>3, <1>4, <1>5, <1>6, <1>7 DEF Next

\* Whatever an operation changes in the messages raises mailbox_version, so a reader that
\* compares versions misses no change; clearing starts again from 0.
THEOREM ChangesAreVersioned == Spec => ChangesVersioned
  <1>1. Spec => []MailInv
    BY InitGood, StepGood, PTL DEF Spec
  <1>2. QED
    BY <1>1, StepVersionsChanges, PTL DEF Spec, ChangesVersioned

-----------------------------------------------------------------------------
(* The order of claims *)

Ahead(S, k) == {x \in S : Before(x, k)}

LEMMA AheadIsFinite ==
  ASSUME MailInv, NEW S \in SUBSET DOMAIN messages, NEW k
  PROVE  /\ IsFiniteSet(S) /\ Cardinality(S) \in Nat
         /\ IsFiniteSet(Ahead(S, k)) /\ Cardinality(Ahead(S, k)) \in Nat
  <1>1. 1 \in Int /\ Len(messages) \in Int /\ S \in SUBSET (1..Len(messages))
    BY DEF MailInv
  <1>2. IsFiniteSet(1..Len(messages))
    BY <1>1, FS_Interval
  <1>3. IsFiniteSet(S)
    BY <1>1, <1>2, FS_Subset
  <1>4. Ahead(S, k) \in SUBSET S
    BY DEF Ahead
  <1>5. QED
    BY <1>3, <1>4, FS_Subset, FS_CardinalityType

LEMMA Ranked ==
  ASSUME MailInv, NEW k \in DOMAIN messages
  PROVE  k \in Nat /\ messages[k].priority \in Nat /\ ~Before(k, k)
  <1>1. k \in Nat /\ GoodMessage(messages[k])
    BY DEF MailInv
  <1>2. messages[k].priority \in Nat
    BY <1>1, ConstantsOK DEF GoodMessage, StoredMessage
  <1>3. QED
    BY <1>1, <1>2 DEF Before

\* Of two messages one goes before the other, and then fewer are ahead of it.
LEMMA FewerAreAhead ==
  ASSUME MailInv, NEW S \in SUBSET DOMAIN messages, NEW i \in S, NEW j \in S, i # j
  PROVE  /\ Before(i, j) \/ Before(j, i)
         /\ Before(i, j) => Cardinality(Ahead(S, i)) < Cardinality(Ahead(S, j))
  <1> DEFINE p(k) == messages[k].priority
  <1>1. \A k \in S : k \in Nat /\ p(k) \in Nat /\ ~Before(k, k)
    BY Ranked
  <1>2. \A x, y : Before(x, y) <=> p(x) > p(y) \/ (p(x) = p(y) /\ x < y)
    BY DEF Before
  <1> HIDE DEF p
  <1>3. Before(i, j) \/ Before(j, i)
    BY <1>1, <1>2
  <1>4. ASSUME Before(i, j)
        PROVE  Cardinality(Ahead(S, i)) < Cardinality(Ahead(S, j))
    <2>1. \A x \in S : Before(x, i) => Before(x, j)
      BY <1>1, <1>2, <1>4
    <2>2. ~Before(i, i)
      BY <1>1
    <2>3. Ahead(S, i) \in SUBSET Ahead(S, j) /\ i \in Ahead(S, j) /\ i \notin Ahead(S, i)
      BY <1>4, <2>1, <2>2 DEF Ahead
    <2>4. /\ IsFiniteSet(Ahead(S, j)) /\ Cardinality(Ahead(S, j)) \in Nat
          /\ Cardinality(Ahead(S, i)) \in Nat
      BY AheadIsFinite
    <2>5. /\ Cardinality(Ahead(S, i)) <= Cardinality(Ahead(S, j))
          /\ Cardinality(Ahead(S, j)) = Cardinality(Ahead(S, i)) => Ahead(S, j) = Ahead(S, i)
      BY <2>3, <2>4, FS_Subset
    <2>6. QED
      BY <2>3, <2>4, <2>5
  <1>5. QED
    BY <1>3, <1>4

LEMMA FirstOnesAre ==
  ASSUME NEW S, NEW limit
  PROVE  FirstOf(S, limit) = {i \in S : Cardinality(Ahead(S, i)) < limit}
  BY DEF FirstOf, Ahead

\* Taking the first ones of a finite set leaves none that comes before one taken.
LEMMA FirstOnesComeFirst ==
  ASSUME MailInv, NEW S \in SUBSET DOMAIN messages, NEW limit \in Nat,
         NEW i \in FirstOf(S, limit), NEW j \in S \ FirstOf(S, limit)
  PROVE  Before(i, j)
  <1>1. /\ i \in S /\ j \in S /\ i # j
        /\ Cardinality(Ahead(S, i)) < limit /\ ~(Cardinality(Ahead(S, j)) < limit)
    BY FirstOnesAre
  <1>2. Cardinality(Ahead(S, i)) \in Nat /\ Cardinality(Ahead(S, j)) \in Nat
    BY AheadIsFinite
  <1>3. ~Before(j, i)
    BY <1>1, <1>2, FewerAreAhead
  <1>4. QED
    BY <1>1, <1>3, FewerAreAhead

\* As many are taken as were asked for, if there are as many.  The number of messages ahead
\* of a message is its place in the order, from zero: a function without repetition into
\* as many numbers as there are messages, hence onto them.
LEMMA FirstOnesCounted ==
  ASSUME MailInv, NEW S \in SUBSET DOMAIN messages, NEW limit \in Nat
  PROVE  Cardinality(FirstOf(S, limit)) = Smaller(limit, Cardinality(S))
  <1> DEFINE size == Cardinality(S)
             place == [i \in S |-> Cardinality(Ahead(S, i))]
             First == FirstOf(S, limit)
             cut == [i \in First |-> place[i]]
  <1>1. IsFiniteSet(S) /\ size \in Nat /\ \A i \in S : place[i] \in Nat
    BY AheadIsFinite
  <1>2. \A i, j \in S : place[i] = place[j] => i = j
    BY <1>1, FewerAreAhead
  <1>3. \A i \in S : place[i] \in 0 .. size - 1
    <2>1. ASSUME NEW i \in S
          PROVE  place[i] \in 0 .. size - 1
      <3>1. ~Before(i, i)
        BY Ranked
      <3>2. Ahead(S, i) \in SUBSET S /\ Ahead(S, i) # S
        BY <3>1 DEF Ahead
      <3>3. place[i] <= size /\ place[i] # size
        BY <1>1, <3>2, FS_Subset
      <3>4. QED
        BY <1>1, <3>3
    <2>2. QED
      BY <2>1
  <1>4. /\ 0 \in Int /\ size - 1 \in Int /\ limit - 1 \in Int
        /\ IsFiniteSet(0 .. size - 1) /\ Cardinality(0 .. size - 1) = size
        /\ IsFiniteSet(0 .. limit - 1) /\ Cardinality(0 .. limit - 1) = limit
    <2>1. 0 \in Int /\ size - 1 \in Int /\ limit - 1 \in Int
      BY <1>1
    <2>2. /\ IsFiniteSet(0 .. size - 1)
          /\ Cardinality(0 .. size - 1) = IF 0 > size - 1 THEN 0 ELSE size - 1 - 0 + 1
          /\ IsFiniteSet(0 .. limit - 1)
          /\ Cardinality(0 .. limit - 1) = IF 0 > limit - 1 THEN 0 ELSE limit - 1 - 0 + 1
      BY <2>1, FS_Interval
    <2>3. QED
      BY <1>1, <2>1, <2>2
  <1>5. place \in Injection(S, 0 .. size - 1)
    BY <1>2, <1>3, Fun_IsInj
  <1>6. place \in Surjection(S, 0 .. size - 1)
    BY <1>4, <1>5, FS_Injection
  <1>7. First = {i \in S : place[i] < limit}
    BY FirstOnesAre
  <1>8. CASE size <= limit
    <2>1. First = S
      BY <1>1, <1>3, <1>7, <1>8
    <2>2. QED
      BY <1>1, <1>8, <2>1 DEF Smaller
  <1>9. CASE limit < size
    <2>1. cut \in Injection(First, 0 .. limit - 1)
      <3>1. \A i \in First : cut[i] \in 0 .. limit - 1
        BY <1>1, <1>7
      <3>2. \A i, j \in First : cut[i] = cut[j] => i = j
        BY <1>2, <1>7
      <3>3. QED
        BY <3>1, <3>2, Fun_IsInj
    <2>2. \A n \in 0 .. limit - 1 : \E i \in First : cut[i] = n
      <3>1. \A n \in 0 .. size - 1 : \E i \in S : place[i] = n
        BY <1>6 DEF Surjection
      <3>2. ASSUME NEW n \in 0 .. limit - 1
            PROVE  \E i \in First : cut[i] = n
        <4>1. n \in 0 .. size - 1 /\ n < limit
          BY <1>1, <1>9
        <4>2. PICK i \in S : place[i] = n
          BY <3>1, <4>1
        <4>3. QED
          BY <1>7, <4>1, <4>2
      <3>3. QED
        BY <3>2
    <2>3. cut \in Surjection(First, 0 .. limit - 1)
      <3> HIDE DEF First, cut
      <3>1. cut \in [First -> 0 .. limit - 1]
        BY <2>1, Fun_InjectionProperties
      <3>2. QED
        BY <2>2, <3>1, Fun_IsSurj
    <2>4. Cardinality(First) = Cardinality(0 .. limit - 1)
      BY <1>4, <2>1, <2>3, FS_Injection
    <2>5. QED
      BY <1>1, <1>4, <1>9, <2>4 DEF Smaller
  <1>10. QED
    BY <1>1, <1>8, <1>9

LEMMA StepClaimsAsked ==
  ASSUME MailInv
  PROVE  ClaimsAsked
  <1> SUFFICES ASSUME NEW t \in Thread, NEW q \in Queue, NEW limit \in 0..MaxMessages,
                      Claim(t, q, limit)
               PROVE  Cardinality({i \in DOMAIN messages : TakenNow(i)})
                        = Smaller(limit, Cardinality(EligibleIn(q)))
    BY DEF ClaimsAsked
  <1> DEFINE taken == FirstOf(EligibleIn(q), limit)
  <1>1. messages' = Claimed(Swept, taken, t)
    BY DEF Claim
  <1>2. EligibleIn(q) \in SUBSET DOMAIN messages /\ limit \in Nat
    BY ConstantsOK DEF EligibleIn
  <1>3. taken \subseteq EligibleIn(q)
    BY DEF FirstOf
  <1>4. ASSUME NEW i \in DOMAIN messages
        PROVE  TakenNow(i) <=> i \in taken
    <2>1. i \in DOMAIN Swept /\ Swept[i].claimedBy = messages[i].claimedBy
      BY SweptKeepsClaims
    <2>2. Swept[i] \in StoredMessage
      BY SweptGood, <2>1 DEF GoodMessage
    <2>3. CASE i \in taken
      <3>1. messages[i].claimedBy = NoThread
        BY <1>3, <2>3 DEF EligibleIn, Claimable
      <3>2. i \in DOMAIN messages' /\ messages'[i].claimedBy = t
        BY <1>1, <2>1, <2>2, <2>3 DEF Claimed, StoredMessage
      <3>3. QED
        BY <2>3, <3>1, <3>2, ConstantsOK DEF TakenNow, ConstantsOK
    <2>4. CASE i \notin taken
      <3>1. messages'[i] = Swept[i]
        BY <1>1, <2>1, <2>4 DEF Claimed
      <3>2. QED
        BY <2>1, <2>4, <3>1 DEF TakenNow
    <2>5. QED
      BY <2>3, <2>4
  <1>5. {i \in DOMAIN messages : TakenNow(i)} = taken
    BY <1>2, <1>3, <1>4
  <1>6. QED
    BY <1>2, <1>5, FirstOnesCounted

LEMMA StepClaimsInOrder == MailInv /\ [Next]_vars => [ClaimsInOrder]_vars
  <1> SUFFICES ASSUME MailInv, Next, ~Cleared, NEW i \in DOMAIN messages, NEW j \in DOMAIN messages,
                      TakenNow(i), messages[j].queue = messages[i].queue,
                      messages'[j].claimedBy = NoThread, ~IsExpired(messages[j])
               PROVE  Before(i, j)
    BY DEF ClaimsInOrder
  <1> USE SweptKeepsClaims
  <1>1. ASSUME NEW sender \in Thread, NEW recipient \in Thread \cup {NoThread},
               NEW queue \in Queue \cup {NoQueue}, NEW priority \in Priority,
               NEW expires \in Expiry, Post(sender, recipient, queue, priority, expires)
        PROVE  FALSE
    <2>1. Swept \in Seq(StoredMessage) /\ i \in 1..Len(Swept)
      BY SweptGood
    <2>2. messages'[i] = Swept[i]
      BY <1>1, <2>1 DEF Post
    <2>3. QED
      BY <2>2 DEF TakenNow
  <1>2. ASSUME NEW t \in Thread, NEW unreadOnly \in BOOLEAN, Read(t, unreadOnly)
        PROVE  FALSE
    <2>1. Swept[i] \in StoredMessage
      BY SweptGood DEF GoodMessage
    <2>2. messages'[i].claimedBy = Swept[i].claimedBy
      BY <1>2, <2>1 DEF Read, Seen, StoredMessage
    <2>3. QED
      BY <2>2 DEF TakenNow
  <1>3. ASSUME NEW t \in Thread, NEW q \in Queue, NEW limit \in 0..MaxMessages, Claim(t, q, limit)
        PROVE  Before(i, j)
    <2> DEFINE taken == FirstOf(EligibleIn(q), limit)
    <2>1. messages' = Claimed(Swept, taken, t)
      BY <1>3 DEF Claim
    <2>2. i \in taken
      BY <2>1 DEF Claimed, TakenNow
    <2>3. messages[i].queue = q
      BY <2>2 DEF FirstOf, EligibleIn, Claimable
    <2>4. Swept[j] \in StoredMessage
      BY SweptGood DEF GoodMessage
    <2>5. j \notin taken
      <3>1. SUFFICES ASSUME j \in taken
                     PROVE  FALSE
        OBVIOUS
      <3>2. messages'[j].claimedBy = t
        BY <2>1, <2>4, <3>1 DEF Claimed, StoredMessage
      <3>3. QED
        BY <3>2, ConstantsOK
    <2>6. messages[j].claimedBy = NoThread
      BY <2>1, <2>5 DEF Claimed
    <2>7. j \in EligibleIn(q)
      BY <2>3, <2>6 DEF EligibleIn, Claimable
    <2>8. EligibleIn(q) \in SUBSET DOMAIN messages /\ limit \in Nat
      BY ConstantsOK DEF EligibleIn
    <2>9. QED
      BY <2>2, <2>5, <2>7, <2>8, FirstOnesComeFirst
  <1>4. ASSUME NEW t \in Thread, NEW k \in DOMAIN messages, Ack(t, k)
        PROVE  FALSE
    <2>1. Swept[k] \in StoredMessage /\ k \in DOMAIN Swept
      BY SweptGood DEF GoodMessage
    <2>2. messages'[i].claimedBy = Swept[i].claimedBy
      BY <1>4, <2>1 DEF Ack, Acknowledged, StoredMessage
    <2>3. QED
      BY <2>2 DEF TakenNow
  <1>5. CASE Peek
    BY <1>5 DEF Peek, TakenNow
  <1>6. CASE Clear
    BY <1>6 DEF Clear, Cleared
  <1>7. CASE Tick
    BY <1>7 DEF Tick, TakenNow
  <1>8. QED
    BY <1>1, <1>2, <1>3, <1>4, <1>5, <1>6, <1>7 DEF Next

\* claim_queue_messages never leaves a more urgent item of the queue, or an older one of
\* the same urgency, for one it takes, and takes as many as it was asked for while there
\* are any, for every limit and every mix of priorities.
THEOREM ClaimsAreOrdered == Spec => UrgentFirst
  <1>1. Spec => []MailInv
    BY InitGood, StepGood, PTL DEF Spec
  <1>2. MailInv /\ [Next]_vars => [ClaimsInOrder /\ ClaimsAsked]_vars
    BY StepClaimsInOrder, StepClaimsAsked
  <1>3. QED
    BY <1>1, <1>2, PTL DEF Spec, UrgentFirst

-----------------------------------------------------------------------------
(* The mailbox implements WorkQueue *)

\* A message that keeps its queue, its priority, its holder and its acknowledgement is the
\* same item, and one that keeps its expiry lapses at the same time.
LEMMA SameItems ==
  ASSUME DOMAIN messages' = DOMAIN messages, now' = now,
         \A i \in DOMAIN messages :
           AsItem(messages'[i]) = AsItem(messages[i])
             /\ messages'[i].expires = messages[i].expires
  PROVE  UNCHANGED <<Items, Lapsed>>
  BY DEF Items, Lapsed, IsExpired

LEMMA SweptItems ==
  ASSUME MailInv
  PROVE  /\ Items \in Seq(Work!Item) /\ Len(Items) = Len(messages)
         /\ DOMAIN Items = DOMAIN messages /\ DOMAIN messages = 1..Len(messages)
         /\ \A i \in DOMAIN messages :
              Items[i] = AsItem(messages[i]) /\ AsItem(messages[i]) \in Work!Item
         /\ DOMAIN Swept = DOMAIN messages /\ Len(Swept) = Len(messages)
         /\ \A i \in DOMAIN messages :
              /\ AsItem(Swept[i]) = AsItem(messages[i])
              /\ Swept[i].expires = messages[i].expires /\ Swept[i] \in StoredMessage
  <1>1. \A i \in DOMAIN messages : messages[i] \in StoredMessage /\ GoodMessage(messages[i])
    BY DEF MailInv, GoodMessage
  <1>2. \A i \in DOMAIN messages : AsItem(messages[i]) \in Work!Item
    BY <1>1 DEF AsItem, Work!Item, StoredMessage
  <1>3. DOMAIN messages = 1..Len(messages) /\ Len(messages) \in Nat
    BY DEF MailInv
  <1>4. Items \in [1..Len(messages) -> Work!Item]
    BY <1>2, <1>3 DEF Items
  <1>5. Items \in Seq(Work!Item) /\ Len(Items) = Len(messages)
    BY <1>3, <1>4
  <1>6. /\ Swept \in Seq(StoredMessage) /\ DOMAIN Swept = DOMAIN messages
        /\ \A i \in DOMAIN messages : Swept[i] = Expire(messages[i]) /\ GoodMessage(Swept[i])
    BY SweptGood
  <1>7. DOMAIN Swept = 1..Len(Swept) /\ Len(Swept) \in Nat
    BY <1>6
  <1>8. Len(Swept) = Len(messages)
    BY <1>3, <1>6, <1>7
  <1>9. ASSUME NEW i \in DOMAIN messages
        PROVE  /\ AsItem(Swept[i]) = AsItem(messages[i])
               /\ Swept[i].expires = messages[i].expires /\ Swept[i] \in StoredMessage
    BY <1>1, <1>6, ExpireGood DEF AsItem, GoodMessage
  <1>10. QED
    BY <1>2, <1>3, <1>5, <1>6, <1>8, <1>9 DEF Items

LEMMA PostAdds ==
  ASSUME MailInv, NEW sender \in Thread, NEW recipient \in Thread \cup {NoThread},
         NEW queue \in Queue \cup {NoQueue}, NEW priority \in Priority,
         NEW expires \in Expiry, Post(sender, recipient, queue, priority, expires)
  PROVE  Work!Next
  <1> DEFINE m == Posted(sender, recipient, queue, priority, expires)
             n == Len(messages)
  <1>1. /\ m.queue = queue /\ m.priority = priority /\ m.ackedBy = NoThread
        /\ m.claimedBy = NoThread /\ m.recipient = recipient
    BY DEF Posted
  <1>2. AsItem(m) \in Work!Item /\ AsItem(m).doneBy = NoThread
        /\ (AsItem(m).queue # NoQueue => AsItem(m).holder = NoThread)
    BY <1>1 DEF AsItem, Work!Item
  <1>3. messages' = Append(Swept, m) /\ now' = now
    BY DEF Post
  <1>4. expires \in Nat \cup {Forever}
    BY ConstantsOK DEF Expiry
  <1>5. m \in StoredMessage
    BY <1>4 DEF Posted, StoredMessage, AckState
  <1> HIDE DEF m
  <1>6. /\ Swept \in Seq(StoredMessage) /\ Len(Swept) = n /\ n \in Nat
        /\ DOMAIN messages = 1..n /\ DOMAIN Items = 1..n /\ Items \in Seq(Work!Item)
        /\ Len(Items) = n
    BY SweptItems, SweptGood DEF MailInv
  <1> HIDE DEF n
  <1>7. /\ DOMAIN messages' = 1..n + 1 /\ messages'[n + 1] = m
        /\ \A i \in 1..n : messages'[i] = Swept[i]
    BY <1>3, <1>5, <1>6
  <1>8. Items' = [i \in 1..n + 1 |-> AsItem(messages'[i])]
    BY <1>7 DEF Items, AsItem
  <1>9. \A i \in 1..n : AsItem(messages'[i]) = Items[i]
    BY <1>6, <1>7, SweptItems
  <1>10. Items' = Append(Items, AsItem(m))
    <2> DEFINE t == Append(Items, AsItem(m))
    <2>1. t \in Seq(Work!Item) /\ DOMAIN t = 1..n + 1 /\ t[n + 1] = AsItem(m)
          /\ \A i \in 1..n : t[i] = Items[i]
      BY <1>2, <1>6
    <2> HIDE DEF t
    <2>2. \A i \in 1..n + 1 : t[i] = AsItem(messages'[i])
      BY <1>6, <1>7, <1>9, <2>1
    <2>3. t = [i \in 1..n + 1 |-> t[i]]
      BY <2>1
    <2>4. QED
      BY <1>8, <2>2, <2>3 DEF t
  <1>11. \A i \in 1..n : messages'[i].expires = messages[i].expires
    BY <1>6, <1>7, SweptItems
  <1>12. \A i \in 1..n : i \in Lapsed' <=> i \in Lapsed
    BY <1>3, <1>6, <1>7, <1>11 DEF Lapsed, IsExpired
  <1>13. Lapsed' \in {Lapsed, Lapsed \cup {n + 1}}
    <2>1. Lapsed \subseteq 1..n /\ Lapsed' \subseteq 1..n + 1
      BY <1>6, <1>7 DEF Lapsed
    <2>2. \A i \in 1..n + 1 : i \in 1..n \/ i = n + 1
      BY <1>6
    <2>3. QED
      BY <1>12, <2>1, <2>2
  <1>14. Work!Add(AsItem(m))
    BY <1>2, <1>6, <1>10, <1>13 DEF Work!Add
  <1>15. QED
    BY <1>2, <1>14 DEF Work!Next

LEMMA ReadChangesNoItem ==
  ASSUME MailInv, NEW t \in Thread, NEW unreadOnly \in BOOLEAN, Read(t, unreadOnly)
  PROVE  UNCHANGED <<Items, Lapsed>>
  <1> DEFINE read == Collected(t, unreadOnly)
  <1>1. messages' = Seen(Swept, read, t) /\ now' = now
    BY DEF Read
  <1>2. DOMAIN messages' = DOMAIN messages
    BY <1>1, SweptItems DEF Seen
  <1>3. ASSUME NEW i \in DOMAIN messages
        PROVE  AsItem(messages'[i]) = AsItem(messages[i])
                 /\ messages'[i].expires = messages[i].expires
    <2>1. messages'[i] = IF i \in read THEN [Swept[i] EXCEPT !.seen = @ \cup {t}] ELSE Swept[i]
      BY <1>1, SweptItems DEF Seen
    <2>2. Swept[i] \in StoredMessage
      BY SweptItems
    <2>3. /\ messages'[i].queue = Swept[i].queue /\ messages'[i].priority = Swept[i].priority
          /\ messages'[i].ackedBy = Swept[i].ackedBy /\ messages'[i].expires = Swept[i].expires
          /\ messages'[i].claimedBy = Swept[i].claimedBy
          /\ messages'[i].recipient = Swept[i].recipient
      BY <2>1, <2>2 DEF StoredMessage
    <2>4. QED
      BY <2>3, SweptItems DEF AsItem
  <1>4. QED
    BY <1>1, <1>2, <1>3, SameItems

LEMMA ClaimTakes ==
  ASSUME MailInv, NEW t \in Thread, NEW q \in Queue, NEW limit \in Nat, Claim(t, q, limit)
  PROVE  Work!Next
  <1> DEFINE taken == FirstOf(EligibleIn(q), limit)
  <1>1. messages' = Claimed(Swept, taken, t) /\ now' = now
    BY DEF Claim
  <1>2. EligibleIn(q) = Work!Waiting(q)
    <2>1. q # NoQueue
      BY ConstantsOK
    <2>2. ASSUME NEW i \in DOMAIN messages
          PROVE  Claimable(i, q) <=> /\ Items[i].queue = q /\ Items[i].holder = NoThread
                                     /\ i \notin Lapsed
      <3>1. Items[i] = AsItem(messages[i])
        BY SweptItems
      <3>2. Items[i].queue = messages[i].queue
        BY <3>1 DEF AsItem
      <3>3. messages[i].queue = q => Items[i].holder = messages[i].claimedBy
        BY <2>1, <3>1 DEF AsItem
      <3>4. i \in Lapsed <=> IsExpired(messages[i])
        BY DEF Lapsed
      <3>5. QED
        BY <3>2, <3>3, <3>4 DEF Claimable
    <2>3. QED
      BY <2>2, SweptItems DEF EligibleIn, Work!Waiting
  <1>3. taken \subseteq EligibleIn(q) /\ EligibleIn(q) \in SUBSET DOMAIN messages
    BY DEF FirstOf, EligibleIn
  <1>4. ASSUME NEW i \in taken, NEW j \in EligibleIn(q) \ taken
        PROVE  Work!GoesBefore(i, j)
    <2>1. Before(i, j)
      BY <1>3, FirstOnesComeFirst
    <2>2. Items[i].urgency = messages[i].priority /\ Items[j].urgency = messages[j].priority
      <3>1. i \in DOMAIN messages /\ j \in DOMAIN messages
        BY <1>3
      <3>2. Items[i] = AsItem(messages[i]) /\ Items[j] = AsItem(messages[j])
        BY <3>1, SweptItems
      <3>3. QED
        BY <3>2 DEF AsItem
    <2>3. QED
      BY <2>1, <2>2 DEF Before, Work!GoesBefore
  <1>5. DOMAIN messages' = DOMAIN messages
    BY <1>1, SweptItems DEF Claimed
  <1>6. ASSUME NEW i \in DOMAIN messages
        PROVE  /\ AsItem(messages'[i]) =
                    IF i \in taken THEN [Items[i] EXCEPT !.holder = t] ELSE Items[i]
               /\ messages'[i].expires = messages[i].expires
    <2>1. messages'[i] = IF i \in taken
                         THEN [Swept[i] EXCEPT !.claimedBy = t, !.seen = @ \cup {t}] ELSE Swept[i]
      BY <1>1, SweptItems DEF Claimed
    <2>2. Swept[i] \in StoredMessage /\ AsItem(Swept[i]) = Items[i]
          /\ Swept[i].expires = messages[i].expires
      BY SweptItems
    <2>3. CASE i \in taken
      <3>1. /\ messages'[i].queue = Swept[i].queue /\ messages'[i].priority = Swept[i].priority
            /\ messages'[i].ackedBy = Swept[i].ackedBy /\ messages'[i].expires = Swept[i].expires
            /\ messages'[i].claimedBy = t
        BY <2>1, <2>2, <2>3 DEF StoredMessage
      <3>2. Items[i].queue # NoQueue
        BY <1>2, <1>3, <2>3, ConstantsOK DEF Work!Waiting
      <3>3. Swept[i].queue # NoQueue
        BY <2>2, <3>2 DEF AsItem
      <3>4. AsItem(messages'[i]) = [Items[i] EXCEPT !.holder = t]
        BY <2>2, <3>1, <3>3 DEF AsItem
      <3>5. QED
        BY <2>2, <2>3, <3>1, <3>4
    <2>4. CASE i \notin taken
      BY <2>1, <2>2, <2>4
    <2>5. QED
      BY <2>3, <2>4
  <1> HIDE DEF taken
  <1>7. Items' = [i \in DOMAIN Items |->
                    IF i \in taken THEN [Items[i] EXCEPT !.holder = t] ELSE Items[i]]
    <2>1. Items' = [i \in DOMAIN messages |-> AsItem(messages'[i])]
      BY <1>5 DEF Items, AsItem
    <2>2. QED
      BY <1>6, <2>1, SweptItems
  <1>8. Lapsed' = Lapsed
    BY <1>1, <1>5, <1>6 DEF Lapsed, IsExpired
  <1>9. Work!Take(t, q, taken)
    BY <1>2, <1>3, <1>4, <1>7, <1>8 DEF Work!Take
  <1>10. taken \in SUBSET Work!Waiting(q)
    BY <1>2, <1>3
  <1>11. QED
    BY <1>9, <1>10 DEF Work!Next

LEMMA AckFinishes ==
  ASSUME MailInv, NEW t \in Thread, NEW k \in DOMAIN messages, Ack(t, k)
  PROVE  Work!Next
  <1>1. messages' = Acknowledged(Swept, k, t) /\ now' = now
        /\ CanAck(Swept[k], t) /\ Swept[k].ack = "Pending"
    BY DEF Ack
  <1>2. Swept[k] \in StoredMessage /\ AsItem(Swept[k]) = Items[k]
        /\ Swept[k].expires = messages[k].expires
    BY SweptItems
  <1>3. Items[k].holder = t /\ t # NoThread
    BY <1>1, <1>2, ConstantsOK DEF CanAck, AsItem
  <1>4. k \notin Lapsed
    <2>1. Swept[k] = Expire(messages[k]) /\ messages[k] \in StoredMessage
      BY SweptGood DEF MailInv
    <2>2. ~IsExpired(messages[k])
      BY <1>1, <2>1 DEF Expire, StoredMessage
    <2>3. QED
      BY <2>2 DEF Lapsed
  <1>5. Items[k].doneBy = NoThread
    <2>1. GoodMessage(Swept[k])
      BY SweptGood
    <2>2. Swept[k].ackedBy = NoThread
      BY <1>1, <2>1 DEF GoodMessage, AckedRightly
    <2>3. QED
      BY <1>2, <2>2 DEF AsItem
  <1>6. DOMAIN messages' = DOMAIN messages
    BY <1>1, SweptItems DEF Acknowledged
  <1>7. ASSUME NEW i \in DOMAIN messages
        PROVE  /\ AsItem(messages'[i]) =
                    IF i = k THEN [Items[i] EXCEPT !.doneBy = t] ELSE Items[i]
               /\ messages'[i].expires = messages[i].expires
    <2>1. CASE i = k
      <3>1. messages'[i] = [Swept[k] EXCEPT !.ack = "Acknowledged", !.ackedBy = t,
                                            !.seen = Swept[k].seen \cup {t}]
        BY <1>1, <2>1, SweptItems DEF Acknowledged
      <3>2. /\ messages'[i].queue = Swept[k].queue /\ messages'[i].priority = Swept[k].priority
            /\ messages'[i].ackedBy = t /\ messages'[i].expires = Swept[k].expires
            /\ messages'[i].claimedBy = Swept[k].claimedBy
            /\ messages'[i].recipient = Swept[k].recipient
        BY <1>2, <3>1 DEF StoredMessage
      <3>3. AsItem(messages'[i]) = [Items[i] EXCEPT !.doneBy = t]
        BY <1>2, <2>1, <3>2 DEF AsItem
      <3>4. QED
        BY <1>2, <2>1, <3>2, <3>3
    <2>2. CASE i # k
      BY <1>1, <2>2, SweptItems DEF Acknowledged
    <2>3. QED
      BY <2>1, <2>2
  <1>8. Items' = [Items EXCEPT ![k].doneBy = Items[k].holder]
    <2>1. Items' = [i \in DOMAIN messages |-> AsItem(messages'[i])]
      BY <1>6 DEF Items, AsItem
    <2>2. QED
      BY <1>3, <1>7, <2>1, SweptItems
  <1>9. Lapsed' = Lapsed
    BY <1>1, <1>6, <1>7 DEF Lapsed, IsExpired
  <1>10. Work!Finish(k)
    BY <1>3, <1>4, <1>5, <1>8, <1>9 DEF Work!Finish
  <1>11. QED
    BY <1>10, SweptItems DEF Work!Next

LEMMA StepOfWork == MailInv /\ [Next]_vars => [Work!Next]_<<Items, Lapsed>>
  <1> SUFFICES ASSUME MailInv, [Next]_vars
               PROVE  Work!Next \/ UNCHANGED <<Items, Lapsed>>
    OBVIOUS
  <1>1. ASSUME NEW sender \in Thread, NEW recipient \in Thread \cup {NoThread},
               NEW queue \in Queue \cup {NoQueue}, NEW priority \in Priority,
               NEW expires \in Expiry, Post(sender, recipient, queue, priority, expires)
        PROVE  Work!Next
    BY <1>1, PostAdds
  <1>2. CASE Peek
    BY <1>2, SweptItems, SameItems DEF Peek
  <1>3. ASSUME NEW t \in Thread, NEW unreadOnly \in BOOLEAN, Read(t, unreadOnly)
        PROVE  UNCHANGED <<Items, Lapsed>>
    BY <1>3, ReadChangesNoItem
  <1>4. ASSUME NEW t \in Thread, NEW q \in Queue, NEW limit \in 0..MaxMessages, Claim(t, q, limit)
        PROVE  Work!Next
    BY <1>4, ClaimTakes, ConstantsOK
  <1>5. ASSUME NEW t \in Thread, NEW i \in DOMAIN messages, Ack(t, i)
        PROVE  Work!Next
    BY <1>5, AckFinishes
  <1>6. CASE Clear
    <2>1. Items' = <<>> /\ Lapsed' = {}
      BY <1>6 DEF Clear, Items, Lapsed
    <2>2. QED
      BY <2>1 DEF Work!Next, Work!Clear
  <1>7. CASE Tick
    <2>1. messages' = messages /\ now' = now + 1 /\ now \in Nat
      BY <1>7 DEF Tick, MailInv
    <2>2. \A i \in DOMAIN messages : messages[i].expires \in Nat \cup {Forever}
      BY DEF MailInv, GoodMessage, StoredMessage
    <2>3. Lapsed \subseteq Lapsed' /\ Lapsed' \subseteq DOMAIN messages
      BY <2>1, <2>2, ConstantsOK DEF Lapsed, IsExpired
    <2>4. Items' = Items
      BY <2>1 DEF Items, AsItem
    <2>5. Work!Lapse(Lapsed')
      BY <2>3, <2>4 DEF Work!Lapse
    <2>6. QED
      BY <2>3, <2>5, SweptItems DEF Work!Next
  <1>8. CASE UNCHANGED vars
    BY <1>8 DEF vars, Items, Lapsed, IsExpired, AsItem
  <1>9. QED
    BY <1>1, <1>2, <1>3, <1>4, <1>5, <1>6, <1>7, <1>8 DEF Next

\* The mailbox implements the queue of work: each operation under the lock of the state is
\* one of its steps, or changes nothing of it, for every team, every clock, every number of
\* messages and every limit of a claim.
THEOREM MailboxIsWorkQueue == Spec => IsWorkQueue
  <1>1. Spec => []MailInv
    BY InitGood, StepGood, PTL DEF Spec
  <1>2. Init => Work!Init
    BY DEF Init, Work!Init, Items, Lapsed
  <1>3. QED
    BY <1>1, <1>2, StepOfWork, PTL DEF Spec, IsWorkQueue, Work!Spec

-----------------------------------------------------------------------------
(* The watchers of the mailbox: InboxWatch follows the version alone *)

\* Nobody is told of a version that does not exist, and so a peek that comes after the
\* news shows at least what the news was about.
NewsIsOld == \A w \in Watcher : pc[w] = "peek" => news[w] <= mailboxVersion
WatchInv == WatchTypeOK /\ NewsIsShown /\ NewsIsOld

\* The invariant of the watches, at the start and kept by every step.
LEMMA WatchStarts == WatchInit => WatchInv
  BY DEF WatchInit, WatchInv, WatchTypeOK, NewsIsShown, NewsIsOld, Place, Process

LEMMA WatchSteps ==
  ASSUME WatchInv, [WatchNext]_watchVars
  PROVE  WatchInv'
  <1>1. /\ mailboxVersion \in Nat /\ published \in 0 .. mailboxVersion
        /\ pc \in [Process -> Place] /\ carried \in [Process -> 0 .. mailboxVersion]
        /\ receivers \subseteq Watcher /\ unseen \subseteq receivers
        /\ after \in [Watcher -> Nat] /\ news \in [Watcher -> Nat]
        /\ shown \in [Watcher -> Nat] /\ watches \in [Watcher -> Nat]
        /\ missed \in [Watcher -> Nat] /\ hindered \subseteq Watcher
        /\ \A w \in Watcher :
             /\ pc[w] \in {"readVersion", "compare", "send", "return"} => news[w] <= shown[w]
             /\ pc[w] = "peek" => news[w] <= mailboxVersion
    BY DEF WatchInv, WatchTypeOK, Process, NewsIsShown, NewsIsOld
  <1>2. ASSUME /\ mailboxVersion' \in Nat /\ published' \in 0 .. mailboxVersion'
               /\ pc' \in [Process -> Place] /\ carried' \in [Process -> 0 .. mailboxVersion']
               /\ receivers' \subseteq Watcher /\ unseen' \subseteq receivers'
               /\ after' \in [Watcher -> Nat] /\ news' \in [Watcher -> Nat]
               /\ shown' \in [Watcher -> Nat] /\ watches' \in [Watcher -> Nat]
               /\ missed' \in [Watcher -> Nat] /\ hindered' \subseteq Watcher
               /\ \A w \in Watcher :
                    /\ pc'[w] \in {"readVersion", "compare", "send", "return"}
                         => news'[w] <= shown'[w]
                    /\ pc'[w] = "peek" => news'[w] <= mailboxVersion'
        PROVE  WatchInv'
    BY <1>2 DEF WatchInv, WatchTypeOK, Process, NewsIsShown, NewsIsOld
  <1> USE DEF At, Goto, channel, reader, history, Place, Process
  <1>3. ASSUME NEW p \in Poster, Change(p)
        PROVE  WatchInv'
    <2>1. p \notin Watcher /\ p \in Process
      BY WatchConstantsOK DEF WatchConstantsOK
    <2>2. /\ mailboxVersion' = mailboxVersion + 1 /\ pc' = [pc EXCEPT ![p] = "readVersion"]
          /\ UNCHANGED <<channel, carried, reader, history>>
      BY <1>3 DEF Change
    <2>3. carried' \in [Process -> 0 .. mailboxVersion'] /\ published' \in 0 .. mailboxVersion'
      BY <1>1, <2>2
    <2>4. pc' \in [Process -> Place] /\ \A w \in Watcher : pc'[w] = pc[w]
      BY <1>1, <2>1, <2>2
    <2>5. QED
      BY <1>1, <1>2, <2>2, <2>3, <2>4
  <1>4. ASSUME NEW p \in Process, ReadVersion(p)
        PROVE  WatchInv'
    <2>1. /\ pc[p] = "readVersion" /\ pc' = [pc EXCEPT ![p] = "compare"]
          /\ carried' = [carried EXCEPT ![p] = mailboxVersion]
          /\ UNCHANGED <<mailboxVersion, channel, reader, history>>
      BY <1>4 DEF ReadVersion
    <2>2. QED
      BY <1>1, <1>2, <2>1
  <1>5. ASSUME NEW p \in Process, ComparePublished(p)
        PROVE  WatchInv'
    <2>1. /\ pc[p] = "compare"
          /\ pc' = [pc EXCEPT ![p] = IF published # carried[p] THEN "send" ELSE
                                     IF p \in Watcher THEN "return" ELSE "idle"]
          /\ UNCHANGED <<mailboxVersion, channel, carried, reader, history>>
      BY <1>5 DEF ComparePublished, Published
    <2>2. QED
      BY <1>1, <1>2, <2>1
  <1>6. ASSUME NEW p \in Process, SendVersion(p)
        PROVE  WatchInv'
    <2>1. /\ pc[p] = "send" /\ published' \in {published, carried[p]}
          /\ pc' = [pc EXCEPT ![p] = IF p \in Watcher THEN "return" ELSE "idle"]
          /\ unseen' \subseteq receivers' /\ hindered' \subseteq Watcher
          /\ UNCHANGED <<mailboxVersion, receivers, carried, reader, missed>>
      BY <1>1, <1>6 DEF SendVersion, Published
    <2>2. QED
      BY <1>1, <1>2, <2>1
  <1>7. ASSUME NEW p \in Interruptible, AbandonSave(p)
        PROVE  WatchInv'
    <2>1. /\ pc' = [pc EXCEPT ![p] = "idle"] /\ p \in Process
          /\ receivers' = receivers \ {p} /\ unseen' = unseen \ {p}
          /\ hindered' \subseteq receivers'
          /\ UNCHANGED <<mailboxVersion, published, carried, reader, missed>>
      BY <1>7, WatchConstantsOK DEF AbandonSave, DropReceiver, WatchConstantsOK
    <2>2. QED
      BY <1>1, <1>2, <2>1
  <1>8. ASSUME NEW w \in Watcher, StartWatch(w)
        PROVE  WatchInv'
    <2>1. /\ w \in Process /\ watches' = [watches EXCEPT ![w] = @ + 1]
          /\ UNCHANGED <<mailboxVersion, channel, carried, after, shown, history>>
      BY <1>8 DEF StartWatch
    <2>2. watches' \in [Watcher -> Nat]
      BY <1>1, <2>1
    <2>3. CASE mailboxVersion > after[w]
      <3>1. pc' = [pc EXCEPT ![w] = "peek"] /\ news' = [news EXCEPT ![w] = mailboxVersion]
        BY <1>8, <2>3 DEF StartWatch
      <3>2. QED
        BY <1>1, <1>2, <2>1, <2>2, <3>1
    <2>4. CASE ~(mailboxVersion > after[w])
      <3>1. pc' = [pc EXCEPT ![w] = "subscribe"] /\ news' = news
        BY <1>8, <2>4 DEF StartWatch
      <3>2. QED
        BY <1>1, <1>2, <2>1, <2>2, <3>1
    <2>5. QED
      BY <2>3, <2>4
  <1>9. ASSUME NEW w \in Watcher, Subscribe(w)
        PROVE  WatchInv'
    <2>1. /\ w \in Process /\ receivers' = receivers \cup {w} /\ unseen' = unseen \ {w}
          /\ pc' = [pc EXCEPT ![w] = "checkPublished"] /\ hindered' = hindered \ {w}
          /\ missed' = [missed EXCEPT ![w] = IF published > after[w] \/ Announces(after[w])
                                            THEN after[w] ELSE mailboxVersion]
          /\ UNCHANGED <<mailboxVersion, published, carried, reader>>
      BY <1>9 DEF Subscribe
    <2>2. missed' \in [Watcher -> Nat]
      BY <1>1, <2>1
    <2>3. QED
      BY <1>1, <1>2, <2>1, <2>2
  <1>10. ASSUME NEW w \in Watcher, CheckPublished(w) \/ Woken(w)
         PROVE  WatchInv'
    <2>1. /\ w \in Process /\ unseen' \subseteq receivers
          /\ UNCHANGED <<mailboxVersion, published, receivers, carried, after, shown, watches,
                         history>>
          /\ \/ pc' = [pc EXCEPT ![w] = "peek"] /\ news' = [news EXCEPT ![w] = published]
             \/ pc' = [pc EXCEPT ![w] = "wait"] /\ news' = news
             \/ pc' = pc /\ news' = news
      BY <1>1, <1>10 DEF CheckPublished, Woken
    <2>2. published \in Nat /\ published <= mailboxVersion
      BY <1>1
    <2>3. CASE pc' = [pc EXCEPT ![w] = "peek"] /\ news' = [news EXCEPT ![w] = published]
      BY <1>1, <1>2, <2>1, <2>2, <2>3
    <2>4. CASE pc' = [pc EXCEPT ![w] = "wait"] /\ news' = news
      BY <1>1, <1>2, <2>1, <2>4
    <2>5. CASE pc' = pc /\ news' = news
      BY <1>1, <1>2, <2>1, <2>5
    <2>6. QED
      BY <2>1, <2>3, <2>4, <2>5
  <1>11. ASSUME NEW w \in Watcher, PeekInbox(w)
         PROVE  WatchInv'
    <2>1. /\ w \in Process /\ pc[w] = "peek" /\ pc' = [pc EXCEPT ![w] = "readVersion"]
          /\ shown' = [shown EXCEPT ![w] = mailboxVersion]
          /\ UNCHANGED <<mailboxVersion, channel, carried, after, news, watches, history>>
      BY <1>11 DEF PeekInbox
    <2>2. QED
      BY <1>1, <1>2, <2>1
  <1>12. ASSUME NEW w \in Watcher, ReturnVersion(w) \/ TimesOut(w) \/ AbandonWait(w)
         PROVE  WatchInv'
    <2>1. /\ w \in Process /\ pc' = [pc EXCEPT ![w] = "idle"]
          /\ after' \in {after, [after EXCEPT ![w] = mailboxVersion]}
          /\ receivers' = receivers \ {w} /\ unseen' = unseen \ {w}
          /\ UNCHANGED <<mailboxVersion, published, carried, news, shown, watches, history>>
      BY <1>12 DEF ReturnVersion, TimesOut, AbandonWait, DropReceiver
    <2>2. after' \in [Watcher -> Nat]
      BY <1>1, <2>1
    <2>3. QED
      BY <1>1, <1>2, <2>1, <2>2
  <1>13. ASSUME UNCHANGED watchVars
         PROVE  WatchInv'
    BY <1>1, <1>2, <1>13 DEF watchVars
  <1>14. QED
    BY <1>3, <1>4, <1>5, <1>6, <1>7, <1>8, <1>9, <1>10, <1>11, <1>12, <1>13
       DEF WatchNext, Publishing, Watching

\* What a teammate that has subscribed is told of.  Nothing was sent since its last look at
\* the channel that did not mark its receiver, and a change later than those it missed is in
\* the channel, or on its way there, or hindered.
Subscribed(w) == pc[w] \in {"checkPublished", "wait"}
ToldOf(w) ==
  /\ w \in receivers /\ after[w] <= missed[w]
  /\ At(w, "wait") /\ published > after[w] => w \in unseen
  /\ mailboxVersion > missed[w] =>
       published > after[w] \/ Announces(after[w]) \/ w \in hindered
WakeInv ==
  \A w \in Watcher : after[w] <= mailboxVersion /\ (Subscribed(w) => ToldOf(w))

\* A call that is about to publish a later version than v goes on to do so, unless it is the
\* one that moves.
LEMMA StillAnnounced ==
  ASSUME WatchTypeOK, NEW v \in Nat, Announces(v), NEW p \in Process,
         mailboxVersion' \in Nat, mailboxVersion' >= mailboxVersion,
         \A q \in Process \ {p} : pc'[q] = pc[q] /\ carried'[q] = carried[q],
         \/ ~(pc[p] \in {"readVersion", "compare", "send"})
         \/ pc[p] = "readVersion" /\ pc'[p] = "compare" /\ carried'[p] = mailboxVersion
         \/ pc[p] \in {"compare", "send"} /\ carried[p] <= v
         \/ pc[p] = "compare" /\ pc'[p] = "send" /\ carried'[p] = carried[p]
  PROVE  Announces(v)'
  <1>1. /\ mailboxVersion \in Nat /\ \A q \in Process : carried[q] \in Nat
    BY DEF WatchTypeOK
  <1>2. PICK q \in Process :
          \/ pc[q] = "readVersion" /\ mailboxVersion > v
          \/ pc[q] \in {"compare", "send"} /\ carried[q] > v
    BY DEF Announces, At
  <1>3. CASE q # p
    <2>1. \/ pc'[q] = "readVersion" /\ mailboxVersion' > v
          \/ pc'[q] \in {"compare", "send"} /\ carried'[q] > v
      BY <1>1, <1>2, <1>3
    <2>2. QED
      BY <2>1 DEF Announces, At
  <1>4. CASE q = p
    <2>1. pc'[p] \in {"compare", "send"} /\ carried'[p] > v
      BY <1>1, <1>2, <1>4
    <2>2. QED
      BY <2>1 DEF Announces, At
  <1>5. QED
    BY <1>3, <1>4

\* Every step leaves a subscribed teammate told of what it has not seen: most steps of others
\* by <1>3, for they send nothing and give up nothing.
LEMMA WakingSteps ==
  ASSUME WatchTypeOK, WakeInv, [WatchNext]_watchVars
  PROVE  WakeInv'
  <1> USE DEF At, Goto, channel, reader, history
  <1>1. /\ pc \in [Process -> Place] /\ Watcher \subseteq Process /\ mailboxVersion \in Nat
        /\ published \in Nat /\ carried \in [Process -> Nat]
        /\ after \in [Watcher -> Nat] /\ missed \in [Watcher -> Nat]
        /\ receivers \subseteq Watcher /\ unseen \subseteq receivers
    BY DEF WatchTypeOK, Process
  <1>2. \A w \in Watcher : after[w] <= mailboxVersion /\ (Subscribed(w) => ToldOf(w))
    BY DEF WakeInv
  <1>3. ASSUME NEW p \in Process, NEW w \in Watcher \ {p}, Subscribed(w)',
               \A q \in Process \ {p} : pc'[q] = pc[q] /\ carried'[q] = carried[q],
               after'[w] = after[w], missed'[w] = missed[w], UNCHANGED mailboxVersion,
               w \in receivers => w \in receivers', w \in unseen => w \in unseen',
               w \in hindered => w \in hindered',
               UNCHANGED published,
               \/ ~(pc[p] \in {"readVersion", "compare", "send"})
               \/ pc[p] = "readVersion" /\ pc'[p] = "compare" /\ carried'[p] = mailboxVersion
               \/ pc[p] \in {"compare", "send"} /\ carried[p] <= after[w]
               \/ pc[p] = "compare" /\ pc'[p] = "send" /\ carried'[p] = carried[p]
        PROVE  ToldOf(w)'
    <2>1. Subscribed(w) /\ pc'[w] = pc[w]
      BY <1>1, <1>3 DEF Subscribed
    <2>2. /\ w \in receivers /\ after[w] <= missed[w] /\ after[w] \in Nat
          /\ pc[w] = "wait" /\ published > after[w] => w \in unseen
          /\ mailboxVersion > missed[w] =>
               published > after[w] \/ Announces(after[w]) \/ w \in hindered
      BY <1>1, <1>2, <2>1 DEF ToldOf
    <2>3. PICK v \in Nat : v = after[w]
      BY <2>2
    <2>4. Announces(v) => Announces(v)'
      BY <1>1, <1>3, <2>3, StillAnnounced
    <2>5. Announces(after[w]) => Announces(after[w])'
      BY <1>3, <2>3, <2>4 DEF Announces
    <2>6. QED
      BY <1>3, <2>1, <2>2, <2>5 DEF ToldOf
  <1>4. ASSUME NEW p \in Poster, Change(p)
        PROVE  WakeInv'
    <2>1. /\ pc[p] = "idle" /\ pc' = [pc EXCEPT ![p] = "readVersion"]
          /\ mailboxVersion' = mailboxVersion + 1 /\ p \in Process /\ p \notin Watcher
          /\ UNCHANGED <<channel, carried, reader, history>>
      BY <1>4, WatchConstantsOK DEF Change, Process, WatchConstantsOK
    <2>2. ASSUME NEW w \in Watcher
          PROVE  after'[w] <= mailboxVersion' /\ (Subscribed(w)' => ToldOf(w)')
      <3>1. after[w] <= mailboxVersion /\ pc'[w] = pc[w] /\ after[w] \in Nat
        BY <1>1, <1>2, <2>1
      <3>2. pc'[p] = "readVersion" /\ mailboxVersion' > after'[w]
        BY <1>1, <2>1, <3>1
      <3>3. Announces(after[w])'
        BY <2>1, <3>2 DEF Announces
      <3>4. Subscribed(w) => ToldOf(w)
        BY <1>2
      <3>5. QED
        BY <1>1, <2>1, <3>1, <3>3, <3>4 DEF Subscribed, ToldOf
    <2>3. QED
      BY <2>2 DEF WakeInv
  <1>5. ASSUME NEW p \in Process, ReadVersion(p)
        PROVE  WakeInv'
    <2>1. /\ pc[p] = "readVersion" /\ pc' = [pc EXCEPT ![p] = "compare"]
          /\ carried' = [carried EXCEPT ![p] = mailboxVersion]
          /\ UNCHANGED <<mailboxVersion, channel, reader, history>>
      BY <1>5 DEF ReadVersion
    <2>2. ASSUME NEW w \in Watcher, Subscribed(w)'
          PROVE  ToldOf(w)'
      <3>1. w # p /\ pc'[p] = "compare" /\ carried'[p] = mailboxVersion
        BY <1>1, <2>1, <2>2 DEF Subscribed
      <3>2. \A q \in Process \ {p} : pc'[q] = pc[q] /\ carried'[q] = carried[q]
        BY <1>1, <2>1
      <3>3. QED
        BY <1>3, <2>1, <2>2, <3>1, <3>2
    <2>3. QED
      BY <1>2, <2>1, <2>2 DEF WakeInv
  <1>6. ASSUME NEW p \in Process, ComparePublished(p)
        PROVE  WakeInv'
    <2>1. /\ pc[p] = "compare"
          /\ pc' = [pc EXCEPT ![p] = IF published # carried[p] THEN "send" ELSE Published(p)]
          /\ Published(p) \in {"return", "idle"}
          /\ UNCHANGED <<mailboxVersion, channel, carried, reader, history>>
      BY <1>6 DEF ComparePublished, Published
    <2>2. ASSUME NEW w \in Watcher, Subscribed(w)'
          PROVE  ToldOf(w)'
      <3>1. w # p /\ w \in Process
        BY <1>1, <2>1, <2>2 DEF Subscribed
      <3>2. \A q \in Process \ {p} : pc'[q] = pc[q] /\ carried'[q] = carried[q]
        BY <1>1, <2>1
      <3>3. CASE published # carried[p] \/ carried[p] <= after[w]
        <4>1. \/ pc[p] = "compare" /\ pc'[p] = "send" /\ carried'[p] = carried[p]
              \/ pc[p] \in {"compare", "send"} /\ carried[p] <= after[w]
          BY <1>1, <2>1, <3>3
        <4>2. QED
          BY <1>3, <2>1, <2>2, <3>1, <3>2, <4>1
      <3>4. CASE published = carried[p] /\ carried[p] > after[w]
        <4>1. Subscribed(w) /\ ToldOf(w) /\ pc'[w] = pc[w]
          BY <1>1, <1>2, <2>2, <3>1, <3>2 DEF Subscribed
        <4>2. QED
          BY <2>1, <3>4, <4>1 DEF ToldOf
      <3>5. QED
        BY <1>1, <3>1, <3>3, <3>4
    <2>3. QED
      BY <1>2, <2>1, <2>2 DEF WakeInv
  <1>7. ASSUME NEW p \in Process, SendVersion(p)
        PROVE  WakeInv'
    <2>1. /\ pc[p] = "send" /\ pc' = [pc EXCEPT ![p] = Published(p)]
          /\ Published(p) \in {"return", "idle"}
          /\ UNCHANGED <<mailboxVersion, receivers, carried, reader, missed>>
      BY <1>7 DEF SendVersion, Published
    <2>2. ASSUME NEW w \in Watcher, Subscribed(w)'
          PROVE  ToldOf(w)'
      <3>1. w # p /\ w \in Process
        BY <1>1, <2>1, <2>2 DEF Subscribed
      <3>2. \A q \in Process \ {p} : pc'[q] = pc[q] /\ carried'[q] = carried[q]
        BY <1>1, <2>1
      <3>3. Subscribed(w) /\ ToldOf(w) /\ pc'[w] = pc[w]
        BY <1>1, <1>2, <2>2, <3>1, <3>2 DEF Subscribed
      <3>4. /\ published' = carried[p] /\ unseen' = receivers /\ w \in receivers
            /\ hindered' = hindered \cup
                 {x \in receivers : published > after[x] /\ carried[p] <= after[x]}
        BY <1>7, <3>3 DEF SendVersion, ToldOf
      <3>5. CASE carried[p] > after[w]
        BY <2>1, <3>3, <3>4, <3>5 DEF ToldOf
      <3>6. CASE carried[p] <= after[w] /\ published > after[w]
        BY <2>1, <3>3, <3>4, <3>6 DEF ToldOf
      <3>7. CASE carried[p] <= after[w] /\ ~(published > after[w])
        <4>1. PICK v \in Nat : v = after[w]
          BY <1>1
        <4>2. Announces(v) => Announces(v)'
          BY <1>1, <2>1, <3>2, <3>7, <4>1, StillAnnounced
        <4>3. Announces(after[w]) => Announces(after[w])'
          BY <2>1, <4>1, <4>2 DEF Announces
        <4>4. QED
          BY <2>1, <3>3, <3>4, <3>7, <4>3 DEF ToldOf
      <3>8. QED
        BY <1>1, <3>1, <3>5, <3>6, <3>7
    <2>3. QED
      BY <1>2, <2>1, <2>2 DEF WakeInv
  <1>8. ASSUME NEW p \in Interruptible, AbandonSave(p)
        PROVE  WakeInv'
    <2>1. /\ p \in Process /\ pc[p] = "readVersion" /\ pc' = [pc EXCEPT ![p] = "idle"]
          /\ receivers' = receivers \ {p} /\ unseen' = unseen \ {p}
          /\ hindered' = {w \in receivers' : w \in hindered \/ mailboxVersion > after[w]}
          /\ UNCHANGED <<mailboxVersion, published, carried, reader, missed>>
      BY <1>8, WatchConstantsOK DEF AbandonSave, DropReceiver, Process, WatchConstantsOK
    <2>2. ASSUME NEW w \in Watcher, Subscribed(w)'
          PROVE  ToldOf(w)'
      <3>1. w # p /\ pc'[w] = pc[w] /\ Subscribed(w)
        BY <1>1, <2>1, <2>2 DEF Subscribed
      <3>2. ToldOf(w) /\ after[w] \in Nat /\ missed[w] \in Nat
        BY <1>1, <1>2, <3>1
      <3>3. w \in receivers' /\ (mailboxVersion > missed[w] => w \in hindered')
        BY <1>1, <2>1, <3>1, <3>2 DEF ToldOf
      <3>4. QED
        BY <2>1, <3>1, <3>2, <3>3 DEF ToldOf
    <2>3. QED
      BY <1>2, <2>1, <2>2 DEF WakeInv
  <1>9. ASSUME NEW x \in Watcher, StartWatch(x) \/ PeekInbox(x)
        PROVE  WakeInv'
    <2>1. /\ pc[x] \in {"idle", "peek"} /\ pc' = [pc EXCEPT ![x] = pc'[x]]
          /\ pc'[x] \in {"peek", "subscribe", "readVersion"}
          /\ UNCHANGED <<mailboxVersion, channel, carried, after, history>>
      BY <1>1, <1>9 DEF StartWatch, PeekInbox
    <2>2. ASSUME NEW w \in Watcher, Subscribed(w)'
          PROVE  ToldOf(w)'
      <3>1. w # x /\ x \in Process
        BY <1>1, <2>1, <2>2 DEF Subscribed
      <3>2. \A q \in Process \ {x} : pc'[q] = pc[q] /\ carried'[q] = carried[q]
        BY <1>1, <2>1
      <3>3. QED
        BY <1>3, <2>1, <2>2, <3>1, <3>2
    <2>3. QED
      BY <1>2, <2>1, <2>2 DEF WakeInv
  <1>10. ASSUME NEW x \in Watcher, Subscribe(x)
         PROVE  WakeInv'
    <2>1. /\ pc[x] = "subscribe" /\ pc' = [pc EXCEPT ![x] = "checkPublished"]
          /\ receivers' = receivers \cup {x} /\ unseen' = unseen \ {x}
          /\ hindered' = hindered \ {x}
          /\ missed' = [missed EXCEPT ![x] = IF published > after[x] \/ Announces(after[x])
                                            THEN after[x] ELSE mailboxVersion]
          /\ UNCHANGED <<mailboxVersion, published, carried, reader>>
      BY <1>10 DEF Subscribe
    <2>2. \A q \in Process \ {x} : pc'[q] = pc[q] /\ carried'[q] = carried[q]
      BY <1>1, <2>1
    <2>3. ASSUME NEW w \in Watcher \ {x}, Subscribed(w)'
          PROVE  ToldOf(w)'
      BY <1>1, <1>3, <2>1, <2>2, <2>3
    <2>4. ToldOf(x)'
      <3>1. PICK v \in Nat : v = after[x] /\ v <= mailboxVersion
        BY <1>1, <1>2
      <3>2. Announces(v) => Announces(v)'
        BY <1>1, <2>1, <2>2, StillAnnounced
      <3>3. Announces(after[x]) => Announces(after[x])'
        BY <2>1, <3>1, <3>2 DEF Announces
      <3>4. /\ pc'[x] = "checkPublished" /\ x \in receivers'
            /\ missed'[x] = IF published > after[x] \/ Announces(after[x])
                            THEN after[x] ELSE mailboxVersion
        BY <1>1, <2>1
      <3>5. QED
        BY <1>1, <2>1, <3>1, <3>3, <3>4 DEF ToldOf
    <2>5. QED
      BY <1>2, <2>1, <2>3, <2>4 DEF WakeInv
  <1>11. ASSUME NEW x \in Watcher, CheckPublished(x) \/ Woken(x)
         PROVE  WakeInv'
    <2>1. /\ pc[x] \in {"checkPublished", "wait"} /\ pc' = [pc EXCEPT ![x] = pc'[x]]
          /\ pc'[x] \in {"peek", "wait"} /\ (pc'[x] = "wait" => ~(published > after[x]))
          /\ \A w \in Watcher \ {x} : w \in unseen => w \in unseen'
          /\ UNCHANGED <<mailboxVersion, published, receivers, carried, after, history>>
      BY <1>1, <1>11 DEF CheckPublished, Woken
    <2>2. \A q \in Process \ {x} : pc'[q] = pc[q] /\ carried'[q] = carried[q]
      BY <1>1, <2>1
    <2>3. ASSUME NEW w \in Watcher \ {x}, Subscribed(w)'
          PROVE  ToldOf(w)'
      BY <1>1, <1>3, <2>1, <2>2, <2>3
    <2>4. Subscribed(x)' => ToldOf(x)'
      <3>1. ToldOf(x)
        BY <1>2, <2>1 DEF Subscribed
      <3>2. PICK v \in Nat : v = after[x]
        BY <1>1
      <3>3. Announces(v) => Announces(v)'
        BY <1>1, <2>1, <2>2, StillAnnounced
      <3>4. Announces(after[x]) => Announces(after[x])'
        BY <2>1, <3>2, <3>3 DEF Announces
      <3>5. QED
        BY <2>1, <3>1, <3>4 DEF ToldOf, Subscribed
    <2>5. QED
      BY <1>2, <2>1, <2>3, <2>4 DEF WakeInv
  <1>12. ASSUME NEW x \in Watcher, ReturnVersion(x) \/ TimesOut(x) \/ AbandonWait(x)
         PROVE  WakeInv'
    <2>1. /\ pc[x] \in {"return", "wait"} /\ pc' = [pc EXCEPT ![x] = "idle"]
          /\ after' \in {after, [after EXCEPT ![x] = mailboxVersion]}
          /\ receivers' = receivers \ {x} /\ unseen' = unseen \ {x}
          /\ UNCHANGED <<mailboxVersion, published, carried, history>>
      BY <1>12 DEF ReturnVersion, TimesOut, AbandonWait, DropReceiver
    <2>2. /\ \A q \in Process \ {x} : pc'[q] = pc[q] /\ carried'[q] = carried[q]
          /\ \A w \in Watcher \ {x} : after'[w] = after[w]
          /\ \A w \in Watcher : after'[w] <= mailboxVersion
      BY <1>1, <1>2, <2>1
    <2>3. ASSUME NEW w \in Watcher, Subscribed(w)'
          PROVE  ToldOf(w)'
      <3>1. w # x
        BY <1>1, <2>1, <2>3 DEF Subscribed
      <3>2. QED
        BY <1>1, <1>3, <2>1, <2>2, <2>3, <3>1
    <2>4. QED
      BY <2>1, <2>2, <2>3 DEF WakeInv
  <1>13. CASE UNCHANGED watchVars
    BY <1>2, <1>13 DEF watchVars, WakeInv, Subscribed, ToldOf, Announces
  <1>14. QED
    BY <1>4, <1>5, <1>6, <1>7, <1>8, <1>9, <1>10, <1>11, <1>12, <1>13
       DEF WatchNext, Publishing, Watching

LEMMA WatchInvariant == WatchSpec => []WatchInv
  BY WatchStarts, WatchSteps, PTL DEF WatchSpec

\* What a watch_inbox that was woken by a version shows has every change up to that
\* version, for any number of teammates and of calls that publish late or never.
THEOREM NewsReachesWatchers == WatchSpec => []NewsIsShown
  <1>1. WatchInv => NewsIsShown
    BY DEF WatchInv
  <1>2. QED
    BY WatchInvariant, <1>1, PTL

\* No watch_inbox sleeps beside a change that its caller does not have, for any number of
\* teammates and of calls that publish at once and in any order: its receiver is marked with
\* the news, or a call is about to publish it.  Excepted are the changes that were published
\* before the teammate subscribed and that the channel did not keep, since nobody listened,
\* and those that an interrupted call or an older version hides from it.
THEOREM WatchersAreWoken == WatchSpec => []WaitersAreWoken
  <1>1. WatchInv => WatchTypeOK
    BY DEF WatchInv
  <1>2. WatchInit => WakeInv
    BY DEF WatchInit, WakeInv, Subscribed, Process
  <1>3. WatchTypeOK /\ WakeInv => WaitersAreWoken
    BY DEF WakeInv, Subscribed, ToldOf, WaitersAreWoken, At
  <1>4. QED
    BY WatchInvariant, WakingSteps, <1>1, <1>2, <1>3, PTL DEF WatchSpec
=============================================================================

-------------------------- MODULE AgentWakeProofs --------------------------
(***************************************************************************)
(* No message to a teammate is lost or doubled, for any number of calls,   *)
(* any number of messages and any capacity of the channel.                 *)
(*                                                                         *)
(* MessagesAccounted counts the places of a message.  A step moves one     *)
(* process, so Balance reduces it to what the step does to that process,   *)
(* the two queues and the two sets.  CarryInv says where a process has a   *)
(* message in hand.                                                        *)
(***************************************************************************)
EXTENDS AgentWake, FiniteSetTheorems, SequenceTheorems, TLAPS

\* Places where a process has a message, and where it has none.
Laden == {"launch", "sendFirst", "clearAttention", "look", "dispatch", "send", "enqueue",
          "startTurn", "turn", "uncountWake", "nextWake", "resend"}
Free == {"launched", "idle", "uncountFailed", "fail", "receive", "settle", "dequeue",
         "uncountAll", "failTurn", "stop", "ended"}
\* The message is in the wake queue already.
Queued == {"countWake", "scheduleWake"}

CarryInv ==
  \A p \in Process :
    /\ pc[p] \in Laden => carried[p] \in Message
    /\ pc[p] \in Free => carried[p] = NoMessage
    /\ copy[p] # NoState => pc[p] \in UpdatePlace

One(b) == IF b THEN 1 ELSE 0
InWakes(m) == Times(wakes, m)
InChannel(m) == Times(channel, m)
Holders(m) == {p \in Process : Holds(p, m)}
Held(m) == Cardinality(Holders(m))

\* MessagesAccounted, and of the messages to come that they are nowhere.
Accounted ==
  \A m \in Message :
    InWakes(m) + InChannel(m) + Held(m) + One(m \in done) + One(m \in dropped) = One(m <= sent)

Inv == TypeOK /\ CarryInv /\ Accounted

USE ConstantsOK DEF ConstantsOK

-----------------------------------------------------------------------------
(* Counting in sequences and sets *)

LEMMA FiniteProcess == IsFiniteSet(Process)
  <1>1. IsFiniteSet({Launcher, Loop, Closer})
    <2>1. IsFiniteSet({}) /\ IsFiniteSet({} \cup {Launcher})
      BY FS_EmptySet, FS_AddElement
    <2>2. IsFiniteSet(({} \cup {Launcher}) \cup {Loop})
      BY <2>1, FS_AddElement
    <2>3. IsFiniteSet((({} \cup {Launcher}) \cup {Loop}) \cup {Closer})
      BY <2>2, FS_AddElement
    <2>4. {Launcher, Loop, Closer} = (({} \cup {Launcher}) \cup {Loop}) \cup {Closer}
      OBVIOUS
    <2>5. QED
      BY <2>3, <2>4
  <1>2. IsFiniteSet(Sender \cup Waiter)
    BY FS_Union
  <1>3. IsFiniteSet((Sender \cup Waiter) \cup {Launcher, Loop, Closer})
    BY <1>1, <1>2, FS_Union
  <1>4. QED
    BY <1>3 DEF Process

LEMMA OneMember == \A m, S : Cardinality({m} \cap S) = One(m \in S)
  <1> SUFFICES ASSUME NEW m, NEW S PROVE Cardinality({m} \cap S) = One(m \in S)
    OBVIOUS
  <1>1. CASE m \in S
    <2>1. {m} \cap S = {m}
      BY <1>1
    <2>2. QED
      BY <1>1, <2>1, FS_Singleton DEF One
  <1>2. CASE m \notin S
    <2>1. {m} \cap S = {}
      BY <1>2
    <2>2. QED
      BY <1>2, <2>1, FS_EmptySet DEF One
  <1>3. QED
    BY <1>1, <1>2

Positions(s, m) == {i \in DOMAIN s : s[i] = m}

LEMMA TimesNat ==
  ASSUME NEW S, NEW s \in Seq(S), NEW m
  PROVE  /\ IsFiniteSet(Positions(s, m))
         /\ Times(s, m) = Cardinality(Positions(s, m)) /\ Times(s, m) \in Nat
         /\ (\E i \in DOMAIN s : s[i] = m) <=> Times(s, m) >= 1
  <1>1. IsFiniteSet(1..Len(s)) /\ DOMAIN s = 1..Len(s)
    BY FS_Interval
  <1>2. Positions(s, m) \subseteq 1..Len(s)
    BY <1>1 DEF Positions
  <1>3. IsFiniteSet(Positions(s, m))
    BY <1>1, <1>2, FS_Subset
  <1>4. /\ Cardinality(Positions(s, m)) \in Nat
        /\ Cardinality(Positions(s, m)) = 0 <=> Positions(s, m) = {}
    BY <1>3, FS_CardinalityType, FS_EmptySet
  <1>5. (\E i \in DOMAIN s : s[i] = m) <=> Positions(s, m) # {}
    BY DEF Positions
  <1>6. Times(s, m) = Cardinality(Positions(s, m))
    BY DEF Times, Positions
  <1>7. QED
    BY <1>3, <1>4, <1>5, <1>6

LEMMA TimesEmpty == \A m : Times(<<>>, m) = 0
  <1> SUFFICES ASSUME NEW m PROVE Times(<<>>, m) = 0
    OBVIOUS
  <1>1. {i \in DOMAIN <<>> : <<>>[i] = m} = {}
    OBVIOUS
  <1>2. QED
    BY <1>1, FS_EmptySet DEF Times

LEMMA TimesAppend ==
  ASSUME NEW S, NEW s \in Seq(S), NEW x \in S, NEW m
  PROVE  Times(Append(s, x), m) = Times(s, m) + One(x = m)
  <1> DEFINE t == Append(s, x)
             n == Len(s) + 1
             I == Positions(s, m)
             J == Positions(t, m)
  <1>1. DOMAIN s = 1..Len(s) /\ Len(s) \in Nat
    OBVIOUS
  <1>2. /\ t \in Seq(S) /\ DOMAIN t = 1..n /\ t[n] = x
        /\ \A i \in 1..Len(s) : t[i] = s[i]
    OBVIOUS
  <1>3. J = (IF x = m THEN I \cup {n} ELSE I) /\ n \notin I
    BY <1>1, <1>2 DEF Positions
  <1> HIDE DEF t, n, I, J
  <1>4. /\ IsFiniteSet(I) /\ Cardinality(I) \in Nat
        /\ Times(s, m) = Cardinality(I) /\ Times(t, m) = Cardinality(J)
    BY <1>2, TimesNat DEF I, J
  <1>5. CASE x = m
    BY <1>3, <1>4, <1>5, FS_AddElement DEF One, t
  <1>6. CASE x # m
    BY <1>3, <1>4, <1>6 DEF One, t
  <1>7. QED
    BY <1>5, <1>6

LEMMA TimesTail ==
  ASSUME NEW S, NEW s \in Seq(S), s # <<>>, NEW m
  PROVE  Times(s, m) = Times(Tail(s), m) + One(Head(s) = m)
  <1> DEFINE t == Tail(s)
             I == Positions(s, m)
             J == Positions(t, m)
             K == I \ {1}
  <1>1. DOMAIN s = 1..Len(s) /\ Len(s) \in Nat /\ Len(s) > 0 /\ Head(s) = s[1]
    OBVIOUS
  <1>2. /\ t \in Seq(S) /\ Len(t) = Len(s) - 1 /\ DOMAIN t = 1..(Len(s) - 1)
        /\ \A i \in 1..(Len(s) - 1) : t[i] = s[i + 1]
    BY HeadTailProperties
  <1>3. \A j \in J : j \in Nat /\ j + 1 \in K
    BY <1>1, <1>2 DEF Positions
  <1>4. \A k \in K : k - 1 \in J /\ (k - 1) + 1 = k
    BY <1>1, <1>2 DEF Positions
  <1>5. 1 \in I <=> Head(s) = m
    BY <1>1 DEF Positions
  <1> HIDE DEF t, I, J
  <1>6. /\ IsFiniteSet(I) /\ Cardinality(I) \in Nat /\ IsFiniteSet(J) /\ Cardinality(J) \in Nat
        /\ Times(s, m) = Cardinality(I) /\ Times(t, m) = Cardinality(J)
    BY <1>2, TimesNat, FS_CardinalityType DEF I, J
  <1> HIDE DEF K
  <1>7. Cardinality(K) = Cardinality(J)
    <2> DEFINE f == [j \in J |-> j + 1]
    <2>1. f \in [J -> K]
      BY <1>3
    <2>2. \A k \in K : \E j \in J : f[j] = k
      BY <1>4
    <2>3. \A a, b \in J : f[a] = f[b] => a = b
      BY <1>3
    <2> HIDE DEF f
    <2>4. f \in Bijection(J, K)
      BY <2>1, <2>2, <2>3 DEF Bijection, Injection, IsInjective, Surjection
    <2>5. ExistsBijection(J, K)
      BY <2>4 DEF ExistsBijection
    <2>6. QED
      BY <1>6, <2>5, FS_Bijection
  <1>8. Cardinality(K) = IF 1 \in I THEN Cardinality(I) - 1 ELSE Cardinality(I)
    BY <1>6, FS_RemoveElement DEF K
  <1>9. QED
    BY <1>5, <1>6, <1>7, <1>8 DEF One, t

\* What a queue of messages contains.
LEMMA InMessages ==
  ASSUME NEW s \in Seq(Message), NEW m \in Message
  PROVE  m \in Messages(s) <=> Times(s, m) >= 1
  <1>1. m # Shutdown
    BY DEF Message
  <1>2. QED
    BY <1>1, TimesNat DEF Messages

LEMMA MessagesType ==
  ASSUME NEW s \in Seq(Message) PROVE Messages(s) \subseteq Message
  BY DEF Messages

-----------------------------------------------------------------------------
(* What one step of one process amounts to *)

\* A process at q with x in hand holds the message m.
Has(q, x, m) == x = m /\ q \notin Queued

\* A message's places but the hands of processes.
Around(m) == InWakes(m) + InChannel(m) + One(m \in done) + One(m \in dropped)

OtherTypes ==
  /\ state \in AgentState /\ handled \in BOOLEAN /\ target \in [Waiter -> Nat]
  /\ wakes \in Seq(Message) /\ channel \in Seq(Message \cup {Shutdown})
  /\ Len(channel) <= Capacity
  /\ sent \in Message /\ done \subseteq Message /\ dropped \subseteq Message

\* p goes to q with x in hand and is not updating the state.
Moves(p, q, x) ==
  /\ pc' = [pc EXCEPT ![p] = q]
  /\ carried' = [carried EXCEPT ![p] = x]
  /\ copy' = [copy EXCEPT ![p] = NoState]
  /\ q \in Place /\ x \in Message \cup {NoMessage}
  /\ q \in Laden => x \in Message
  /\ q \in Free => x = NoMessage

Balance(p, q, x) ==
  \A m \in Message :
    Around(m)' + One(Has(q, x, m)) + One(m <= sent) = Around(m) + One(Holds(p, m)) + One(m <= sent')

Balanced(p, q, x) == Moves(p, q, x) /\ OtherTypes' /\ Balance(p, q, x)

LEMMA OneNat == \A b : One(b) \in {0, 1} /\ (b => One(b) = 1) /\ (~b => One(b) = 0)
  BY DEF One

LEMMA AroundNat ==
  ASSUME OtherTypes, NEW m \in Message
  PROVE  /\ InWakes(m) \in Nat /\ InChannel(m) \in Nat /\ Around(m) \in Nat
  <1>1. InWakes(m) \in Nat
    BY TimesNat DEF OtherTypes, InWakes
  <1>2. InChannel(m) \in Nat
    BY TimesNat DEF OtherTypes, InChannel
  <1>3. QED
    BY <1>1, <1>2, OneNat DEF Around

LEMMA AroundNatPrime ==
  ASSUME OtherTypes', NEW m \in Message
  PROVE  Around(m)' \in Nat
  <1>1. InWakes(m)' \in Nat
    BY TimesNat DEF OtherTypes, InWakes
  <1>2. InChannel(m)' \in Nat
    BY TimesNat DEF OtherTypes, InChannel
  <1>3. QED
    BY <1>1, <1>2, OneNat DEF Around

LEMMA HeldNat ==
  ASSUME NEW m, NEW p \in Process
  PROVE  IsFiniteSet(Holders(m)) /\ Held(m) \in Nat /\ One(Holds(p, m)) <= Held(m)
  <1>1. IsFiniteSet(Holders(m))
    BY FiniteProcess, FS_Subset DEF Holders
  <1>2. Held(m) \in Nat /\ (Held(m) = 0 => Holders(m) = {})
    BY <1>1, FS_CardinalityType, FS_EmptySet DEF Held
  <1>3. Holds(p, m) => Held(m) >= 1
    BY <1>2 DEF Holders
  <1>4. QED
    BY <1>1, <1>2, <1>3, OneNat

\* No message is both in the hand of p and elsewhere.
LEMMA AtMostOnce ==
  ASSUME Inv, NEW m \in Message, NEW p \in Process
  PROVE  /\ Around(m) + One(Holds(p, m)) <= 1
         /\ Around(m) + Held(m) = One(m <= sent)
         /\ InWakes(m) \in Nat /\ InChannel(m) \in Nat
  <1>1. /\ InWakes(m) \in Nat /\ InChannel(m) \in Nat /\ Around(m) \in Nat
    BY AroundNat DEF Inv, TypeOK, OtherTypes
  <1>2. Held(m) \in Nat /\ One(Holds(p, m)) <= Held(m)
    BY HeldNat
  <1>3. Around(m) + Held(m) = One(m <= sent)
    BY <1>1, <1>2, OneNat DEF Inv, Accounted, Around
  <1>4. One(m <= sent) \in {0, 1} /\ One(Holds(p, m)) \in {0, 1}
    BY OneNat
  <1>5. QED
    BY <1>1, <1>2, <1>3, <1>4

LEMMA HeldMoves ==
  ASSUME TypeOK, NEW p \in Process, NEW q, NEW x, NEW m,
         pc' = [pc EXCEPT ![p] = q], carried' = [carried EXCEPT ![p] = x]
  PROVE  Held(m)' + One(Holds(p, m)) = Held(m) + One(Has(q, x, m))
  <1> DEFINE rest == Holders(m) \ {p}
  <1>1. IsFiniteSet(Holders(m)) /\ Held(m) \in Nat
    BY HeldNat
  <1>2. /\ IsFiniteSet(rest)
        /\ Cardinality(rest) = IF p \in Holders(m) THEN Held(m) - 1 ELSE Held(m)
    BY <1>1, FS_RemoveElement DEF Held
  <1>3. p \in Holders(m) <=> Holds(p, m)
    BY DEF Holders
  <1>4. Cardinality(rest) \in Nat /\ Cardinality(rest) + One(Holds(p, m)) = Held(m)
    BY <1>1, <1>2, <1>3, FS_CardinalityType DEF One
  <1>5. Holders(m)' = IF Has(q, x, m) THEN rest \cup {p} ELSE rest
    <2>1. \A r \in Process : Holds(r, m)' <=> IF r = p THEN Has(q, x, m) ELSE Holds(r, m)
      BY DEF TypeOK, Holds, Has, Queued
    <2>2. QED
      BY <2>1 DEF Holders
  <1>6. p \notin rest
    OBVIOUS
  <1> HIDE DEF rest
  <1>7. Held(m)' = Cardinality(rest) + One(Has(q, x, m))
    <2>1. CASE Has(q, x, m)
      BY <1>2, <1>5, <1>6, <2>1, FS_AddElement DEF Held, One
    <2>2. CASE ~Has(q, x, m)
      BY <1>4, <1>5, <2>2 DEF Held, One
    <2>3. QED
      BY <2>1, <2>2
  <1>8. One(Has(q, x, m)) \in {0, 1} /\ One(Holds(p, m)) \in {0, 1}
    BY OneNat
  <1>9. QED
    BY <1>4, <1>7, <1>8

\* A balanced step keeps the invariant.
LEMMA BalancedKeeps ==
  ASSUME Inv, NEW p \in Process, NEW q, NEW x, Balanced(p, q, x)
  PROVE  Inv'
  <1>1. TypeOK'
    BY DEF Balanced, Moves, OtherTypes, Inv, TypeOK
  <1>2. CarryInv'
    <2> SUFFICES ASSUME NEW r \in Process
                 PROVE  /\ pc'[r] \in Laden => carried'[r] \in Message
                        /\ pc'[r] \in Free => carried'[r] = NoMessage
                        /\ copy'[r] # NoState => pc'[r] \in UpdatePlace
      BY DEF CarryInv
    <2>1. CASE r = p
      BY <2>1 DEF Balanced, Moves, Inv, TypeOK
    <2>2. CASE r # p
      BY <2>2 DEF Balanced, Moves, Inv, TypeOK, CarryInv
    <2>3. QED
      BY <2>1, <2>2
  <1>3. ASSUME NEW m \in Message
        PROVE  Around(m)' + Held(m)' = One(m <= sent')
    <2>1. Held(m)' + One(Holds(p, m)) = Held(m) + One(Has(q, x, m))
      <3>1. TypeOK /\ pc' = [pc EXCEPT ![p] = q] /\ carried' = [carried EXCEPT ![p] = x]
        BY DEF Balanced, Moves, Inv
      <3>2. QED
        BY <3>1, HeldMoves
    <2>2. Around(m)' + One(Has(q, x, m)) + One(m <= sent)
            = Around(m) + One(Holds(p, m)) + One(m <= sent')
      BY DEF Balanced, Balance
    <2>3. Around(m) + Held(m) = One(m <= sent) /\ Around(m) \in Nat
      BY AtMostOnce, OneNat DEF Around
    <2>4. Around(m)' \in Nat
      BY AroundNatPrime DEF Balanced
    <2>5. Held(m) \in Nat /\ Held(m)' \in Nat
      <3>1. IsFiniteSet(Holders(m)')
        BY FiniteProcess, FS_Subset DEF Holders
      <3>2. QED
        BY <3>1, HeldNat, FS_CardinalityType DEF Held
    <2>6. /\ One(Holds(p, m)) \in {0, 1} /\ One(Has(q, x, m)) \in {0, 1}
          /\ One(m <= sent) \in {0, 1} /\ One(m <= sent') \in {0, 1}
      BY OneNat
    <2>7. QED
      BY <2>1, <2>2, <2>3, <2>4, <2>5, <2>6
  <1>4. Accounted'
    <2>1. ASSUME NEW m \in Message
          PROVE  (InWakes(m) + InChannel(m) + Held(m) + One(m \in done) + One(m \in dropped)
                   = One(m <= sent))'
      <3>1. Around(m)' + Held(m)' = One(m <= sent')
        BY <1>3
      <3>2. InWakes(m)' \in Nat /\ InChannel(m)' \in Nat
        BY TimesNat DEF Balanced, OtherTypes, InWakes, InChannel
      <3>3. Held(m)' \in Nat
        BY FiniteProcess, FS_Subset, FS_CardinalityType DEF Held, Holders
      <3>4. One(m \in done') \in {0, 1} /\ One(m \in dropped') \in {0, 1}
        BY OneNat
      <3>5. QED
        BY <3>1, <3>2, <3>3, <3>4 DEF Around
    <2>2. QED
      BY <2>1 DEF Accounted
  <1>5. QED
    BY <1>1, <1>2, <1>4 DEF Inv

-----------------------------------------------------------------------------
(* Every step is balanced *)

LEMMA Processes ==
  /\ Launcher \in Process /\ Loop \in Process /\ Closer \in Process
  /\ \A s \in Sender : s \in Process
  /\ \A w \in Waiter : w \in Process
  BY DEF Process

\* A process that is not at an update holds no copy.
LEMMA NoCopy ==
  ASSUME Inv, NEW p \in Process, pc[p] \notin UpdatePlace
  PROVE  copy[p] = NoState /\ [copy EXCEPT ![p] = NoState] = copy
  BY DEF Inv, CarryInv, TypeOK

LEMMA InvTypes == Inv => OtherTypes
  BY DEF Inv, TypeOK, OtherTypes

\* Steps that leave the messages alone.
LEMMA Walks ==
  ASSUME Inv, NEW p \in Process, NEW q \in Place,
         copy' = [copy EXCEPT ![p] = NoState],
         q \in Queued <=> pc[p] \in Queued,
         q \in Laden => pc[p] \in Laden, q \in Free => pc[p] \in Free,
         pc' = [pc EXCEPT ![p] = q], UNCHANGED work,
         state' \in AgentState, handled' \in BOOLEAN, target' \in [Waiter -> Nat]
  PROVE  Balanced(p, q, carried[p])
  <1>1. Moves(p, q, carried[p])
    BY DEF Moves, Inv, TypeOK, CarryInv, work
  <1>2. OtherTypes'
    BY InvTypes DEF OtherTypes, work
  <1>3. Balance(p, q, carried[p])
    <2> SUFFICES ASSUME NEW m \in Message
                 PROVE  Around(m)' + One(Has(q, carried[p], m)) + One(m <= sent)
                          = Around(m) + One(Holds(p, m)) + One(m <= sent')
      BY DEF Balance
    <2>1. Around(m)' = Around(m) /\ sent' = sent
      BY DEF Around, InWakes, InChannel, work
    <2>2. Has(q, carried[p], m) <=> Holds(p, m)
      BY DEF Has, Holds, Queued
    <2>3. One(Has(q, carried[p], m)) = One(Holds(p, m))
      BY <2>2 DEF One
    <2>4. Around(m) \in Nat /\ One(Holds(p, m)) \in {0, 1} /\ One(m <= sent) \in {0, 1}
      BY AroundNat, InvTypes, OneNat
    <2>5. QED
      BY <2>1, <2>3, <2>4
  <1>4. QED
    BY <1>1, <1>2, <1>3 DEF Balanced

\* Steps that move a message from the hand of p, or to it, with sent as it was.
LEMMA Carries ==
  ASSUME Inv, NEW p \in Process, NEW q \in Place, NEW x \in Message \cup {NoMessage},
         pc[p] \notin UpdatePlace, copy' = copy,
         q \in Laden => x \in Message, q \in Free => x = NoMessage, q \notin Queued,
         pc' = [pc EXCEPT ![p] = q], carried' = [carried EXCEPT ![p] = x],
         UNCHANGED <<state, handled, sent, target>>,
         wakes' \in Seq(Message), channel' \in Seq(Message \cup {Shutdown}),
         Len(channel') <= Capacity, done' \subseteq Message, dropped' \subseteq Message,
         \A m \in Message :
           InWakes(m)' + InChannel(m)' + One(m \in done') + One(m \in dropped') + One(x = m)
             = InWakes(m) + InChannel(m) + One(m \in done) + One(m \in dropped)
                 + One(carried[p] = m)
  PROVE  Balanced(p, q, x)
  <1>1. pc[p] \notin Queued
    BY DEF UpdatePlace, UpdateAt, Queued
  <1>2. Moves(p, q, x)
    BY NoCopy DEF Moves
  <1>3. OtherTypes'
    BY InvTypes DEF OtherTypes
  <1>4. Balance(p, q, x)
    <2> SUFFICES ASSUME NEW m \in Message
                 PROVE  Around(m)' + One(Has(q, x, m)) + One(m <= sent)
                          = Around(m) + One(Holds(p, m)) + One(m <= sent')
      BY DEF Balance
    <2>1. (Has(q, x, m) <=> x = m) /\ (Holds(p, m) <=> carried[p] = m)
      BY <1>1 DEF Has, Holds, Queued
    <2>2. One(Has(q, x, m)) = One(x = m) /\ One(Holds(p, m)) = One(carried[p] = m)
      BY <2>1 DEF One
    <2>3. Around(m) \in Nat /\ Around(m)' \in Nat
      BY <1>3, AroundNat, AroundNatPrime, InvTypes
    <2>4. One(x = m) \in {0, 1} /\ One(carried[p] = m) \in {0, 1} /\ One(m <= sent) \in {0, 1}
      BY OneNat
    <2>5. Around(m)' + One(x = m) = Around(m) + One(carried[p] = m)
      BY DEF Around
    <2>6. QED
      BY <2>2, <2>3, <2>4, <2>5
  <1>5. QED
    BY <1>2, <1>3, <1>4 DEF Balanced

\* What a queue holds when a message is put in or taken out.
LEMMA ChannelAppend ==
  ASSUME Inv, NEW y \in Message \cup {Shutdown}, ~ChannelFull, channel' = Append(channel, y)
  PROVE  /\ channel' \in Seq(Message \cup {Shutdown}) /\ Len(channel') <= Capacity
         /\ \A m \in Message : InChannel(m)' = InChannel(m) + One(y = m)
  <1>1. channel \in Seq(Message \cup {Shutdown}) /\ Len(channel) \in Nat
    BY DEF Inv, TypeOK
  <1>2. \A m : Times(Append(channel, y), m) = Times(channel, m) + One(y = m)
    BY <1>1, TimesAppend
  <1>3. QED
    BY <1>1, <1>2 DEF InChannel, ChannelFull

LEMMA ChannelTail ==
  ASSUME Inv, channel # <<>>, channel' = Tail(channel)
  PROVE  /\ channel' \in Seq(Message \cup {Shutdown}) /\ Len(channel') <= Capacity
         /\ Head(channel) \in Message \cup {Shutdown}
         /\ \A m \in Message : InChannel(m) = InChannel(m)' + One(Head(channel) = m)
  <1>1. channel \in Seq(Message \cup {Shutdown}) /\ Len(channel) \in Nat /\ Len(channel) <= Capacity
    BY DEF Inv, TypeOK
  <1>2. \A m : Times(channel, m) = Times(Tail(channel), m) + One(Head(channel) = m)
    BY <1>1, TimesTail
  <1>3. Head(channel) \in Message \cup {Shutdown} /\ Len(Tail(channel)) <= Capacity
    BY <1>1
  <1>4. QED
    BY <1>1, <1>2, <1>3 DEF InChannel

\* Dropping what p has in hand, and the wakes.
LEMMA Drops ==
  ASSUME Inv, NEW p \in Process, pc[p] \notin UpdatePlace, NEW m \in Message
  PROVE  /\ One(m \in dropped \cup {carried[p]}) = One(m \in dropped) + One(carried[p] = m)
         /\ One(m \in done \cup {carried[p]}) = One(m \in done) + One(carried[p] = m)
         /\ One(m \in dropped \cup Messages(wakes)) = One(m \in dropped) + InWakes(m)
         /\ One(m \in dropped \cup {carried[p]} \cup Messages(wakes))
              = One(m \in dropped) + One(carried[p] = m) + InWakes(m)
  <1>1. Holds(p, m) <=> carried[p] = m
    BY DEF Holds, UpdatePlace, UpdateAt
  <1>2. One(Holds(p, m)) = One(carried[p] = m)
    BY <1>1 DEF One
  <1>3. /\ Around(m) + One(carried[p] = m) <= 1
        /\ InWakes(m) \in Nat /\ InChannel(m) \in Nat
    BY <1>2, AtMostOnce
  <1>4. m \in Messages(wakes) <=> InWakes(m) >= 1
    BY InMessages DEF Inv, TypeOK, InWakes
  <1>5. InWakes(m) + InChannel(m) + One(m \in done) + One(m \in dropped) + One(carried[p] = m) <= 1
    BY <1>3 DEF Around
  <1>6. QED
    BY <1>3, <1>4, <1>5 DEF One

Outside == {"sendFirst", "launched", "idle", "look", "send", "enqueue", "receive", "turn",
            "dequeue", "resend", "ended", "clearClosed", "sendShutdown", "closed", "abandoned",
            "subscribe", "wait", "settled", "failed", "notFound", "disconnected", "timedOut"}

LEMMA OutsidePlaces == Place = UpdatePlace \cup Outside /\ Outside \cap UpdatePlace = {}
  BY DEF Place, Outside, UpdatePlace, UpdateAt

\* The figures of a message, and those that a step keeps.
LEMMA Figures ==
  ASSUME Inv, NEW m \in Message, NEW p \in Process
  PROVE  /\ InWakes(m) \in Nat /\ InChannel(m) \in Nat
         /\ One(m \in done) \in Nat /\ One(m \in dropped) \in Nat
         /\ One(carried[p] = m) \in Nat /\ One(NoMessage = m) = 0 /\ One(Shutdown = m) = 0
         /\ One(m \in done)' \in Nat /\ One(m \in dropped)' \in Nat
         /\ wakes' \in Seq(Message) => InWakes(m)' \in Nat
         /\ channel' \in Seq(Message \cup {Shutdown}) => InChannel(m)' \in Nat
         /\ UNCHANGED wakes => InWakes(m)' = InWakes(m)
         /\ UNCHANGED channel => InChannel(m)' = InChannel(m)
         /\ UNCHANGED done => One(m \in done)' = One(m \in done)
         /\ UNCHANGED dropped => One(m \in dropped)' = One(m \in dropped)
  <1>1. One(NoMessage = m) = 0 /\ One(Shutdown = m) = 0
    BY DEF One, NoMessage, Message
  <1>2. InWakes(m) \in Nat /\ InChannel(m) \in Nat
    BY AtMostOnce
  <1>3. One(m \in done) \in Nat /\ One(m \in dropped) \in Nat /\ One(carried[p] = m) \in Nat
    BY OneNat
  <1>4. /\ UNCHANGED wakes => InWakes(m)' = InWakes(m)
        /\ UNCHANGED channel => InChannel(m)' = InChannel(m)
    BY DEF InWakes, InChannel
  <1>5. One(m \in done)' \in Nat /\ One(m \in dropped)' \in Nat
    BY OneNat
  <1>6. wakes' \in Seq(Message) => InWakes(m)' \in Nat
    <2>1. ASSUME NEW s \in Seq(Message) PROVE Times(s, m) \in Nat
      BY TimesNat
    <2>2. QED
      BY <2>1 DEF InWakes
  <1>7. channel' \in Seq(Message \cup {Shutdown}) => InChannel(m)' \in Nat
    <2>1. ASSUME NEW s \in Seq(Message \cup {Shutdown}) PROVE Times(s, m) \in Nat
      BY TimesNat
    <2>2. QED
      BY <2>1 DEF InChannel
  <1>8. QED
    BY <1>1, <1>2, <1>3, <1>4, <1>5, <1>6, <1>7

\* p sends what it has over the channel.
LEMMA SendsHand ==
  ASSUME Inv, NEW p \in Process, NEW q \in Place, q \notin Laden \cup Queued,
         pc[p] \in Laden \ UpdatePlace, ~ChannelFull, channel' = Append(channel, carried[p]),
         pc' = [pc EXCEPT ![p] = q], carried' = [carried EXCEPT ![p] = NoMessage],
         UNCHANGED <<state, handled, copy, wakes, sent, done, dropped, target>>
  PROVE  Balanced(p, q, NoMessage)
  <1>1. carried[p] \in Message
    BY DEF Inv, CarryInv
  <1>2. /\ channel' \in Seq(Message \cup {Shutdown}) /\ Len(channel') <= Capacity
        /\ \A m \in Message : InChannel(m)' = InChannel(m) + One(carried[p] = m)
    BY <1>1, ChannelAppend
  <1>3. ASSUME NEW m \in Message
        PROVE  InWakes(m)' + InChannel(m)' + One(m \in done') + One(m \in dropped')
                   + One(NoMessage = m)
                 = InWakes(m) + InChannel(m) + One(m \in done) + One(m \in dropped)
                     + One(carried[p] = m)
    <2>1. /\ InWakes(m)' = InWakes(m) /\ One(m \in done') = One(m \in done)
          /\ One(m \in dropped') = One(m \in dropped) /\ One(NoMessage = m) = 0
      BY Figures
    <2>2. /\ InWakes(m) \in Nat /\ InChannel(m) \in Nat /\ One(m \in done) \in Nat
          /\ One(m \in dropped) \in Nat /\ One(carried[p] = m) \in Nat
      BY Figures
    <2>3. QED
      BY <1>2, <2>1, <2>2
  <1>4. QED
    BY <1>2, <1>3, Carries, InvTypes DEF OtherTypes

\* p drops what it has.
LEMMA DropsHand ==
  ASSUME Inv, NEW p \in Process, NEW q \in Place, q \notin Laden \cup Queued,
         pc[p] \in Laden \ UpdatePlace, dropped' = dropped \cup {carried[p]},
         pc' = [pc EXCEPT ![p] = q], carried' = [carried EXCEPT ![p] = NoMessage],
         UNCHANGED <<state, handled, copy, wakes, channel, sent, done, target>>
  PROVE  Balanced(p, q, NoMessage)
  <1>1. carried[p] \in Message /\ dropped' \subseteq Message
    BY InvTypes DEF Inv, CarryInv, OtherTypes
  <1>2. ASSUME NEW m \in Message
        PROVE  InWakes(m)' + InChannel(m)' + One(m \in done') + One(m \in dropped')
                   + One(NoMessage = m)
                 = InWakes(m) + InChannel(m) + One(m \in done) + One(m \in dropped)
                     + One(carried[p] = m)
    <2>1. /\ InWakes(m)' = InWakes(m) /\ One(m \in done') = One(m \in done)
          /\ InChannel(m)' = InChannel(m) /\ One(NoMessage = m) = 0
      BY Figures
    <2>2. /\ InWakes(m) \in Nat /\ InChannel(m) \in Nat /\ One(m \in done) \in Nat
          /\ One(m \in dropped) \in Nat /\ One(carried[p] = m) \in Nat
      BY Figures
    <2>3. One(m \in dropped') = One(m \in dropped) + One(carried[p] = m)
      BY Drops
    <2>4. QED
      BY <2>1, <2>2, <2>3
  <1>3. QED
    BY <1>1, <1>2, Carries, InvTypes DEF OtherTypes

LEMMA LaunchBalanced ==
  ASSUME Inv, Launching
  PROVE  Balanced(Launcher, "launched", NoMessage)
  <1>1. pc[Launcher] = "sendFirst"
    BY DEF Launching, SendFirst, AbandonLaunch, At
  <1>2. /\ Launcher \in Process /\ pc[Launcher] \in Laden \ UpdatePlace
        /\ "launched" \in Place /\ "launched" \notin Laden \cup Queued
    BY <1>1, Processes, OutsidePlaces DEF Outside, Laden, Queued
  <1>3. QED
    BY <1>2, SendsHand, DropsHand DEF Launching, SendFirst, AbandonLaunch, Goto, Carry

LEMMA SchedulingBalanced ==
  ASSUME Inv, NEW s \in Sender, Scheduling(s)
  PROVE  \E q, x : Balanced(s, q, x)
  <1> s \in Process
    BY Processes
  <1>1. CASE FindHandle(s)
    <2>1. /\ pc[s] = "idle" /\ carried[s] = NoMessage /\ sent' = sent + 1 /\ sent' \in Message
          /\ carried' = [carried EXCEPT ![s] = sent'] /\ pc' = [pc EXCEPT ![s] = "clearAttention"]
          /\ UNCHANGED <<state, handled, copy, wakes, channel, done, dropped, target>>
      BY <1>1 DEF FindHandle, At, Goto, Carry, Inv, TypeOK, CarryInv, Free, Message
    <2>2. pc[s] \notin UpdatePlace /\ copy' = [copy EXCEPT ![s] = NoState]
      BY <2>1, OutsidePlaces, NoCopy DEF Outside
    <2>3. /\ "clearAttention" \in Place /\ "clearAttention" \notin Queued
          /\ "clearAttention" \notin Free
      BY DEF Place, UpdatePlace, UpdateAt, Queued, Free
    <2>4. Moves(s, "clearAttention", sent')
      BY <2>1, <2>2, <2>3 DEF Moves
    <2>5. OtherTypes'
      BY <2>1, InvTypes DEF OtherTypes
    <2>6. ASSUME NEW m \in Message
          PROVE  Around(m)' + One(Has("clearAttention", sent', m)) + One(m <= sent)
                   = Around(m) + One(Holds(s, m)) + One(m <= sent')
      <3>1. Around(m)' = Around(m) /\ Around(m) \in Nat
        BY <2>1, AroundNat, InvTypes DEF Around, InWakes, InChannel
      <3>2. One(Has("clearAttention", sent', m)) = One(sent' = m)
        BY <2>3 DEF Has, One
      <3>3. One(Holds(s, m)) = 0
        BY <2>1 DEF Holds, One, NoMessage, Message
      <3>4. One(sent' = m) + One(m <= sent) = One(m <= sent')
        BY <2>1 DEF One, Message, Inv, TypeOK
      <3>5. One(sent' = m) \in Nat /\ One(m <= sent) \in Nat
        BY OneNat
      <3>6. QED
        BY <3>1, <3>2, <3>3, <3>4, <3>5
    <2>7. QED
      BY <2>4, <2>5, <2>6 DEF Balanced, Balance
  <1>2. CASE SkipClearAttention(s)
    <2>1. "look" \in Place /\ "look" \in Laden /\ "look" \notin Queued /\ "look" \notin Free
      BY DEF Place, UpdatePlace, UpdateAt, Laden, Queued, Free
    <2>2. /\ pc[s] \in Laden /\ pc[s] \notin Queued /\ pc' = [pc EXCEPT ![s] = "look"]
          /\ copy' = [copy EXCEPT ![s] = NoState] /\ UNCHANGED <<state, handled, work, target>>
      BY <1>2 DEF SkipClearAttention, At, Goto, Laden, Queued, Inv, TypeOK
    <2>3. Balanced(s, "look", carried[s])
      BY <2>1, <2>2, Walks, InvTypes DEF OtherTypes
    <2>4. QED
      BY <2>3
  <1>3. CASE LookAtLifecycle(s)
    <2>1. pc[s] = "look"
      BY <1>3 DEF LookAtLifecycle, At
    <2>2. /\ pc[s] \in Laden \ UpdatePlace /\ pc[s] \notin Queued
          /\ copy = [copy EXCEPT ![s] = NoState]
      BY <2>1, OutsidePlaces, NoCopy DEF Outside, Laden, Queued
    <2>3. /\ \A q \in {"dispatch", "enqueue"} : q \in Place /\ q \notin Queued /\ q \notin Free
          /\ "idle" \in Place /\ "idle" \notin Laden \cup Queued
      BY DEF Place, UpdatePlace, UpdateAt, Laden, Queued, Free
    <2>4. CASE state.lifecycle \in {"Ready", "Busy"}
      <3>1. PICK q \in {"dispatch", "enqueue"} : pc' = [pc EXCEPT ![s] = q]
        BY <1>3, <2>4 DEF LookAtLifecycle, Goto
      <3>2. UNCHANGED <<state, handled, copy, work, target>>
        BY <1>3, <2>4 DEF LookAtLifecycle, work
      <3>3. Balanced(s, q, carried[s])
        BY <2>2, <2>3, <3>1, <3>2, Walks, InvTypes DEF OtherTypes
      <3>4. QED
        BY <3>3
    <2>5. CASE state.lifecycle \notin {"Ready", "Busy"}
      <3>1. Balanced(s, "idle", NoMessage)
        BY <1>3, <2>2, <2>3, <2>5, DropsHand DEF LookAtLifecycle, Goto, Carry
      <3>2. QED
        BY <3>1
    <2>6. QED
      BY <2>4, <2>5
  <1>4. CASE SendTurn(s) \/ AbandonSend(s)
    <2>1. pc[s] = "send"
      BY <1>4 DEF SendTurn, AbandonSend, At
    <2>2. /\ pc[s] \in Laden \ UpdatePlace
          /\ "idle" \in Place /\ "idle" \notin Laden \cup Queued
      BY <2>1, OutsidePlaces DEF Outside, Laden, Queued
    <2>3. Balanced(s, "idle", NoMessage)
      BY <1>4, <2>2, SendsHand, DropsHand DEF SendTurn, AbandonSend, Goto, Carry
    <2>4. QED
      BY <2>3
  <1>5. CASE SendTurnFails(s)
    <2>1. /\ pc[s] = "send" /\ pc' = [pc EXCEPT ![s] = "uncountFailed"]
          /\ carried' = [carried EXCEPT ![s] = NoMessage] /\ wakes' = <<>>
          /\ dropped' = dropped \cup {carried[s]} \cup Messages(wakes)
          /\ UNCHANGED <<state, handled, copy, channel, sent, done, target>>
      BY <1>5 DEF SendTurnFails, At, Goto, Carry
    <2>2. /\ pc[s] \notin UpdatePlace /\ carried[s] \in Message
          /\ "uncountFailed" \in Place /\ "uncountFailed" \notin Laden \cup Queued
      BY <2>1, OutsidePlaces DEF Outside, Laden, Queued, Place, UpdatePlace, UpdateAt,
         Inv, CarryInv
    <2>3. dropped' \subseteq Message /\ wakes' \in Seq(Message)
      BY <2>1, <2>2, InvTypes, MessagesType DEF OtherTypes
    <2>4. ASSUME NEW m \in Message
          PROVE  InWakes(m)' + InChannel(m)' + One(m \in done') + One(m \in dropped')
                     + One(NoMessage = m)
                   = InWakes(m) + InChannel(m) + One(m \in done) + One(m \in dropped)
                       + One(carried[s] = m)
      <3>1. /\ InChannel(m)' = InChannel(m) /\ One(m \in done') = One(m \in done)
            /\ InWakes(m)' = 0 /\ One(NoMessage = m) = 0
        BY <2>1, Figures, TimesEmpty DEF InWakes
      <3>2. /\ InWakes(m) \in Nat /\ InChannel(m) \in Nat /\ One(m \in done) \in Nat
            /\ One(m \in dropped) \in Nat /\ One(carried[s] = m) \in Nat
        BY Figures
      <3>3. One(m \in dropped') = One(m \in dropped) + One(carried[s] = m) + InWakes(m)
        BY <2>1, <2>2, Drops
      <3>4. QED
        BY <3>1, <3>2, <3>3
    <2>5. Balanced(s, "uncountFailed", NoMessage)
      BY <2>1, <2>2, <2>3, <2>4, Carries, InvTypes DEF OtherTypes
    <2>6. QED
      BY <2>5
  <1>6. CASE EnqueueWake(s)
    <2>1. /\ pc[s] = "enqueue" /\ pc' = [pc EXCEPT ![s] = "countWake"]
          /\ wakes' = Append(wakes, carried[s])
          /\ UNCHANGED <<state, handled, copy, channel, carried, sent, done, dropped, target>>
      BY <1>6 DEF EnqueueWake, At, Goto
    <2>2. /\ pc[s] \notin UpdatePlace /\ pc[s] \notin Queued /\ carried[s] \in Message
          /\ copy' = [copy EXCEPT ![s] = NoState]
      BY <2>1, OutsidePlaces, NoCopy DEF Outside, Laden, Queued, Inv, CarryInv
    <2>3. "countWake" \in Place /\ "countWake" \in Queued /\ "countWake" \notin Free
      BY DEF Place, UpdatePlace, UpdateAt, Queued, Free
    <2>4. Moves(s, "countWake", carried[s])
      BY <2>1, <2>2, <2>3 DEF Moves, Inv, TypeOK
    <2>5. OtherTypes'
      BY <2>1, <2>2, InvTypes DEF OtherTypes
    <2>6. ASSUME NEW m \in Message
          PROVE  Around(m)' + One(Has("countWake", carried[s], m)) + One(m <= sent)
                   = Around(m) + One(Holds(s, m)) + One(m <= sent')
      <3>1. InWakes(m)' = InWakes(m) + One(carried[s] = m)
        <4>1. wakes \in Seq(Message)
          BY InvTypes DEF OtherTypes
        <4>2. Times(Append(wakes, carried[s]), m) = Times(wakes, m) + One(carried[s] = m)
          BY <2>2, <4>1, TimesAppend
        <4>3. QED
          BY <2>1, <4>2 DEF InWakes
      <3>2. InChannel(m)' = InChannel(m) /\ InChannel(m) \in Nat /\ InWakes(m) \in Nat
        BY <2>1, Figures
      <3>3. Around(m)' = Around(m) + One(carried[s] = m)
        <4>1. One(m \in done) \in Nat /\ One(m \in dropped) \in Nat /\ One(carried[s] = m) \in Nat
          BY Figures
        <4>2. One(m \in done') = One(m \in done) /\ One(m \in dropped') = One(m \in dropped)
          BY <2>1
        <4>3. QED
          BY <3>1, <3>2, <4>1, <4>2 DEF Around
      <3>4. One(Has("countWake", carried[s], m)) = 0
        BY <2>3 DEF Has, One
      <3>5. One(Holds(s, m)) = One(carried[s] = m)
        BY <2>2 DEF Holds, One, Queued
      <3>6. One(carried[s] = m) \in Nat /\ One(m <= sent) \in Nat /\ Around(m) \in Nat
        BY OneNat, AroundNat, InvTypes
      <3>7. QED
        BY <2>1, <3>3, <3>4, <3>5, <3>6
    <2>7. QED
      BY <2>4, <2>5, <2>6 DEF Balanced, Balance
  <1>7. QED
    BY <1>1, <1>2, <1>3, <1>4, <1>5, <1>6 DEF Scheduling

LEMMA LoopingBalanced ==
  ASSUME Inv, Looping
  PROVE  \E q, x : Balanced(Loop, q, x)
  <1> Loop \in Process
    BY Processes
  <1>1. CASE Receive
    <2>1. /\ pc[Loop] = "receive" /\ channel # <<>> /\ channel' = Tail(channel)
          /\ UNCHANGED <<state, handled, copy, wakes, sent, done, dropped, target>>
      BY <1>1 DEF Receive, At
    <2>2. /\ pc[Loop] \notin UpdatePlace /\ carried[Loop] = NoMessage
      BY <2>1, OutsidePlaces DEF Outside, Free, Inv, CarryInv
    <2>3. PICK q, x :
            /\ pc' = [pc EXCEPT ![Loop] = q] /\ carried' = [carried EXCEPT ![Loop] = x]
            /\ \/ Head(channel) = Shutdown /\ q = "stop" /\ x = NoMessage
               \/ Head(channel) # Shutdown /\ q = "startTurn" /\ x = Head(channel)
      <3>1. CASE Head(channel) = Shutdown
        <4>1. /\ pc' = [pc EXCEPT ![Loop] = "stop"]
              /\ carried' = [carried EXCEPT ![Loop] = NoMessage]
          BY <1>1, <2>2, <3>1 DEF Receive, Goto, Inv, TypeOK
        <4>2. QED
          BY <3>1, <4>1
      <3>2. CASE Head(channel) # Shutdown
        BY <1>1, <3>2 DEF Receive, Goto, Carry
      <3>3. QED
        BY <3>1, <3>2
    <2>4. /\ channel' \in Seq(Message \cup {Shutdown}) /\ Len(channel') <= Capacity
          /\ Head(channel) \in Message \cup {Shutdown}
          /\ \A m \in Message : InChannel(m) = InChannel(m)' + One(Head(channel) = m)
      BY <2>1, ChannelTail
    <2>5. /\ q \in Place /\ q \notin Queued /\ (q \in Free => x = NoMessage)
          /\ x \in Message \cup {NoMessage} /\ (q \in Laden => x \in Message)
      BY <2>3, <2>4 DEF Place, UpdatePlace, UpdateAt, Laden, Queued, Free
    <2>6. ASSUME NEW m \in Message
          PROVE  InWakes(m)' + InChannel(m)' + One(m \in done') + One(m \in dropped') + One(x = m)
                   = InWakes(m) + InChannel(m) + One(m \in done) + One(m \in dropped)
                       + One(carried[Loop] = m)
      <3>1. /\ InWakes(m)' = InWakes(m) /\ One(m \in done') = One(m \in done)
            /\ One(m \in dropped') = One(m \in dropped)
            /\ One(NoMessage = m) = 0 /\ One(Shutdown = m) = 0
        BY <2>1, Figures
      <3>2. /\ InWakes(m) \in Nat /\ InChannel(m)' \in Nat /\ One(m \in done) \in Nat
            /\ One(m \in dropped) \in Nat
        BY <2>4, Figures
      <3>3. One(x = m) = One(Head(channel) = m) /\ One(x = m) \in Nat
        <4>1. x = m <=> Head(channel) = m
          BY <2>3 DEF Message, NoMessage
        <4>2. QED
          BY <4>1 DEF One
      <3>4. One(carried[Loop] = m) = 0
        BY <2>2, <3>1
      <3>5. InChannel(m) = InChannel(m)' + One(Head(channel) = m)
        BY <2>4
      <3>6. QED
        BY <3>1, <3>2, <3>3, <3>4, <3>5
    <2>7. Balanced(Loop, q, x)
      BY <2>1, <2>2, <2>3, <2>4, <2>5, <2>6, Carries, InvTypes DEF OtherTypes
    <2>8. QED
      BY <2>7
  <1>2. CASE TurnSucceeds \/ TurnFails
    <2>1. /\ pc[Loop] = "turn" /\ done' = done \cup {carried[Loop]}
          /\ carried' = [carried EXCEPT ![Loop] = NoMessage]
          /\ UNCHANGED <<state, handled, copy, channel, sent, target>>
      BY <1>2 DEF TurnSucceeds, TurnFails, At, Carry
    <2>2. PICK q \in {"settle", "uncountAll"} : pc' = [pc EXCEPT ![Loop] = q]
      BY <1>2 DEF TurnSucceeds, TurnFails, Goto
    <2>3. /\ pc[Loop] \notin UpdatePlace /\ carried[Loop] \in Message
          /\ q \in Place /\ q \notin Laden \cup Queued
      BY <2>1, OutsidePlaces DEF Outside, Laden, Queued, Place, UpdatePlace, UpdateAt,
         Inv, CarryInv
    <2>4. \/ UNCHANGED <<wakes, dropped>>
          \/ wakes' = <<>> /\ dropped' = dropped \cup Messages(wakes)
      BY <1>2 DEF TurnSucceeds, TurnFails
    <2>5. wakes' \in Seq(Message) /\ dropped' \subseteq Message /\ done' \subseteq Message
      <3>1. wakes \in Seq(Message) /\ dropped \subseteq Message /\ done \subseteq Message
        BY InvTypes DEF OtherTypes
      <3>2. Messages(wakes) \subseteq Message
        BY <3>1, MessagesType
      <3>3. wakes' \in Seq(Message) /\ dropped' \subseteq Message
        <4>1. CASE UNCHANGED <<wakes, dropped>>
          BY <3>1, <4>1
        <4>2. CASE wakes' = <<>> /\ dropped' = dropped \cup Messages(wakes)
          BY <3>1, <3>2, <4>2
        <4>3. QED
          BY <2>4, <4>1, <4>2
      <3>4. QED
        BY <2>1, <2>3, <3>1, <3>3
    <2>6. ASSUME NEW m \in Message
          PROVE  InWakes(m)' + InChannel(m)' + One(m \in done') + One(m \in dropped')
                     + One(NoMessage = m)
                   = InWakes(m) + InChannel(m) + One(m \in done) + One(m \in dropped)
                       + One(carried[Loop] = m)
      <3>1. /\ InChannel(m)' = InChannel(m) /\ One(NoMessage = m) = 0
        BY <2>1, Figures
      <3>2. /\ InWakes(m) \in Nat /\ InChannel(m) \in Nat /\ One(m \in done) \in Nat
            /\ One(m \in dropped) \in Nat /\ One(carried[Loop] = m) \in Nat
        BY Figures
      <3>3. One(m \in done') = One(m \in done) + One(carried[Loop] = m)
        BY <2>1, <2>3, Drops
      <3>4. InWakes(m)' + One(m \in dropped') = InWakes(m) + One(m \in dropped)
        <4>1. CASE UNCHANGED <<wakes, dropped>>
          BY <4>1, Figures
        <4>2. CASE wakes' = <<>> /\ dropped' = dropped \cup Messages(wakes)
          <5>1. InWakes(m)' = 0
            BY <4>2, TimesEmpty DEF InWakes
          <5>2. One(m \in dropped') = One(m \in dropped) + InWakes(m)
            BY <2>3, <4>2, Drops
          <5>3. QED
            BY <3>2, <5>1, <5>2
        <4>3. QED
          BY <2>4, <4>1, <4>2
      <3>5. InWakes(m)' \in Nat /\ One(m \in dropped') \in Nat
        BY <2>5, Figures
      <3>6. QED
        BY <3>1, <3>2, <3>3, <3>4, <3>5
    <2>7. Balanced(Loop, q, NoMessage)
      BY <2>1, <2>2, <2>3, <2>5, <2>6, Carries, InvTypes DEF OtherTypes
    <2>8. QED
      BY <2>7
  <1>3. CASE DequeueWake
    <2>1. /\ pc[Loop] = "dequeue"
          /\ UNCHANGED <<state, handled, copy, channel, sent, done, dropped, target>>
      BY <1>3 DEF DequeueWake, At
    <2>2. pc[Loop] \notin UpdatePlace /\ pc[Loop] \in Free /\ pc[Loop] \notin Queued
      BY <2>1, OutsidePlaces DEF Outside, Free, Queued
    <2>3. carried[Loop] = NoMessage
      BY <2>2 DEF Inv, CarryInv
    <2>4. CASE wakes = <<>>
      <3>1. /\ "receive" \in Place /\ "receive" \notin Laden \cup Queued
        BY DEF Place, Laden, Queued
      <3>2. /\ pc' = [pc EXCEPT ![Loop] = "receive"] /\ UNCHANGED work
            /\ copy' = [copy EXCEPT ![Loop] = NoState]
        BY <1>3, <2>2, <2>4, NoCopy DEF DequeueWake, Goto, work
      <3>3. Balanced(Loop, "receive", carried[Loop])
        BY <2>1, <2>2, <3>1, <3>2, Walks, InvTypes DEF OtherTypes
      <3>4. QED
        BY <3>3
    <2>5. CASE wakes # <<>>
      <3>1. /\ wakes' = Tail(wakes) /\ pc' = [pc EXCEPT ![Loop] = "uncountWake"]
            /\ carried' = [carried EXCEPT ![Loop] = Head(wakes)]
        BY <1>3, <2>5 DEF DequeueWake, Goto, Carry
      <3>2. wakes \in Seq(Message)
        BY InvTypes DEF OtherTypes
      <3>3. Head(wakes) \in Message /\ wakes' \in Seq(Message)
        BY <2>5, <3>1, <3>2
      <3>4. "uncountWake" \in Place /\ "uncountWake" \notin Free \cup Queued
        BY DEF Place, UpdatePlace, UpdateAt, Free, Queued
      <3>5. ASSUME NEW m \in Message
            PROVE  InWakes(m)' + InChannel(m)' + One(m \in done') + One(m \in dropped')
                       + One(Head(wakes) = m)
                     = InWakes(m) + InChannel(m) + One(m \in done) + One(m \in dropped)
                         + One(carried[Loop] = m)
        <4>1. Times(wakes, m) = Times(Tail(wakes), m) + One(Head(wakes) = m)
          BY <2>5, <3>2, TimesTail
        <4>2. InWakes(m) = InWakes(m)' + One(Head(wakes) = m)
          BY <3>1, <4>1 DEF InWakes
        <4>3. /\ InChannel(m)' = InChannel(m) /\ One(m \in done') = One(m \in done)
              /\ One(m \in dropped') = One(m \in dropped) /\ One(NoMessage = m) = 0
          BY <2>1, Figures
        <4>4. /\ InWakes(m)' \in Nat /\ InChannel(m) \in Nat /\ One(m \in done) \in Nat
              /\ One(m \in dropped) \in Nat
          BY <3>3, Figures
        <4>5. One(carried[Loop] = m) = 0 /\ One(Head(wakes) = m) \in Nat
          BY <2>3, <4>3 DEF One
        <4>6. QED
          BY <4>2, <4>3, <4>4, <4>5
      <3>6. Balanced(Loop, "uncountWake", Head(wakes))
        BY <2>1, <2>2, <3>1, <3>3, <3>4, <3>5, Carries, InvTypes DEF OtherTypes
      <3>7. QED
        BY <3>6
    <2>6. QED
      BY <2>4, <2>5
  <1>4. CASE Resend
    <2>1. pc[Loop] = "resend"
      BY <1>4 DEF Resend, At
    <2>2. /\ pc[Loop] \in Laden \ UpdatePlace
          /\ "receive" \in Place /\ "receive" \notin Laden \cup Queued
      BY <2>1, OutsidePlaces DEF Outside, Laden, Queued
    <2>3. Balanced(Loop, "receive", NoMessage)
      BY <1>4, <2>2, SendsHand DEF Resend, Goto, Carry
    <2>4. QED
      BY <2>3
  <1>5. QED
    BY <1>1, <1>2, <1>3, <1>4 DEF Looping

LEMMA ClosingBalanced ==
  ASSUME Inv, Closing
  PROVE  \E q, x : Balanced(Closer, q, x)
  <1> Closer \in Process
    BY Processes
  <1>1. CASE RemoveHandle \/ AbandonClose
    <2>1. pc[Closer] \in {"idle", "sendShutdown"}
      BY <1>1 DEF RemoveHandle, AbandonClose, At
    <2>2. PICK q \in {"close", "abandoned"} : pc' = [pc EXCEPT ![Closer] = q]
      BY <1>1 DEF RemoveHandle, AbandonClose, Goto
    <2>3. /\ pc[Closer] \notin UpdatePlace /\ pc[Closer] \notin Queued
          /\ q \in Place /\ q \notin Laden \cup Free \cup Queued
      BY <2>1, OutsidePlaces DEF Outside, Place, UpdatePlace, UpdateAt, Laden, Free, Queued
    <2>4. UNCHANGED <<state, copy, work, target>> /\ handled' \in BOOLEAN
      BY <1>1, InvTypes DEF RemoveHandle, AbandonClose, OtherTypes
    <2>5. Balanced(Closer, q, carried[Closer])
      BY <2>2, <2>3, <2>4, Walks, NoCopy, InvTypes DEF OtherTypes
    <2>6. QED
      BY <2>5
  <1>2. CASE ClearWakes
    <2>1. /\ pc[Closer] = "clearClosed" /\ pc' = [pc EXCEPT ![Closer] = "uncountClosed"]
          /\ wakes' = <<>> /\ dropped' = dropped \cup Messages(wakes)
          /\ UNCHANGED <<state, handled, copy, channel, carried, sent, done, target>>
      BY <1>2 DEF ClearWakes, At, Goto
    <2>2. /\ pc[Closer] \notin UpdatePlace
          /\ "uncountClosed" \in Place /\ "uncountClosed" \notin Laden \cup Free \cup Queued
      BY <2>1, OutsidePlaces DEF Outside, Place, UpdatePlace, UpdateAt, Laden, Free, Queued
    <2>3. /\ carried[Closer] \in Message \cup {NoMessage}
          /\ carried' = [carried EXCEPT ![Closer] = carried[Closer]]
      BY <2>1 DEF Inv, TypeOK
    <2>4. wakes' \in Seq(Message) /\ dropped' \subseteq Message
      BY <2>1, InvTypes, MessagesType DEF OtherTypes
    <2>5. ASSUME NEW m \in Message
          PROVE  InWakes(m)' + InChannel(m)' + One(m \in done') + One(m \in dropped')
                     + One(carried[Closer] = m)
                   = InWakes(m) + InChannel(m) + One(m \in done) + One(m \in dropped)
                       + One(carried[Closer] = m)
      <3>1. /\ InChannel(m)' = InChannel(m) /\ One(m \in done') = One(m \in done)
            /\ InWakes(m)' = 0
        BY <2>1, Figures, TimesEmpty DEF InWakes
      <3>2. /\ InWakes(m) \in Nat /\ InChannel(m) \in Nat /\ One(m \in done) \in Nat
            /\ One(m \in dropped) \in Nat /\ One(carried[Closer] = m) \in Nat
        BY Figures
      <3>3. One(m \in dropped') = One(m \in dropped) + InWakes(m)
        BY <2>1, <2>2, Drops
      <3>4. QED
        BY <3>1, <3>2, <3>3
    <2>6. Balanced(Closer, "uncountClosed", carried[Closer])
      BY <2>1, <2>2, <2>3, <2>4, <2>5, Carries, InvTypes DEF OtherTypes
    <2>7. QED
      BY <2>6
  <1>3. CASE SendShutdown
    <2>1. /\ pc[Closer] = "sendShutdown" /\ pc' = [pc EXCEPT ![Closer] = "closed"]
          /\ ~ChannelFull /\ channel' = Append(channel, Shutdown)
          /\ UNCHANGED <<state, handled, copy, wakes, carried, sent, done, dropped, target>>
      BY <1>3 DEF SendShutdown, At, Goto
    <2>2. /\ pc[Closer] \notin UpdatePlace
          /\ "closed" \in Place /\ "closed" \notin Laden \cup Free \cup Queued
      BY <2>1, OutsidePlaces DEF Outside, Laden, Free, Queued
    <2>3. /\ carried[Closer] \in Message \cup {NoMessage}
          /\ carried' = [carried EXCEPT ![Closer] = carried[Closer]]
      BY <2>1 DEF Inv, TypeOK
    <2>4. /\ channel' \in Seq(Message \cup {Shutdown}) /\ Len(channel') <= Capacity
          /\ \A m \in Message : InChannel(m)' = InChannel(m) + One(Shutdown = m)
      BY <2>1, ChannelAppend
    <2>5. ASSUME NEW m \in Message
          PROVE  InWakes(m)' + InChannel(m)' + One(m \in done') + One(m \in dropped')
                     + One(carried[Closer] = m)
                   = InWakes(m) + InChannel(m) + One(m \in done) + One(m \in dropped)
                       + One(carried[Closer] = m)
      <3>1. /\ InWakes(m)' = InWakes(m) /\ One(m \in done') = One(m \in done)
            /\ One(m \in dropped') = One(m \in dropped) /\ One(Shutdown = m) = 0
        BY <2>1, Figures
      <3>2. InChannel(m)' = InChannel(m)
        BY <2>4, <3>1, Figures
      <3>3. QED
        BY <3>1, <3>2
    <2>6. Balanced(Closer, "closed", carried[Closer])
      BY <2>1, <2>2, <2>3, <2>4, <2>5, Carries, InvTypes DEF OtherTypes
    <2>7. QED
      BY <2>6
  <1>4. QED
    BY <1>1, <1>2, <1>3 DEF Closing

LEMMA WaitingBalanced ==
  ASSUME Inv, NEW w \in Waiter, Waiting(w) \/ WaitTimesOut(w)
  PROVE  \E q, x : Balanced(w, q, x)
  <1> DEFINE Ends == {"subscribe", "wait", "notFound", "settled", "failed", "disconnected",
                      "timedOut"}
  <1>1. w \in Process
    BY Processes
  <1>2. pc[w] \in {"idle", "subscribe", "wait"}
    BY DEF Waiting, StartWait, Subscribe, WaitSettles, WaitDisconnects, WaitTimesOut, At
  <1>3. \E q \in Ends : pc' = [pc EXCEPT ![w] = q]
    BY DEF Waiting, StartWait, Subscribe, WaitSettles, WaitDisconnects, WaitTimesOut, Goto
  <1>4. PICK q \in Ends : pc' = [pc EXCEPT ![w] = q]
    BY <1>3
  <1>5. /\ pc[w] \notin UpdatePlace /\ pc[w] \notin Queued
        /\ q \in Place /\ q \notin Laden \cup Free \cup Queued
    BY <1>2, OutsidePlaces DEF Outside, Laden, Free, Queued
  <1>6. UNCHANGED <<state, handled, copy, work>>
    BY DEF Waiting, StartWait, Subscribe, WaitSettles, WaitDisconnects, WaitTimesOut
  <1>7. target' \in [Waiter -> Nat]
    BY InvTypes DEF Waiting, StartWait, Subscribe, WaitSettles, WaitDisconnects, WaitTimesOut,
       OtherTypes, AgentState
  <1> HIDE DEF Ends
  <1>8. Balanced(w, q, carried[w])
    BY <1>1, <1>4, <1>5, <1>6, <1>7, Walks, NoCopy, InvTypes DEF OtherTypes
  <1>9. QED
    BY <1>8

LEMMA MutatedType ==
  ASSUME NEW place \in UpdatePlace, NEW s \in AgentState
  PROVE  Mutated(place, s) \in AgentState
  <1>1. /\ s.scheduled \in Nat /\ s.inflight \in Nat /\ s.settled \in Nat
        /\ s.lifecycle \in Lifecycle
    BY DEF AgentState
  <1>2. s.scheduled + 1 \in Nat /\ s.settled + 1 \in Nat
    BY <1>1
  <1>3. ASSUME NEW l \in {"Ready", "Busy", "Error", "Shutdown"}, NEW n \in Nat, NEW k \in Nat
        PROVE  /\ [s EXCEPT !.lifecycle = l] \in AgentState
               /\ [s EXCEPT !.scheduled = n] \in AgentState
               /\ [s EXCEPT !.lifecycle = l, !.settled = n] \in AgentState
               /\ [s EXCEPT !.lifecycle = l, !.inflight = n] \in AgentState
               /\ [s EXCEPT !.scheduled = n, !.inflight = k, !.lifecycle = l] \in AgentState
    BY DEF AgentState, Lifecycle
  <1>4. CASE place = "launch"
    BY <1>3, <1>4 DEF Mutated
  <1>5. CASE place = "dispatch"
    <2>1. Mutated(place, s) = [s EXCEPT !.scheduled = s.scheduled + 1,
                                        !.inflight = s.scheduled + 1, !.lifecycle = "Busy"]
      BY <1>5 DEF Mutated
    <2>2. \A n \in Nat :
            [s EXCEPT !.scheduled = n, !.inflight = n, !.lifecycle = "Busy"] \in AgentState
      BY <1>3
    <2>3. QED
      BY <1>2, <2>1, <2>2
  <1>6. CASE place = "scheduleWake"
    <2>1. Mutated(place, s) = [s EXCEPT !.scheduled = s.scheduled + 1]
      BY <1>6 DEF Mutated
    <2>2. QED
      BY <1>2, <1>3, <2>1
  <1>7. CASE place = "nextWake"
    <2>1. Mutated(place, s) = [s EXCEPT !.lifecycle = "Busy", !.inflight = s.settled + 1]
      BY <1>7 DEF Mutated
    <2>2. QED
      BY <1>2, <1>3, <2>1, ZenonT(40)
  <1>8. CASE place \in {"settle", "fail", "failTurn"}
    BY <1>1, <1>3, <1>8 DEF Mutated
  <1>9. CASE place \in {"startTurn", "close", "stop"}
    BY <1>3, <1>9 DEF Mutated
  <1>10. CASE place \notin {"launch", "dispatch", "scheduleWake", "startTurn", "settle",
                            "nextWake", "fail", "failTurn", "close", "stop"}
    BY <1>10 DEF Mutated
  <1>11. QED
    BY <1>4, <1>5, <1>6, <1>7, <1>8, <1>9, <1>10

LEMMA UpdatePlaces == \A x \in UpdatePlace : UpdateAt[x] \in Place
  BY DEF UpdatePlace, UpdateAt, Place

\* How a process that updates the state goes on: with a message if it had one, without
\* if it had none, and without it once it is in the wake queue.
LEMMA UpdateCarries ==
  \A x \in UpdatePlace :
    /\ UpdateAt[x] \in Laden => x \in Laden
    /\ UpdateAt[x] \in Free => x \in Free \/ UpdateAt[x] = "idle"
    /\ UpdateAt[x] \in Queued => x \in Queued
    /\ x \in Laden => UpdateAt[x] \in Laden
    /\ UpdateAt[x] = "idle" => x \in {"scheduleWake", "fail"}
    /\ x \in Queued => UpdateAt[x] \in Queued \/ UpdateAt[x] = "idle"
  BY DEF UpdatePlace, UpdateAt, Laden, Free, Queued

\* Writing the changed copy back.
LEMMA WriteBalanced ==
  ASSUME Inv, NEW p \in Process, WriteState(p)
  PROVE  \E q, x : Balanced(p, q, x)
  <1> DEFINE q == UpdateAt[pc[p]]
  <1>1. /\ pc[p] \in UpdatePlace /\ copy[p] \in AgentState
        /\ state' = Mutated(pc[p], copy[p]) /\ copy' = [copy EXCEPT ![p] = NoState]
        /\ pc' = [pc EXCEPT ![p] = q]
        /\ UNCHANGED <<handled, wakes, channel, sent, done, dropped, target>>
        /\ carried' = IF q = "idle" THEN [carried EXCEPT ![p] = NoMessage] ELSE carried
    BY DEF WriteState, Goto, Inv, CarryInv, TypeOK
  <1>2. state' \in AgentState
    BY <1>1, MutatedType
  <1>3. /\ q \in Place
        /\ q \in Laden => pc[p] \in Laden
        /\ q \in Free => pc[p] \in Free \/ q = "idle"
        /\ q \in Queued => pc[p] \in Queued
        /\ pc[p] \in Laden => q \in Laden
        /\ q = "idle" => pc[p] \in {"scheduleWake", "fail"}
        /\ pc[p] \in Queued => q \in Queued \/ q = "idle"
    BY <1>1, UpdatePlaces, UpdateCarries
  <1> HIDE DEF q
  <1>4. CASE q # "idle"
    <2>1. Balanced(p, q, carried[p])
      BY <1>1, <1>2, <1>3, <1>4, Walks, InvTypes DEF OtherTypes, work
    <2>2. QED
      BY <2>1
  <1>5. CASE q = "idle"
    <2>1. Moves(p, q, NoMessage)
      BY <1>1, <1>3, <1>5 DEF Moves, Laden
    <2>2. OtherTypes'
      BY <1>1, <1>2, InvTypes DEF OtherTypes
    <2>3. ASSUME NEW m \in Message
          PROVE  Around(m)' + One(Has(q, NoMessage, m)) + One(m <= sent)
                   = Around(m) + One(Holds(p, m)) + One(m <= sent')
      <3>1. Around(m)' = Around(m) /\ sent' = sent
        BY <1>1 DEF Around, InWakes, InChannel
      <3>2. m # NoMessage
        BY DEF Message, NoMessage
      <3>3. ~Has(q, NoMessage, m)
        BY <3>2 DEF Has
      <3>4. ~Holds(p, m)
        BY <1>3, <1>5, <3>2 DEF Holds, Inv, CarryInv, Free
      <3>5. One(Has(q, NoMessage, m)) = 0 /\ One(Holds(p, m)) = 0
        BY <3>3, <3>4 DEF One
      <3>6. Around(m) \in Nat /\ One(m <= sent) \in Nat
        BY AroundNat, InvTypes, OneNat
      <3>7. QED
        BY <3>1, <3>5, <3>6
    <2>4. Balanced(p, q, NoMessage)
      BY <2>1, <2>2, <2>3 DEF Balanced, Balance
    <2>5. QED
      BY <2>4
  <1>6. QED
    BY <1>4, <1>5

LEMMA ReadKeeps ==
  ASSUME Inv, NEW p \in Process, ReadState(p)
  PROVE  Inv'
  <1>1. /\ pc[p] \in UpdatePlace /\ copy' = [copy EXCEPT ![p] = state]
        /\ UNCHANGED <<state, handled, pc, work, target>>
    BY DEF ReadState
  <1>2. TypeOK'
    BY <1>1 DEF Inv, TypeOK, work
  <1>3. CarryInv'
    BY <1>1 DEF Inv, CarryInv, TypeOK, work
  <1>4. Accounted'
    BY <1>1 DEF Inv, Accounted, InWakes, InChannel, Held, Holders, Holds, work
  <1>5. QED
    BY <1>2, <1>3, <1>4 DEF Inv

-----------------------------------------------------------------------------
(* The invariant *)

LEMMA InitInv == Init => Inv
  <1> SUFFICES ASSUME Init PROVE Inv
    OBVIOUS
  <1>1. /\ wakes = <<>> /\ channel = <<>> /\ sent = 1 /\ done = {} /\ dropped = {}
        /\ pc \in [Process -> {"receive", "launch", "idle"}]
        /\ \A p \in Process : pc[p] = "launch" <=> p = Launcher
        /\ carried = [p \in Process |-> IF p = Launcher THEN 1 ELSE NoMessage]
        /\ copy = [p \in Process |-> NoState]
    BY DEF Init
  <1>2. {"receive", "launch", "idle"} \subseteq Place
    BY DEF Place, UpdatePlace, UpdateAt
  <1>3. 1 \in Message
    BY DEF Message
  <1>4. TypeOK
    BY <1>1, <1>2, <1>3 DEF Init, TypeOK, InitialState, AgentState, Lifecycle
  <1>5. CarryInv
    BY <1>1, <1>3 DEF CarryInv, Laden, Free
  <1>6. ASSUME NEW m \in Message
        PROVE  InWakes(m) + InChannel(m) + Held(m) + One(m \in done) + One(m \in dropped)
                 = One(m <= sent)
    <2>1. InWakes(m) = 0 /\ InChannel(m) = 0 /\ One(m \in done) = 0 /\ One(m \in dropped) = 0
      BY <1>1, TimesEmpty DEF InWakes, InChannel, One
    <2>2. m <= sent <=> m = 1
      BY <1>1 DEF Message
    <2>3. Holders(m) = IF m = 1 THEN {Launcher} ELSE {}
      BY <1>1, Processes DEF Holders, Holds, Message, NoMessage
    <2>4. Held(m) = One(m <= sent)
      BY <2>2, <2>3, FS_Singleton, FS_EmptySet DEF Held, One
    <2>5. One(m <= sent) \in Nat
      BY OneNat
    <2>6. QED
      BY <2>1, <2>4, <2>5
  <1>7. QED
    BY <1>4, <1>5, <1>6 DEF Inv, Accounted

LEMMA NextInv == Inv /\ [Next]_vars => Inv'
  <1> SUFFICES ASSUME Inv, [Next]_vars PROVE Inv'
    OBVIOUS
  <1>1. CASE UNCHANGED vars
    BY <1>1 DEF vars, Inv, TypeOK, CarryInv, Accounted, InWakes, InChannel, Held, Holders, Holds
  <1>2. CASE Launching
    BY <1>2, LaunchBalanced, BalancedKeeps, Processes
  <1>3. ASSUME NEW s \in Sender, Scheduling(s) PROVE Inv'
    BY <1>3, SchedulingBalanced, BalancedKeeps, Processes
  <1>4. CASE Looping
    BY <1>4, LoopingBalanced, BalancedKeeps, Processes
  <1>5. CASE Closing
    BY <1>5, ClosingBalanced, BalancedKeeps, Processes
  <1>6. ASSUME NEW w \in Waiter, Waiting(w) \/ WaitTimesOut(w) PROVE Inv'
    BY <1>6, WaitingBalanced, BalancedKeeps, Processes
  <1>7. ASSUME NEW p \in Process, ReadState(p) PROVE Inv'
    BY <1>7, ReadKeeps
  <1>8. ASSUME NEW p \in Process, WriteState(p) PROVE Inv'
    BY <1>8, WriteBalanced, BalancedKeeps
  <1>9. QED
    BY <1>1, <1>2, <1>3, <1>4, <1>5, <1>6, <1>7, <1>8 DEF Next

\* Every message is in exactly one place: with the call that sends it, in the wake queue,
\* in the channel, with the loop, done or dropped, for any number of calls that launch,
\* schedule, close and wait, and any capacity of the channel.
THEOREM MessagesAreAccounted == Spec => []MessagesAccounted
  <1>1. Inv => MessagesAccounted
    <2> SUFFICES ASSUME Inv, NEW m \in 1..sent
                 PROVE  Times(wakes, m) + Times(channel, m)
                          + Cardinality({p \in Process : Holds(p, m)})
                          + Cardinality({m} \cap done) + Cardinality({m} \cap dropped) = 1
      BY DEF Inv, MessagesAccounted
    <2>1. m \in Message /\ m <= sent
      BY DEF Inv, TypeOK, Message
    <2>2. InWakes(m) + InChannel(m) + Held(m) + One(m \in done) + One(m \in dropped)
            = One(m <= sent)
      BY <2>1 DEF Inv, Accounted
    <2>3. One(m <= sent) = 1
      BY <2>1 DEF One
    <2>4. QED
      BY <2>2, <2>3, OneMember DEF InWakes, InChannel, Held, Holders
  <1>2. QED
    BY <1>1, InitInv, NextInv, PTL DEF Spec

-----------------------------------------------------------------------------
(* The end of the loop *)

CloserPlace == {"idle", "close", "clearClosed", "uncountClosed", "sendShutdown", "closed",
                "abandoned"}
LoopPlace == {"receive", "startTurn", "turn", "settle", "dequeue", "uncountWake", "nextWake",
              "resend", "uncountAll", "failTurn", "stop", "ended"}
Stopped == pc[Loop] \in {"stop", "ended"}
Told == pc[Closer] \in CloserPlace /\ pc[Loop] \in LoopPlace /\ ShutdownArrives

\* A message in the channel is not the command.
LEMMA AppendedMessage ==
  ASSUME Inv, NEW m \in Message, channel' = Append(channel, m)
  PROVE  Times(channel', Shutdown) = Times(channel, Shutdown)
  <1>1. channel \in Seq(Message \cup {Shutdown}) /\ m # Shutdown
    BY DEF Inv, TypeOK, Message
  <1>2. Times(Append(channel, m), Shutdown) = Times(channel, Shutdown) + One(m = Shutdown)
    BY <1>1, TimesAppend
  <1>3. Times(channel, Shutdown) \in Nat /\ One(m = Shutdown) = 0
    BY <1>1, TimesNat DEF One
  <1>4. QED
    BY <1>2, <1>3

\* Steps that neither begin nor end anything.
LEMMA ToldStays ==
  ASSUME Told, Times(channel', Shutdown) = Times(channel, Shutdown), handled' = handled,
         \/ pc'[Closer] = pc[Closer]
         \/ {pc[Closer], pc'[Closer]} \subseteq CloserPlace \ {"idle", "closed"},
         \/ pc'[Loop] = pc[Loop]
         \/ {pc[Loop], pc'[Loop]} \subseteq LoopPlace \ {"stop", "ended"}
         \/ {pc[Loop], pc'[Loop]} \subseteq {"stop", "ended"}
  PROVE  Told'
  BY DEF Told, ShutdownArrives, At, CloserPlace, LoopPlace

LEMMA LaunchingTold ==
  ASSUME Inv, Told, Launching
  PROVE  Told'
  <1>1. pc'[Closer] = pc[Closer] /\ pc'[Loop] = pc[Loop] /\ handled' = handled
    BY DEF Launching, SendFirst, AbandonLaunch, Goto, Inv, TypeOK, Process
  <1>2. carried[Launcher] \in Message
    BY Processes DEF Launching, SendFirst, AbandonLaunch, At, Inv, CarryInv, Laden
  <1>3. channel' = channel \/ channel' = Append(channel, carried[Launcher])
    BY DEF Launching, SendFirst, AbandonLaunch
  <1>4. QED
    BY <1>1, <1>2, <1>3, AppendedMessage, ToldStays

LEMMA SchedulingTold ==
  ASSUME Inv, Told, NEW s \in Sender, Scheduling(s)
  PROVE  Told'
  <1>1. pc'[Closer] = pc[Closer] /\ pc'[Loop] = pc[Loop] /\ handled' = handled
    BY DEF Scheduling, FindHandle, SkipClearAttention, LookAtLifecycle, SendTurn, SendTurnFails,
           AbandonSend, EnqueueWake, Goto, Inv, TypeOK, Process
  <1>2. CASE SendTurn(s)
    <2>1. carried[s] \in Message
      BY <1>2, Processes DEF SendTurn, At, Inv, CarryInv, Laden
    <2>2. channel' = Append(channel, carried[s])
      BY <1>2 DEF SendTurn
    <2>3. QED
      BY <1>1, <2>1, <2>2, AppendedMessage, ToldStays
  <1>3. CASE ~SendTurn(s)
    <2>1. channel' = channel
      BY <1>3
         DEF Scheduling, FindHandle, SkipClearAttention, LookAtLifecycle, SendTurnFails,
             AbandonSend, EnqueueWake, work
    <2>2. QED
      BY <1>1, <2>1, ToldStays
  <1>4. QED
    BY <1>2, <1>3

LEMMA LoopingTold ==
  ASSUME Inv, Told, Looping
  PROVE  Told'
  <1>0. pc \in [Process -> Place] /\ Loop \in Process /\ Closer \in Process
    BY Processes DEF Inv, TypeOK
  <1>1. pc'[Closer] = pc[Closer] /\ handled' = handled
    BY <1>0 DEF Looping, Receive, TurnSucceeds, TurnFails, DequeueWake, Resend, Goto
  <1>2. CASE Receive
    <2>1. /\ pc[Loop] = "receive" /\ channel # <<>> /\ channel' = Tail(channel)
          /\ channel \in Seq(Message \cup {Shutdown})
      BY <1>2 DEF Receive, At, Inv, TypeOK
    <2>2. /\ Times(channel, Shutdown) = Times(channel', Shutdown) + One(Head(channel) = Shutdown)
          /\ Times(channel', Shutdown) \in Nat
      <3>1. Tail(channel) \in Seq(Message \cup {Shutdown})
        BY <2>1
      <3>2. QED
        BY <2>1, <3>1, TimesTail, TimesNat, ZenonT(40)
    <2>3. CASE Head(channel) = Shutdown
      <3>1. pc'[Loop] = "stop"
        BY <1>0, <1>2, <2>3 DEF Receive, Goto
      <3>2. Times(channel, Shutdown) = Times(channel', Shutdown) + 1
        BY <2>2, <2>3 DEF One
      <3>3. pc[Closer] = "closed" /\ Times(channel', Shutdown) = 0
        BY <2>1, <2>2, <3>2 DEF Told, ShutdownArrives, At
      <3>4. QED
        BY <1>1, <3>1, <3>3 DEF Told, ShutdownArrives, At, LoopPlace
    <2>4. CASE Head(channel) # Shutdown
      <3>1. pc'[Loop] = "startTurn"
        BY <1>0, <1>2, <2>4 DEF Receive, Goto
      <3>2. Times(channel', Shutdown) = Times(channel, Shutdown)
        BY <2>2, <2>4 DEF One
      <3>3. QED
        BY <1>1, <2>1, <3>1, <3>2, ToldStays DEF LoopPlace
    <2>5. QED
      BY <2>3, <2>4
  <1>3. CASE Resend
    <2>1. /\ pc[Loop] = "resend" /\ pc'[Loop] = "receive"
          /\ channel' = Append(channel, carried[Loop])
      BY <1>0, <1>3 DEF Resend, At, Goto
    <2>2. carried[Loop] \in Message
      BY <1>0, <2>1 DEF Inv, CarryInv, Laden
    <2>3. QED
      BY <1>1, <2>1, <2>2, AppendedMessage, ToldStays DEF LoopPlace
  <1>4. CASE TurnSucceeds \/ TurnFails \/ DequeueWake
    <2>1. /\ channel' = channel /\ pc[Loop] \in {"turn", "dequeue"}
          /\ pc'[Loop] \in {"settle", "uncountAll", "receive", "uncountWake"}
      BY <1>0, <1>4 DEF TurnSucceeds, TurnFails, DequeueWake, At, Goto
    <2>2. QED
      BY <1>1, <2>1, ToldStays DEF LoopPlace
  <1>5. QED
    BY <1>2, <1>3, <1>4 DEF Looping

LEMMA ClosingTold ==
  ASSUME Inv, Told, Closing
  PROVE  Told'
  <1>0. pc \in [Process -> Place] /\ Loop \in Process /\ Closer \in Process
    BY Processes DEF Inv, TypeOK
  <1>1. pc'[Loop] = pc[Loop]
    BY <1>0 DEF Closing, RemoveHandle, ClearWakes, SendShutdown, AbandonClose, Goto
  <1>2. CASE RemoveHandle
    <2>1. /\ pc[Closer] = "idle" /\ pc'[Closer] = "close" /\ handled' = FALSE
          /\ channel' = channel
      BY <1>0, <1>2 DEF RemoveHandle, At, Goto, work
    <2>2. QED
      BY <1>1, <2>1 DEF Told, ShutdownArrives, At, CloserPlace
  <1>3. CASE ClearWakes \/ AbandonClose
    <2>1. /\ pc[Closer] \in {"clearClosed", "sendShutdown"} /\ handled' = handled
          /\ pc'[Closer] \in {"uncountClosed", "abandoned"} /\ channel' = channel
      BY <1>0, <1>3 DEF ClearWakes, AbandonClose, At, Goto, work
    <2>2. QED
      BY <1>1, <2>1, ToldStays DEF CloserPlace
  <1>4. CASE SendShutdown
    <2>1. /\ pc[Closer] = "sendShutdown" /\ pc'[Closer] = "closed" /\ handled' = handled
          /\ channel' = Append(channel, Shutdown) /\ channel \in Seq(Message \cup {Shutdown})
      BY <1>0, <1>4 DEF SendShutdown, At, Goto, Inv, TypeOK
    <2>2. ~Stopped /\ Times(channel, Shutdown) = 0
      BY <2>1 DEF Told, ShutdownArrives, Stopped, At
    <2>3. Times(channel', Shutdown) = 1
      BY <2>1, <2>2, TimesAppend DEF One
    <2>4. QED
      BY <1>1, <2>1, <2>2, <2>3 DEF Told, ShutdownArrives, Stopped, At, CloserPlace
  <1>5. QED
    BY <1>2, <1>3, <1>4 DEF Closing

LEMMA WaitingTold ==
  ASSUME Inv, Told, NEW w \in Waiter, Waiting(w) \/ WaitTimesOut(w)
  PROVE  Told'
  <1>1. pc'[Closer] = pc[Closer] /\ pc'[Loop] = pc[Loop]
    BY DEF Waiting, StartWait, Subscribe, WaitSettles, WaitDisconnects, WaitTimesOut, Goto, Inv,
           TypeOK, Process
  <1>2. handled' = handled /\ channel' = channel
    BY DEF Waiting, StartWait, Subscribe, WaitSettles, WaitDisconnects, WaitTimesOut, work
  <1>3. QED
    BY <1>1, <1>2, ToldStays

LEMMA WritingTold ==
  ASSUME Inv, Told, NEW p \in Process, WriteState(p)
  PROVE  Told'
  <1>1. /\ handled' = handled /\ channel' = channel /\ pc[p] \in UpdatePlace
        /\ pc' = [pc EXCEPT ![p] = UpdateAt[pc[p]]] /\ pc \in [Process -> Place]
    BY DEF WriteState, Goto, Inv, TypeOK, CarryInv
  <1>2. /\ Loop \in Process /\ Closer \in Process /\ Loop # Closer
        /\ pc[Closer] \in CloserPlace /\ pc[Loop] \in LoopPlace
    BY Processes DEF Told
  <1>3. CASE p = Closer
    <2>1. pc[Closer] \in {"close", "uncountClosed"}
      BY <1>1, <1>2, <1>3 DEF CloserPlace, UpdatePlace, UpdateAt
    <2>2. pc'[Closer] \in {"clearClosed", "sendShutdown"} /\ pc'[Loop] = pc[Loop]
      BY <1>1, <1>2, <1>3, <2>1 DEF UpdateAt
    <2>3. QED
      BY <1>1, <2>1, <2>2, ToldStays DEF CloserPlace
  <1>4. CASE p = Loop
    <2>1. pc'[Loop] = UpdateAt[pc[Loop]] /\ pc'[Closer] = pc[Closer]
      BY <1>1, <1>2, <1>4
    <2>2. CASE pc[Loop] = "stop"
      <3>1. pc'[Loop] = "ended"
        BY <2>1, <2>2 DEF UpdateAt
      <3>2. QED
        BY <1>1, <2>1, <2>2, <3>1, ToldStays
    <2>3. CASE pc[Loop] # "stop"
      <3>1. pc[Loop] \in {"startTurn", "settle", "uncountWake", "nextWake", "uncountAll", "failTurn"}
        BY <1>1, <1>2, <1>4, <2>3 DEF LoopPlace, UpdatePlace, UpdateAt
      <3>2. pc'[Loop] \in {"turn", "dequeue", "nextWake", "resend", "failTurn", "receive"}
        BY <2>1, <3>1 DEF UpdateAt
      <3>3. QED
        BY <1>1, <2>1, <3>1, <3>2, ToldStays DEF LoopPlace
    <2>4. QED
      BY <2>2, <2>3
  <1>5. CASE p \notin {Loop, Closer}
    BY <1>1, <1>2, <1>5, ToldStays
  <1>6. QED
    BY <1>3, <1>4, <1>5

LEMMA InitTold == Init => Told
  <1> SUFFICES ASSUME Init PROVE Told
    OBVIOUS
  <1>1. pc[Closer] = "idle" /\ pc[Loop] = "receive" /\ handled = TRUE /\ channel = <<>>
    BY Processes DEF Init
  <1>2. Times(channel, Shutdown) = 0
    BY <1>1, TimesEmpty
  <1>3. QED
    BY <1>1, <1>2 DEF Told, ShutdownArrives, At, CloserPlace, LoopPlace

LEMMA NextTold == Inv /\ Told /\ [Next]_vars => Told'
  <1> SUFFICES ASSUME Inv, Told, [Next]_vars PROVE Told'
    OBVIOUS
  <1>1. CASE UNCHANGED vars
    BY <1>1, ToldStays DEF vars
  <1>2. CASE Launching
    BY <1>2, LaunchingTold
  <1>3. ASSUME NEW s \in Sender, Scheduling(s) PROVE Told'
    BY <1>3, SchedulingTold
  <1>4. CASE Looping
    BY <1>4, LoopingTold
  <1>5. CASE Closing
    BY <1>5, ClosingTold
  <1>6. ASSUME NEW w \in Waiter, Waiting(w) \/ WaitTimesOut(w) PROVE Told'
    BY <1>6, WaitingTold
  <1>7. ASSUME NEW p \in Process, ReadState(p) PROVE Told'
    <2>1. UNCHANGED <<handled, channel, pc>>
      BY <1>7 DEF ReadState, work
    <2>2. QED
      BY <2>1, ToldStays
  <1>8. ASSUME NEW p \in Process, WriteState(p) PROVE Told'
    BY <1>8, WritingTold
  <1>9. QED
    BY <1>1, <1>2, <1>3, <1>4, <1>5, <1>6, <1>7, <1>8 DEF Next

\* The loop is told to stop exactly once, by the close that removed the handle, and never
\* misses it: what frees those who wait for a closed teammate, for any number of calls in
\* any order and any capacity of the channel.
THEOREM ShutdownsArrive == Spec => []ShutdownArrives
  <1>1. Told => ShutdownArrives
    BY DEF Told
  <1>2. QED
    BY <1>1, InitInv, NextInv, InitTold, NextTold, PTL DEF Spec
=============================================================================

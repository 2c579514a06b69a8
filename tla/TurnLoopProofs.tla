--------------------------- MODULE TurnLoopProofs ---------------------------
(***************************************************************************)
(* What holds of the submission loop and of the requests of its turns for  *)
(* any number of submissions and requests.                                 *)
(*                                                                         *)
(* The argument is one inductive invariant.  The submissions that wait, in *)
(* the queue and then in the channel, are in the order of their numbers    *)
(* and later than the last one handled (OrderInv), so no turn comes twice. *)
(* Hence a request that was dropped with its turn is never of the turn     *)
(* that runs (GoodRequest), at most one request of a session is pending    *)
(* under a key (OnePends), and an answer that is still on its way has      *)
(* settled nothing yet (AnswerInv).                                        *)
(***************************************************************************)
EXTENDS TurnLoop, SequenceTheorems, TLAPS

\* Which turn runs, and what a session without one has.
LoopInv ==
  /\ loop = "turn" => turn # 0 /\ active = turn
  /\ loop # "turn" => turn = 0 /\ active = 0 /\ inputs = <<>> /\ accepted = {} /\ taken = {}

InOrder(s) == \A i, j \in DOMAIN s : i < j => s[i].n < s[j].n

OrderInv ==
  /\ InOrder(inbox) /\ InOrder(queue)
  /\ \A i \in DOMAIN queue, j \in DOMAIN inbox : queue[i].n < inbox[j].n
  /\ \A i \in DOMAIN inbox : inbox[i].n \in handled + 1 .. sent
  /\ \A i \in DOMAIN queue : queue[i].n \in handled + 1 .. sent
  /\ \A i \in DOMAIN queue : queue[i].kind \in {"input", "empty", "other"}
  /\ handled <= sent
  /\ turn \in {0, handled}

\* The key of an approval is its own unless it is numbered, that of a question is the
\* turn's; a request of the turn that runs was not dropped.
GoodRequest(r) ==
  /\ requests[r].key[2] = "approval" => requests[r].key[1] = r
  /\ requests[r].key[2] = "question" =>
       requests[r].session = "root" /\ requests[r].key[1] = requests[r].turn
  /\ requests[r].session = "root" => requests[r].turn \in 1 .. handled
  /\ requests[r].session = "root" /\ requests[r].turn = turn =>
       requests[r].state \in {"waiting", "answered"}

RequestInv == Len(requests) <= MaxRequests /\ \A r \in DOMAIN requests : GoodRequest(r)

OnePends ==
  \A q, r \in pending :
    requests[q].session = requests[r].session /\ requests[q].key = requests[r].key => q = r

\* PendingIsWaiting without its types, and that the root session holds nothing pending
\* that does not wait.
PendingWaits ==
  /\ \A r \in DOMAIN requests : Waiting(r) => r \in pending
  /\ \A r \in pending :
       requests[r].session = "root" =>
         Waiting(r) /\ requests[r].turn = turn /\ <<turn, requests[r].key>> \in byTurn
  /\ \A e \in byTurn :
       \E r \in pending :
         requests[r].session = "root" /\ e = <<requests[r].turn, requests[r].key>>

\* The answer that was given to q settled no request so far.
IsUnused(q) ==
  \A r \in DOMAIN requests : requests[r].state = "answered" => requests[r].answer # q

\* Answers were given by the user, each once; those on their way have settled nothing.
AnswerInv ==
  /\ \A r \in DOMAIN requests : requests[r].state = "answered" => requests[r].answer \in said
  /\ \A i \in DOMAIN inbox :
       inbox[i].kind = "answer" =>
         /\ inbox[i].about \in said /\ IsUnused(inbox[i].about)
         /\ \A j \in DOMAIN inbox :
              inbox[j].kind = "answer" /\ inbox[j].about = inbox[i].about => i = j

TableInv == RequestInv /\ OnePends /\ PendingWaits
IInv ==
  /\ TypeOK /\ LoopInv /\ OrderInv /\ TableInv
  /\ AnswerInv /\ AnswersTheQuestion /\ SteeringKept

-----------------------------------------------------------------------------
(* Sequences *)

LEMMA FunctionIsSequence ==
  ASSUME NEW S, NEW n \in Nat, NEW f \in [1 .. n -> S]
  PROVE  f \in Seq(S) /\ Len(f) = n
  OBVIOUS

LEMMA EmptyIsSequence ==
  ASSUME NEW S, NEW s, s = <<>>
  PROVE  s \in Seq(S)
  OBVIOUS

LEMMA TailOfSequence ==
  ASSUME NEW S, NEW s \in Seq(S), s # <<>>
  PROVE  /\ Tail(s) \in Seq(S) /\ DOMAIN Tail(s) = 1 .. Len(s) - 1
         /\ \A i \in DOMAIN Tail(s) : Tail(s)[i] = s[i + 1]
         /\ Head(s) = s[1] /\ Head(s) \in S
         /\ Len(s) \in Nat \ {0} /\ DOMAIN s = 1 .. Len(s)
  OBVIOUS

LEMMA AppendToSequence ==
  ASSUME NEW S, NEW s \in Seq(S), NEW e \in S
  PROVE  /\ Append(s, e) \in Seq(S) /\ DOMAIN Append(s, e) = 1 .. Len(s) + 1
         /\ \A i \in DOMAIN s : Append(s, e)[i] = s[i]
         /\ Append(s, e)[Len(s) + 1] = e
         /\ Len(s) \in Nat /\ DOMAIN s = 1 .. Len(s)
  OBVIOUS

\* Whatever is appended.
LEMMA AppendContains ==
  ASSUME NEW S, NEW s \in Seq(S), NEW e
  PROVE  ToSet(s) \subseteq ToSet(Append(s, e))
  <1>1. /\ DOMAIN s = 1 .. Len(s) /\ Len(s) \in Nat
        /\ DOMAIN Append(s, e) = 1 .. Len(s) + 1
        /\ \A i \in DOMAIN s : Append(s, e)[i] = s[i]
    OBVIOUS
  <1>2. QED
    BY <1>1 DEF ToSet

LEMMA ElementsOfAppend ==
  ASSUME NEW S, NEW s \in Seq(S), NEW e \in S
  PROVE  ToSet(Append(s, e)) = ToSet(s) \cup {e}
  BY AppendToSequence DEF ToSet

-----------------------------------------------------------------------------
(* What the operations on the tables do to the requests *)

\* Requests stay what they are, but those that changed get a state, and an answer with it
\* if they are answered.
Settles(changed, state, answer) ==
  /\ requests' \in Seq(Request) /\ DOMAIN requests' = DOMAIN requests
  /\ Len(requests') = Len(requests)
  /\ \A r \in DOMAIN requests :
       /\ requests'[r].session = requests[r].session
       /\ requests'[r].turn = requests[r].turn
       /\ requests'[r].key = requests[r].key
       /\ r \notin changed => requests'[r] = requests[r]
       /\ r \in changed =>
            requests'[r].state = state /\ (state = "answered" => requests'[r].answer = answer)

LEMMA RequestFields ==
  ASSUME TypeOK, NEW r \in DOMAIN requests
  PROVE  /\ requests[r] \in Request
         /\ requests[r].key \in RequestKey
         /\ requests[r].session \in Session
         /\ requests[r].turn \in 0 .. MaxSubmissions
         /\ requests[r].state \in {"waiting", "answered", "denied", "dropped"}
         /\ requests[r].answer \in 0 .. MaxRequests
         /\ DOMAIN requests = 1 .. Len(requests) /\ Len(requests) \in Nat
         /\ r \in 1 .. Len(requests)
  <1>1. requests \in Seq(Request) /\ DOMAIN requests = 1 .. Len(requests) /\ Len(requests) \in Nat
    BY DEF TypeOK
  <1>2. requests[r] \in Request
    BY <1>1
  <1>3. QED
    BY <1>1, <1>2 DEF Request

LEMMA DroppedRequest ==
  ASSUME NEW request \in Request
  PROVE  [request EXCEPT !.state = "dropped"] \in Request
  BY DEF Request

LEMMA ReceivesAnswer ==
  ASSUME NEW request \in Request, NEW answer \in 0 .. MaxRequests
  PROVE  /\ Receives(request, answer) \in Request
         /\ Receives(request, answer) =
              [session |-> request.session, turn |-> request.turn, key |-> request.key,
               state |-> "answered", answer |-> answer]
  <1> DEFINE answered == [request EXCEPT !.state = "answered"]
  <1>1. request = [session |-> request.session, turn |-> request.turn, key |-> request.key,
                   state |-> request.state, answer |-> request.answer]
    BY DEF Request
  <1>2. answered = [session |-> request.session, turn |-> request.turn, key |-> request.key,
                    state |-> "answered", answer |-> request.answer]
    BY <1>1
  <1>3. [[session |-> request.session, turn |-> request.turn, key |-> request.key,
          state |-> "answered", answer |-> request.answer] EXCEPT !.answer = answer] =
        [session |-> request.session, turn |-> request.turn, key |-> request.key,
         state |-> "answered", answer |-> answer]
    OBVIOUS
  <1>4. Receives(request, answer) = [answered EXCEPT !.answer = answer]
    BY DEF Receives
  <1>5. Receives(request, answer) =
          [session |-> request.session, turn |-> request.turn, key |-> request.key,
           state |-> "answered", answer |-> answer]
    BY <1>2, <1>3, <1>4, Zenon
  <1>6. [session |-> request.session, turn |-> request.turn, key |-> request.key,
         state |-> "answered", answer |-> answer] \in Request
    BY DEF Request
  <1>7. QED
    BY <1>5, <1>6

\* The future of a turn, or a teammate, is gone with the requests that waited in it.
LEMMA DroppingSettles ==
  ASSUME TypeOK, NEW changed,
         requests' = [r \in DOMAIN requests |->
                        IF r \in changed
                        THEN [requests[r] EXCEPT !.state = "dropped"] ELSE requests[r]]
  PROVE  Settles(changed, "dropped", 0)
  <1>1. requests \in Seq(Request) /\ DOMAIN requests = 1 .. Len(requests) /\ Len(requests) \in Nat
    BY DEF TypeOK
  <1>2. ASSUME NEW r \in DOMAIN requests
        PROVE  /\ requests[r] \in Request
               /\ [requests[r] EXCEPT !.state = "dropped"] \in Request
    BY RequestFields, DroppedRequest
  <1>3. requests' \in [1 .. Len(requests) -> Request]
    BY <1>1, <1>2
  <1>4. requests' \in Seq(Request) /\ Len(requests') = Len(requests)
        /\ DOMAIN requests' = DOMAIN requests
    BY <1>1, <1>3, FunctionIsSequence
  <1>5. ASSUME NEW r \in DOMAIN requests, r \in changed
        PROVE  /\ requests'[r].session = requests[r].session
               /\ requests'[r].turn = requests[r].turn
               /\ requests'[r].key = requests[r].key
               /\ requests'[r].state = "dropped"
    <2>1. requests'[r] = [requests[r] EXCEPT !.state = "dropped"]
      BY <1>5
    <2>2. requests[r] \in Request
      BY <1>2
    <2>3. QED
      BY <2>1, <2>2 DEF Request
  <1>6. \A r \in DOMAIN requests : r \notin changed => requests'[r] = requests[r]
    OBVIOUS
  <1>7. QED
    BY <1>4, <1>5, <1>6 DEF Settles

LEMMA AnsweringSettles ==
  ASSUME TypeOK, NEW changed, NEW answer \in 0 .. MaxRequests,
         requests' = [r \in DOMAIN requests |->
                        IF r \in changed
                        THEN Receives(requests[r], answer) ELSE requests[r]]
  PROVE  Settles(changed, "answered", answer)
  <1>1. requests \in Seq(Request) /\ DOMAIN requests = 1 .. Len(requests) /\ Len(requests) \in Nat
    BY DEF TypeOK
  <1>2. ASSUME NEW r \in DOMAIN requests
        PROVE  /\ requests[r] \in Request
               /\ Receives(requests[r], answer) \in Request
    BY RequestFields, ReceivesAnswer
  <1>3. requests' \in [1 .. Len(requests) -> Request]
    BY <1>1, <1>2
  <1>4. requests' \in Seq(Request) /\ Len(requests') = Len(requests)
        /\ DOMAIN requests' = DOMAIN requests
    BY <1>1, <1>3, FunctionIsSequence
  <1>5. ASSUME NEW r \in DOMAIN requests, r \in changed
        PROVE  /\ requests'[r].session = requests[r].session
               /\ requests'[r].turn = requests[r].turn
               /\ requests'[r].key = requests[r].key
               /\ requests'[r].state = "answered" /\ requests'[r].answer = answer
    <2>1. requests'[r] = Receives(requests[r], answer)
      BY <1>5
    <2>2. requests'[r] = [session |-> requests[r].session, turn |-> requests[r].turn,
                          key |-> requests[r].key, state |-> "answered", answer |-> answer]
      BY <1>2, <2>1, ReceivesAnswer
    <2>3. QED
      BY <2>2
  <1>6. \A r \in DOMAIN requests : r \notin changed => requests'[r] = requests[r]
    OBVIOUS
  <1>7. QED
    BY <1>4, <1>5, <1>6 DEF Settles

-----------------------------------------------------------------------------
(* The tables after each operation *)

\* An answer settles one request at most, under the key of its own request: that one if it
\* waits in the root session or in the session that takes the answer, and always if the key
\* is not a number, for an approval has a key of its own, and a question under the same key
\* is of the turn that runs, hence waits.
Takes(changed, q) ==
  /\ \A r \in changed : r \in DOMAIN requests /\ Waiting(r) /\ requests[r].key = requests[q].key
  /\ \A r, other \in changed : r = other
  /\ \A r \in changed :
       \/ requests[q].key[2] # "numbered"
       \/ Waiting(q) /\ requests[q].session \in {"root", requests[r].session}
       => r = q

LEMMA AnsweredOnce ==
  ASSUME TypeOK, TableInv, NEW q \in DOMAIN requests,
         requests[q].key[2] # "numbered" => requests[q].state # "answered",
         NEW session \in Session,
         Known("root", requests[q].key) # {} => session = "root"
  PROVE  Takes({r \in Known(session, requests[q].key) : Waiting(r)}, q)
  <1> DEFINE key == requests[q].key
             changed == {r \in Known(session, key) : Waiting(r)}
  <1>1. pending \subseteq DOMAIN requests
    BY DEF TypeOK
  <1>2. \A r \in changed :
          /\ r \in pending /\ r \in DOMAIN requests /\ Waiting(r)
          /\ requests[r].key = key /\ requests[r].session = session
    BY <1>1 DEF Known
  <1>3. Waiting(q) => q \in Known(requests[q].session, key)
    BY DEF TableInv, PendingWaits, Known
  <1> HIDE DEF changed
  <1>4. \A r, other \in changed : r = other
    BY <1>2 DEF TableInv, OnePends
  <1>5. ASSUME NEW r \in changed, Waiting(q), requests[q].session \in {"root", session}
        PROVE  r = q
    <2>1. requests[q].session = session
      BY <1>3, <1>5
    <2>2. q \in pending
      BY <1>5 DEF TableInv, PendingWaits
    <2>3. QED
      BY <1>2, <2>1, <2>2 DEF TableInv, OnePends
  <1>6. ASSUME NEW r \in changed, key[2] # "numbered"
        PROVE  r = q
    <2>1. GoodRequest(q) /\ GoodRequest(r) /\ requests[r].key = key
      BY <1>2 DEF TableInv, RequestInv
    <2>2. key[2] \in {"approval", "question"}
      BY <1>6, RequestFields DEF RequestKey
    <2>3. CASE key[2] = "approval"
      BY <2>1, <2>3 DEF GoodRequest
    <2>4. CASE key[2] = "question"
      <3>1. requests[q].session = "root" /\ requests[r].session = "root"
            /\ requests[r].turn = requests[q].turn
        BY <2>1, <2>4 DEF GoodRequest
      <3>2. requests[r].turn = turn
        BY <1>2, <3>1 DEF TableInv, PendingWaits
      <3>3. requests[q].state \in {"waiting", "answered"}
        BY <2>1, <3>1, <3>2 DEF GoodRequest
      <3>4. Waiting(q)
        BY <1>6, <3>3 DEF Waiting
      <3>5. QED
        BY <1>5, <3>1, <3>4
    <2>5. QED
      BY <2>2, <2>3, <2>4
  <1>7. QED
    BY <1>2, <1>4, <1>5, <1>6 DEF Takes, changed

LEMMA AnsweredTables ==
  ASSUME TypeOK, TableInv, UNCHANGED <<turn, handled>>,
         NEW sub, sub.about \in DOMAIN requests,
         requests[sub.about].key[2] # "numbered" => requests[sub.about].state # "answered",
         Answered(sub)
  PROVE  /\ TableInv'
         /\ requests' \in Seq(Request) /\ DOMAIN requests' = DOMAIN requests
         /\ pending' \subseteq pending /\ byTurn' \subseteq byTurn
         /\ \E changed : Takes(changed, sub.about) /\ Settles(changed, "answered", sub.about)
  <1> DEFINE key == requests[sub.about].key
             Knowing == {s \in Session : Known(s, key) # {}}
  <1>0. /\ pending \subseteq DOMAIN requests /\ DOMAIN requests = 1 .. Len(requests)
        /\ Len(requests) \in Nat /\ "root" \in Session
    BY DEF TypeOK, Session
  <1>1. PICK session \in IF "root" \in Knowing \/ Knowing = {} THEN {"root"} ELSE Knowing :
          /\ pending' = pending \ Known(session, key)
          /\ requests' = [r \in DOMAIN requests |->
                            IF r \in Known(session, key) /\ Waiting(r)
                            THEN Receives(requests[r], sub.about) ELSE requests[r]]
          /\ byTurn' = IF session = "root" /\ Known(session, key) # {}
                       THEN {e \in byTurn : e[2] # key} ELSE byTurn
    BY DEF Answered
  <1> DEFINE found == Known(session, key)
             changed == {r \in found : Waiting(r)}
  <1>2. session \in Session /\ (Known("root", key) # {} => session = "root")
    BY <1>0, <1>1
  <1>3. \A r \in pending :
          r \in found <=> requests[r].session = session /\ requests[r].key = key
    BY DEF Known
  <1>4. Takes(changed, sub.about)
    BY <1>2, AnsweredOnce
  <1>5. sub.about \in 0 .. MaxRequests
    BY <1>0, LoopConstantsOK DEF TableInv, RequestInv, LoopConstantsOK
  <1> HIDE DEF found
  <1>6. Settles(changed, "answered", sub.about)
    <2>1. requests' = [r \in DOMAIN requests |->
                         IF r \in changed
                         THEN Receives(requests[r], sub.about) ELSE requests[r]]
      BY <1>1 DEF found
    <2> HIDE DEF changed
    <2>2. QED
      BY <1>5, <2>1, AnsweringSettles
  <1> HIDE DEF changed
  <1>7. /\ pending' = pending \ found
        /\ byTurn' = IF session = "root" /\ found # {}
                     THEN {e \in byTurn : e[2] # key} ELSE byTurn
    BY <1>1 DEF found
  <1>8. ASSUME NEW r \in DOMAIN requests
        PROVE  /\ Waiting(r)' <=> Waiting(r) /\ r \notin changed
               /\ GoodRequest(r)'
    <2>1. GoodRequest(r)
      BY DEF TableInv, RequestInv
    <2>2. QED
      BY <1>6, <2>1 DEF Settles, GoodRequest, Waiting
  <1>9. RequestInv' /\ OnePends'
    <2>1. RequestInv'
      BY <1>6, <1>8 DEF TableInv, RequestInv, Settles
    <2>2. OnePends'
      BY <1>0, <1>6, <1>7 DEF TableInv, OnePends, Settles
    <2>3. QED
      BY <2>1, <2>2
  <1>10. \A r \in DOMAIN requests : Waiting(r)' => r \in pending'
    BY <1>7, <1>8 DEF TableInv, PendingWaits, changed
  <1>11. ASSUME NEW r \in pending', requests'[r].session = "root"
         PROVE  Waiting(r)' /\ requests'[r].turn = turn' /\ <<turn', requests'[r].key>> \in byTurn'
    <2>1. r \in DOMAIN requests /\ r \in pending /\ r \notin found
      BY <1>0, <1>7
    <2>2. r \notin changed
      BY <2>1 DEF changed
    <2>3. requests'[r] = requests[r]
      BY <1>6, <2>1, <2>2 DEF Settles
    <2>4. Waiting(r) /\ requests[r].turn = turn /\ <<turn, requests[r].key>> \in byTurn
      BY <1>11, <2>1, <2>3 DEF TableInv, PendingWaits
    <2>5. session = "root" => requests[r].key # key
      BY <1>3, <1>11, <2>1, <2>3
    <2>6. QED
      BY <1>7, <1>8, <2>1, <2>2, <2>3, <2>4, <2>5
  <1>12. ASSUME NEW e \in byTurn'
         PROVE  \E r \in pending' : requests'[r].session = "root"
                                     /\ e = <<requests'[r].turn, requests'[r].key>>
    <2>1. e \in byTurn /\ (session = "root" /\ found # {} => e[2] # key)
      BY <1>7
    <2>2. PICK r \in pending : requests[r].session = "root"
                                 /\ e = <<requests[r].turn, requests[r].key>>
      BY <2>1 DEF TableInv, PendingWaits
    <2>3. r \notin found
      BY <1>3, <2>1, <2>2
    <2>4. r \in pending' /\ r \notin changed /\ r \in DOMAIN requests
      BY <1>0, <1>7, <2>3 DEF changed
    <2>5. requests'[r] = requests[r]
      BY <1>6, <2>4 DEF Settles
    <2>6. QED
      BY <2>2, <2>4, <2>5
  <1>13. PendingWaits'
    BY <1>6, <1>10, <1>11, <1>12 DEF PendingWaits, Settles
  <1>14. QED
    BY <1>4, <1>6, <1>7, <1>9, <1>13 DEF TableInv, Settles

\* A new request has a key under which nobody waits in its session, though what was dropped
\* with a teammate's turn may be pending under it: nobody is sent away.
LEMMA AddedTables ==
  ASSUME TypeOK, TableInv, UNCHANGED <<turn, handled>>,
         NEW session \in Session, NEW t \in 0 .. MaxSubmissions,
         NEW key \in RequestKey,
         Len(requests) < MaxRequests,
         session = "root" => t = turn /\ t \in 1 .. handled,
         key[2] = "approval" => key[1] = Len(requests) + 1,
         key[2] = "question" => session = "root" /\ key[1] = t,
         \A r \in RequestsOf(session) : Waiting(r) => requests[r].key # key,
         AddRequest(session, t, key)
  PROVE  /\ TableInv'
         /\ requests' \in Seq(Request) /\ DOMAIN requests \subseteq DOMAIN requests'
         /\ pending' \subseteq DOMAIN requests'
         /\ byTurn' \subseteq byTurn \cup {<<t, key>>}
         /\ \A r \in DOMAIN requests : requests'[r] = requests[r]
         /\ \A r \in DOMAIN requests' \ DOMAIN requests : requests'[r].state = "waiting"
  <1> DEFINE new == Len(requests) + 1
             previous == {r \in pending : requests[r].session = session /\ requests[r].key = key}
             request == [session |-> session, turn |-> t, key |-> key, state |-> "waiting",
                         answer |-> 0]
  <1>0. /\ requests \in Seq(Request) /\ DOMAIN requests = 1 .. Len(requests)
        /\ Len(requests) \in Nat /\ pending \subseteq DOMAIN requests
    BY DEF TypeOK
  <1>1. /\ \A r \in previous : ~Waiting(r)
        /\ session = "root" => previous = {}
        /\ previous \subseteq pending
    BY <1>0 DEF TableInv, PendingWaits, RequestsOf
  <1>2. \A r \in previous : requests[r].session # "root"
    BY <1>1
  <1>3. request \in Request
    BY LoopConstantsOK DEF Request, LoopConstantsOK
  <1>4. [r \in DOMAIN requests |->
           IF r \in previous /\ Waiting(r)
           THEN [requests[r] EXCEPT !.state = "denied"] ELSE requests[r]] = requests
    BY <1>0, <1>1
  <1>5. /\ requests' = Append(requests, request)
        /\ pending' = (pending \ previous) \cup {new}
        /\ byTurn' = IF session = "root" THEN byTurn \cup {<<t, key>>} ELSE byTurn
    BY <1>1, <1>4 DEF AddRequest
  <1>6. \A r \in pending \ previous : requests[r].session # session \/ requests[r].key # key
    OBVIOUS
  <1> HIDE DEF previous
  <1>7. /\ requests' \in Seq(Request) /\ DOMAIN requests' = 1 .. new
        /\ \A r \in DOMAIN requests : requests'[r] = requests[r]
        /\ requests'[new] = request /\ Len(requests') = new
    <2> HIDE DEF request
    <2>1. QED
      BY <1>0, <1>3, <1>5, AppendToSequence
  <1>8. new \notin DOMAIN requests /\ DOMAIN requests' = DOMAIN requests \cup {new}
    BY <1>0, <1>7
  <1>9. /\ requests'[new].session = session /\ requests'[new].turn = t
        /\ requests'[new].key = key /\ requests'[new].state = "waiting"
    BY <1>7
  <1>10. \A r \in DOMAIN requests : Waiting(r)' <=> Waiting(r)
    BY <1>7 DEF Waiting
  <1>11. ASSUME NEW r \in DOMAIN requests'
         PROVE  GoodRequest(r)'
    <2>1. CASE r \in DOMAIN requests
      BY <1>7, <2>1 DEF TableInv, RequestInv, GoodRequest
    <2>2. CASE r = new
      BY <1>9, <2>2 DEF GoodRequest
    <2>3. QED
      BY <1>8, <2>1, <2>2
  <1>12. RequestInv'
    BY <1>0, <1>7, <1>11, LoopConstantsOK DEF RequestInv, LoopConstantsOK
  <1>13. OnePends'
    BY <1>0, <1>5, <1>6, <1>7, <1>9 DEF TableInv, OnePends
  <1>14. \A r \in DOMAIN requests' : Waiting(r)' => r \in pending'
    BY <1>1, <1>5, <1>8, <1>10 DEF TableInv, PendingWaits
  <1>15. ASSUME NEW r \in pending', requests'[r].session = "root"
         PROVE  Waiting(r)' /\ requests'[r].turn = turn' /\ <<turn', requests'[r].key>> \in byTurn'
    <2>1. CASE r \in pending
      <3>1. requests'[r] = requests[r] /\ r \in DOMAIN requests
        BY <1>0, <1>7, <2>1
      <3>2. Waiting(r) /\ requests[r].turn = turn /\ <<turn, requests[r].key>> \in byTurn
        BY <1>15, <2>1, <3>1 DEF TableInv, PendingWaits
      <3>3. QED
        BY <1>5, <1>10, <3>1, <3>2
    <2>2. CASE r = new
      BY <1>5, <1>9, <1>15, <2>2 DEF Waiting
    <2>3. QED
      BY <1>5, <2>1, <2>2
  <1>16. ASSUME NEW e \in byTurn'
         PROVE  \E r \in pending' : requests'[r].session = "root"
                                      /\ e = <<requests'[r].turn, requests'[r].key>>
    <2>1. CASE e \in byTurn
      <3>1. PICK r \in pending : requests[r].session = "root"
                                   /\ e = <<requests[r].turn, requests[r].key>>
        BY <2>1 DEF TableInv, PendingWaits
      <3>2. r \notin previous
        BY <1>0, <1>1, <1>2, <3>1
      <3>3. QED
        BY <1>0, <1>5, <1>7, <3>1, <3>2
    <2>2. CASE session = "root" /\ e = <<t, key>>
      BY <1>5, <1>9, <2>2
    <2>3. QED
      BY <1>5, <2>1, <2>2
  <1>17. PendingWaits'
    BY <1>14, <1>15, <1>16 DEF PendingWaits
  <1>18. QED
    BY <1>0, <1>5, <1>7, <1>8, <1>9, <1>12, <1>13, <1>17 DEF TableInv

\* What is asked in a session has a key under which nobody waits there: an approval's is
\* new or a free number, and a question's is that of the turn, in which nobody waits when it
\* is asked.
LEMMA NewKeyIsFree ==
  ASSUME TypeOK, TableInv, NEW session \in Session, NEW key,
         key \in CallKeys(session) \/ (session = "root" /\ key \in QuestionKeys)
  PROVE  /\ key \in RequestKey
         /\ key[2] = "approval" => key[1] = Len(requests) + 1
         /\ key[2] = "question" => session = "root" /\ key[1] = turn
         /\ \A r \in RequestsOf(session) : Waiting(r) => requests[r].key # key
  <1>1. /\ Len(requests) \in Nat /\ turn \in Nat /\ Number \subseteq Nat
        /\ DOMAIN requests = 1 .. Len(requests)
    BY LoopConstantsOK DEF LoopConstantsOK, TypeOK
  <1>2. CASE key = <<FreshId, "approval">>
    <2>1. key \in RequestKey /\ key[2] = "approval" /\ key[1] = Len(requests) + 1
      BY <1>1, <1>2 DEF FreshId, RequestKey
    <2>2. ASSUME NEW r \in DOMAIN requests, requests[r].key = key
          PROVE  FALSE
      <3>1. GoodRequest(r) /\ r \in 1 .. Len(requests)
        BY <1>1 DEF TableInv, RequestInv
      <3>2. QED
        BY <1>1, <2>1, <2>2, <3>1 DEF GoodRequest
    <2>3. QED
      BY <2>1, <2>2 DEF RequestsOf
  <1>3. CASE /\ key \in Number \X {"numbered"}
             /\ ~\E r \in RequestsOf(session) : Waiting(r) /\ requests[r].key = key
    BY <1>1, <1>3 DEF RequestKey
  <1>4. CASE session = "root" /\ key \in QuestionKeys
    BY <1>1, <1>4 DEF RequestKey, QuestionKeys
  <1>5. QED
    BY <1>2, <1>3, <1>4 DEF CallKeys

\* A turn of a teammate is gone: its requests stay pending, and none of them waits.
LEMMA MateDroppedTables ==
  ASSUME TypeOK, TableInv, UNCHANGED <<turn, handled>>, NEW mate \in Mate, MateDropped(mate)
  PROVE  TableInv' /\ Settles({r \in RequestsOf(mate) : Waiting(r)}, "dropped", 0)
  <1> DEFINE changed == {r \in RequestsOf(mate) : Waiting(r)}
  <1>1. Settles(changed, "dropped", 0)
    <2>1. requests' = [r \in DOMAIN requests |->
                         IF r \in changed
                         THEN [requests[r] EXCEPT !.state = "dropped"] ELSE requests[r]]
      BY DEF MateDropped
    <2> HIDE DEF changed
    <2>2. QED
      BY <2>1, DroppingSettles
  <1>2. \A r \in changed : requests[r].session # "root" /\ Waiting(r)
    BY LoopConstantsOK DEF RequestsOf, LoopConstantsOK
  <1> HIDE DEF changed
  <1>3. UNCHANGED <<pending, byTurn>>
    BY DEF MateDropped
  <1>4. pending \subseteq DOMAIN requests
    BY DEF TypeOK
  <1>5. RequestInv' /\ OnePends'
    <2>1. RequestInv'
      BY <1>1, <1>2 DEF TableInv, RequestInv, GoodRequest, Settles, Waiting
    <2>2. OnePends'
      BY <1>1, <1>3, <1>4 DEF TableInv, OnePends, Settles
    <2>3. QED
      BY <2>1, <2>2
  <1>6. PendingWaits'
    BY <1>1, <1>2, <1>3, <1>4 DEF TableInv, PendingWaits, Settles, Waiting
  <1>7. QED
    BY <1>1, <1>5, <1>6 DEF TableInv, changed

\* The turn ends: everything the root session held was of this turn, and goes with it.
LEMMA LeftTables ==
  ASSUME TypeOK, LoopInv, OrderInv, TableInv, loop = "turn", UNCHANGED handled, LeaveTurn
  PROVE  /\ TableInv'
         /\ Settles({r \in RequestsOf("root") : Waiting(r)}, "dropped", 0)
         /\ pending' \subseteq pending /\ byTurn' = {}
  <1> DEFINE changed == {r \in RequestsOf("root") : Waiting(r)}
             keys == {e[2] : e \in {e \in byTurn : e[1] = turn}}
  <1>1. Settles(changed, "dropped", 0)
    <2>1. requests' = [r \in DOMAIN requests |->
                         IF r \in changed
                         THEN [requests[r] EXCEPT !.state = "dropped"] ELSE requests[r]]
      BY DEF LeaveTurn
    <2> HIDE DEF changed
    <2>2. QED
      BY <2>1, DroppingSettles
  <1>2. \A r \in DOMAIN requests : r \in changed <=> requests[r].session = "root" /\ Waiting(r)
    BY DEF RequestsOf
  <1> HIDE DEF changed
  <1>3. pending \subseteq DOMAIN requests
    BY DEF TypeOK
  <1>4. turn' = 0
    BY DEF LeaveTurn
  <1>5. /\ pending' = {r \in pending : requests[r].session # "root" \/ requests[r].key \notin keys}
        /\ byTurn' = {e \in byTurn : e[1] # turn}
    BY DEF LeaveTurn, ClearTurn
  <1>6. byTurn' = {}
    <2>1. ASSUME NEW e \in byTurn
          PROVE  e[1] = turn
      <3>1. PICK r \in pending : requests[r].session = "root"
                                   /\ e = <<requests[r].turn, requests[r].key>>
        BY DEF TableInv, PendingWaits
      <3>2. requests[r].turn = turn
        BY <3>1 DEF TableInv, PendingWaits
      <3>3. QED
        BY <3>1, <3>2
    <2>2. QED
      BY <1>5, <2>1
  <1>7. ASSUME NEW r \in pending'
        PROVE  r \in pending /\ requests[r].session # "root"
    <2>1. r \in pending /\ (requests[r].session # "root" \/ requests[r].key \notin keys)
      BY <1>5
    <2>2. requests[r].session = "root" => <<turn, requests[r].key>> \in byTurn
      BY <2>1 DEF TableInv, PendingWaits
    <2>3. requests[r].session = "root" => requests[r].key \in keys
      BY <2>2
    <2>4. QED
      BY <2>1, <2>3
  <1>8. ASSUME NEW r \in DOMAIN requests
        PROVE  GoodRequest(r)' /\ (Waiting(r)' => Waiting(r) /\ requests[r].session # "root")
    <2>1. GoodRequest(r)
      BY DEF TableInv, RequestInv
    <2>2. Waiting(r)' => Waiting(r) /\ requests[r].session # "root"
      BY <1>1, <1>2 DEF Settles, Waiting
    <2>3. requests'[r].session = "root" => requests'[r].turn \in 1 .. handled'
                                             /\ requests'[r].turn # turn'
      BY <1>1, <1>4, <2>1 DEF Settles, GoodRequest, OrderInv
    <2>4. requests'[r].state = "answered" => requests[r] = requests'[r]
      BY <1>1 DEF Settles
    <2>5. QED
      BY <1>1, <2>1, <2>2, <2>3, <2>4 DEF Settles, GoodRequest
  <1>9. RequestInv' /\ OnePends'
    BY <1>1, <1>3, <1>5, <1>8 DEF TableInv, RequestInv, OnePends, Settles
  <1>10. ASSUME NEW r \in DOMAIN requests, Waiting(r)'
         PROVE  r \in pending'
    <2>1. r \in pending /\ requests[r].session # "root"
      BY <1>8, <1>10 DEF TableInv, PendingWaits
    <2>2. QED
      BY <1>5, <2>1
  <1>11. PendingWaits'
    BY <1>1, <1>3, <1>6, <1>7, <1>10 DEF PendingWaits, Settles
  <1>12. QED
    BY <1>1, <1>5, <1>6, <1>9, <1>11 DEF TableInv, changed

\* Between turns the root session holds nothing, so a turn with a new number finds the
\* tables as they should be.
LEMMA UnchangedTables ==
  ASSUME TypeOK, OrderInv, TableInv, UNCHANGED tables,
         handled' \in Nat, handled' >= handled,
         turn' = turn \/ (turn = 0 /\ turn' > handled /\ turn' \in Nat)
  PROVE  TableInv'
  <1>1. UNCHANGED <<requests, pending, byTurn>> /\ pending \subseteq DOMAIN requests
        /\ turn \in Nat /\ handled \in Nat
    BY LoopConstantsOK DEF tables, TypeOK, LoopConstantsOK
  <1>2. ASSUME NEW r \in DOMAIN requests
        PROVE  GoodRequest(r)' /\ (Waiting(r)' <=> Waiting(r))
    <2>1. GoodRequest(r)
      BY DEF TableInv, RequestInv
    <2>2. requests[r].session = "root" => requests[r].turn \in 1 .. handled
      BY <2>1 DEF GoodRequest
    <2>3. requests[r].session = "root" => requests[r].turn \in 1 .. handled'
      BY <1>1, <2>2
    <2>4. requests[r].session = "root" /\ requests[r].turn = turn' => requests[r].turn = turn
      BY <1>1, <2>2
    <2>5. QED
      BY <1>1, <2>1, <2>3, <2>4 DEF GoodRequest, Waiting
  <1>3. RequestInv' /\ OnePends'
    BY <1>1, <1>2 DEF TableInv, RequestInv, OnePends
  <1>4. ASSUME NEW r \in pending, requests[r].session = "root"
        PROVE  turn' = turn
    <2>1. requests[r].turn = turn /\ requests[r].turn \in 1 .. handled
      BY <1>1, <1>4 DEF TableInv, PendingWaits, RequestInv, GoodRequest
    <2>2. QED
      BY <1>1, <2>1
  <1>5. PendingWaits'
    BY <1>1, <1>2, <1>4 DEF TableInv, PendingWaits
  <1>6. QED
    BY <1>3, <1>5 DEF TableInv

-----------------------------------------------------------------------------
(* The channel and the queue *)

\* What stays behind when a submission is taken out of the channel.
LEMMA Received ==
  ASSUME TypeOK, OrderInv, inbox # <<>>, inbox' = Tail(inbox), UNCHANGED sent,
         handled' = handled \/ (queue = <<>> /\ handled' = Head(inbox).n),
         \/ UNCHANGED queue
         \/ /\ queue' = Append(queue, Head(inbox)) /\ UNCHANGED handled
            /\ Head(inbox).kind \in {"input", "empty", "other"},
         turn' \in {0, handled'}
  PROVE  OrderInv' /\ inbox' \in Seq(Submission) /\ queue' \in Seq(Submission)
  <1>1. /\ inbox \in Seq(Submission) /\ queue \in Seq(Submission)
        /\ DOMAIN inbox = 1 .. Len(inbox) /\ DOMAIN queue = 1 .. Len(queue)
        /\ Len(inbox) \in Nat /\ Len(queue) \in Nat
    BY DEF TypeOK
  <1>2. /\ inbox' \in Seq(Submission) /\ DOMAIN inbox' = 1 .. Len(inbox) - 1
        /\ \A i \in DOMAIN inbox' : inbox'[i] = inbox[i + 1]
        /\ Head(inbox) = inbox[1] /\ Head(inbox) \in Submission
        /\ Len(inbox) \in Nat \ {0}
    BY <1>1, TailOfSequence
  <1>3. 1 \in DOMAIN inbox /\ \A i \in DOMAIN inbox' : i + 1 \in DOMAIN inbox
    BY <1>1, <1>2
  <1>4. /\ \A i \in DOMAIN inbox : inbox[i].n \in Nat
        /\ \A i \in DOMAIN queue : queue[i].n \in Nat
    <2>1. ASSUME NEW submission \in Submission
          PROVE  submission.n \in Nat
      BY DEF Submission
    <2>2. /\ \A i \in DOMAIN inbox : inbox[i] \in Submission
          /\ \A i \in DOMAIN queue : queue[i] \in Submission
      BY <1>1
    <2>3. QED
      BY <2>1, <2>2
  <1>5. InOrder(inbox')
    <2>1. ASSUME NEW i \in DOMAIN inbox', NEW j \in DOMAIN inbox', i < j
          PROVE  inbox'[i].n < inbox'[j].n
      <3>1. i + 1 < j + 1
        BY <1>2, <2>1
      <3>2. inbox[i + 1].n < inbox[j + 1].n
        BY <1>3, <3>1 DEF OrderInv, InOrder
      <3>3. QED
        BY <1>2, <3>2
    <2>2. QED
      BY <2>1 DEF InOrder
  <1>6. \A i \in DOMAIN inbox' : Head(inbox).n < inbox'[i].n
    <2>1. ASSUME NEW i \in DOMAIN inbox'
          PROVE  Head(inbox).n < inbox'[i].n
      <3>1. 1 < i + 1
        BY <1>2
      <3>2. inbox[1].n < inbox[i + 1].n
        BY <1>3, <3>1 DEF OrderInv, InOrder
      <3>3. QED
        BY <1>2, <3>2
    <2>2. QED
      BY <2>1
  <1>7. sent \in Nat /\ handled \in Nat
    BY LoopConstantsOK DEF TypeOK, LoopConstantsOK
  <1>8. Head(inbox).n \in handled + 1 .. sent
    BY <1>2, <1>3 DEF OrderInv
  <1>9. handled' \in Nat /\ handled' >= handled /\ handled' <= sent
        /\ (handled' = handled \/ handled' = Head(inbox).n)
    BY <1>7, <1>8 DEF OrderInv
  <1>10. \A i \in DOMAIN inbox' : inbox'[i].n \in handled' + 1 .. sent
    <2>1. ASSUME NEW i \in DOMAIN inbox'
          PROVE  inbox'[i].n \in handled' + 1 .. sent
      <3>1. inbox'[i].n \in handled + 1 .. sent
        BY <1>2, <1>3 DEF OrderInv
      <3>2. QED
        BY <1>6, <1>7, <1>8, <1>9, <3>1
    <2>2. QED
      BY <2>1
  <1>11. CASE UNCHANGED queue
    <2>1. \A i \in DOMAIN queue', j \in DOMAIN inbox' : queue'[i].n < inbox'[j].n
      BY <1>2, <1>3, <1>11 DEF OrderInv
    <2>2. \A i \in DOMAIN queue' : queue'[i].n \in handled' + 1 .. sent
      <3>1. CASE handled' = handled
        BY <1>11, <3>1 DEF OrderInv
      <3>2. CASE queue = <<>>
        BY <1>11, <3>2
      <3>3. QED
        BY <3>1, <3>2
    <2>3. QED
      BY <1>1, <1>2, <1>5, <1>9, <1>10, <1>11, <2>1, <2>2 DEF OrderInv
  <1>12. CASE /\ queue' = Append(queue, Head(inbox)) /\ UNCHANGED handled
              /\ Head(inbox).kind \in {"input", "empty", "other"}
    <2>1. /\ queue' \in Seq(Submission) /\ DOMAIN queue' = 1 .. Len(queue) + 1
          /\ \A i \in DOMAIN queue : queue'[i] = queue[i]
          /\ queue'[Len(queue) + 1] = Head(inbox)
      <3>1. ASSUME NEW e \in Submission
            PROVE  /\ Append(queue, e) \in Seq(Submission)
                   /\ DOMAIN Append(queue, e) = 1 .. Len(queue) + 1
                   /\ \A i \in DOMAIN queue : Append(queue, e)[i] = queue[i]
                   /\ Append(queue, e)[Len(queue) + 1] = e
        BY <1>1, AppendToSequence
      <3>2. Head(inbox) \in Submission /\ queue' = Append(queue, Head(inbox))
        BY <1>2, <1>12
      <3>3. QED
        BY <3>1, <3>2, Zenon
    <2>2. DOMAIN queue' = DOMAIN queue \cup {Len(queue) + 1} /\ Len(queue) + 1 \notin DOMAIN queue
      BY <1>1, <2>1
    <2>3. \A i \in DOMAIN queue : queue[i].n < Head(inbox).n
      BY <1>2, <1>3 DEF OrderInv
    <2>4. InOrder(queue')
      <3>1. ASSUME NEW i \in DOMAIN queue', NEW j \in DOMAIN queue', i < j
            PROVE  queue'[i].n < queue'[j].n
        <4>1. i \in DOMAIN queue
          BY <1>1, <2>1, <3>1
        <4>2. CASE j \in DOMAIN queue
          BY <2>1, <3>1, <4>1, <4>2 DEF OrderInv, InOrder
        <4>3. CASE j = Len(queue) + 1
          BY <2>1, <2>3, <4>1, <4>3
        <4>4. QED
          BY <2>2, <4>2, <4>3
      <3>2. QED
        BY <3>1 DEF InOrder
    <2>5. \A i \in DOMAIN queue', j \in DOMAIN inbox' : queue'[i].n < inbox'[j].n
      BY <1>2, <1>3, <1>6, <2>1, <2>2 DEF OrderInv
    <2>6. \A i \in DOMAIN queue' : /\ queue'[i].n \in handled + 1 .. sent
                                   /\ queue'[i].kind \in {"input", "empty", "other"}
      BY <1>8, <1>12, <2>1, <2>2 DEF OrderInv
    <2>7. QED
      BY <1>2, <1>5, <1>9, <1>10, <1>12, <2>1, <2>4, <2>5, <2>6 DEF OrderInv
  <1>13. QED
    BY <1>11, <1>12

\* What stays behind when the next submission is taken out of the queue.
LEMMA Dequeued ==
  ASSUME TypeOK, OrderInv, queue # <<>>, queue' = Tail(queue), UNCHANGED <<inbox, sent>>,
         handled' = Head(queue).n, turn' \in {0, handled'}
  PROVE  /\ OrderInv' /\ queue' \in Seq(Submission)
         /\ handled < handled' /\ handled' \in 1 .. MaxSubmissions
         /\ Head(queue).kind \in {"input", "empty", "other"}
  <1>1. /\ inbox \in Seq(Submission) /\ queue \in Seq(Submission)
        /\ DOMAIN inbox = 1 .. Len(inbox) /\ DOMAIN queue = 1 .. Len(queue)
        /\ Len(inbox) \in Nat /\ Len(queue) \in Nat
    BY DEF TypeOK
  <1>2. /\ queue' \in Seq(Submission) /\ DOMAIN queue' = 1 .. Len(queue) - 1
        /\ \A i \in DOMAIN queue' : queue'[i] = queue[i + 1]
        /\ Head(queue) = queue[1] /\ Head(queue) \in Submission
        /\ Len(queue) \in Nat \ {0}
    BY <1>1, TailOfSequence
  <1>3. 1 \in DOMAIN queue /\ \A i \in DOMAIN queue' : i + 1 \in DOMAIN queue
    BY <1>1, <1>2
  <1>4. InOrder(queue') /\ \A i \in DOMAIN queue' : Head(queue).n < queue'[i].n
    <2>1. ASSUME NEW i \in DOMAIN queue', NEW j \in DOMAIN queue', i < j
          PROVE  queue'[i].n < queue'[j].n
      <3>1. i + 1 < j + 1
        BY <1>2, <2>1
      <3>2. queue[i + 1].n < queue[j + 1].n
        BY <1>3, <3>1 DEF OrderInv, InOrder
      <3>3. QED
        BY <1>2, <3>2
    <2>2. ASSUME NEW i \in DOMAIN queue'
          PROVE  Head(queue).n < queue'[i].n
      <3>1. 1 < i + 1
        BY <1>2
      <3>2. queue[1].n < queue[i + 1].n
        BY <1>3, <3>1 DEF OrderInv, InOrder
      <3>3. QED
        BY <1>2, <3>2
    <2>3. QED
      BY <2>1, <2>2 DEF InOrder
  <1>5. sent \in 0 .. MaxSubmissions /\ handled \in Nat /\ MaxSubmissions \in Nat
    BY LoopConstantsOK DEF TypeOK, LoopConstantsOK
  <1>6. Head(queue).n \in handled + 1 .. sent /\ Head(queue).kind \in {"input", "empty", "other"}
    BY <1>2, <1>3 DEF OrderInv
  <1>7. \A i \in DOMAIN queue' : queue'[i].n \in handled' + 1 .. sent
    <2>1. ASSUME NEW i \in DOMAIN queue'
          PROVE  queue'[i].n \in handled' + 1 .. sent
      <3>1. queue'[i].n \in handled + 1 .. sent
        BY <1>2, <1>3 DEF OrderInv
      <3>2. QED
        BY <1>4, <1>5, <1>6, <3>1
    <2>2. QED
      BY <2>1
  <1>8. \A j \in DOMAIN inbox : inbox[j].n \in handled' + 1 .. sent
    <2>1. ASSUME NEW j \in DOMAIN inbox
          PROVE  inbox[j].n \in handled' + 1 .. sent
      <3>1. inbox[j].n \in handled + 1 .. sent /\ queue[1].n < inbox[j].n
        BY <1>3 DEF OrderInv
      <3>2. QED
        BY <1>2, <1>5, <1>6, <3>1
    <2>2. QED
      BY <2>1
  <1>9. \A i \in DOMAIN queue', j \in DOMAIN inbox : queue'[i].n < inbox[j].n
    BY <1>2, <1>3 DEF OrderInv
  <1>10. \A i \in DOMAIN queue' : queue'[i].kind \in {"input", "empty", "other"}
    BY <1>2, <1>3 DEF OrderInv
  <1>11. handled < handled' /\ handled' <= sent /\ handled' \in 1 .. MaxSubmissions
    BY <1>5, <1>6
  <1>12. QED
    BY <1>2, <1>4, <1>6, <1>7, <1>8, <1>9, <1>10, <1>11 DEF OrderInv

\* The loop takes out of the queue what came before all that is in the channel.
LEMMA TakesTheNext ==
  ASSUME TypeOK, OrderInv, NEW sub, NextSubmission(sub), UNCHANGED sent,
         handled' = IF sub.kind \in {"input", "empty", "other"} THEN sub.n ELSE handled,
         turn' \in {0, handled'}
  PROVE  /\ OrderInv' /\ inbox' \in Seq(Submission) /\ queue' \in Seq(Submission)
         /\ sub \in Submission /\ sub.n > handled /\ handled' >= handled
         /\ \/ UNCHANGED inbox /\ sub.kind # "answer"
            \/ inbox # <<>> /\ sub = Head(inbox) /\ inbox' = Tail(inbox)
  <1>1. inbox \in Seq(Submission) /\ queue \in Seq(Submission) /\ handled \in Nat
    BY LoopConstantsOK DEF TypeOK, LoopConstantsOK
  <1>2. CASE queue # <<>>
    <2>1. sub = Head(queue) /\ queue' = Tail(queue) /\ UNCHANGED inbox
      BY <1>2 DEF NextSubmission
    <2>2. queue[1] = sub /\ 1 \in DOMAIN queue /\ sub \in Submission
      BY <1>1, <1>2, <2>1, TailOfSequence
    <2>3. sub.kind \in {"input", "empty", "other"} /\ handled' = sub.n
      BY <2>2 DEF OrderInv
    <2>4. OrderInv' /\ queue' \in Seq(Submission) /\ handled < handled'
      BY <1>2, <2>1, <2>3, Dequeued
    <2>5. handled' \in Nat
      BY <2>2, <2>3 DEF Submission
    <2>6. QED
      BY <1>1, <2>1, <2>2, <2>3, <2>4, <2>5
  <1>3. CASE queue = <<>>
    <2>1. inbox # <<>> /\ sub = Head(inbox) /\ inbox' = Tail(inbox) /\ UNCHANGED queue
      BY <1>3 DEF NextSubmission
    <2>2. inbox[1] = sub /\ 1 \in DOMAIN inbox /\ sub \in Submission
      BY <1>1, <2>1, TailOfSequence
    <2>3. OrderInv' /\ inbox' \in Seq(Submission) /\ queue' \in Seq(Submission)
      BY <1>3, <2>1, Received
    <2>4. sub.n \in handled + 1 .. sent /\ sub.n \in Nat
      BY <2>2 DEF OrderInv, Submission
    <2>5. sub.n > handled /\ handled' >= handled
      BY <1>1, <2>4
    <2>6. QED
      BY <2>1, <2>2, <2>3, <2>5
  <1>4. QED
    BY <1>2, <1>3

\* A submission comes to the end of the channel with the next number.
LEMMA Submitted ==
  ASSUME TypeOK, OrderInv, NEW s \in Sayable, Submit(s[1], s[2])
  PROVE  /\ OrderInv' /\ inbox' \in Seq(Submission) /\ sent' \in 0 .. MaxSubmissions
         /\ DOMAIN inbox' = DOMAIN inbox \cup {Len(inbox) + 1}
         /\ Len(inbox) + 1 \notin DOMAIN inbox
         /\ \A i \in DOMAIN inbox : inbox'[i] = inbox[i]
         /\ inbox'[Len(inbox) + 1].kind = s[1] /\ inbox'[Len(inbox) + 1].about = s[2]
  <1> DEFINE new == [n |-> sent + 1, kind |-> s[1], about |-> s[2]]
             last == Len(inbox) + 1
  <1>1. /\ inbox \in Seq(Submission) /\ queue \in Seq(Submission)
        /\ DOMAIN inbox = 1 .. Len(inbox) /\ Len(inbox) \in Nat
        /\ sent \in Nat /\ handled \in Nat /\ MaxSubmissions \in Nat
        /\ DOMAIN requests = 1 .. Len(requests) /\ Len(requests) \in Nat /\ turn \in Nat
    BY LoopConstantsOK DEF TypeOK, LoopConstantsOK
  <1>2. /\ s[1] \in {"input", "empty", "other", "steer", "answer", "interrupt", "shutdown"}
        /\ s[2] \in Nat
    BY <1>1 DEF Sayable
  <1>3. /\ sent < MaxSubmissions /\ sent' = sent + 1
        /\ inbox' = Append(inbox, new) /\ UNCHANGED <<queue, turn, handled>>
    BY DEF Submit
  <1>4. new \in Submission /\ sent' \in 0 .. MaxSubmissions /\ sent' > sent /\ new.n = sent'
    BY <1>1, <1>2, <1>3 DEF Submission
  <1>5. new.kind = s[1] /\ new.about = s[2]
    OBVIOUS
  <1> HIDE DEF new
  <1>6. /\ inbox' \in Seq(Submission) /\ DOMAIN inbox' = DOMAIN inbox \cup {last}
        /\ last \notin DOMAIN inbox /\ \A i \in DOMAIN inbox : i < last
        /\ \A i \in DOMAIN inbox : inbox'[i] = inbox[i]
        /\ inbox'[last] = new
    BY <1>1, <1>3, <1>4, AppendToSequence
  <1> HIDE DEF last
  <1>7. \A i \in DOMAIN inbox : inbox[i].n < new.n
    BY <1>1, <1>4 DEF OrderInv
  <1>8. \A i \in DOMAIN queue : queue[i].n < new.n
    BY <1>1, <1>4 DEF OrderInv
  <1>9. InOrder(inbox')
    <2>1. ASSUME NEW i \in DOMAIN inbox', NEW j \in DOMAIN inbox', i < j
          PROVE  inbox'[i].n < inbox'[j].n
      <3>1. i \in DOMAIN inbox
        <4>1. i = last => j \in DOMAIN inbox
          BY <1>1, <1>6, <2>1 DEF last
        <4>2. QED
          BY <1>1, <1>6, <2>1, <4>1 DEF last
      <3>2. CASE j \in DOMAIN inbox
        BY <1>6, <2>1, <3>1, <3>2 DEF OrderInv, InOrder
      <3>3. CASE j = last
        BY <1>6, <1>7, <3>1, <3>3
      <3>4. QED
        BY <1>6, <3>2, <3>3
    <2>2. QED
      BY <2>1 DEF InOrder
  <1>10. \A i \in DOMAIN queue, j \in DOMAIN inbox' : queue[i].n < inbox'[j].n
    BY <1>6, <1>8 DEF OrderInv
  <1>11. \A i \in DOMAIN inbox' : inbox'[i].n \in handled + 1 .. sent'
    <2>1. ASSUME NEW i \in DOMAIN inbox'
          PROVE  inbox'[i].n \in handled + 1 .. sent'
      <3>1. CASE i \in DOMAIN inbox
        <4>1. inbox[i].n \in handled + 1 .. sent /\ inbox'[i] = inbox[i]
          BY <1>6, <3>1 DEF OrderInv
        <4>2. QED
          BY <1>1, <1>3, <4>1
      <3>2. CASE i = last
        BY <1>1, <1>3, <1>4, <1>6, <3>2 DEF OrderInv
      <3>3. QED
        BY <1>6, <3>1, <3>2
    <2>2. QED
      BY <2>1
  <1>12. \A i \in DOMAIN queue : queue[i].n \in handled + 1 .. sent'
    <2>1. ASSUME NEW i \in DOMAIN queue
          PROVE  queue[i].n \in handled + 1 .. sent'
      <3>1. queue[i].n \in handled + 1 .. sent
        BY DEF OrderInv
      <3>2. QED
        BY <1>1, <1>3, <3>1
    <2>2. QED
      BY <2>1
  <1>13. handled <= sent'
    BY <1>1, <1>3 DEF OrderInv
  <1>14. OrderInv'
    BY <1>3, <1>9, <1>10, <1>11, <1>12, <1>13 DEF OrderInv
  <1>15. QED
    BY <1>4, <1>5, <1>6, <1>14 DEF last

-----------------------------------------------------------------------------
(* Every step, part of the invariant by part *)

\* The order of what waits, and that what is handled comes later than what was.
LEMMA NextOrder ==
  ASSUME IInv, [Next]_vars
  PROVE  /\ OrderInv'
         /\ inbox' \in Seq(Submission) /\ queue' \in Seq(Submission)
         /\ sent' \in 0 .. MaxSubmissions
         /\ handled' \in 0 .. MaxSubmissions /\ handled' >= handled
  <1>1. /\ TypeOK /\ OrderInv /\ sent \in 0 .. MaxSubmissions
        /\ inbox \in Seq(Submission) /\ queue \in Seq(Submission)
        /\ handled \in 0 .. MaxSubmissions /\ MaxSubmissions \in Nat
        /\ turn \in {0, handled}
    BY LoopConstantsOK DEF IInv, TypeOK, OrderInv, LoopConstantsOK
  <1>2. ASSUME UNCHANGED <<sent, inbox, queue, handled>>, turn' \in {0, turn}
        PROVE  OrderInv'
    BY <1>1, <1>2 DEF OrderInv
  <1>3. ASSUME inbox # <<>>, inbox' = Tail(inbox), UNCHANGED <<sent, handled>>,
               \/ UNCHANGED queue
               \/ queue' = Append(queue, Head(inbox))
                  /\ Head(inbox).kind \in {"input", "empty", "other"},
               turn' \in {0, turn}
        PROVE  OrderInv' /\ inbox' \in Seq(Submission) /\ queue' \in Seq(Submission)
    <2>1. CASE UNCHANGED queue
      BY <1>1, <1>3, <2>1, Received
    <2>2. CASE queue' = Append(queue, Head(inbox))
               /\ Head(inbox).kind \in {"input", "empty", "other"}
      BY <1>1, <1>3, <2>2, Received
    <2>3. QED
      BY <1>3, <2>1, <2>2
  <1>4. CASE \E s \in Sayable : Submit(s[1], s[2])
    <2>1. PICK s \in Sayable : Submit(s[1], s[2])
      BY <1>4
    <2>2. UNCHANGED <<queue, handled>>
      BY <2>1 DEF Submit
    <2>3. QED
      BY <1>1, <2>1, <2>2, Submitted
  <1>5. CASE Close
    BY <1>1, <1>2, <1>5 DEF Close
  <1>6. CASE Poll
    BY <1>1, <1>2, <1>6 DEF Poll, channel
  <1>7. CASE Take
    BY <1>1, <1>2, <1>7 DEF Take, channel
  <1>8. CASE Ask
    BY <1>1, <1>2, <1>8 DEF Ask, channel
  <1>9. CASE \E mate \in Mate : MateAsks(mate)
    BY <1>1, <1>2, <1>9 DEF MateAsks, channel
  <1>10. CASE \E mate \in Mate : MateDropped(mate)
    BY <1>1, <1>2, <1>10 DEF MateDropped, channel
  <1>11. CASE TurnReturns
    BY <1>1, <1>2, <1>11 DEF TurnReturns, LeaveTurn, channel
  <1>12. CASE TurnFails
    BY <1>1, <1>2, <1>12 DEF TurnFails, LeaveTurn, channel
  <1>13. CASE \E sub \in ToSet(queue) \cup ToSet(inbox) : Between(sub)
    <2>1. PICK sub : Between(sub)
      BY <1>13
    <2>2. /\ NextSubmission(sub) /\ UNCHANGED sent
          /\ handled' = IF sub.kind \in {"input", "empty", "other"} THEN sub.n ELSE handled
      BY <2>1 DEF Between, channel
    <2>3. turn = 0
      BY <2>1 DEF IInv, LoopInv, Between
    <2>4. turn' \in {0, handled'}
      BY <2>1, <2>2, <2>3 DEF Between, StartTurn
    <2>5. /\ OrderInv' /\ inbox' \in Seq(Submission) /\ queue' \in Seq(Submission)
          /\ sub \in Submission /\ handled' >= handled
      BY <1>1, <2>2, <2>4, TakesTheNext
    <2>6. handled' \in 0 .. MaxSubmissions
      BY <1>1, <2>2, <2>5 DEF Submission
    <2>7. QED
      BY <1>1, <2>2, <2>5, <2>6
  <1>14. CASE LoopEnds
    BY <1>1, <1>2, <1>14 DEF LoopEnds, channel
  <1>15. CASE AnswerDuring
    BY <1>1, <1>3, <1>15 DEF AnswerDuring, During, channel
  <1>16. CASE SteerDuring
    BY <1>1, <1>3, <1>16 DEF SteerDuring, During, channel
  <1>17. CASE StopDuring
    BY <1>1, <1>3, <1>17 DEF StopDuring, During, LeaveTurn, channel
  <1>18. CASE DeferDuring
    BY <1>1, <1>3, <1>18 DEF DeferDuring, During, Defer, channel
  <1>19. CASE ClosedDuring
    BY <1>1, <1>2, <1>19 DEF ClosedDuring, LeaveTurn, channel
  <1>20. CASE UNCHANGED vars
    BY <1>1, <1>2, <1>20 DEF vars
  <1>21. QED
    BY <1>4, <1>5, <1>6, <1>7, <1>8, <1>9, <1>10, <1>11, <1>12, <1>13, <1>14, <1>15, <1>16,
       <1>17, <1>18, <1>19, <1>20 DEF Next, LoopStep

TurnTypes ==
  /\ closed \in BOOLEAN /\ loop \in {"between", "turn", "ended"}
  /\ turn \in 0 .. MaxSubmissions /\ active \in {0, turn} /\ polled \in BOOLEAN
  /\ inputs \in Seq(1 .. MaxSubmissions)
  /\ accepted \subseteq 1 .. MaxSubmissions /\ taken \subseteq accepted

\* The turn that runs, and the steering it was given.
LEMMA NextTurn ==
  ASSUME IInv, [Next]_vars
  PROVE  TurnTypes' /\ LoopInv' /\ SteeringKept'
  <1>1. /\ TurnTypes /\ LoopInv /\ SteeringKept /\ MaxSubmissions \in Nat
        /\ inbox \in Seq(Submission) /\ inputs \in Seq(1 .. MaxSubmissions)
    BY LoopConstantsOK DEF IInv, TypeOK, TurnTypes, LoopConstantsOK
  <1>2. inputs' = <<>> /\ accepted' = taken' => SteeringKept'
    BY DEF SteeringKept, ToSet
  <1>3. ASSUME UNCHANGED <<closed, loop, turn, polled, active, inputs, accepted, taken>>
        PROVE  TurnTypes' /\ LoopInv' /\ SteeringKept'
    BY <1>1, <1>3 DEF TurnTypes, LoopInv, SteeringKept
  <1>4. ASSUME LeaveTurn, UNCHANGED closed
        PROVE  TurnTypes' /\ LoopInv' /\ SteeringKept'
    <2>1. /\ loop' = "between" /\ turn' = 0 /\ polled' = FALSE /\ active' = 0
          /\ inputs' = <<>> /\ accepted' = {} /\ taken' = {} /\ UNCHANGED closed
      BY <1>4 DEF LeaveTurn, EndTurn
    <2>2. TurnTypes'
      <3>1. /\ loop' \in {"between", "turn", "ended"}
            /\ turn' \in 0 .. MaxSubmissions /\ active' \in {0, turn'}
        BY <1>1, <2>1
      <3>2. closed' \in BOOLEAN /\ polled' \in BOOLEAN
        BY <1>1, <2>1, Zenon DEF TurnTypes
      <3>3. inputs' \in Seq(1 .. MaxSubmissions)
        BY <2>1, EmptyIsSequence
      <3>4. accepted' \subseteq 1 .. MaxSubmissions /\ taken' \subseteq accepted'
        BY <2>1
      <3>5. QED
        BY <3>1, <3>3, <3>4, <3>2 DEF TurnTypes
    <2>3. QED
      BY <1>2, <2>1, <2>2 DEF LoopInv
  <1>5. CASE \E s \in Sayable : Submit(s[1], s[2])
    BY <1>3, <1>5 DEF Submit, activeTurn
  <1>6. CASE Close
    <2>1. closed' \in BOOLEAN /\ UNCHANGED <<loop, turn, polled, active, inputs, accepted, taken>>
      BY <1>6 DEF Close, activeTurn
    <2>2. QED
      BY <1>1, <2>1 DEF TurnTypes, LoopInv, SteeringKept
  <1>7. CASE Poll
    <2>1. active = turn /\ loop = "turn"
      BY <1>1, <1>7 DEF Poll, LoopInv
    <2>2. UNCHANGED <<closed, loop, turn, active, inputs, accepted, taken>> /\ polled' = TRUE
      BY <1>7, <2>1 DEF Poll, BeginTurn, channel
    <2>3. QED
      BY <1>1, <2>2 DEF TurnTypes, LoopInv, SteeringKept
  <1>8. CASE Take
    <2>1. /\ taken' = taken \cup {inputs[i] : i \in DOMAIN inputs} /\ inputs' = <<>>
          /\ loop = "turn" /\ UNCHANGED <<closed, loop, turn, polled, active, accepted>>
      BY <1>8 DEF Take, channel
    <2>2. taken' = taken \cup ToSet(inputs)
      BY <2>1 DEF ToSet
    <2>3. taken' = accepted
      BY <1>1, <2>2 DEF SteeringKept
    <2>4. QED
      BY <1>1, <1>2, <2>1, <2>3 DEF TurnTypes, LoopInv, SteeringKept
  <1>9. CASE Ask
    BY <1>3, <1>9 DEF Ask, activeTurn, channel
  <1>10. CASE \E mate \in Mate : MateAsks(mate)
    BY <1>3, <1>10 DEF MateAsks, activeTurn, channel
  <1>11. CASE \E mate \in Mate : MateDropped(mate)
    BY <1>3, <1>11 DEF MateDropped, activeTurn, channel
  <1>12. CASE TurnReturns
    BY <1>4, <1>12 DEF TurnReturns, channel
  <1>13. CASE TurnFails
    BY <1>4, <1>13 DEF TurnFails, channel
  <1>14. CASE \E sub \in ToSet(queue) \cup ToSet(inbox) : Between(sub)
    <2>1. PICK sub : Between(sub)
      BY <1>14
    <2>2. loop = "between" /\ UNCHANGED closed
      BY <2>1 DEF Between, channel
    <2>3. turn = 0 /\ active = 0 /\ inputs = <<>> /\ accepted = {} /\ taken = {}
      BY <1>1, <2>2 DEF LoopInv
    <2>4. CASE sub.kind = "input"
      <3>1. StartTurn(sub)
        BY <2>1, <2>4 DEF Between
      <3>2. sub \in Submission
        <4>1. /\ NextSubmission(sub) /\ UNCHANGED sent /\ turn' \in {0, handled'}
              /\ handled' = IF sub.kind \in {"input", "empty", "other"} THEN sub.n ELSE handled
          BY <2>1, <2>4, <3>1 DEF Between, StartTurn, channel
        <4>2. QED
          BY <4>1, TakesTheNext DEF IInv
      <3>3. sub.n \in 1 .. MaxSubmissions
        BY <3>2 DEF Submission
      <3>4. active' = sub.n /\ inputs' = <<>> /\ turn' = sub.n
        BY <1>1, <2>3, <3>1, <3>3 DEF StartTurn, BeginTurn
      <3>5. loop' = "turn" /\ polled' = FALSE /\ UNCHANGED <<accepted, taken>>
        BY <3>1 DEF StartTurn
      <3>6. QED
        <4>1. /\ loop' \in {"between", "turn", "ended"}
              /\ turn' \in 0 .. MaxSubmissions /\ active' \in {0, turn'}
          BY <1>1, <3>3, <3>4, <3>5
        <4>2. closed' \in BOOLEAN /\ polled' \in BOOLEAN
          BY <1>1, <2>2, <3>5, Zenon DEF TurnTypes
        <4>3. inputs' \in Seq(1 .. MaxSubmissions)
          BY <3>4, EmptyIsSequence
        <4>4. accepted' = {} /\ taken' = {}
          BY <2>3, <3>5
        <4>5. QED
          BY <1>2, <3>3, <3>4, <3>5, <4>1, <4>3, <4>4, <4>2 DEF TurnTypes, LoopInv
    <2>5. CASE sub.kind = "shutdown"
      <3>1. loop' = "ended" /\ UNCHANGED <<turn, polled, active, inputs, accepted, taken>>
        BY <2>1, <2>5 DEF Between, activeTurn
      <3>2. QED
        BY <1>1, <2>2, <2>3, <3>1 DEF TurnTypes, LoopInv, SteeringKept
    <2>6. CASE sub.kind \notin {"input", "shutdown"}
      BY <1>3, <2>1, <2>2, <2>6 DEF Between, activeTurn
    <2>7. QED
      BY <2>4, <2>5, <2>6
  <1>15. CASE LoopEnds
    <2>1. /\ loop = "between" /\ loop' = "ended"
          /\ UNCHANGED <<closed, turn, polled, active, inputs, accepted, taken>>
      BY <1>15 DEF LoopEnds, activeTurn, channel
    <2>2. QED
      BY <1>1, <2>1 DEF TurnTypes, LoopInv, SteeringKept
  <1>16. CASE AnswerDuring
    BY <1>3, <1>16 DEF AnswerDuring, activeTurn, channel
  <1>17. CASE SteerDuring
    <2>1. loop = "turn" /\ inbox # <<>>
          /\ UNCHANGED <<closed, loop, turn, polled, active, taken>>
      BY <1>17 DEF SteerDuring, During, channel
    <2>2. CASE active # 0 /\ Head(inbox).about \in {0, active}
      <3>1. inputs' = Append(inputs, Head(inbox).n) /\ accepted' = accepted \cup {Head(inbox).n}
        BY <1>17, <2>2 DEF SteerDuring
      <3>2. Head(inbox).n \in 1 .. MaxSubmissions
        <4>1. Head(inbox) \in Submission
          BY <1>1, <2>1, TailOfSequence
        <4>2. QED
          BY <4>1 DEF Submission
      <3>3. ASSUME NEW n \in 1 .. MaxSubmissions
            PROVE  /\ Append(inputs, n) \in Seq(1 .. MaxSubmissions)
                   /\ ToSet(Append(inputs, n)) = ToSet(inputs) \cup {n}
        BY <1>1, AppendToSequence, ElementsOfAppend
      <3>4. /\ inputs' \in Seq(1 .. MaxSubmissions)
            /\ ToSet(inputs') = ToSet(inputs) \cup {Head(inbox).n}
        BY <3>1, <3>2, <3>3, Zenon
      <3> DEFINE n == Head(inbox).n
      <3>5. n \in 1 .. MaxSubmissions /\ accepted' = accepted \cup {n}
            /\ ToSet(inputs') = ToSet(inputs) \cup {n}
        BY <3>1, <3>2, <3>4
      <3> HIDE DEF n
      <3>6. SteeringKept'
        <4>1. ToSet(inputs)' = ToSet(inputs')
          BY DEF ToSet
        <4>2. QED
          BY <1>1, <2>1, <3>5, <4>1, Zenon DEF SteeringKept
      <3>7. QED
        BY <1>1, <2>1, <3>4, <3>5, <3>6 DEF TurnTypes, LoopInv
    <2>3. CASE ~(active # 0 /\ Head(inbox).about \in {0, active})
      <3>1. UNCHANGED <<inputs, accepted>>
        BY <1>17, <2>3 DEF SteerDuring
      <3>2. QED
        BY <1>3, <2>1, <3>1
    <2>4. QED
      BY <2>2, <2>3
  <1>18. CASE StopDuring
    BY <1>4, <1>18 DEF StopDuring, channel
  <1>19. CASE DeferDuring
    BY <1>3, <1>19 DEF DeferDuring, activeTurn, channel
  <1>20. CASE ClosedDuring
    BY <1>4, <1>20 DEF ClosedDuring, channel
  <1>21. CASE UNCHANGED vars
    BY <1>3, <1>21 DEF vars
  <1>22. QED
    BY <1>5, <1>6, <1>7, <1>8, <1>9, <1>10, <1>11, <1>12, <1>13, <1>14, <1>15, <1>16, <1>17,
       <1>18, <1>19, <1>20, <1>21 DEF Next, LoopStep

TableTypes ==
  /\ requests \in Seq(Request) /\ said \subseteq DOMAIN requests
  /\ pending \subseteq DOMAIN requests
  /\ byTurn \subseteq (0 .. MaxSubmissions) \X RequestKey

\* An answer that has settled nothing finds its request unanswered, unless it has a number.
LEMMA OnlyItsOwn ==
  ASSUME AnswersTheQuestion, NEW q \in DOMAIN requests, IsUnused(q)
  PROVE  requests[q].key[2] # "numbered" => requests[q].state # "answered"
  BY DEF AnswersTheQuestion, IsUnused

\* The requests of the sessions and what is pending of them.
LEMMA NextTables ==
  ASSUME IInv, [Next]_vars
  PROVE  TableTypes' /\ TableInv'
  <1>1. /\ TypeOK /\ LoopInv /\ OrderInv /\ TableInv /\ TableTypes
        /\ MaxSubmissions \in Nat /\ turn \in 0 .. MaxSubmissions /\ handled \in Nat
        /\ turn \in {0, handled} /\ Len(requests) \in Nat
    BY LoopConstantsOK DEF IInv, TypeOK, TableTypes, OrderInv, LoopConstantsOK
  <1>2. /\ OrderInv' /\ handled' >= handled /\ handled' \in Nat
    BY NextOrder, LoopConstantsOK DEF LoopConstantsOK
  <1>3. ASSUME UNCHANGED <<said, tables>>,
               turn' = turn \/ (turn = 0 /\ turn' > handled /\ turn' \in Nat)
        PROVE  TableTypes' /\ TableInv'
    <2>1. TableInv'
      BY <1>1, <1>2, <1>3, UnchangedTables
    <2>2. TableTypes'
      BY <1>1, <1>3 DEF TableTypes, tables
    <2>3. QED
      BY <2>1, <2>2
  <1>4. ASSUME LeaveTurn, loop = "turn", UNCHANGED <<said, handled>>
        PROVE  TableTypes' /\ TableInv'
    <2>1. /\ TableInv' /\ pending' \subseteq pending /\ byTurn' = {}
          /\ requests' \in Seq(Request) /\ DOMAIN requests' = DOMAIN requests
      BY <1>1, <1>4, LeftTables DEF Settles
    <2>2. QED
      BY <1>1, <1>4, <2>1 DEF TableTypes
  <1>5. ASSUME NEW sub, Answered(sub), sub.kind = "answer", UNCHANGED <<said, turn, handled>>,
               \E i \in DOMAIN inbox : inbox[i] = sub
        PROVE  TableTypes' /\ TableInv'
    <2>1. /\ sub.about \in DOMAIN requests
          /\ requests[sub.about].key[2] # "numbered" => requests[sub.about].state # "answered"
      BY <1>1, <1>5, OnlyItsOwn DEF TableTypes, IInv, AnswerInv
    <2>2. /\ TableInv' /\ pending' \subseteq pending /\ byTurn' \subseteq byTurn
          /\ requests' \in Seq(Request) /\ DOMAIN requests' = DOMAIN requests
      BY <1>1, <1>5, <2>1, AnsweredTables
    <2>3. QED
      BY <1>1, <1>5, <2>2 DEF TableTypes
  <1>6. inbox # <<>> => \E i \in DOMAIN inbox : inbox[i] = Head(inbox)
    <2>1. inbox \in Seq(Submission)
      BY <1>1 DEF TypeOK
    <2>2. inbox # <<>> => 1 \in DOMAIN inbox /\ inbox[1] = Head(inbox)
      BY <2>1, TailOfSequence
    <2>3. QED
      BY <2>2
  <1>7. CASE \E s \in Sayable : Submit(s[1], s[2])
    <2>1. PICK s \in Sayable : Submit(s[1], s[2])
      BY <1>7
    <2>2. /\ UNCHANGED tables /\ UNCHANGED turn
          /\ said' = IF s[1] = "answer" THEN said \cup {s[2]} ELSE said
      BY <2>1 DEF Submit
    <2>3. s[1] = "answer" => s[2] \in DOMAIN requests
      BY DEF Sayable
    <2>4. TableInv'
      BY <1>1, <1>2, <2>2, UnchangedTables
    <2>5. QED
      BY <1>1, <2>2, <2>3, <2>4 DEF TableTypes, tables
  <1>8. CASE Close
    BY <1>3, <1>8 DEF Close
  <1>9. CASE Poll
    BY <1>3, <1>9 DEF Poll
  <1>10. CASE Take
    BY <1>3, <1>10 DEF Take
  <1>11. ASSUME NEW session \in Session, NEW key, NEW n \in 0 .. MaxSubmissions,
                key \in CallKeys(session) \/ (session = "root" /\ key \in QuestionKeys),
                session = "root" => n = turn /\ n \in 1 .. handled,
                Len(requests) < MaxRequests, AddRequest(session, n, key),
                UNCHANGED <<said, turn, handled>>
         PROVE  TableTypes' /\ TableInv'
    <2>1. /\ key \in RequestKey
          /\ key[2] = "approval" => key[1] = Len(requests) + 1
          /\ key[2] = "question" => session = "root" /\ key[1] = turn
          /\ \A r \in RequestsOf(session) : Waiting(r) => requests[r].key # key
      BY <1>1, <1>11, NewKeyIsFree
    <2>2. /\ TableInv' /\ requests' \in Seq(Request) /\ pending' \subseteq DOMAIN requests'
          /\ DOMAIN requests \subseteq DOMAIN requests'
          /\ byTurn' \subseteq byTurn \cup {<<n, key>>}
      BY <1>1, <1>11, <2>1, AddedTables
    <2>3. QED
      BY <1>1, <1>11, <2>1, <2>2 DEF TableTypes
  <1>12. CASE Ask
    <2>1. /\ loop = "turn" /\ Len(requests) < MaxRequests /\ UNCHANGED <<said, turn, handled>>
          /\ \E key \in CallKeys("root") \cup QuestionKeys : AddRequest("root", turn, key)
      BY <1>12 DEF Ask
    <2>2. turn \in 1 .. handled /\ "root" \in Session
      BY <1>1, <2>1 DEF LoopInv, Session
    <2>3. PICK key \in CallKeys("root") \cup QuestionKeys : AddRequest("root", turn, key)
      BY <2>1
    <2>4. QED
      BY <1>1, <1>11, <2>1, <2>2, <2>3
  <1>13. CASE \E mate \in Mate : MateAsks(mate) \/ MateDropped(mate)
    <2>1. PICK mate \in Mate : MateAsks(mate) \/ MateDropped(mate)
      BY <1>13
    <2>2. mate \in Session /\ mate # "root" /\ 0 \in 0 .. MaxSubmissions
      BY <1>1, LoopConstantsOK DEF Session, LoopConstantsOK
    <2>3. CASE MateAsks(mate)
      <3>1. /\ Len(requests) < MaxRequests /\ UNCHANGED <<said, turn, handled>>
            /\ \E key \in CallKeys(mate) : AddRequest(mate, 0, key)
        BY <2>3 DEF MateAsks
      <3>2. PICK key \in CallKeys(mate) : AddRequest(mate, 0, key)
        BY <3>1
      <3>3. QED
        BY <1>11, <2>2, <3>1, <3>2
    <2>4. CASE MateDropped(mate)
      <3>1. UNCHANGED <<said, turn, handled, pending, byTurn>>
        BY <2>4 DEF MateDropped
      <3>2. TableInv' /\ requests' \in Seq(Request) /\ DOMAIN requests' = DOMAIN requests
        BY <1>1, <2>4, <3>1, MateDroppedTables DEF Settles
      <3>3. QED
        BY <1>1, <3>1, <3>2 DEF TableTypes
    <2>5. QED
      BY <2>1, <2>3, <2>4
  <1>14. CASE TurnReturns
    BY <1>4, <1>14 DEF TurnReturns
  <1>15. CASE TurnFails
    BY <1>4, <1>15 DEF TurnFails
  <1>16. CASE \E sub \in ToSet(queue) \cup ToSet(inbox) : Between(sub)
    <2>1. PICK sub : Between(sub)
      BY <1>16
    <2>2. /\ loop = "between" /\ NextSubmission(sub) /\ UNCHANGED sent
          /\ handled' = IF sub.kind \in {"input", "empty", "other"} THEN sub.n ELSE handled
      BY <2>1 DEF Between, channel
    <2>3. turn = 0
      BY <1>1, <2>2 DEF LoopInv
    <2>4. turn' \in {0, handled'}
      BY <2>1, <2>2, <2>3 DEF Between, StartTurn
    <2>5. /\ sub \in Submission /\ sub.n > handled
          /\ \/ sub.kind # "answer"
             \/ inbox # <<>> /\ sub = Head(inbox)
      BY <1>1, <2>2, <2>4, TakesTheNext
    <2>6. CASE sub.kind = "input"
      <3>1. UNCHANGED <<said, tables>> /\ turn' = sub.n
        BY <2>1, <2>6 DEF Between, StartTurn
      <3>2. sub.n \in Nat
        BY <2>5 DEF Submission
      <3>3. QED
        BY <1>3, <2>3, <2>5, <3>1, <3>2
    <2>7. CASE sub.kind = "answer"
      <3>1. Answered(sub) /\ UNCHANGED <<said, turn, handled>>
        BY <2>1, <2>2, <2>7 DEF Between
      <3>2. QED
        BY <1>5, <1>6, <2>5, <2>7, <3>1
    <2>8. CASE sub.kind \notin {"input", "answer"}
      BY <1>3, <2>1, <2>8 DEF Between
    <2>9. QED
      BY <2>6, <2>7, <2>8
  <1>17. CASE LoopEnds
    BY <1>3, <1>17 DEF LoopEnds
  <1>18. CASE AnswerDuring
    <2>1. /\ inbox # <<>> /\ Head(inbox).kind = "answer" /\ Answered(Head(inbox))
          /\ UNCHANGED <<said, turn, handled>>
      BY <1>18 DEF AnswerDuring, During
    <2>2. QED
      BY <1>5, <1>6, <2>1
  <1>19. CASE SteerDuring
    BY <1>3, <1>19 DEF SteerDuring
  <1>20. CASE StopDuring
    BY <1>4, <1>20 DEF StopDuring, During
  <1>21. CASE DeferDuring
    BY <1>3, <1>21 DEF DeferDuring
  <1>22. CASE ClosedDuring
    BY <1>4, <1>22 DEF ClosedDuring
  <1>23. CASE UNCHANGED vars
    BY <1>3, <1>23 DEF vars, tables
  <1>24. QED
    BY <1>7, <1>8, <1>9, <1>10, <1>11, <1>12, <1>13, <1>14, <1>15, <1>16, <1>17, <1>18, <1>19,
       <1>20, <1>21, <1>22, <1>23 DEF Next, LoopStep

\* No request is answered by the step, and none comes to wait that did not.
AnswersKept ==
  /\ DOMAIN requests \subseteq DOMAIN requests'
  /\ \A r \in DOMAIN requests :
       /\ requests'[r].session = requests[r].session /\ requests'[r].key = requests[r].key
       /\ requests'[r].state = "waiting" => requests[r].state = "waiting"
       /\ requests[r].state = "answered" => requests'[r] = requests[r]
  /\ \A r \in DOMAIN requests' :
       requests'[r].state = "answered" => r \in DOMAIN requests /\ requests[r].state = "answered"

LEMMA DroppingKeepsAnswers ==
  ASSUME NEW changed, Settles(changed, "dropped", 0), \A r \in changed : Waiting(r)
  PROVE  AnswersKept
  BY DEF Settles, AnswersKept, Waiting

LEMMA AddingKeepsAnswers ==
  ASSUME requests' \in Seq(Request), DOMAIN requests \subseteq DOMAIN requests',
         \A r \in DOMAIN requests : requests'[r] = requests[r],
         \A r \in DOMAIN requests' \ DOMAIN requests : requests'[r].state = "waiting"
  PROVE  AnswersKept
  BY DEF AnswersKept, Waiting

\* What AnswersTheQuestion says of one answered request.
Matched(made, r) ==
  LET asked == made[r].answer
  IN /\ asked \in DOMAIN made
     /\ \/ asked = r
        \/ /\ made[asked].key = made[r].key /\ made[r].key[2] = "numbered"
           /\ made[asked].state = "waiting" =>
                made[asked].session \notin {"root", made[r].session}
     /\ \A q \in DOMAIN made : made[q].state = "answered" /\ made[q].answer = asked => q = r

LEMMA AllMatched ==
  /\ AnswersTheQuestion <=>
       \A r \in DOMAIN requests : requests[r].state = "answered" => Matched(requests, r)
  /\ AnswersTheQuestion' <=>
       \A r \in DOMAIN requests' : requests'[r].state = "answered" => Matched(requests', r)
  BY DEF AnswersTheQuestion, Matched, Waiting

LEMMA AnswersHold ==
  ASSUME AnswersTheQuestion, AnswersKept
  PROVE  AnswersTheQuestion'
  <1>1. ASSUME NEW r \in DOMAIN requests', requests'[r].state = "answered"
        PROVE  /\ r \in DOMAIN requests /\ requests[r].state = "answered"
               /\ requests'[r] = requests[r]
    BY <1>1 DEF AnswersKept
  <1>2. ASSUME NEW r \in DOMAIN requests', requests'[r].state = "answered"
        PROVE  Matched(requests', r)
    <2>1. PICK asked : asked = requests[r].answer
      OBVIOUS
    <2>2. /\ requests'[r] = requests[r]
          /\ asked \in DOMAIN requests
          /\ \/ asked = r
             \/ /\ requests[asked].key = requests[r].key /\ requests[r].key[2] = "numbered"
                /\ requests[asked].state = "waiting" =>
                     requests[asked].session \notin {"root", requests[r].session}
          /\ \A q \in DOMAIN requests :
               requests[q].state = "answered" /\ requests[q].answer = asked => q = r
      BY <1>1, <1>2, <2>1, AllMatched DEF Matched
    <2>3. /\ asked \in DOMAIN requests'
          /\ requests'[asked].session = requests[asked].session
          /\ requests'[asked].key = requests[asked].key
          /\ requests'[asked].state = "waiting" => requests[asked].state = "waiting"
      BY <2>2 DEF AnswersKept
    <2>4. \A q \in DOMAIN requests' :
            requests'[q].state = "answered" /\ requests'[q].answer = asked => q = r
      BY <1>1, <2>2
    <2>5. requests'[r].answer = asked
      BY <2>1, <2>2
    <2>6. QED
      BY <2>2, <2>3, <2>4, <2>5 DEF Matched
  <1>3. QED
    BY <1>2, AllMatched

\* The answer that an operation uses settles its request, or one that it is mistaken for.
LEMMA AnswersMatch ==
  ASSUME AnswersTheQuestion, NEW asked \in DOMAIN requests, IsUnused(asked),
         NEW changed, Takes(changed, asked), Settles(changed, "answered", asked)
  PROVE  AnswersTheQuestion'
  <1>1. /\ DOMAIN requests' = DOMAIN requests
        /\ \A r \in DOMAIN requests :
             /\ requests'[r].session = requests[r].session /\ requests'[r].key = requests[r].key
             /\ requests'[r].state = "waiting" => requests[r].state = "waiting"
             /\ r \notin changed => requests'[r] = requests[r]
             /\ r \in changed => requests'[r].answer = asked /\ requests'[r].state = "answered"
    BY DEF Settles
  <1>2. ASSUME NEW r \in DOMAIN requests, requests'[r].state = "answered", r \in changed
        PROVE  Matched(requests', r)
    <2>1. requests[r].key = requests[asked].key
      BY <1>2 DEF Takes
    <2>2. \/ asked = r
          \/ /\ requests[asked].key[2] = "numbered"
             /\ requests[asked].state = "waiting" =>
                  requests[asked].session \notin {"root", requests[r].session}
      BY <1>2 DEF Takes, Waiting
    <2>3. ASSUME NEW q \in DOMAIN requests, requests'[q].state = "answered",
                 requests'[q].answer = asked
          PROVE  q = r
      <3>1. q \in changed
        BY <1>1, <2>3 DEF IsUnused
      <3>2. QED
        BY <1>2, <3>1 DEF Takes
    <2>4. QED
      BY <1>1, <1>2, <2>1, <2>2, <2>3 DEF Matched
  <1>3. ASSUME NEW r \in DOMAIN requests, requests'[r].state = "answered", r \notin changed
        PROVE  Matched(requests', r)
    <2>1. PICK q : q = requests[r].answer
      OBVIOUS
    <2>2. requests'[r] = requests[r] /\ requests[r].state = "answered" /\ q # asked
      BY <1>1, <1>3, <2>1 DEF IsUnused
    <2>3. /\ q \in DOMAIN requests
          /\ \/ q = r
             \/ /\ requests[q].key = requests[r].key /\ requests[r].key[2] = "numbered"
                /\ requests[q].state = "waiting" =>
                     requests[q].session \notin {"root", requests[r].session}
          /\ \A other \in DOMAIN requests :
               requests[other].state = "answered" /\ requests[other].answer = q => other = r
      BY <2>1, <2>2, AllMatched DEF Matched
    <2>4. \A other \in DOMAIN requests' :
            requests'[other].state = "answered" /\ requests'[other].answer = q => other = r
      BY <1>1, <2>2, <2>3
    <2>5. requests'[r].answer = q
      BY <2>1, <2>2
    <2>6. QED
      BY <1>1, <2>2, <2>3, <2>4, <2>5 DEF Matched
  <1>4. QED
    BY <1>1, <1>2, <1>3, AllMatched

LEMMA AnswersStay ==
  ASSUME AnswerInv, UNCHANGED <<inbox, said>>, AnswersKept
  PROVE  AnswerInv'
  <1>1. ASSUME NEW r \in DOMAIN requests', requests'[r].state = "answered"
        PROVE  /\ r \in DOMAIN requests /\ requests[r].state = "answered"
               /\ requests'[r] = requests[r]
    BY <1>1 DEF AnswersKept
  <1>2. QED
    BY <1>1 DEF AnswerInv, IsUnused

\* The answer that is taken out of the channel is the only one to its request.
LEMMA AnswerTaken ==
  ASSUME TypeOK, AnswerInv, inbox # <<>>, inbox' = Tail(inbox), UNCHANGED said,
         \A r \in DOMAIN requests' :
           requests'[r].state = "answered" =>
             \/ /\ r \in DOMAIN requests /\ requests[r].state = "answered"
                /\ requests'[r].answer = requests[r].answer
             \/ Head(inbox).kind = "answer" /\ Head(inbox).about = requests'[r].answer
  PROVE  AnswerInv'
  <1>1. /\ inbox \in Seq(Submission) /\ DOMAIN inbox = 1 .. Len(inbox) /\ Len(inbox) \in Nat
    BY DEF TypeOK
  <1>2. /\ DOMAIN inbox' = 1 .. Len(inbox) - 1
        /\ \A i \in DOMAIN inbox' : inbox'[i] = inbox[i + 1]
        /\ Head(inbox) = inbox[1] /\ Len(inbox) \in Nat \ {0}
    BY <1>1, TailOfSequence
  <1>3. ASSUME NEW i \in DOMAIN inbox', inbox'[i].kind = "answer"
        PROVE  /\ inbox'[i].about \in said
               /\ \A r \in DOMAIN requests' :
                    requests'[r].state = "answered" => requests'[r].answer # inbox'[i].about
               /\ \A j \in DOMAIN inbox' :
                    inbox'[j].kind = "answer" /\ inbox'[j].about = inbox'[i].about => i = j
    <2>1. i + 1 \in DOMAIN inbox /\ inbox'[i] = inbox[i + 1] /\ 1 \in DOMAIN inbox /\ i + 1 # 1
          /\ i \in Nat
      BY <1>1, <1>2
    <2>2. inbox[i + 1].about \in said /\ IsUnused(inbox[i + 1].about)
      BY <1>3, <2>1 DEF AnswerInv
    <2>3. ~(inbox[1].kind = "answer" /\ inbox[1].about = inbox[i + 1].about)
      BY <1>3, <2>1 DEF AnswerInv
    <2>4. \A r \in DOMAIN requests' :
            requests'[r].state = "answered" => requests'[r].answer # inbox[i + 1].about
      BY <1>2, <2>2, <2>3 DEF IsUnused
    <2>5. ASSUME NEW j \in DOMAIN inbox', inbox'[j].kind = "answer",
                 inbox'[j].about = inbox'[i].about
          PROVE  i = j
      <3>1. j + 1 \in DOMAIN inbox /\ inbox'[j] = inbox[j + 1] /\ j \in Nat
        BY <1>1, <1>2
      <3>2. j + 1 = i + 1
        BY <1>3, <2>1, <2>5, <3>1 DEF AnswerInv
      <3>3. QED
        BY <2>1, <3>1, <3>2
    <2>6. QED
      BY <2>1, <2>2, <2>4, <2>5
  <1>4. ASSUME NEW r \in DOMAIN requests', requests'[r].state = "answered"
        PROVE  requests'[r].answer \in said
    BY <1>1, <1>2, <1>4 DEF AnswerInv
  <1>5. QED
    BY <1>2, <1>3, <1>4 DEF AnswerInv, IsUnused

\* Answers on their way, and what they settle.
LEMMA NextAnswers ==
  ASSUME IInv, [Next]_vars
  PROVE  AnswerInv' /\ AnswersTheQuestion'
  <1>1. /\ TypeOK /\ LoopInv /\ OrderInv /\ TableInv /\ AnswerInv /\ AnswersTheQuestion
        /\ inbox \in Seq(Submission) /\ turn \in {0, handled}
        /\ said \subseteq DOMAIN requests
    BY DEF IInv, TypeOK, OrderInv
  <1>2. ASSUME AnswersKept, UNCHANGED said,
               UNCHANGED inbox \/ (inbox # <<>> /\ inbox' = Tail(inbox))
        PROVE  AnswerInv' /\ AnswersTheQuestion'
    <2>1. \A r \in DOMAIN requests' :
            requests'[r].state = "answered" =>
              /\ r \in DOMAIN requests /\ requests[r].state = "answered"
              /\ requests'[r].answer = requests[r].answer
      BY <1>2 DEF AnswersKept
    <2>2. QED
      BY <1>1, <1>2, <2>1, AnswersStay, AnswerTaken, AnswersHold
  <1>3. UNCHANGED requests => AnswersKept
    BY DEF AnswersKept, Waiting
  <1>4. ASSUME LeaveTurn, loop = "turn", UNCHANGED <<said, handled>>,
               UNCHANGED inbox \/ (inbox # <<>> /\ inbox' = Tail(inbox))
        PROVE  AnswerInv' /\ AnswersTheQuestion'
    <2>1. Settles({r \in RequestsOf("root") : Waiting(r)}, "dropped", 0)
      BY <1>1, <1>4, LeftTables
    <2>2. AnswersKept
      BY <2>1, DroppingKeepsAnswers
    <2>3. QED
      BY <1>2, <1>4, <2>2
  <1>5. ASSUME Answered(Head(inbox)), Head(inbox).kind = "answer",
               UNCHANGED <<said, turn, handled>>, inbox # <<>>, inbox' = Tail(inbox)
        PROVE  AnswerInv' /\ AnswersTheQuestion'
    <2> DEFINE sub == Head(inbox)
    <2>1. sub = inbox[1] /\ 1 \in DOMAIN inbox
      BY <1>1, <1>5, TailOfSequence
    <2>2. sub.about \in DOMAIN requests /\ IsUnused(sub.about)
      BY <1>1, <1>5, <2>1 DEF AnswerInv
    <2>3. Answered(sub) /\ sub.kind = "answer"
      BY <1>5
    <2> HIDE DEF sub
    <2>4. requests[sub.about].key[2] # "numbered" => requests[sub.about].state # "answered"
      BY <1>1, <2>2, OnlyItsOwn
    <2>5. PICK changed : Takes(changed, sub.about) /\ Settles(changed, "answered", sub.about)
      BY <1>1, <1>5, <2>2, <2>3, <2>4, AnsweredTables
    <2>6. AnswersTheQuestion'
      BY <1>1, <2>2, <2>5, AnswersMatch
    <2>7. \A r \in DOMAIN requests' :
            requests'[r].state = "answered" =>
              \/ /\ r \in DOMAIN requests /\ requests[r].state = "answered"
                 /\ requests'[r].answer = requests[r].answer
              \/ requests'[r].answer = sub.about
      BY <2>5 DEF Settles
    <2>8. AnswerInv'
      BY <1>1, <1>5, <2>3, <2>7, AnswerTaken DEF sub
    <2>9. QED
      BY <2>6, <2>8
  <1>6. CASE \E s \in Sayable : Submit(s[1], s[2])
    <2>1. PICK s \in Sayable : Submit(s[1], s[2])
      BY <1>6
    <2> DEFINE last == Len(inbox) + 1
    <2>2. /\ DOMAIN inbox' = DOMAIN inbox \cup {last} /\ last \notin DOMAIN inbox
          /\ \A i \in DOMAIN inbox : inbox'[i] = inbox[i]
          /\ inbox'[last].kind = s[1] /\ inbox'[last].about = s[2]
      BY <1>1, <2>1, Submitted
    <2> HIDE DEF last
    <2>3. /\ UNCHANGED requests
          /\ said' = IF s[1] = "answer" THEN said \cup {s[2]} ELSE said
      BY <2>1 DEF Submit, tables
    <2>4. s[1] = "answer" => s[2] \notin said
      BY DEF Sayable
    <2>5. AnswersTheQuestion'
      BY <1>1, <1>3, <2>3, AnswersHold
    <2>6. said \subseteq said' /\ (s[1] = "answer" => s[2] \in said')
      BY <2>3
    <2>7. s[1] = "answer" => /\ IsUnused(s[2])
                             /\ \A i \in DOMAIN inbox : inbox[i].kind = "answer" =>
                                  inbox[i].about # s[2]
      BY <1>1, <2>4 DEF AnswerInv, IsUnused
    <2>8. AnswerInv'
      BY <1>1, <2>2, <2>3, <2>6, <2>7 DEF AnswerInv, IsUnused
    <2>9. QED
      BY <2>5, <2>8
  <1>7. CASE Close
    BY <1>2, <1>3, <1>7 DEF Close, tables
  <1>8. CASE Poll
    BY <1>2, <1>3, <1>8 DEF Poll, tables
  <1>9. CASE Take
    BY <1>2, <1>3, <1>9 DEF Take, tables
  <1>10. ASSUME NEW session \in Session, NEW key, NEW n \in 0 .. MaxSubmissions,
                key \in CallKeys(session) \/ (session = "root" /\ key \in QuestionKeys),
                session = "root" => n = turn /\ n \in 1 .. handled,
                Len(requests) < MaxRequests, AddRequest(session, n, key),
                UNCHANGED <<said, inbox, turn, handled>>
         PROVE  AnswerInv' /\ AnswersTheQuestion'
    <2>1. /\ key \in RequestKey
          /\ key[2] = "approval" => key[1] = Len(requests) + 1
          /\ key[2] = "question" => session = "root" /\ key[1] = turn
          /\ \A r \in RequestsOf(session) : Waiting(r) => requests[r].key # key
      BY <1>1, <1>10, NewKeyIsFree
    <2>2. /\ requests' \in Seq(Request) /\ DOMAIN requests \subseteq DOMAIN requests'
          /\ \A r \in DOMAIN requests : requests'[r] = requests[r]
          /\ \A r \in DOMAIN requests' \ DOMAIN requests : requests'[r].state = "waiting"
      BY <1>1, <1>10, <2>1, AddedTables
    <2>3. QED
      BY <1>2, <1>10, <2>2, AddingKeepsAnswers
  <1>11. CASE Ask
    <2>1. /\ loop = "turn" /\ Len(requests) < MaxRequests
          /\ UNCHANGED <<said, inbox, turn, handled>>
          /\ \E key \in CallKeys("root") \cup QuestionKeys : AddRequest("root", turn, key)
      BY <1>11 DEF Ask
    <2>2. turn \in 1 .. handled /\ "root" \in Session /\ turn \in 0 .. MaxSubmissions
      BY <1>1, <2>1, LoopConstantsOK DEF LoopInv, Session, TypeOK, LoopConstantsOK
    <2>3. PICK key \in CallKeys("root") \cup QuestionKeys : AddRequest("root", turn, key)
      BY <2>1
    <2>4. QED
      BY <1>10, <2>1, <2>2, <2>3
  <1>12. CASE \E mate \in Mate : MateAsks(mate) \/ MateDropped(mate)
    <2>1. PICK mate \in Mate : MateAsks(mate) \/ MateDropped(mate)
      BY <1>12
    <2>2. mate \in Session /\ mate # "root" /\ 0 \in 0 .. MaxSubmissions
      BY LoopConstantsOK DEF Session, LoopConstantsOK
    <2>3. CASE MateAsks(mate)
      <3>1. /\ Len(requests) < MaxRequests /\ UNCHANGED <<said, inbox, turn, handled>>
            /\ \E key \in CallKeys(mate) : AddRequest(mate, 0, key)
        BY <2>3 DEF MateAsks
      <3>2. PICK key \in CallKeys(mate) : AddRequest(mate, 0, key)
        BY <3>1
      <3>3. QED
        BY <1>10, <2>2, <3>1, <3>2
    <2>4. CASE MateDropped(mate)
      <3>1. UNCHANGED <<said, turn, handled, inbox>>
        BY <2>4 DEF MateDropped
      <3>2. Settles({r \in RequestsOf(mate) : Waiting(r)}, "dropped", 0)
        BY <1>1, <2>4, <3>1, MateDroppedTables
      <3>3. QED
        BY <1>2, <3>1, <3>2, DroppingKeepsAnswers
    <2>5. QED
      BY <2>1, <2>3, <2>4
  <1>13. CASE TurnReturns
    BY <1>4, <1>13 DEF TurnReturns
  <1>14. CASE TurnFails
    BY <1>4, <1>14 DEF TurnFails
  <1>15. CASE \E sub \in ToSet(queue) \cup ToSet(inbox) : Between(sub)
    <2>1. PICK sub : Between(sub)
      BY <1>15
    <2>2. /\ loop = "between" /\ NextSubmission(sub) /\ UNCHANGED <<said, sent>>
          /\ handled' = IF sub.kind \in {"input", "empty", "other"} THEN sub.n ELSE handled
      BY <2>1 DEF Between, channel
    <2>3. turn = 0
      BY <1>1, <2>2 DEF LoopInv
    <2>4. turn' \in {0, handled'}
      BY <2>1, <2>2, <2>3 DEF Between, StartTurn
    <2>5. \/ UNCHANGED inbox /\ sub.kind # "answer"
          \/ inbox # <<>> /\ sub = Head(inbox) /\ inbox' = Tail(inbox)
      BY <1>1, <2>2, <2>4, TakesTheNext
    <2>6. CASE sub.kind = "answer"
      <3>1. Answered(sub) /\ UNCHANGED <<turn, handled>>
        BY <2>1, <2>2, <2>6 DEF Between
      <3>2. QED
        BY <1>5, <2>2, <2>5, <2>6, <3>1
    <2>7. CASE sub.kind # "answer"
      <3>1. UNCHANGED requests
        BY <2>1, <2>7 DEF Between, StartTurn, tables
      <3>2. QED
        BY <1>2, <1>3, <2>2, <2>5, <3>1
    <2>8. QED
      BY <2>6, <2>7
  <1>16. CASE LoopEnds
    BY <1>2, <1>3, <1>16 DEF LoopEnds, tables
  <1>17. CASE AnswerDuring
    BY <1>5, <1>17 DEF AnswerDuring, During
  <1>18. CASE SteerDuring
    BY <1>2, <1>3, <1>18 DEF SteerDuring, During, tables
  <1>19. CASE StopDuring
    BY <1>4, <1>19 DEF StopDuring, During
  <1>20. CASE DeferDuring
    BY <1>2, <1>3, <1>20 DEF DeferDuring, During, tables
  <1>21. CASE ClosedDuring
    BY <1>4, <1>21 DEF ClosedDuring
  <1>22. CASE UNCHANGED vars
    BY <1>2, <1>3, <1>22 DEF vars
  <1>23. QED
    BY <1>6, <1>7, <1>8, <1>9, <1>11, <1>12, <1>13, <1>14, <1>15, <1>16, <1>17, <1>18,
       <1>19, <1>20, <1>21, <1>22 DEF Next, LoopStep

-----------------------------------------------------------------------------
(* The theorems *)

LEMMA InitInv == Init => IInv
  <1> SUFFICES ASSUME Init
               PROVE  IInv
    OBVIOUS
  <1>1. TypeOK
    <2>1. /\ sent \in 0 .. MaxSubmissions /\ turn \in 0 .. MaxSubmissions
          /\ handled \in 0 .. MaxSubmissions /\ active \in {0, turn}
          /\ loop \in {"between", "turn", "ended"}
      BY LoopConstantsOK DEF Init, LoopConstantsOK
    <2>2. /\ inbox \in Seq(Submission) /\ queue \in Seq(Submission)
          /\ inputs \in Seq(1 .. MaxSubmissions) /\ requests \in Seq(Request)
      BY EmptyIsSequence DEF Init
    <2>3. closed \in BOOLEAN /\ polled \in BOOLEAN
      BY Zenon DEF Init
    <2>4. QED
      BY <2>1, <2>2, <2>3 DEF Init, TypeOK
  <1>2. LoopInv /\ OrderInv
    BY DEF Init, LoopInv, OrderInv, InOrder
  <1>3. TableInv /\ AnswerInv /\ AnswersTheQuestion
    BY LoopConstantsOK DEF Init, TableInv, RequestInv, OnePends, PendingWaits, AnswerInv,
                           AnswersTheQuestion, LoopConstantsOK
  <1>4. SteeringKept
    BY DEF Init, SteeringKept, ToSet
  <1>5. QED
    BY <1>1, <1>2, <1>3, <1>4 DEF IInv

LEMMA NextInv == IInv /\ [Next]_vars => IInv'
  <1> SUFFICES ASSUME IInv, [Next]_vars
               PROVE  IInv'
    OBVIOUS
  <1>1. TypeOK'
    BY NextOrder, NextTurn, NextTables DEF TypeOK, TurnTypes, TableTypes
  <1>2. QED
    BY <1>1, NextOrder, NextTurn, NextTables, NextAnswers DEF IInv

\* All parts of the invariant, whatever the user submits and whenever turns end.
THEOREM LoopInvariant == Spec => []IInv
  <1>1. QED
    BY InitInv, NextInv, PTL DEF Spec

\* A request that waits can be answered, and what the root session holds pending is of
\* the turn that runs: no turn, however it ends, leaves a request behind
\* (clear_pending_approvals_for_turn, clear_pending_user_inputs_for_turn), nor takes
\* those of a teammate with it.
THEOREM LoopPending == Spec => []PendingIsWaiting
  <1>1. IInv => PendingIsWaiting
    <2> SUFFICES ASSUME IInv
                 PROVE  PendingIsWaiting
      OBVIOUS
    <2>1. TypeOK /\ PendingWaits /\ pending \subseteq DOMAIN requests
      BY DEF IInv, TypeOK, TableInv
    <2>2. QED
      BY <2>1 DEF PendingIsWaiting, PendingWaits, RequestsOf
  <1>2. QED
    BY <1>1, LoopInvariant, PTL

\* An answer settles one request at most (notify_exec_approval, notify_user_input), however
\* late it comes and whatever turns have begun and ended since: the one it was given to,
\* unless both are calls with the same number, of any number of teammates.  Such an answer
\* goes astray only if its own request waits no longer, or waits with a teammate while
\* another session has that number.
THEOREM LoopAnswers == Spec => []AnswersTheQuestion
  <1>1. IInv => AnswersTheQuestion
    BY DEF IInv
  <1>2. QED
    BY <1>1, LoopInvariant, PTL

\* Steering that steer_input accepted is with the turn or waits for it, though begin_turn
\* is called twice for a turn.
THEOREM LoopSteering == Spec => []SteeringKept
  <1>1. IInv => SteeringKept
    BY DEF IInv
  <1>2. QED
    BY <1>1, LoopInvariant, PTL

-----------------------------------------------------------------------------
(* None is passed over *)

LEMMA FirstAndRest ==
  ASSUME NEW S, NEW s \in Seq(S), s # <<>>
  PROVE  ToSet(s) = {Head(s)} \cup ToSet(Tail(s))
  <1>1. ASSUME NEW i \in DOMAIN s
        PROVE  s[i] = Head(s) \/ s[i] \in ToSet(Tail(s))
    <2>1. CASE i = 1
      BY <2>1, TailOfSequence
    <2>2. CASE i # 1
      <3>1. i - 1 \in DOMAIN Tail(s) /\ Tail(s)[i - 1] = s[i]
        BY <2>2, TailOfSequence
      <3>2. QED
        BY <3>1 DEF ToSet
    <2>3. QED
      BY <2>1, <2>2
  <1>2. 1 \in DOMAIN s /\ s[1] = Head(s)
    BY TailOfSequence
  <1>3. ASSUME NEW i \in DOMAIN Tail(s)
        PROVE  i + 1 \in DOMAIN s /\ Tail(s)[i] = s[i + 1]
    BY TailOfSequence
  <1>4. QED
    BY <1>1, <1>2, <1>3 DEF ToSet

\* A submission that takes effect between turns leaves the queue and the channel only when
\* it is handled.
LEMMA LeavesHandled ==
  ASSUME IInv, [Next]_vars, NEW s \in Outstanding, s \notin Outstanding'
  PROVE  handled' = s.n
  <1> DEFINE Held == ToSet(queue) \cup ToSet(inbox)
  <1>1. inbox \in Seq(Submission) /\ queue \in Seq(Submission)
    BY DEF IInv, TypeOK
  <1>2. s \in Held /\ s.kind \in {"input", "empty", "other"} /\ s \notin Held'
    BY DEF Outstanding
  <1>3. ~UNCHANGED <<inbox, queue>>
    BY <1>2
  <1>4. ASSUME inbox # <<>>, inbox' = Tail(inbox), UNCHANGED queue
        PROVE  s = Head(inbox)
    BY <1>1, <1>2, <1>4, FirstAndRest
  <1>5. CASE \E k \in Sayable : Submit(k[1], k[2])
    <2>1. PICK k \in Sayable : Submit(k[1], k[2])
      BY <1>5
    <2>2. /\ UNCHANGED queue /\ sent' = sent + 1
          /\ inbox' = Append(inbox, [n |-> sent + 1, kind |-> k[1], about |-> k[2]])
      BY <2>1 DEF Submit
    <2>3. ToSet(inbox) \subseteq ToSet(inbox')
      BY <1>1, <2>2, AppendContains
    <2>4. QED
      BY <1>2, <2>2, <2>3
  <1>6. CASE \E sub \in Held : Between(sub)
    <2>1. PICK sub : Between(sub)
      BY <1>6
    <2>2. /\ NextSubmission(sub)
          /\ handled' = IF sub.kind \in {"input", "empty", "other"} THEN sub.n ELSE handled
      BY <2>1 DEF Between
    <2>3. s = sub
      <3>1. CASE queue # <<>>
        <4>1. sub = Head(queue) /\ queue' = Tail(queue) /\ UNCHANGED inbox
          BY <2>2, <3>1 DEF NextSubmission
        <4>2. QED
          BY <1>1, <1>2, <3>1, <4>1, FirstAndRest
      <3>2. CASE queue = <<>>
        BY <1>4, <2>2, <3>2 DEF NextSubmission
      <3>3. QED
        BY <3>1, <3>2
    <2>4. QED
      BY <1>2, <2>2, <2>3
  <1>7. CASE AnswerDuring \/ SteerDuring \/ StopDuring
    <2>1. /\ inbox # <<>> /\ inbox' = Tail(inbox) /\ UNCHANGED queue
          /\ Head(inbox).kind \in {"answer", "steer", "interrupt", "shutdown"}
      BY <1>7 DEF AnswerDuring, SteerDuring, StopDuring, During
    <2>2. QED
      BY <1>2, <1>4, <2>1
  <1>8. CASE DeferDuring
    <2>1. inbox # <<>> /\ inbox' = Tail(inbox) /\ queue' = Append(queue, Head(inbox))
      BY <1>8 DEF DeferDuring, During, Defer
    <2>2. ToSet(queue') = ToSet(queue) \cup {Head(inbox)}
      BY <1>1, <2>1, TailOfSequence, ElementsOfAppend
    <2>3. QED
      BY <1>1, <1>2, <2>1, <2>2, FirstAndRest
  <1>9. UNCHANGED <<inbox, queue>> \/ (\E k \in Sayable : Submit(k[1], k[2]))
        \/ (\E sub \in Held : Between(sub)) \/ AnswerDuring \/ SteerDuring \/ StopDuring
        \/ DeferDuring
    BY DEF Next, LoopStep, Close, Poll, Take, Ask, MateAsks, MateDropped, TurnReturns,
       TurnFails, LoopEnds, ClosedDuring, vars
  <1>10. QED
    BY <1>3, <1>5, <1>6, <1>7, <1>8, <1>9

\* Inputs and changes of the configuration are handled in the order in which they were
\* submitted, those that wait in the queue of submission_loop before those in the channel,
\* and none of them is lost on the way.
THEOREM LoopOrder == Spec => HandledInOrder
  <1>1. ASSUME IInv, [Next]_vars
        PROVE  /\ handled' >= handled
               /\ \A s \in Outstanding \ Outstanding' :
                    handled' = s.n /\ \A t \in Outstanding' : s.n < t.n
    <2>1. OrderInv' /\ handled' >= handled /\ handled' \in Nat
      BY <1>1, NextOrder, LoopConstantsOK DEF LoopConstantsOK
    <2>2. ASSUME NEW t \in Outstanding'
          PROVE  t.n > handled'
      <3>1. (\E i \in DOMAIN queue' : t = queue'[i]) \/ (\E i \in DOMAIN inbox' : t = inbox'[i])
        BY <2>2 DEF Outstanding, ToSet
      <3>2. t.n \in handled' + 1 .. sent'
        BY <2>1, <3>1 DEF OrderInv
      <3>3. QED
        BY <2>1, <3>2
    <2>3. \A s \in Outstanding \ Outstanding' : handled' = s.n
      BY <1>1, LeavesHandled
    <2>4. QED
      BY <2>1, <2>2, <2>3
  <1>2. IInv /\ [Next]_vars =>
          [/\ handled' >= handled
           /\ \A s \in Outstanding \ Outstanding' :
                handled' = s.n /\ \A t \in Outstanding' : s.n < t.n]_vars
    BY <1>1
  <1>3. QED
    BY <1>2, LoopInvariant, PTL DEF Spec, HandledInOrder
=============================================================================

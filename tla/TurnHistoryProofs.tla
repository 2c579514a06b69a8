------------------------- MODULE TurnHistoryProofs -------------------------
(***************************************************************************)
(* What holds of the conversation of a session for any estimates, limits   *)
(* and numbers of messages, calls and retries.                             *)
(*                                                                         *)
(* The argument is one inductive invariant.  A summary at the head covers  *)
(* the first messages and the others follow with their numbers             *)
(* (Numbered), so a message is found by its number.   Results stand behind *)
(* the response that asked for them, and while a turn calls its tools, the *)
(* response and the results so far are the end of the history (DueInv).    *)
(* Hence a boundary that compute_valid_kept_boundaries finds keeps every   *)
(* response with all of its results (ValidIsClosed), which compaction and  *)
(* the choice of the window need.                                          *)
(***************************************************************************)
EXTENDS TurnHistory, FiniteSetTheorems, FunctionTheorems, SequenceTheorems,
        WellFoundedInduction, TLAPS

\* The number of summaries, all of them at the head.
Heads(h) == IF h # <<>> /\ IsSummary(h[1]) THEN 1 ELSE 0

\* The head covers messages 1 to c, and c + 1 and so on follow.
Numbered(h, c) ==
  /\ Heads(h) = 0 => c = 0
  /\ Heads(h) = 1 => h[1].covers = 1 .. c
  /\ \A i \in Heads(h) + 1 .. Len(h) : ~IsSummary(h[i]) /\ h[i].id = c + i - Heads(h)

\* A conversation whose first c messages are in the summary.
Sound(h, c) == h \in Seq(Message) /\ Numbered(h, c) /\ ResultsFollowCalls(h)

\* Every call of a response has its result behind it, but for the responses in open.
AllAnswered(h, open) ==
  \A k \in 1 .. Len(h) :
    h[k].kind = "assistant" =>
      \/ h[k].id \in open
      \/ \A c \in 1 .. h[k].calls :
           k + c <= Len(h) /\ h[k + c].kind = "tool" /\ h[k + c].call = <<h[k].id, c>>

\* The responses whose results are due or will never come.
Open == cut \cup {due[i][1] : i \in 1 .. Len(due)}

HistoryInv ==
  /\ recorded \in 0 .. MaxMessages
  /\ AllAnswered(history, Open)
  /\ \E c \in 0 .. recorded :
       Sound(history, c) /\ recorded = c + Len(history) - Heads(history)

\* Where the response stands whose results are due.
Asking == Len(history) + 1 - due[1][2]

DueInv ==
  IF phase = "calling"
  THEN /\ due # <<>> /\ Asking >= 1
       /\ history[Asking].kind = "assistant"
       /\ history[Asking].calls = due[1][2] - 1 + Len(due)
       /\ \A i \in 1 .. Len(due) : due[i] = <<history[Asking].id, due[1][2] + i - 1>>
       /\ \A i \in Asking + 1 .. Len(history) :
            history[i].kind = "tool" /\ history[i].call = <<history[Asking].id, i - Asking>>
  ELSE due = <<>>

\* No result from p on answers a call before p.
Closed(h, p) == \A j \in p .. Len(h) : h[j].kind = "tool" => j - h[j].call[2] >= p

\* Where the prompt begins in the history.
Begins(p) ==
  /\ prompt = From(history, p)
  /\ limit # NoLimit => Closed(history, p)
  /\ phase = "calling" => p <= Asking

PromptInv ==
  IF phase = "idle" THEN prompt = <<>> ELSE \E p \in 1 .. Len(history) + 1 : Begins(p)

TurnTypes ==
  /\ phase \in Phase
  /\ due \in Seq(CallId)
  /\ steering \in 0 .. MaxSteering
  /\ limit \in Limits \cup {NoLimit}
  /\ cut \subseteq 1 .. MaxMessages

RequestsInv ==
  /\ requests \in Nat /\ retries \in 0 .. MaxRetries /\ overflows \in 0 .. MaxOverflowRetries
  /\ requests <= overflows * (MaxRetries + 1) + retries + 1

IInv == TurnTypes /\ HistoryInv /\ DueInv /\ PromptInv /\ RequestsInv

-----------------------------------------------------------------------------
(* Ends of sequences *)

LEMMA FromProperties ==
  ASSUME NEW S, NEW s \in Seq(S), NEW i \in 1 .. Len(s) + 1
  PROVE  /\ From(s, i) \in Seq(S)
         /\ Len(From(s, i)) = Len(s) + 1 - i
         /\ \A j \in 1 .. Len(s) + 1 - i : From(s, i)[j] = s[i + j - 1]
  <1>1. Len(s) \in Nat /\ \A j \in i .. Len(s) : s[j] \in S
    OBVIOUS
  <1>2. i \in Int /\ Len(s) \in Int
    BY <1>1
  <1>3. /\ SubSeq(s, i, Len(s)) \in Seq(S)
        /\ Len(SubSeq(s, i, Len(s))) = IF i <= Len(s) THEN Len(s) - i + 1 ELSE 0
        /\ \A j \in 1 .. Len(s) - i + 1 : SubSeq(s, i, Len(s))[j] = s[i + j - 1]
    BY <1>1, <1>2, SubSeqProperties
  <1>4. QED
    BY <1>1, <1>3 DEF From

LEMMA FromConcat ==
  ASSUME NEW S, NEW s \in Seq(S), NEW t \in Seq(S), NEW i \in 1 .. Len(s) + 1
  PROVE  From(s \o t, i) = From(s, i) \o t
  <1>1. Len(s) \in Nat /\ Len(t) \in Nat /\ i \in Nat
    OBVIOUS
  <1>2. /\ s \o t \in Seq(S) /\ Len(s \o t) = Len(s) + Len(t)
        /\ \A j \in 1 .. Len(s) + Len(t) :
             (s \o t)[j] = IF j <= Len(s) THEN s[j] ELSE t[j - Len(s)]
    BY ConcatProperties
  <1>3. /\ From(s, i) \in Seq(S) /\ Len(From(s, i)) = Len(s) + 1 - i
        /\ \A j \in 1 .. Len(s) + 1 - i : From(s, i)[j] = s[i + j - 1]
    BY FromProperties
  <1>4. i \in 1 .. Len(s \o t) + 1
    BY <1>1, <1>2
  <1> DEFINE st == s \o t
             a == From(st, i)
             f == From(s, i)
             b == f \o t
  <1>5. /\ a \in Seq(S) /\ Len(a) = Len(s) + Len(t) + 1 - i
        /\ \A j \in 1 .. Len(s) + Len(t) + 1 - i : a[j] = st[i + j - 1]
    <2>1. st \in Seq(S) /\ i \in 1 .. Len(st) + 1 /\ Len(st) = Len(s) + Len(t)
      BY <1>2, <1>4
    <2> HIDE DEF st
    <2>2. /\ a \in Seq(S) /\ Len(a) = Len(st) + 1 - i
          /\ \A j \in 1 .. Len(st) + 1 - i : a[j] = st[i + j - 1]
      BY <2>1, FromProperties
    <2> HIDE DEF a
    <2>3. QED
      BY <2>1, <2>2
  <1>6. /\ b \in Seq(S) /\ Len(b) = Len(f) + Len(t)
        /\ \A j \in 1 .. Len(f) + Len(t) : b[j] = IF j <= Len(f) THEN f[j] ELSE t[j - Len(f)]
    <2>1. f \in Seq(S)
      BY <1>3
    <2> HIDE DEF f
    <2>2. QED
      BY <2>1, ConcatProperties
  <1>7. ASSUME NEW j \in 1 .. Len(s) + Len(t) + 1 - i
        PROVE  a[j] = b[j]
    <2>1. i + j - 1 \in 1 .. Len(s) + Len(t) /\ a[j] = st[i + j - 1] /\ j \in Nat
      BY <1>1, <1>5
    <2>2. CASE i + j - 1 <= Len(s)
      <3>1. j \in 1 .. Len(s) + 1 - i /\ a[j] = s[i + j - 1]
        BY <1>1, <1>2, <2>1, <2>2
      <3>2. b[j] = f[j] /\ f[j] = s[i + j - 1]
        BY <1>1, <1>3, <1>6, <3>1
      <3>3. QED
        BY <3>1, <3>2
    <2>3. CASE i + j - 1 > Len(s)
      <3>1. a[j] = t[i + j - 1 - Len(s)]
        BY <1>1, <1>2, <2>1, <2>3
      <3>2. b[j] = t[j - (Len(s) + 1 - i)]
        BY <1>1, <1>3, <1>6, <2>1, <2>3
      <3>3. i + j - 1 - Len(s) = j - (Len(s) + 1 - i)
        BY <1>1, <2>1
      <3>4. QED
        BY <3>1, <3>2, <3>3
    <2> HIDE DEF a, b
    <2>4. QED
      BY <1>1, <2>1, <2>2, <2>3
  <1>8. Len(a) = Len(b)
    BY <1>1, <1>3, <1>5, <1>6
  <1>9. a \in Seq(S) /\ b \in Seq(S) /\ \A j \in 1 .. Len(a) : a[j] = b[j]
    BY <1>5, <1>6, <1>7
  <1> HIDE DEF a, b
  <1>10. a = b
    BY <1>8, <1>9, SeqEqual
  <1>11. QED
    BY <1>10 DEF a, b

LEMMA FromIsSuffix ==
  ASSUME NEW S, NEW s \in Seq(S), NEW i \in 1 .. Len(s) + 1
  PROVE  IsSuffix(From(s, i), s)
  <1> DEFINE f == From(s, i)
             n == Len(s) + 1 - i
             r == Reverse(f)
             t == Reverse(s)
  <1>1. Len(s) \in Nat /\ i \in Nat /\ n \in Nat /\ n <= Len(s)
    OBVIOUS
  <1>2. f \in Seq(S) /\ Len(f) = n /\ \A j \in 1 .. n : f[j] = s[i + j - 1]
    BY FromProperties
  <1>3. /\ r \in [1 .. n -> S] /\ t \in [1 .. Len(s) -> S]
        /\ \A j \in 1 .. n : r[j] = f[n - j + 1]
        /\ \A j \in 1 .. Len(s) : t[j] = s[Len(s) - j + 1]
    <2> HIDE DEF f
    <2>1. r = [j \in 1 .. n |-> f[(n - j) + 1]]
      BY <1>2 DEF Reverse
    <2>2. t = [j \in 1 .. Len(s) |-> s[(Len(s) - j) + 1]]
      BY DEF Reverse
    <2>3. \A j \in 1 .. n : f[n - j + 1] \in S
      BY <1>1, <1>2
    <2>4. \A j \in 1 .. Len(s) : s[Len(s) - j + 1] \in S
      BY <1>1
    <2> HIDE DEF n, r, t
    <2>5. QED
      BY <2>1, <2>2, <2>3, <2>4
  <1>4. r \in Seq(S) /\ t \in Seq(S) /\ Len(r) = n /\ Len(t) = Len(s)
    <2> HIDE DEF n, r, t, f
    <2>1. QED
      BY <1>1, <1>3
  <1>5. ASSUME NEW j \in 1 .. n
        PROVE  r[j] = t[j]
    <2>1. n - j + 1 \in 1 .. n /\ j \in 1 .. Len(s) /\ i + (n - j + 1) - 1 = Len(s) - j + 1
      BY <1>1
    <2>2. r[j] = f[n - j + 1] /\ t[j] = s[Len(s) - j + 1]
      BY <1>3, <2>1
    <2>3. f[n - j + 1] = s[i + (n - j + 1) - 1]
      BY <1>2, <2>1
    <2>4. QED
      BY <2>1, <2>2, <2>3
  <1> DEFINE u == SubSeq(r, 1, n)
             v == SubSeq(t, 1, n)
  <1>6. /\ u \in Seq(S) /\ v \in Seq(S) /\ Len(u) = n /\ Len(v) = n
        /\ \A j \in 1 .. n : u[j] = r[j] /\ v[j] = t[j]
    <2>1. /\ \A j \in 1 .. n : r[j] \in S /\ t[j] \in S
          /\ n \in Int
      BY <1>1, <1>3
    <2> HIDE DEF n, r, t
    <2>2. /\ u \in Seq(S) /\ Len(u) = IF 1 <= n THEN n - 1 + 1 ELSE 0
          /\ \A j \in 1 .. n - 1 + 1 : u[j] = r[1 + j - 1]
      BY <2>1, SubSeqProperties
    <2>3. /\ v \in Seq(S) /\ Len(v) = IF 1 <= n THEN n - 1 + 1 ELSE 0
          /\ \A j \in 1 .. n - 1 + 1 : v[j] = t[1 + j - 1]
      BY <2>1, SubSeqProperties
    <2> HIDE DEF u, v
    <2>4. QED
      BY <1>1, <2>2, <2>3
  <1>7. u = v
    <2>1. \A j \in 1 .. Len(u) : u[j] = v[j]
      BY <1>5, <1>6
    <2> HIDE DEF u, v
    <2>2. QED
      BY <1>6, <2>1, SeqEqual
  <1>8. Len(r) <= Len(t) /\ SubSeq(r, 1, Len(r)) = SubSeq(t, 1, Len(r))
    BY <1>1, <1>4, <1>7
  <1>9. QED
    BY <1>8 DEF IsSuffix, IsPrefix

-----------------------------------------------------------------------------
(* Messages *)

LEMMA MessageFields ==
  ASSUME NEW m \in Message
  PROVE  /\ m.kind \in {"user", "assistant", "tool", "summary"}
         /\ m.kind # "summary" => m.id \in 1 .. MaxMessages /\ m.weight \in Weights
         /\ m.kind = "assistant" => m.calls \in 0 .. MaxCalls
         /\ m.kind = "tool" => m.call \in (1 .. MaxMessages) \X (1 .. MaxCalls)
         /\ m.kind = "summary" => m.weight = SummaryWeight /\ m.covers \subseteq 1 .. MaxMessages
         /\ m.weight \in Nat \ {0}
  <1>1. CASE m \in [kind : {"user"}, id : 1 .. MaxMessages, weight : Weights]
    BY <1>1, HistoryConstantsOK DEF HistoryConstantsOK
  <1>2. CASE m \in [kind : {"assistant"}, id : 1 .. MaxMessages, weight : Weights,
                    calls : 0 .. MaxCalls]
    BY <1>2, HistoryConstantsOK DEF HistoryConstantsOK
  <1>3. CASE m \in [kind : {"tool"}, id : 1 .. MaxMessages, weight : Weights, call : CallId]
    BY <1>3, HistoryConstantsOK DEF HistoryConstantsOK, CallId
  <1>4. CASE m \in [kind : {"summary"}, covers : SUBSET (1 .. MaxMessages),
                    weight : {SummaryWeight}]
    BY <1>4, HistoryConstantsOK DEF HistoryConstantsOK
  <1>5. QED
    BY <1>1, <1>2, <1>3, <1>4 DEF Message

LEMMA NewMessages ==
  ASSUME NEW id \in 1 .. MaxMessages, NEW w \in Weights
  PROVE  /\ [kind |-> "user", id |-> id, weight |-> w] \in Message
         /\ \A n \in 0 .. MaxCalls :
              [kind |-> "assistant", id |-> id, weight |-> w, calls |-> n] \in Message
         /\ \A call \in CallId :
              [kind |-> "tool", id |-> id, weight |-> w, call |-> call] \in Message
         /\ \A covers \in SUBSET (1 .. MaxMessages) :
              [kind |-> "summary", weight |-> SummaryWeight, covers |-> covers] \in Message
  BY DEF Message

-----------------------------------------------------------------------------
(* The tail that find_safe_tail_start_index chooses *)

LEMMA LeastNatural ==
  ASSUME NEW T, T \subseteq Nat, T # {}
  PROVE  \E x \in T : \A y \in T : x <= y
  <1>1. PICK x \in T : \A y \in T : <<y, x>> \notin OpToRel(<, Nat)
    BY NatLessThanWellFounded, WFMin, Zenon
  <1>2. \A y \in T : ~(y < x)
    BY <1>1 DEF OpToRel
  <1>3. \A y \in T : x <= y
    BY <1>2
  <1>4. QED
    BY <1>3

TokensOf(h, i) == UNION {{k} \X (1 .. h[k].weight) : k \in i .. Len(h)}

LEMMA TokensAreFinite ==
  ASSUME NEW h \in Seq(Message), NEW i \in 1 .. Len(h) + 1
  PROVE  /\ IsFiniteSet(TokensOf(h, i)) /\ TokensFrom(h, i) = Cardinality(TokensOf(h, i))
         /\ TokensFrom(h, i) \in Nat
  <1> DEFINE K == i .. Len(h)
             f == [k \in K |-> {k} \X (1 .. h[k].weight)]
             T == {{k} \X (1 .. h[k].weight) : k \in K}
  <1>1. Len(h) \in Nat /\ i \in Nat
    OBVIOUS
  <1>2. \A k \in K : h[k] \in Message
    BY <1>1
  <1>3. \A k \in K : h[k].weight \in Nat
    BY <1>2, MessageFields
  <1>4. IsFiniteSet(K)
    BY <1>1, FS_Interval
  <1>5. f \in Surjection(K, T)
    BY DEF Surjection
  <1>6. IsFiniteSet(T)
    <2> HIDE DEF f, T, K
    <2>1. QED
      BY <1>4, <1>5, FS_Surjection
  <1>7. \A k \in K : IsFiniteSet({k} \X (1 .. h[k].weight))
    <2>1. ASSUME NEW k \in K
          PROVE  IsFiniteSet({k} \X (1 .. h[k].weight))
      <3> DEFINE w == h[k].weight
      <3>1. w \in Int /\ 1 \in Int
        BY <1>3
      <3> HIDE DEF w
      <3>2. IsFiniteSet(1 .. w) /\ IsFiniteSet({k})
        BY <3>1, FS_Interval, FS_Singleton
      <3>3. IsFiniteSet({k} \X (1 .. w))
        BY <3>2, FS_Product
      <3>4. QED
        BY <3>3 DEF w
    <2>2. QED
      BY <2>1
  <1>8. \A t \in T : IsFiniteSet(t)
    BY <1>7
  <1>9. TokensOf(h, i) = UNION T /\ TokensFrom(h, i) = Cardinality(UNION T)
    BY DEF TokensOf, TokensFrom
  <1> HIDE DEF T
  <1>10. IsFiniteSet(UNION T)
    BY <1>6, <1>8, FS_UNION
  <1>11. QED
    BY <1>9, <1>10, FS_CardinalityType

\* Every message counts, so a longer tail has more tokens.
LEMMA LongerTailHasMore ==
  ASSUME NEW h \in Seq(Message), NEW i \in 1 .. Len(h) + 1, NEW j \in 1 .. Len(h) + 1, i < j
  PROVE  TokensFrom(h, i) > TokensFrom(h, j)
  <1>1. Len(h) \in Nat /\ i \in Nat /\ j \in Nat /\ i \in i .. Len(h) /\ i \notin j .. Len(h)
    OBVIOUS
  <1>2. h[i].weight \in Nat \ {0}
    <2>1. h[i] \in Message
      BY <1>1
    <2>2. QED
      BY <2>1, MessageFields
  <1>3. TokensOf(h, j) \subseteq TokensOf(h, i)
    <2>1. j .. Len(h) \subseteq i .. Len(h)
      BY <1>1
    <2>2. QED
      BY <2>1, Zenon DEF TokensOf
  <1>4. <<i, 1>> \in TokensOf(h, i)
    <2>1. 1 \in 1 .. h[i].weight
      BY <1>2
    <2>2. QED
      BY <1>1, <2>1 DEF TokensOf
  <1>5. <<i, 1>> \notin TokensOf(h, j)
    BY <1>1 DEF TokensOf
  <1>6. Cardinality(TokensOf(h, j)) <= Cardinality(TokensOf(h, i))
        /\ Cardinality(TokensOf(h, j)) # Cardinality(TokensOf(h, i))
    BY <1>3, <1>4, <1>5, TokensAreFinite, FS_Subset
  <1>7. QED
    BY <1>6, TokensAreFinite

\* There is a boundary nearer than any other.
LEMMA SafeTailIsValid ==
  ASSUME NEW h \in Seq(Message), NEW start \in 1 .. Len(h), NEW keep \in Nat,
         NEW allowStart \in BOOLEAN
  PROVE  LET first == SafeTailStart(h, start, keep, allowStart)
         IN  \/ ~allowStart /\ first = 0
             \/ allowStart /\ first = start
             \/ /\ first \in (IF allowStart THEN start ELSE start + 1) .. Len(h) + 1
                /\ ValidBoundary(h, first)
  <1> DEFINE tail(i) == TokensFrom(h, i)
             least == IF allowStart THEN start ELSE start + 1
             valid == {i \in least .. Len(h) + 1 : ValidBoundary(h, i)}
             nearer(i, j) ==
               \/ Distance(tail(i), keep) < Distance(tail(j), keep)
               \/ Distance(tail(i), keep) = Distance(tail(j), keep) /\ tail(i) > tail(j)
             nearest == CHOOSE i \in valid : \A j \in valid \ {i} : nearer(i, j)
  <1>1. /\ Len(h) \in Nat /\ start \in Nat /\ start <= Len(h)
        /\ least \in 1 .. Len(h) + 1 /\ valid \subseteq 1 .. Len(h) + 1
    OBVIOUS
  <1>2. Len(h) + 1 \in valid
    BY <1>1 DEF ValidBoundary
  <1>3. \A i \in valid : Distance(tail(i), keep) \in Nat
    BY <1>1, TokensAreFinite DEF Distance
  <1> DEFINE distances == {Distance(tail(i), keep) : i \in valid}
  <1>4. PICK d \in distances : \A e \in distances : d <= e
    <2>1. distances \subseteq Nat /\ distances # {}
      BY <1>2, <1>3
    <2> HIDE DEF distances
    <2>2. QED
      BY <2>1, LeastNatural
  <1> DEFINE nearby == {i \in valid : Distance(tail(i), keep) = d}
  <1>5. PICK i \in nearby : \A j \in nearby : i <= j
    <2>1. nearby \subseteq Nat /\ nearby # {}
      BY <1>1, <1>4
    <2> HIDE DEF nearby
    <2>2. QED
      BY <2>1, LeastNatural
  <1>6. i \in valid /\ i \in 1 .. Len(h) + 1 /\ Distance(tail(i), keep) = d
    BY <1>1, <1>5
  <1>7. ASSUME NEW j \in valid \ {i}
        PROVE  nearer(i, j)
    <2>1. j \in 1 .. Len(h) + 1 /\ Distance(tail(j), keep) \in distances
      BY <1>1
    <2>2. d <= Distance(tail(j), keep) /\ d \in Nat /\ Distance(tail(j), keep) \in Nat
      BY <1>3, <1>4, <1>6, <2>1
    <2>3. CASE Distance(tail(j), keep) = d
      <3>1. j \in nearby
        BY <2>3
      <3>2. i < j
        BY <1>5, <1>6, <1>7, <2>1, <3>1
      <3>3. tail(i) > tail(j)
        BY <1>6, <2>1, <3>2, LongerTailHasMore
      <3>4. QED
        BY <1>6, <2>3, <3>3
    <2>4. QED
      BY <1>6, <2>2, <2>3
  <1>8. \E one \in valid : \A j \in valid \ {one} : nearer(one, j)
    BY <1>6, <1>7
  <1>9. nearest \in valid
    <2> HIDE DEF valid, nearer
    <2>1. QED
      BY <1>8
  <1>10. nearest \in least .. Len(h) + 1 /\ ValidBoundary(h, nearest)
    BY <1>9
  <1>11. SafeTailStart(h, start, keep, allowStart) =
           IF tail(start) <= keep THEN IF allowStart THEN start ELSE 0 ELSE nearest
    BY <1>1 DEF SafeTailStart
  <1> HIDE DEF nearest, tail
  <1>12. QED
    BY <1>10, <1>11

-----------------------------------------------------------------------------
(* A history that is cut at a boundary *)

LEMMA SummaryIsFirst ==
  ASSUME NEW h \in Seq(Message), NEW c \in Nat, Numbered(h, c)
  PROVE  /\ Heads(h) \in {0, 1} /\ Heads(h) <= Len(h) /\ Len(h) \in Nat
         /\ Summaries(h) = 1 .. Heads(h)
         /\ AfterSummary(h) = Heads(h) + 1
  <1>1. Len(h) \in Nat /\ (h # <<>> <=> Len(h) >= 1)
    BY EmptySeq
  <1>2. Heads(h) \in {0, 1} /\ Heads(h) <= Len(h)
    BY <1>1 DEF Heads
  <1>3. CASE Heads(h) = 1
    <2>1. IsSummary(h[1]) /\ 1 \in 1 .. Len(h)
      BY <1>1, <1>3 DEF Heads
    <2>2. \A i \in 2 .. Len(h) : ~IsSummary(h[i])
      BY <1>3 DEF Numbered
    <2>3. Summaries(h) = {1}
      BY <1>1, <2>1, <2>2 DEF Summaries
    <2>4. (CHOOSE i \in Summaries(h) : \A j \in Summaries(h) : j <= i) = 1
      BY <2>3
    <2>5. QED
      BY <1>1, <1>2, <1>3, <2>3, <2>4 DEF AfterSummary
  <1>4. CASE Heads(h) = 0
    <2>1. \A i \in 1 .. Len(h) : ~IsSummary(h[i])
      BY <1>4 DEF Numbered
    <2>2. Summaries(h) = {}
      BY <2>1 DEF Summaries
    <2>3. QED
      BY <1>1, <1>2, <1>4, <2>2 DEF AfterSummary
  <1>5. QED
    BY <1>2, <1>3, <1>4

\* A response is found by its number.
LEMMA ResponseNumber ==
  ASSUME NEW h, NEW c \in Nat, Sound(h, c), NEW k \in 1 .. Len(h), h[k].kind = "assistant"
  PROVE  h[k].id = c + k - Heads(h) /\ Heads(h) \in {0, 1} /\ Len(h) \in Nat
  <1>1. h \in Seq(Message) /\ Len(h) \in Nat /\ Heads(h) \in {0, 1}
    BY SummaryIsFirst DEF Sound
  <1>2. k # 1 \/ Heads(h) = 0
    <2>1. k = 1 => h # <<>> /\ ~IsSummary(h[1])
      BY <1>1, EmptySeq DEF IsSummary
    <2>2. QED
      BY <2>1 DEF Heads
  <1>3. k \in Heads(h) + 1 .. Len(h)
    BY <1>1, <1>2
  <1>4. QED
    BY <1>1, <1>3 DEF Sound, Numbered

\* A result is kept with the response it answers, since numbers are given once.
LEMMA ValidIsClosed ==
  ASSUME NEW h, NEW c \in Nat, Sound(h, c), NEW p \in 1 .. Len(h) + 1, ValidBoundary(h, p)
  PROVE  Closed(h, p)
  <1>1. h \in Seq(Message) /\ Len(h) \in Nat /\ Heads(h) \in {0, 1}
    BY SummaryIsFirst DEF Sound
  <1>2. \A k \in 1 .. Len(h) : h[k].kind = "assistant" => h[k].id = c + k - Heads(h)
    BY ResponseNumber
  <1>3. ASSUME NEW j \in p .. Len(h), h[j].kind = "tool"
        PROVE  j - h[j].call[2] >= p
    <2> DEFINE k == j - h[j].call[2]
    <2>1. h[j] \in Message /\ j \in 1 .. Len(h) /\ h[j].call[2] \in 1 .. MaxCalls
      <3>1. h[j] \in Message /\ j \in 1 .. Len(h)
        BY <1>1
      <3>2. QED
        BY <1>3, <3>1, MessageFields
    <2>2. h[j].call[2] \in Nat \ {0}
      BY <2>1
    <2>3. k >= 1 /\ Answers(h[j], h[k])
      BY <1>3, <2>1 DEF Sound, ResultsFollowCalls
    <2>4. k \in 1 .. Len(h) /\ k \in Int
      BY <1>1, <2>1, <2>2, <2>3
    <2>5. PICK m \in p .. j - 1 : Answers(h[j], h[m])
      BY <1>3 DEF ValidBoundary
    <2>6. m \in 1 .. Len(h)
      BY <1>1, <2>1
    <2> HIDE DEF k
    <2>7. h[k].id = h[m].id /\ h[k].kind = "assistant" /\ h[m].kind = "assistant"
      BY <2>3, <2>5 DEF Answers
    <2>8. c + k - Heads(h) = c + m - Heads(h)
      BY <1>2, <2>4, <2>6, <2>7
    <2>9. k = m
      BY <1>1, <2>4, <2>6, <2>8
    <2>10. QED
      BY <2>4, <2>5, <2>9 DEF k
  <1>4. QED
    BY <1>3 DEF Closed

\* What a turn's prompt begins with is an end of the history, and a closed one if the
\* limit of the model is known.
LEMMA WindowIsTheEnd ==
  ASSUME NEW h, NEW c \in Nat, Sound(h, c), limit \in Limits \cup {NoLimit}
  PROVE  \E p \in 1 .. Len(h) + 1 :
           Window(h) = From(h, p) /\ (limit # NoLimit => Closed(h, p))
  <1>1. h \in Seq(Message) /\ Len(h) \in Nat /\ HistoryCap \in Nat
    BY HistoryConstantsOK DEF Sound, HistoryConstantsOK
  <1>2. From(h, 1) = h /\ From(h, Len(h) + 1) = <<>>
    BY <1>1, SubSeqFull, SubSeqEmpty DEF From
  <1>3. Closed(h, 1)
    <2>1. ASSUME NEW j \in 1 .. Len(h), h[j].kind = "tool"
          PROVE  j - h[j].call[2] >= 1
      BY <2>1 DEF Sound, ResultsFollowCalls
    <2>2. QED
      BY <2>1 DEF Closed
  <1>4. Closed(h, Len(h) + 1)
    BY <1>1 DEF Closed
  <1>5. CASE limit = NoLimit
    <2>1. CASE Len(h) <= HistoryCap
      BY <1>1, <1>2, <1>5, <2>1 DEF Window
    <2>2. CASE ~(Len(h) <= HistoryCap)
      <3>1. Len(h) - HistoryCap + 1 \in 1 .. Len(h) + 1
        BY <1>1, <2>2
      <3>2. QED
        BY <1>5, <2>2, <3>1 DEF Window
    <2>3. QED
      BY <2>1, <2>2
  <1>6. CASE limit # NoLimit /\ (limit = 0 \/ h = <<>>)
    <2>1. Window(h) = <<>>
      BY <1>6 DEF Window
    <2>2. Window(h) = From(h, Len(h) + 1)
      BY <1>2, <2>1, Zenon
    <2>3. Len(h) + 1 \in 1 .. Len(h) + 1
      BY <1>1
    <2>4. QED
      BY <1>4, <2>2, <2>3, Zenon
  <1>7. CASE limit # NoLimit /\ ~(limit = 0 \/ h = <<>>)
    <2> DEFINE first == SafeTailStart(h, 1, limit, TRUE)
    <2>1. Window(h) = From(h, first)
      BY <1>7 DEF Window
    <2>2. limit \in Nat /\ 1 \in 1 .. Len(h)
      BY <1>1, <1>7, EmptySeq, HistoryConstantsOK DEF HistoryConstantsOK
    <2>3. first = 1 \/ (first \in 1 .. Len(h) + 1 /\ ValidBoundary(h, first))
      BY <1>1, <2>2, SafeTailIsValid
    <2> HIDE DEF first
    <2>4. first \in 1 .. Len(h) + 1 /\ Closed(h, first)
      BY <1>1, <1>3, <2>3, ValidIsClosed
    <2>5. QED
      BY <2>1, <2>4
  <1>8. QED
    BY <1>5, <1>6, <1>7

LEMMA KeptIsValid ==
  ASSUME NEW h, NEW c \in Nat, Sound(h, c), CanCompact(h)
  PROVE  /\ FirstKept(h) \in Heads(h) + 2 .. Len(h) + 1
         /\ ValidBoundary(h, FirstKept(h)) /\ Closed(h, FirstKept(h))
  <1>1. /\ h \in Seq(Message) /\ Len(h) \in Nat /\ KeepRecentTokens \in Nat
        /\ Heads(h) \in {0, 1} /\ AfterSummary(h) = Heads(h) + 1
    BY SummaryIsFirst, HistoryConstantsOK DEF Sound, HistoryConstantsOK
  <1> DEFINE start == AfterSummary(h)
             first == SafeTailStart(h, start, KeepRecentTokens, FALSE)
  <1>2. start <= Len(h) /\ FirstKept(h) = first /\ first > 0
    <2>1. FirstKept(h) > 0
      BY DEF CanCompact
    <2>2. ~(start > Len(h))
      <3>1. start > Len(h) => FirstKept(h) = 0
        BY DEF FirstKept
      <3>2. QED
        BY <2>1, <3>1
    <2>3. FirstKept(h) = first
      BY <2>2 DEF FirstKept
    <2> HIDE DEF first
    <2>4. QED
      BY <1>1, <2>1, <2>2, <2>3
  <1>3. start \in 1 .. Len(h)
    BY <1>1, <1>2
  <1>4. first = 0 \/ (first \in start + 1 .. Len(h) + 1 /\ ValidBoundary(h, first))
    <2> HIDE DEF start
    <2>1. FALSE \in BOOLEAN
      OBVIOUS
    <2>2. QED
      BY <1>1, <1>3, <2>1, SafeTailIsValid
  <1>5. first \in Heads(h) + 2 .. Len(h) + 1 /\ ValidBoundary(h, first)
    <2> HIDE DEF first
    <2>1. first # 0
      BY <1>2
    <2>2. QED
      BY <1>1, <1>4, <2>1
  <1>6. /\ FirstKept(h) \in Heads(h) + 2 .. Len(h) + 1
        /\ FirstKept(h) \in 1 .. Len(h) + 1 /\ ValidBoundary(h, FirstKept(h))
    <2> HIDE DEF first
    <2>1. QED
      BY <1>1, <1>2, <1>5
  <1>7. QED
    BY <1>6, ValidIsClosed

\* compact_messages, run_manual_compaction: the summary carries on from the one before it.
LEMMA CompactedIsSound ==
  ASSUME NEW h, NEW c \in Nat, Sound(h, c), CanCompact(h),
         c + Len(h) - Heads(h) <= MaxMessages, NEW open, AllAnswered(h, open)
  PROVE  \E d \in Nat :
           /\ Sound(Compacted(h), d) /\ AllAnswered(Compacted(h), open)
           /\ d + Len(Compacted(h)) - Heads(Compacted(h)) = c + Len(h) - Heads(h)
           /\ d <= c + Len(h) - Heads(h)
  <1> DEFINE n == Heads(h)
             f == FirstKept(h)
             start == AfterSummary(h)
             previous == IF start = 1 THEN {} ELSE h[start - 1].covers
             covers == previous \cup Ids(SubSeq(h, start, f - 1))
             summary == [kind |-> "summary", weight |-> SummaryWeight, covers |-> covers]
             kept == From(h, f)
             g == Compacted(h)
             d == c + f - 1 - n
  <1>1. /\ h \in Seq(Message) /\ Len(h) \in Nat /\ n \in {0, 1} /\ n <= Len(h)
        /\ start = n + 1 /\ MaxMessages \in Nat /\ c + Len(h) - n <= MaxMessages
    BY SummaryIsFirst, HistoryConstantsOK DEF Sound, HistoryConstantsOK
  <1>2. f \in n + 2 .. Len(h) + 1 /\ Closed(h, f)
    BY KeptIsValid
  <1>3. g = <<summary>> \o kept
    BY DEF Compacted
  <1> HIDE DEF f, n, start
  <1>4. f \in 1 .. Len(h) + 1 /\ f \in Nat /\ d \in Nat
    BY <1>1, <1>2
  <1>5. covers = 1 .. d
    <2>1. previous = 1 .. c
      <3>1. CASE n = 1
        BY <1>1, <3>1 DEF Sound, Numbered, n
      <3>2. CASE n = 0
        BY <1>1, <3>2 DEF Sound, Numbered, n
      <3>3. QED
        BY <1>1, <3>1, <3>2
    <2> DEFINE old == SubSeq(h, start, f - 1)
    <2>2. /\ old \in Seq(Message) /\ Len(old) = f - 1 - n
          /\ \A i \in 1 .. f - 1 - n : old[i] = h[n + i]
      <3>1. /\ \A i \in start .. f - 1 : h[i] \in Message
            /\ start \in Int /\ f - 1 \in Int /\ start <= f - 1
        BY <1>1, <1>2, <1>4
      <3>2. /\ old \in Seq(Message)
            /\ Len(old) = IF start <= f - 1 THEN f - 1 - start + 1 ELSE 0
            /\ \A i \in 1 .. f - 1 - start + 1 : old[i] = h[start + i - 1]
        BY <3>1, SubSeqProperties
      <3> HIDE DEF old
      <3>3. f - 1 - start + 1 = f - 1 - n /\ \A i \in 1 .. f - 1 - n : start + i - 1 = n + i
        BY <1>1, <1>4
      <3>4. QED
        BY <3>1, <3>2, <3>3
    <2> HIDE DEF old
    <2>3. \A i \in 1 .. f - 1 - n : ~IsSummary(old[i]) /\ old[i].id = c + i
      <3>1. ASSUME NEW i \in 1 .. f - 1 - n
            PROVE  ~IsSummary(old[i]) /\ old[i].id = c + i
        <4>1. n + i \in n + 1 .. Len(h) /\ c + (n + i) - n = c + i
          BY <1>1, <1>2, <1>4
        <4>2. ~IsSummary(h[n + i]) /\ h[n + i].id = c + (n + i) - n
          BY <4>1 DEF Sound, Numbered, n
        <4>3. QED
          BY <2>2, <4>1, <4>2
      <3>2. QED
        BY <3>1
    <2>4. Ids(old) = {c + i : i \in 1 .. f - 1 - n}
      <3>1. {j \in 1 .. Len(old) : ~IsSummary(old[j])} = 1 .. f - 1 - n
        BY <2>2, <2>3
      <3>2. QED
        BY <2>3, <3>1 DEF Ids
    <2>5. {c + i : i \in 1 .. f - 1 - n} = c + 1 .. d
      <3>1. ASSUME NEW k \in c + 1 .. d
            PROVE  \E i \in 1 .. f - 1 - n : k = c + i
        <4>1. k - c \in 1 .. f - 1 - n /\ k = c + (k - c)
          BY <1>1, <1>2, <1>4
        <4>2. QED
          BY <4>1
      <3>2. ASSUME NEW i \in 1 .. f - 1 - n
            PROVE  c + i \in c + 1 .. d
        BY <1>1, <1>2, <1>4
      <3>3. QED
        BY <3>1, <3>2
    <2>6. 1 .. d = (1 .. c) \cup (c + 1 .. d)
      BY <1>1, <1>2, <1>4
    <2>7. covers = previous \cup Ids(old)
      BY DEF old
    <2> HIDE DEF covers, previous
    <2>8. QED
      BY <2>1, <2>4, <2>5, <2>6, <2>7
  <1>6. d <= c + Len(h) - n
    BY <1>1, <1>2, <1>4
  <1>7. summary \in Message
    <2>1. covers \in SUBSET (1 .. MaxMessages)
      <3>1. d <= MaxMessages /\ d \in Nat
        BY <1>1, <1>4, <1>6
      <3> HIDE DEF covers, d
      <3>2. QED
        BY <1>1, <1>5, <3>1
    <2> HIDE DEF covers
    <2>2. QED
      BY <2>1 DEF Message
  <1>8. /\ kept \in Seq(Message) /\ Len(kept) = Len(h) + 1 - f
        /\ \A j \in 1 .. Len(h) + 1 - f : kept[j] = h[f + j - 1]
    BY <1>1, <1>4, FromProperties
  <1>9. summary.kind = "summary" /\ summary.covers = 1 .. d
    BY <1>5
  <1> HIDE DEF summary, kept, covers, previous
  <1>10. /\ g \in Seq(Message) /\ Len(g) = Len(h) + 2 - f /\ g[1] = summary
         /\ \A i \in 2 .. Len(g) : g[i] = h[f + i - 2]
    <2>1. <<summary>> \in Seq(Message) /\ Len(<<summary>>) = 1 /\ <<summary>>[1] = summary
      BY <1>7
    <2> DEFINE one == <<summary>>
    <2>2. one \in Seq(Message) /\ Len(one) = 1 /\ one[1] = summary /\ g = one \o kept
      BY <1>3, <2>1
    <2> HIDE DEF one, g
    <2>3. /\ g \in Seq(Message) /\ Len(g) = Len(one) + Len(kept)
          /\ \A i \in 1 .. Len(one) + Len(kept) :
               g[i] = IF i <= Len(one) THEN one[i] ELSE kept[i - Len(one)]
      BY <1>8, <2>2, ConcatProperties
    <2>4. Len(g) = Len(h) + 2 - f /\ g[1] = summary
      BY <1>1, <1>4, <1>8, <2>2, <2>3
    <2>5. ASSUME NEW i \in 2 .. Len(g)
          PROVE  g[i] = h[f + i - 2]
      <3>1. g[i] = kept[i - 1] /\ i - 1 \in 1 .. Len(h) + 1 - f /\ f + (i - 1) - 1 = f + i - 2
        BY <1>1, <1>4, <1>8, <2>2, <2>3, <2>4, SMTT(40)
      <3>2. QED
        BY <1>8, <3>1
    <2>6. QED
      BY <2>3, <2>4, <2>5
  <1> HIDE DEF g
  <1>11. Heads(g) = 1
    <2>1. Len(g) \in Nat \ {0}
      BY <1>1, <1>4, <1>10
    <2>2. g # <<>>
      BY <1>10, <2>1, EmptySeq
    <2>3. QED
      BY <1>9, <1>10, <2>2 DEF Heads, IsSummary
  <1>12. ASSUME NEW i \in 2 .. Len(g)
         PROVE  /\ f + i - 2 \in n + 1 .. Len(h) /\ f + i - 2 \in f .. Len(h)
                /\ f + i - 2 \in 1 .. Len(h) /\ g[i] = h[f + i - 2]
    BY <1>1, <1>2, <1>4, <1>10
  <1>13. Numbered(g, d)
    <2>1. ASSUME NEW i \in 2 .. Len(g)
          PROVE  ~IsSummary(g[i]) /\ g[i].id = d + i - 1
      <3> DEFINE k == f + i - 2
      <3>1. k \in n + 1 .. Len(h) /\ g[i] = h[k]
        BY <1>12
      <3> HIDE DEF k
      <3>2. ~IsSummary(h[k]) /\ h[k].id = c + k - n
        BY <3>1 DEF Sound, Numbered, n
      <3>3. c + k - n = d + i - 1
        BY <1>1, <1>4, <1>10 DEF k
      <3>4. QED
        BY <3>1, <3>2, <3>3
    <2>2. QED
      BY <1>9, <1>10, <1>11, <2>1 DEF Numbered
  <1>14. ResultsFollowCalls(g)
    <2>1. ASSUME NEW j \in 1 .. Len(g), g[j].kind = "tool"
          PROVE  LET k == j - g[j].call[2]
                 IN  k >= 1 /\ Answers(g[j], g[k]) /\ \A i \in k + 1 .. j : g[i].kind = "tool"
      <3> DEFINE jj == f + j - 2
                 kk == jj - h[jj].call[2]
                 k == j - g[j].call[2]
      <3>1. j \in 2 .. Len(g)
        BY <1>1, <1>4, <1>9, <1>10, <2>1
      <3>2. g[j] = h[jj] /\ jj \in 1 .. Len(h) /\ jj \in f .. Len(h) /\ h[jj].kind = "tool"
        BY <1>12, <2>1, <3>1
      <3>3. h[jj].call[2] \in Nat \ {0}
        <4>1. h[jj] \in Message
          BY <1>1, <3>2
        <4>2. h[jj].call \in (1 .. MaxMessages) \X (1 .. MaxCalls)
          BY <3>2, <4>1, MessageFields
        <4>3. QED
          BY <4>2
      <3>4. kk >= 1 /\ Answers(h[jj], h[kk]) /\ \A i \in kk + 1 .. jj : h[i].kind = "tool"
        BY <3>2 DEF Sound, ResultsFollowCalls
      <3>5. kk >= f
        BY <1>2, <3>2 DEF Closed
      <3>6. k \in 2 .. Len(g) /\ kk = f + k - 2
        <4> DEFINE q == h[jj].call[2]
        <4>1. q \in Nat \ {0} /\ k = j - q /\ kk = jj - q /\ jj = f + j - 2
          BY <3>2, <3>3
        <4>2. j \in Nat /\ j <= Len(g) /\ Len(g) \in Nat
          BY <1>1, <1>4, <1>10, <3>1
        <4> HIDE DEF q, jj, kk, k
        <4>3. QED
          BY <1>4, <3>5, <4>1, <4>2
      <3>7. g[k] = h[kk]
        BY <1>12, <3>6
      <3>8. ASSUME NEW i \in k + 1 .. j
            PROVE  g[i].kind = "tool"
        <4>1. j \in Nat /\ j <= Len(g) /\ Len(g) \in Nat /\ jj = f + j - 2
          BY <1>1, <1>4, <1>10, <3>1
        <4> HIDE DEF kk, jj, k
        <4>2. i \in 2 .. Len(g) /\ f + i - 2 \in kk + 1 .. jj
          BY <1>4, <3>6, <3>8, <4>1
        <4>3. QED
          BY <1>12, <3>4, <4>2
      <3> HIDE DEF jj, kk
      <3>9. k >= 1 /\ Answers(g[j], g[k])
        BY <3>2, <3>4, <3>6, <3>7
      <3>10. QED
        BY <3>8, <3>9
    <2>2. QED
      BY <2>1 DEF ResultsFollowCalls
  <1>15. AllAnswered(g, open)
    <2>1. ASSUME NEW k \in 1 .. Len(g), g[k].kind = "assistant", g[k].id \notin open,
                 NEW call \in 1 .. g[k].calls
          PROVE  k + call <= Len(g) /\ g[k + call].kind = "tool"
                   /\ g[k + call].call = <<g[k].id, call>>
      <3> DEFINE kk == f + k - 2
      <3>1. k \in 2 .. Len(g)
        BY <1>1, <1>4, <1>9, <1>10, <2>1
      <3>2. g[k] = h[kk] /\ kk \in 1 .. Len(h) /\ h[kk].kind = "assistant"
            /\ h[kk].id \notin open /\ call \in 1 .. h[kk].calls
        BY <1>12, <2>1, <3>1
      <3>3. kk + call <= Len(h) /\ h[kk + call].kind = "tool"
              /\ h[kk + call].call = <<h[kk].id, call>>
        BY <3>2 DEF AllAnswered
      <3>4. call \in Nat
        <4>1. h[kk] \in Message
          BY <1>1, <3>2
        <4>2. h[kk].calls \in 0 .. MaxCalls
          BY <3>2, <4>1, MessageFields
        <4>3. QED
          BY <3>2, <4>2
      <3>5. k + call \in 2 .. Len(g) /\ f + (k + call) - 2 = kk + call
        <4>1. k \in Nat /\ k >= 2 /\ kk = f + k - 2 /\ kk + call <= Len(h)
          BY <1>10, <3>1, <3>3
        <4> DEFINE m == Len(g)
                   l == Len(h)
        <4>2. m = l + 2 - f /\ l \in Nat /\ f \in Nat
          BY <1>1, <1>4, <1>10
        <4>3. kk + call <= l /\ call \in Nat /\ 1 <= call
          BY <3>2, <3>4, <4>1
        <4> HIDE DEF kk, m, l
        <4>4. k + call \in 2 .. m /\ f + (k + call) - 2 = kk + call
          BY <4>1, <4>2, <4>3
        <4>5. QED
          BY <4>4 DEF m
      <3>6. g[k + call] = h[kk + call]
        BY <1>12, <3>5
      <3>7. k + call <= Len(g)
        BY <3>5
      <3> HIDE DEF kk
      <3>8. QED
        BY <3>2, <3>3, <3>6, <3>7
    <2>2. QED
      BY <2>1 DEF AllAnswered
  <1>16. d + Len(g) - Heads(g) = c + Len(h) - n
    BY <1>1, <1>4, <1>10, <1>11
  <1>17. Sound(g, d)
    BY <1>10, <1>13, <1>14 DEF Sound
  <1>18. QED
    BY <1>4, <1>6, <1>15, <1>16, <1>17 DEF g, n

-----------------------------------------------------------------------------
(* A history that grows *)

\* Messages are recorded with the next numbers; a result is recorded alone, behind the
\* response it answers and nothing but results.
LEMMA ExtendedIsSound ==
  ASSUME NEW h, NEW c \in Nat, Sound(h, c), NEW t \in Seq(Message),
         \A i \in 1 .. Len(t) : ~IsSummary(t[i]) /\ t[i].id = c + Len(h) - Heads(h) + i,
         \A i \in 1 .. Len(t) :
           t[i].kind = "tool" =>
             LET k == Len(h) + 1 - t[i].call[2]
             IN  /\ Len(t) = 1 /\ k \in 1 .. Len(h) /\ Answers(t[i], h[k])
                 /\ \A j \in k + 1 .. Len(h) : h[j].kind = "tool",
         NEW open, AllAnswered(h, open),
         \A i \in 1 .. Len(t) :
           t[i].kind = "assistant" => t[i].id \in open \/ t[i].calls = 0
  PROVE  /\ Sound(h \o t, c) /\ Heads(h \o t) = Heads(h) /\ AllAnswered(h \o t, open)
         /\ Len(h \o t) = Len(h) + Len(t)
         /\ \A i \in 1 .. Len(h) : (h \o t)[i] = h[i]
         /\ \A i \in 1 .. Len(t) : (h \o t)[Len(h) + i] = t[i]
  <1> DEFINE g == h \o t
  <1>1. /\ h \in Seq(Message) /\ Len(h) \in Nat /\ Len(t) \in Nat
        /\ Heads(h) \in {0, 1} /\ Heads(h) <= Len(h)
    BY SummaryIsFirst DEF Sound
  <1>2. /\ g \in Seq(Message) /\ Len(g) = Len(h) + Len(t)
        /\ \A i \in 1 .. Len(h) + Len(t) : g[i] = IF i <= Len(h) THEN h[i] ELSE t[i - Len(h)]
    BY <1>1, ConcatProperties
  <1> HIDE DEF g
  <1>3. \A i \in 1 .. Len(h) : g[i] = h[i]
    BY <1>1, <1>2
  <1>4. \A i \in 1 .. Len(t) : g[Len(h) + i] = t[i]
    <2>1. ASSUME NEW i \in 1 .. Len(t)
          PROVE  g[Len(h) + i] = t[i]
      <3>1. Len(h) + i \in 1 .. Len(h) + Len(t) /\ ~(Len(h) + i <= Len(h))
            /\ (Len(h) + i) - Len(h) = i
        BY <1>1
      <3>2. QED
        BY <1>2, <3>1
    <2>2. QED
      BY <2>1
  <1>5. ASSUME NEW i \in 1 .. Len(g), i \notin 1 .. Len(h)
        PROVE  i - Len(h) \in 1 .. Len(t) /\ i = Len(h) + (i - Len(h)) /\ g[i] = t[i - Len(h)]
    <2>1. i - Len(h) \in 1 .. Len(t) /\ i = Len(h) + (i - Len(h))
      BY <1>1, <1>2, <1>5
    <2>2. QED
      BY <1>4, <2>1
  <1>6. Heads(g) = Heads(h)
    <2>1. CASE h # <<>>
      <3>1. 1 \in 1 .. Len(h)
        BY <1>1, <2>1, EmptySeq
      <3>2. Len(g) # 0
        BY <1>1, <1>2, <3>1
      <3>3. g # <<>>
        BY <1>2, <3>2, EmptySeq
      <3>4. QED
        BY <1>3, <2>1, <3>1, <3>3 DEF Heads
    <2>2. CASE h = <<>>
      <3>1. Len(h) = 0
        BY <2>2, EmptySeq
      <3>2. g # <<>> => 1 \in 1 .. Len(g) /\ 1 \notin 1 .. Len(h)
        BY <1>1, <1>2, <3>1, EmptySeq
      <3>3. g # <<>> => ~IsSummary(g[1])
        BY <1>5, <3>2
      <3>4. QED
        BY <2>2, <3>3 DEF Heads
    <2>3. QED
      BY <2>1, <2>2
  <1>7. Numbered(g, c)
    <2>1. Heads(g) = 1 => g[1] = h[1]
      BY <1>1, <1>3, <1>6
    <2>2. ASSUME NEW i \in Heads(h) + 1 .. Len(g)
          PROVE  ~IsSummary(g[i]) /\ g[i].id = c + i - Heads(h)
      <3>1. CASE i \in 1 .. Len(h)
        <4>1. i \in Heads(h) + 1 .. Len(h)
          BY <1>1, <3>1
        <4>2. QED
          BY <1>3, <3>1, <4>1 DEF Sound, Numbered
      <3>2. CASE i \notin 1 .. Len(h)
        <4> DEFINE j == i - Len(h)
        <4>1. i \in 1 .. Len(g)
          BY <1>1
        <4>2. j \in 1 .. Len(t) /\ g[i] = t[j] /\ i = Len(h) + j
          BY <1>5, <3>2, <4>1
        <4> HIDE DEF j
        <4>3. ~IsSummary(t[j]) /\ t[j].id = c + Len(h) - Heads(h) + j
          BY <4>2
        <4>4. c + Len(h) - Heads(h) + j = c + i - Heads(h)
          BY <1>1, <4>2
        <4>5. QED
          BY <4>2, <4>3, <4>4
      <3>3. QED
        BY <3>1, <3>2
    <2>3. QED
      BY <1>6, <2>1, <2>2 DEF Sound, Numbered
  <1>8. ResultsFollowCalls(g)
    <2>1. ASSUME NEW j \in 1 .. Len(g), g[j].kind = "tool"
          PROVE  LET k == j - g[j].call[2]
                 IN  k >= 1 /\ Answers(g[j], g[k]) /\ \A i \in k + 1 .. j : g[i].kind = "tool"
      <3> DEFINE q == g[j].call[2]
                 k == j - q
      <3>1. q \in Nat \ {0}
        <4>1. g[j] \in Message
          BY <1>2
        <4>2. g[j].call \in (1 .. MaxMessages) \X (1 .. MaxCalls)
          BY <2>1, <4>1, MessageFields
        <4>3. QED
          BY <4>2
      <3>2. CASE j \in 1 .. Len(h)
        <4>1. g[j] = h[j] /\ h[j].kind = "tool"
          BY <1>3, <2>1, <3>2
        <4>2. k >= 1 /\ Answers(h[j], h[k]) /\ \A i \in k + 1 .. j : h[i].kind = "tool"
          BY <3>2, <4>1 DEF Sound, ResultsFollowCalls
        <4> HIDE DEF q
        <4>3. k \in 1 .. Len(h) /\ k + 1 .. j \subseteq 1 .. Len(h)
          BY <1>1, <3>1, <3>2, <4>2
        <4> HIDE DEF k
        <4>4. Answers(g[j], g[k]) /\ \A i \in k + 1 .. j : g[i].kind = "tool"
          BY <1>3, <4>1, <4>2, <4>3
        <4>5. QED
          BY <4>2, <4>4 DEF k, q
      <3>3. CASE j \notin 1 .. Len(h)
        <4> DEFINE i == j - Len(h)
        <4>1. i \in 1 .. Len(t) /\ g[j] = t[i] /\ j = Len(h) + i
          BY <1>5, <3>3
        <4> HIDE DEF i
        <4>2. /\ Len(t) = 1 /\ Len(h) + 1 - t[i].call[2] \in 1 .. Len(h)
              /\ Answers(t[i], h[Len(h) + 1 - t[i].call[2]])
              /\ \A m \in Len(h) + 1 - t[i].call[2] + 1 .. Len(h) : h[m].kind = "tool"
          BY <2>1, <4>1
        <4>3. j = Len(h) + 1 /\ k = Len(h) + 1 - t[i].call[2]
          <5>1. j = Len(h) + 1
            BY <1>1, <4>1, <4>2
          <5>2. q = t[i].call[2]
            BY <4>1
          <5> HIDE DEF q
          <5>3. k = j - q
            OBVIOUS
          <5> HIDE DEF k
          <5>4. k = Len(h) + 1 - q
            BY <1>1, <3>1, <5>1, <5>3
          <5>5. QED
            BY <5>1, <5>2, <5>4
        <4>4. k \in 1 .. Len(h) /\ Answers(g[j], h[k]) /\ \A m \in k + 1 .. Len(h) : h[m].kind = "tool"
          BY <4>1, <4>2, <4>3
        <4> HIDE DEF q, k
        <4>5. \A m \in k + 1 .. j : m = j \/ (m \in k + 1 .. Len(h) /\ m \in 1 .. Len(h))
          BY <1>1, <4>3, <4>4
        <4>6. k >= 1 /\ Answers(g[j], g[k])
          BY <1>1, <1>3, <4>4
        <4>7. ASSUME NEW m \in k + 1 .. j
              PROVE  g[m].kind = "tool"
          BY <1>3, <2>1, <4>4, <4>5
        <4>8. QED
          BY <4>6, <4>7 DEF k, q
      <3>4. QED
        BY <3>2, <3>3
    <2>2. QED
      BY <2>1 DEF ResultsFollowCalls
  <1>9. AllAnswered(g, open)
    <2>1. ASSUME NEW k \in 1 .. Len(g), g[k].kind = "assistant", g[k].id \notin open,
                 NEW call \in 1 .. g[k].calls
          PROVE  k + call <= Len(g) /\ g[k + call].kind = "tool"
                   /\ g[k + call].call = <<g[k].id, call>>
      <3>1. CASE k \in 1 .. Len(h)
        <4>1. g[k] = h[k]
          BY <1>3, <3>1
        <4>2. k + call <= Len(h) /\ h[k + call].kind = "tool"
                /\ h[k + call].call = <<h[k].id, call>>
          BY <2>1, <3>1, <4>1 DEF AllAnswered
        <4>3. k + call \in 1 .. Len(h) /\ Len(h) <= Len(g)
          <5>1. g[k] \in Message
            BY <1>2
          <5>2. g[k].calls \in 0 .. MaxCalls
            BY <2>1, <5>1, MessageFields
          <5>3. call \in Nat
            BY <2>1, <5>2
          <5>4. QED
            BY <1>1, <1>2, <3>1, <4>2, <5>3
        <4>4. k + call <= Len(g)
          BY <1>1, <1>2, <4>3
        <4>5. QED
          BY <1>3, <4>1, <4>2, <4>3, <4>4
      <3>2. CASE k \notin 1 .. Len(h)
        <4>1. g[k].calls = 0
          BY <1>5, <2>1, <3>2
        <4>2. QED
          BY <2>1, <4>1
      <3>3. QED
        BY <3>1, <3>2
    <2>2. QED
      BY <2>1 DEF AllAnswered
  <1>10. Sound(g, c)
    BY <1>2, <1>7, <1>8 DEF Sound
  <1>11. QED
    BY <1>2, <1>3, <1>4, <1>6, <1>9, <1>10 DEF g

-----------------------------------------------------------------------------
(* Every step keeps the invariant, conjunct by conjunct *)

LEMMA EndTurnTypes ==
  ASSUME TurnTypes, EndTurn
  PROVE  /\ phase' = "idle" /\ due' = <<>> /\ prompt' = <<>>
         /\ phase' \in Phase /\ due' \in Seq(CallId)
         /\ steering' \in 0 .. MaxSteering
         /\ cut' \subseteq 1 .. MaxMessages
         /\ Open' = Open
  <1>1. /\ phase' = "idle" /\ due' = <<>> /\ prompt' = <<>> /\ steering' = 0
        /\ cut' = cut \cup {due[i][1] : i \in 1 .. Len(due)}
    BY Zenon DEF EndTurn
  <1>2. ASSUME NEW i \in 1 .. Len(due)
        PROVE  due[i][1] \in 1 .. MaxMessages
    <2>1. due[i] \in CallId
      BY DEF TurnTypes
    <2>2. QED
      BY <2>1 DEF CallId
  <1>3. cut' \subseteq 1 .. MaxMessages
    BY <1>1, <1>2 DEF TurnTypes
  <1>4. Open' = Open
    <2>1. {due'[i][1] : i \in 1 .. Len(due')} = {}
      BY <1>1
    <2>2. QED
      BY <1>1, <2>1 DEF Open
  <1>5. steering' \in 0 .. MaxSteering
    BY <1>1, HistoryConstantsOK DEF HistoryConstantsOK
  <1>6. QED
    BY <1>1, <1>3, <1>4, <1>5 DEF Phase

LEMMA NextTypes ==
  ASSUME TurnTypes, HistoryInv, DueInv, [Next]_vars
  PROVE  TurnTypes'
  <1> USE DEF TurnTypes
  <1>1. recorded \in 0 .. MaxMessages /\ MaxMessages \in Nat /\ MaxCalls \in Nat
        /\ MaxSteering \in Nat
    BY HistoryConstantsOK DEF HistoryInv, HistoryConstantsOK
  <1>2. ASSUME NEW w \in Weights, BeginTurn(w)
        PROVE  TurnTypes'
    BY <1>2 DEF BeginTurn, Phase
  <1>3. ASSUME Steer
        PROVE  TurnTypes'
    BY <1>1, <1>3 DEF Steer
  <1>4. ASSUME NEW w \in Weights, TakeInputs(w)
        PROVE  TurnTypes'
    BY <1>1, <1>4 DEF TakeInputs, Phase
  <1>5. ASSUME AutoCompact
        PROVE  TurnTypes'
    BY <1>5 DEF AutoCompact, StartSampling, Phase
  <1>6. ASSUME EndTurn, limit' = limit
        PROVE  TurnTypes'
    BY <1>6, EndTurnTypes
  <1>7. ASSUME NEW n \in 0 .. MaxCalls, NEW w \in Weights, Respond(n, w)
        PROVE  TurnTypes'
    <2>1. limit' = limit
      BY <1>7 DEF Respond
    <2>2. CASE n = 0
      <3>1. EndTurn
        BY <1>7, <2>2 DEF Respond
      <3>2. QED
        BY <1>6, <2>1, <3>1
    <2>3. CASE n # 0
      <3>1. /\ recorded < MaxMessages /\ phase' = "calling"
            /\ due' = [i \in 1 .. n |-> <<recorded + 1, i>>]
            /\ UNCHANGED <<steering, cut>>
        BY <1>7, <2>3 DEF Respond
      <3>2. \A i \in 1 .. n : <<recorded + 1, i>> \in CallId
        BY <1>1, <3>1 DEF CallId
      <3>3. due' \in Seq(CallId)
        BY <3>1, <3>2
      <3>4. QED
        BY <2>1, <3>1, <3>3 DEF Phase
    <2>4. QED
      BY <2>2, <2>3
  <1>8. ASSUME OverflowRetry
        PROVE  TurnTypes'
    BY <1>8 DEF OverflowRetry
  <1>9. ASSUME StreamRetry
        PROVE  TurnTypes'
    BY <1>9 DEF StreamRetry
  <1>10. ASSUME NEW w \in Weights, RecordResult(w)
         PROVE  TurnTypes'
    <2>1. due # <<>>
      BY <1>10 DEF RecordResult, DueInv
    <2>2. due' \in Seq(CallId)
      BY <1>10, <2>1 DEF RecordResult
    <2>3. QED
      BY <1>10, <2>2 DEF RecordResult, Phase
  <1>11. ASSUME ManualCompact
         PROVE  TurnTypes'
    BY <1>11 DEF ManualCompact
  <1>12. ASSUME NEW l \in Limits \cup {NoLimit}, SwitchModel(l)
         PROVE  TurnTypes'
    BY <1>12 DEF SwitchModel
  <1>13. ASSUME UNCHANGED vars
         PROVE  TurnTypes'
    BY <1>13 DEF vars
  <1>14. QED
    <2>1. AutoCompactFails \/ SamplingFails \/ FatalTool \/ Interrupt => EndTurn /\ limit' = limit
      BY DEF AutoCompactFails, SamplingFails, FatalTool, Interrupt
    <2> HIDE DEF TurnTypes
    <2>2. QED
      BY <1>2, <1>3, <1>4, <1>5, <1>6, <1>7, <1>8, <1>9, <1>10, <1>11, <1>12, <1>13, <2>1
         DEF Next

\* What the steps that record messages have in common.
LEMMA HistoryGrows ==
  ASSUME HistoryInv, NEW t \in Seq(Message),
         history' = history \o t, recorded' = recorded + Len(t), recorded' <= MaxMessages,
         \A i \in 1 .. Len(t) : ~IsSummary(t[i]) /\ t[i].id = recorded + i,
         \A i \in 1 .. Len(t) :
           t[i].kind = "tool" =>
             LET k == Len(history) + 1 - t[i].call[2]
             IN  /\ Len(t) = 1 /\ k \in 1 .. Len(history) /\ Answers(t[i], history[k])
                 /\ \A j \in k + 1 .. Len(history) : history[j].kind = "tool",
         NEW open, Open \subseteq open,
         \A i \in 1 .. Len(t) :
           t[i].kind = "assistant" => t[i].id \in open \/ t[i].calls = 0,
         AllAnswered(history', open) => AllAnswered(history', Open')
  PROVE  HistoryInv'
  <1>1. PICK c \in 0 .. recorded :
          Sound(history, c) /\ recorded = c + Len(history) - Heads(history)
    BY DEF HistoryInv
  <1>2. /\ c \in Nat /\ recorded \in Nat /\ Len(history) \in Nat /\ Heads(history) \in {0, 1}
        /\ MaxMessages \in Nat /\ Len(t) \in Nat
    <2>1. recorded \in Nat /\ MaxMessages \in Nat
      BY HistoryConstantsOK DEF HistoryInv, HistoryConstantsOK
    <2>2. c \in Nat
      BY <2>1
    <2>3. QED
      BY <1>1, <2>1, <2>2, SummaryIsFirst DEF Sound
  <1>3. AllAnswered(history, open)
    BY DEF HistoryInv, AllAnswered
  <1>4. \A i \in 1 .. Len(t) : t[i].id = c + Len(history) - Heads(history) + i
    BY <1>1
  <1> DEFINE h == history
  <1>5. /\ Sound(h, c) /\ AllAnswered(h, open)
        /\ \A i \in 1 .. Len(t) : ~IsSummary(t[i]) /\ t[i].id = c + Len(h) - Heads(h) + i
        /\ \A i \in 1 .. Len(t) :
             t[i].kind = "tool" =>
               LET k == Len(h) + 1 - t[i].call[2]
               IN  /\ Len(t) = 1 /\ k \in 1 .. Len(h) /\ Answers(t[i], h[k])
                   /\ \A j \in k + 1 .. Len(h) : h[j].kind = "tool"
    BY <1>1, <1>3, <1>4
  <1> HIDE DEF h
  <1>6. /\ Sound(h \o t, c) /\ Heads(h \o t) = Heads(h) /\ AllAnswered(h \o t, open)
        /\ Len(h \o t) = Len(h) + Len(t)
    BY <1>2, <1>5, ExtendedIsSound, ZenonT(40)
  <1>7. /\ Sound(history', c) /\ Heads(history') = Heads(history)
        /\ AllAnswered(history', Open')
        /\ Len(history') = Len(history) + Len(t)
    BY <1>6 DEF h
  <1>8. /\ c \in 0 .. recorded' /\ recorded' \in 0 .. MaxMessages
        /\ recorded' = c + Len(history') - Heads(history')
    BY <1>1, <1>2, <1>7
  <1>9. QED
    BY <1>7, <1>8 DEF HistoryInv

LEMMA HistoryShrinks ==
  ASSUME HistoryInv, CanCompact(history), history' = Compacted(history),
         recorded' = recorded, Open' = Open
  PROVE  HistoryInv'
  <1>1. PICK c \in 0 .. recorded :
          Sound(history, c) /\ recorded = c + Len(history) - Heads(history)
    BY DEF HistoryInv
  <1>2. c \in Nat /\ recorded \in 0 .. MaxMessages /\ MaxMessages \in Nat
    BY HistoryConstantsOK DEF HistoryInv, HistoryConstantsOK
  <1>3. c + Len(history) - Heads(history) <= MaxMessages /\ AllAnswered(history, Open)
    BY <1>1, <1>2 DEF HistoryInv
  <1> DEFINE h == history
             open == Open
  <1>4. /\ Sound(h, c) /\ CanCompact(h) /\ c + Len(h) - Heads(h) <= MaxMessages
        /\ AllAnswered(h, open)
    BY <1>1, <1>3
  <1> HIDE DEF h, open
  <1>5. PICK d \in Nat :
          /\ Sound(Compacted(h), d) /\ AllAnswered(Compacted(h), open)
          /\ d + Len(Compacted(h)) - Heads(Compacted(h)) = c + Len(h) - Heads(h)
          /\ d <= c + Len(h) - Heads(h)
    BY <1>2, <1>4, CompactedIsSound
  <1>6. /\ Sound(history', d) /\ AllAnswered(history', Open')
        /\ recorded' = d + Len(history') - Heads(history') /\ d <= recorded'
    BY <1>1, <1>5 DEF h, open
  <1>7. QED
    BY <1>2, <1>6 DEF HistoryInv

LEMMA HistoryStays ==
  ASSUME HistoryInv, UNCHANGED <<history, recorded>>, Open' = Open
  PROVE  HistoryInv'
  BY DEF HistoryInv

\* A user's message, one or several, asks for nothing and answers nothing.
LEMMA UsersAreRecorded ==
  ASSUME HistoryInv, NEW t \in Seq(Message), Open' = Open,
         history' = history \o t, recorded' = recorded + Len(t), recorded' <= MaxMessages,
         \A i \in 1 .. Len(t) : t[i].kind = "user" /\ t[i].id = recorded + i
  PROVE  HistoryInv'
  <1> DEFINE open == Open
  <1>1. Open \subseteq open /\ (AllAnswered(history', open) => AllAnswered(history', Open'))
    OBVIOUS
  <1>2. \A i \in 1 .. Len(t) :
          /\ ~IsSummary(t[i]) /\ t[i].id = recorded + i
          /\ t[i].kind # "tool" /\ t[i].kind # "assistant"
    BY DEF IsSummary
  <1> HIDE DEF open
  <1>3. QED
    BY <1>1, <1>2, HistoryGrows

\* While results are due, where their response stands and what they look like.
LEMMA AskingFacts ==
  ASSUME TurnTypes, HistoryInv, DueInv, phase = "calling"
  PROVE  /\ due # <<>> /\ Len(due) \in Nat \ {0} /\ Head(due) = due[1] /\ due[1] \in CallId
         /\ due[1][1] = history[Asking].id /\ due[1][2] \in Nat \ {0}
         /\ due[1] = <<history[Asking].id, due[1][2]>>
         /\ Asking \in 1 .. Len(history) /\ Len(history) \in Nat
         /\ history[Asking].kind = "assistant"
         /\ history[Asking].calls = due[1][2] - 1 + Len(due)
         /\ \A i \in 1 .. Len(due) : due[i] = <<history[Asking].id, due[1][2] + i - 1>>
         /\ \A i \in Asking + 1 .. Len(history) :
              history[i].kind = "tool" /\ history[i].call = <<history[Asking].id, i - Asking>>
  <1>1. /\ due \in Seq(CallId) /\ due # <<>> /\ Asking >= 1
        /\ history[Asking].kind = "assistant"
        /\ history[Asking].calls = due[1][2] - 1 + Len(due)
        /\ \A i \in 1 .. Len(due) : due[i] = <<history[Asking].id, due[1][2] + i - 1>>
        /\ \A i \in Asking + 1 .. Len(history) :
             history[i].kind = "tool" /\ history[i].call = <<history[Asking].id, i - Asking>>
    BY DEF TurnTypes, DueInv
  <1>2. Len(due) \in Nat \ {0} /\ Head(due) = due[1] /\ due[1] \in CallId
    BY <1>1, EmptySeq
  <1>3. due[1][2] \in Nat \ {0} /\ due[1] = <<due[1][1], due[1][2]>>
    BY <1>2 DEF CallId
  <1>4. Len(history) \in Nat
    BY DEF HistoryInv, Sound
  <1>5. Asking \in 1 .. Len(history)
    BY <1>1, <1>3, <1>4 DEF Asking
  <1>6. due[1] = <<history[Asking].id, due[1][2] + 1 - 1>>
    BY <1>1, <1>2
  <1>7. due[1][1] = history[Asking].id
    BY <1>6
  <1>8. QED
    BY <1>1, <1>2, <1>3, <1>4, <1>5, <1>7

LEMMA ResultIsRecorded ==
  ASSUME TurnTypes, HistoryInv, DueInv, NEW w \in Weights, RecordResult(w)
  PROVE  HistoryInv'
  <1> DEFINE m == [kind |-> "tool", id |-> recorded + 1, weight |-> w, call |-> Head(due)]
             t == <<m>>
             asker == history[Asking].id
  <1>1. phase = "calling"
    BY DEF RecordResult
  <1>2. /\ due # <<>> /\ Len(due) \in Nat \ {0} /\ Head(due) = due[1] /\ due[1] \in CallId
        /\ due[1][1] = asker /\ due[1][2] \in Nat \ {0} /\ due[1] = <<asker, due[1][2]>>
        /\ Asking \in 1 .. Len(history) /\ Len(history) \in Nat
        /\ history[Asking].kind = "assistant"
        /\ history[Asking].calls = due[1][2] - 1 + Len(due)
        /\ \A i \in 1 .. Len(due) : due[i] = <<asker, due[1][2] + i - 1>>
        /\ \A i \in Asking + 1 .. Len(history) :
             history[i].kind = "tool" /\ history[i].call = <<asker, i - Asking>>
    BY <1>1, AskingFacts
  <1>3. prompt' = Append(prompt, m) /\ history' = Append(history, m)
        /\ recorded < MaxMessages /\ recorded' = recorded + 1 /\ due' = Tail(due) /\ cut' = cut
    BY DEF RecordResult, Record
  <1>4. recorded + 1 \in 1 .. MaxMessages /\ recorded' <= MaxMessages
    BY <1>3, HistoryConstantsOK, SMTT(40) DEF HistoryInv, HistoryConstantsOK
  <1>5. m \in Message
    BY <1>2, <1>4, NewMessages
  <1>6. m.kind = "tool" /\ m.id = recorded + 1 /\ m.call = due[1]
    BY <1>2
  <1> HIDE DEF m
  <1>7. t \in Seq(Message) /\ Len(t) = 1 /\ t[1] = m
    BY <1>5
  <1>8. history' = history \o t
    <2>1. history \in Seq(Message)
      BY DEF HistoryInv, Sound
    <2>2. QED
      BY <1>3, <1>5, <2>1, AppendIsConcat
  <1> HIDE DEF t
  <1>9. \A i \in 1 .. Len(t) : i = 1 /\ t[i] = m
    BY <1>7
  <1>10. \A i \in 1 .. Len(t) :
           ~IsSummary(t[i]) /\ t[i].id = recorded + i /\ t[i].kind # "assistant"
    BY <1>6, <1>9 DEF IsSummary
  <1>11. \A i \in 1 .. Len(t) :
           t[i].kind = "tool" =>
             LET k == Len(history) + 1 - t[i].call[2]
             IN  /\ Len(t) = 1 /\ k \in 1 .. Len(history) /\ Answers(t[i], history[k])
                 /\ \A j \in k + 1 .. Len(history) : history[j].kind = "tool"
    <2>1. Len(history) + 1 - due[1][2] = Asking
      BY DEF Asking
    <2>2. Answers(m, history[Asking])
      <3>1. due[1][2] <= history[Asking].calls
        BY <1>2
      <3>2. QED
        BY <1>2, <1>6, <3>1 DEF Answers
    <2>3. QED
      BY <1>2, <1>6, <1>7, <1>9, <2>1, <2>2
  <1>12. Open = cut \cup {asker}
    <2>1. \A i \in 1 .. Len(due) : due[i][1] = asker
      BY <1>2
    <2>2. 1 \in 1 .. Len(due)
      BY <1>2
    <2>3. {due[i][1] : i \in 1 .. Len(due)} = {asker}
      BY <2>1, <2>2
    <2>4. QED
      BY <2>3 DEF Open
  <1>13. CASE Len(due) # 1
    <2>1. due \in Seq(CallId)
      BY DEF TurnTypes
    <2>2. Len(due') = Len(due) - 1 /\ \A i \in 1 .. Len(due) - 1 : due'[i] = due[i + 1]
      BY <1>2, <1>3, <2>1
    <2>3. ASSUME NEW i \in 1 .. Len(due')
          PROVE  due'[i][1] = asker
      <3>1. i \in 1 .. Len(due) - 1 /\ i + 1 \in 1 .. Len(due)
        BY <1>2, <2>2
      <3>2. due'[i] = due[i + 1]
        BY <2>2, <3>1
      <3>3. due[i + 1] = <<asker, due[1][2] + (i + 1) - 1>>
        BY <1>2, <3>1
      <3>4. QED
        BY <3>2, <3>3
    <2>4. 1 \in 1 .. Len(due')
      BY <1>2, <1>13, <2>2
    <2>5. {due'[i][1] : i \in 1 .. Len(due')} = {asker}
      BY <2>3, <2>4
    <2>6. Open' = Open
      BY <1>3, <1>12, <2>5 DEF Open
    <2> DEFINE open == Open
    <2>7. Open \subseteq open /\ (AllAnswered(history', open) => AllAnswered(history', Open'))
      BY <2>6
    <2> HIDE DEF open
    <2>8. recorded' = recorded + Len(t)
      BY <1>3, <1>7
    <2>9. QED
      BY <1>4, <1>7, <1>8, <1>10, <1>11, <2>7, <2>8, HistoryGrows
  <1>14. CASE Len(due) = 1
    <2>1. due' = <<>>
      <3>1. due \in Seq(CallId) /\ due' = Tail(due)
        BY <1>3 DEF TurnTypes
      <3>2. due' \in Seq(CallId) /\ Len(due') = 0
        BY <1>2, <1>14, <3>1
      <3>3. QED
        BY <3>2, EmptySeq
    <2>2. Open' = cut
      <3>1. {due'[i][1] : i \in 1 .. Len(due')} = {}
        BY <2>1
      <3>2. QED
        BY <1>3, <3>1 DEF Open
    <2>3. history[Asking].calls = due[1][2] /\ Asking + due[1][2] = Len(history) + 1
      BY <1>2, <1>14 DEF Asking
    <2>4. PICK c \in 0 .. recorded :
            Sound(history, c) /\ recorded = c + Len(history) - Heads(history)
      BY DEF HistoryInv
    <2>5. c \in Nat /\ recorded \in Nat /\ history \in Seq(Message)
      BY <2>4, HistoryConstantsOK DEF HistoryInv, HistoryConstantsOK, Sound
    <2>6. asker = c + Asking - Heads(history) /\ Heads(history) \in {0, 1}
      BY <1>2, <2>4, <2>5, ResponseNumber
    <2>7. /\ Len(history') = Len(history) + 1 /\ history'[Len(history) + 1] = m
          /\ \A i \in 1 .. Len(history) : history'[i] = history[i]
      BY <1>2, <1>3, <1>5, <2>5
    <2> DEFINE open == Open
    <2>8. ASSUME AllAnswered(history', open)
          PROVE  AllAnswered(history', Open')
      <3>1. ASSUME NEW k \in 1 .. Len(history'), history'[k].kind = "assistant",
                   history'[k].id \notin Open', NEW call \in 1 .. history'[k].calls
            PROVE  /\ k + call <= Len(history') /\ history'[k + call].kind = "tool"
                   /\ history'[k + call].call = <<history'[k].id, call>>
        <4>1. CASE history'[k].id # asker
          <5>1. history'[k].id \notin open
            BY <1>12, <2>2, <3>1, <4>1
          <5> HIDE DEF open
          <5>2. QED
            BY <2>8, <3>1, <5>1 DEF AllAnswered
        <4>2. CASE history'[k].id = asker
          <5>1. k \in 1 .. Len(history)
            <6>1. ASSUME k = Len(history) + 1
                  PROVE  FALSE
              <7>1. history'[k] = m
                BY <2>7, <6>1, Zenon
              <7>2. QED
                BY <1>6, <3>1, <7>1
            <6>2. k \in 1 .. Len(history) + 1 /\ Len(history) \in Nat
              BY <1>2, <2>7
            <6>3. QED
              BY <6>1, <6>2
          <5>2. history'[k] = history[k]
            BY <2>7, <5>1
          <5>3. history[k].id = c + k - Heads(history)
            BY <2>4, <2>5, <3>1, <5>1, <5>2, ResponseNumber
          <5>4. c + k - Heads(history) = c + Asking - Heads(history)
            BY <2>6, <4>2, <5>2, <5>3
          <5>5. k = Asking
            BY <1>2, <2>5, <2>6, <5>1, <5>4
          <5>6. call \in 1 .. due[1][2]
            BY <2>3, <3>1, <5>2, <5>5
          <5>7. CASE call = due[1][2]
            <6>1. Asking + call = Len(history) + 1
              BY <2>3, <5>7
            <6>2. history'[Asking + call] = m /\ Asking + call <= Len(history')
              BY <1>2, <2>7, <6>1
            <6>3. m.call = <<asker, call>>
              BY <1>2, <1>6, <5>7
            <6>4. QED
              BY <1>6, <4>2, <5>5, <6>2, <6>3
          <5>8. CASE call # due[1][2]
            <6> DEFINE i == Asking + call
            <6>1. /\ i \in Asking + 1 .. Len(history) /\ i \in 1 .. Len(history)
                  /\ i <= Len(history') /\ i - Asking = call
              BY <1>2, <2>3, <2>7, <5>6, <5>8
            <6> HIDE DEF i
            <6>2. history'[i].kind = "tool" /\ history'[i].call = <<asker, call>>
              BY <1>2, <2>7, <6>1
            <6>3. QED
              BY <4>2, <5>5, <6>1, <6>2 DEF i
          <5>9. QED
            BY <5>7, <5>8
        <4>3. QED
          BY <4>1, <4>2
      <3> HIDE DEF open
      <3>2. QED
        BY <3>1 DEF AllAnswered
    <2>9. Open \subseteq open
      OBVIOUS
    <2> HIDE DEF open
    <2>10. recorded' = recorded + Len(t)
      BY <1>3, <1>7
    <2>11. QED
      BY <1>4, <1>7, <1>8, <1>10, <1>11, <2>8, <2>9, <2>10, HistoryGrows
  <1>15. QED
    BY <1>13, <1>14

LEMMA ResponseIsRecorded ==
  ASSUME TurnTypes, HistoryInv, DueInv, NEW n \in 0 .. MaxCalls, NEW w \in Weights,
         Respond(n, w)
  PROVE  HistoryInv'
  <1> DEFINE m == [kind |-> "assistant", id |-> recorded + 1, weight |-> w, calls |-> n]
             t == <<m>>
  <1>1. /\ recorded < MaxMessages /\ recorded' = recorded + 1
        /\ history' = Append(history, m) /\ phase = "sampling"
    BY DEF Respond
  <1>2. recorded + 1 \in 1 .. MaxMessages /\ recorded' <= MaxMessages /\ recorded \in Nat
    BY <1>1, HistoryConstantsOK, SMTT(40) DEF HistoryInv, HistoryConstantsOK
  <1>3. m \in Message
    BY <1>2, NewMessages
  <1>4. m.kind = "assistant" /\ m.id = recorded + 1 /\ m.calls = n
    OBVIOUS
  <1> HIDE DEF m
  <1>5. t \in Seq(Message) /\ Len(t) = 1 /\ t[1] = m
    BY <1>3
  <1>6. history' = history \o t
    <2>1. history \in Seq(Message)
      BY DEF HistoryInv, Sound
    <2>2. QED
      BY <1>1, <1>3, <2>1, AppendIsConcat
  <1> HIDE DEF t
  <1>7. \A i \in 1 .. Len(t) : i = 1 /\ t[i] = m
    BY <1>5
  <1>8. \A i \in 1 .. Len(t) :
          ~IsSummary(t[i]) /\ t[i].id = recorded + i /\ t[i].kind # "tool"
    BY <1>4, <1>7 DEF IsSummary
  <1>9. recorded' = recorded + Len(t)
    BY <1>1, <1>5
  <1>10. Open \subseteq Open' /\ (n # 0 => recorded + 1 \in Open')
    <2>1. due = <<>>
      BY <1>1 DEF DueInv
    <2>2. Open = cut
      <3>1. {due[i][1] : i \in 1 .. Len(due)} = {}
        BY <2>1
      <3>2. QED
        BY <3>1 DEF Open
    <2>3. CASE n = 0
      <3>1. EndTurn
        BY <2>3 DEF Respond
      <3>2. QED
        BY <2>3, <3>1, EndTurnTypes
    <2>4. CASE n # 0
      <3>1. due' = [i \in 1 .. n |-> <<recorded + 1, i>>] /\ cut' = cut
        BY <2>4 DEF Respond
      <3>2. n \in Nat /\ 1 \in 1 .. n
        BY <2>4
      <3>3. Len(due') = n /\ due'[1] = <<recorded + 1, 1>>
        BY <3>1, <3>2
      <3>4. due'[1][1] = recorded + 1 /\ 1 \in 1 .. Len(due')
        BY <3>2, <3>3
      <3>5. QED
        BY <2>2, <3>1, <3>4 DEF Open
    <2>5. QED
      BY <2>3, <2>4
  <1> DEFINE open == Open'
  <1>11. Open \subseteq open /\ (AllAnswered(history', open) => AllAnswered(history', Open'))
    BY <1>10
  <1>12. \A i \in 1 .. Len(t) :
           t[i].kind = "assistant" => t[i].id \in open \/ t[i].calls = 0
    BY <1>4, <1>7, <1>10
  <1> HIDE DEF open
  <1>13. QED
    BY <1>2, <1>5, <1>6, <1>8, <1>9, <1>11, <1>12, HistoryGrows

LEMMA NextHistory ==
  ASSUME TurnTypes, HistoryInv, DueInv, [Next]_vars
  PROVE  HistoryInv'
  <1>1. recorded \in 0 .. MaxMessages /\ MaxMessages \in Nat /\ history \in Seq(Message)
        /\ recorded \in Nat
    BY HistoryConstantsOK DEF HistoryInv, Sound, HistoryConstantsOK
  <1>2. ASSUME NEW w \in Weights, BeginTurn(w)
        PROVE  HistoryInv'
    <2> DEFINE m == User(w)
               t == <<m>>
    <2>1. /\ recorded < MaxMessages /\ recorded' = recorded + 1
          /\ history' = Append(history, m) /\ UNCHANGED <<due, cut>>
      BY <1>2 DEF BeginTurn, Record
    <2>2. recorded + 1 \in 1 .. MaxMessages /\ recorded' <= MaxMessages
      BY <1>1, <2>1
    <2>3. m \in Message /\ m.kind = "user" /\ m.id = recorded + 1
      BY <2>2, NewMessages DEF User
    <2> HIDE DEF m
    <2>4. t \in Seq(Message) /\ Len(t) = 1 /\ t[1] = m
      BY <2>3
    <2>5. history' = history \o t
      BY <1>1, <2>1, <2>3, AppendIsConcat
    <2> HIDE DEF t
    <2>6. \A i \in 1 .. Len(t) : t[i].kind = "user" /\ t[i].id = recorded + i
      BY <2>3, <2>4
    <2>7. Open' = Open
      BY <2>1 DEF Open
    <2>8. recorded' = recorded + Len(t)
      BY <2>1, <2>4
    <2>9. QED
      BY <2>2, <2>4, <2>5, <2>6, <2>7, <2>8, UsersAreRecorded
  <1>3. ASSUME NEW w \in Weights, TakeInputs(w)
        PROVE  HistoryInv'
    <2> DEFINE t == [i \in 1 .. steering |->
                       [kind |-> "user", id |-> recorded + i, weight |-> w]]
    <2>1. /\ recorded + steering <= MaxMessages /\ recorded' = recorded + steering
          /\ history' = history \o t /\ UNCHANGED <<due, cut>>
      BY <1>3 DEF TakeInputs
    <2>2. steering \in Nat
      BY HistoryConstantsOK DEF TurnTypes, HistoryConstantsOK
    <2>3. ASSUME NEW i \in 1 .. steering
          PROVE  t[i] \in Message /\ t[i].kind = "user" /\ t[i].id = recorded + i
      <3>1. recorded + i \in 1 .. MaxMessages
        BY <1>1, <2>1, <2>2
      <3>2. QED
        BY <3>1, NewMessages
    <2>4. t \in Seq(Message) /\ Len(t) = steering
      <3>1. \A i \in 1 .. steering : t[i] \in Message
        BY <2>3
      <3>2. t = [i \in 1 .. steering |-> t[i]]
        OBVIOUS
      <3> HIDE DEF t
      <3>3. QED
        BY <2>2, <3>1, <3>2
    <2>5. \A i \in 1 .. Len(t) : t[i].kind = "user" /\ t[i].id = recorded + i
      BY <2>3, <2>4
    <2> HIDE DEF t
    <2>6. Open' = Open
      BY <2>1 DEF Open
    <2>7. recorded' = recorded + Len(t) /\ recorded' <= MaxMessages
      BY <2>1, <2>4
    <2>8. QED
      BY <2>1, <2>4, <2>5, <2>6, <2>7, UsersAreRecorded
  <1>4. ASSUME Steer \/ StreamRetry \/ UNCHANGED vars
        PROVE  HistoryInv'
    <2>1. UNCHANGED <<history, recorded, due, cut>>
      BY <1>4 DEF Steer, StreamRetry, vars
    <2>2. QED
      BY <2>1, HistoryStays DEF Open
  <1>5. ASSUME AutoCompact
        PROVE  HistoryInv'
    <2>1. UNCHANGED <<recorded, due, cut>>
      BY <1>5 DEF AutoCompact
    <2>2. Open' = Open
      BY <2>1 DEF Open
    <2>3. \/ CanCompact(history) /\ history' = Compacted(history)
          \/ history' = history
      BY <1>5 DEF AutoCompact, ReplaceHistory
    <2>4. QED
      BY <2>1, <2>2, <2>3, HistoryShrinks, HistoryStays
  <1>6. ASSUME EndTurn, UNCHANGED <<history, recorded>>
        PROVE  HistoryInv'
    BY <1>6, EndTurnTypes, HistoryStays
  <1>7. ASSUME OverflowRetry \/ ManualCompact
        PROVE  HistoryInv'
    <2>1. /\ CanCompact(history) /\ history' = Compacted(history)
          /\ UNCHANGED <<recorded, due, cut>>
      BY <1>7 DEF OverflowRetry, ManualCompact, ReplaceHistory
    <2>2. QED
      BY <2>1, HistoryShrinks DEF Open
  <1>8. ASSUME NEW l \in Limits \cup {NoLimit}, SwitchModel(l)
        PROVE  HistoryInv'
    <2>1. UNCHANGED <<recorded, due, cut>>
      BY <1>8 DEF SwitchModel
    <2>2. \/ CanCompact(history) /\ history' = Compacted(history)
          \/ history' = history
      BY <1>8 DEF SwitchModel
    <2>3. Open' = Open
      BY <2>1 DEF Open
    <2>4. QED
      BY <2>1, <2>2, <2>3, HistoryShrinks, HistoryStays
  <1>9. QED
    <2>1. AutoCompactFails \/ SamplingFails \/ FatalTool \/ Interrupt
            => EndTurn /\ UNCHANGED <<history, recorded>>
      BY DEF AutoCompactFails, SamplingFails, FatalTool, Interrupt
    <2>2. QED
      BY <1>2, <1>3, <1>4, <1>5, <1>6, <1>7, <1>8, <2>1, ResponseIsRecorded, ResultIsRecorded
         DEF Next

LEMMA DueAfterResponse ==
  ASSUME HistoryInv, NEW n \in 1 .. MaxCalls, NEW w \in Weights, Respond(n, w)
  PROVE  DueInv' /\ phase' = "calling" /\ Asking' = Len(history) + 1
  <1> DEFINE m == [kind |-> "assistant", id |-> recorded + 1, weight |-> w, calls |-> n]
  <1>1. /\ n # 0 /\ n \in Nat /\ recorded \in 0 .. MaxMessages /\ MaxMessages \in Nat
        /\ history \in Seq(Message) /\ Len(history) \in Nat
    BY HistoryConstantsOK DEF HistoryConstantsOK, HistoryInv, Sound
  <1>2. /\ recorded < MaxMessages /\ history' = Append(history, m) /\ phase' = "calling"
        /\ due' = [i \in 1 .. n |-> <<recorded + 1, i>>]
    BY <1>1 DEF Respond
  <1>3. m \in Message
    <2>1. recorded + 1 \in 1 .. MaxMessages /\ n \in 0 .. MaxCalls
      BY <1>1, <1>2
    <2>2. QED
      BY <2>1, NewMessages
  <1>4. m.kind = "assistant" /\ m.id = recorded + 1 /\ m.calls = n
    OBVIOUS
  <1> HIDE DEF m
  <1>5. Len(history') = Len(history) + 1 /\ history'[Len(history) + 1] = m
    BY <1>1, <1>2, <1>3
  <1>6. Len(due') = n /\ due' # <<>> /\ \A i \in 1 .. n : due'[i] = <<recorded + 1, i>>
    <2>1. 1 \in 1 .. n /\ due'[1] = <<recorded + 1, 1>> /\ Len(due') = n
      BY <1>1, <1>2
    <2>2. due' # <<>>
      BY <1>1, <2>1
    <2>3. QED
      BY <1>2, <2>1, <2>2
  <1>7. due'[1][2] = 1
    BY <1>1, <1>6
  <1>8. Asking' = Len(history) + 1
    <2>1. Asking' = Len(history') + 1 - due'[1][2]
      BY DEF Asking
    <2>2. QED
      BY <1>1, <1>5, <1>7, <2>1
  <1> DEFINE a == Asking'
  <1>9. a = Len(history) + 1
    BY <1>8
  <1>10. /\ a >= 1 /\ history'[a].kind = "assistant" /\ history'[a].id = recorded + 1
         /\ history'[a].calls = due'[1][2] - 1 + Len(due')
    BY <1>1, <1>4, <1>5, <1>6, <1>7, <1>9
  <1>11. \A i \in 1 .. Len(due') : due'[i] = <<history'[a].id, due'[1][2] + i - 1>>
    BY <1>6, <1>7, <1>10
  <1>12. \A i \in a + 1 .. Len(history') :
           history'[i].kind = "tool" /\ history'[i].call = <<history'[a].id, i - a>>
    <2>1. a + 1 .. Len(history') = {}
      BY <1>1, <1>5, <1>9
    <2>2. QED
      BY <2>1
  <1>13. DueInv'
    BY <1>2, <1>6, <1>10, <1>11, <1>12 DEF DueInv
  <1>14. QED
    BY <1>2, <1>8, <1>13

LEMMA DueAfterResult ==
  ASSUME TurnTypes, HistoryInv, DueInv, NEW w \in Weights, RecordResult(w)
  PROVE  /\ DueInv'
         /\ phase' = "calling" => Asking' = Asking
  <1> DEFINE m == [kind |-> "tool", id |-> recorded + 1, weight |-> w, call |-> Head(due)]
             a == Asking
             asker == history[a].id
             q == due[1][2]
  <1>1. phase = "calling"
    BY DEF RecordResult
  <1>2. /\ due # <<>> /\ Len(due) \in Nat \ {0} /\ Head(due) = due[1] /\ due[1] \in CallId
        /\ q \in Nat \ {0} /\ due[1] = <<asker, q>>
        /\ a \in 1 .. Len(history) /\ Len(history) \in Nat
        /\ history[a].kind = "assistant"
        /\ history[a].calls = q - 1 + Len(due)
        /\ \A i \in 1 .. Len(due) : due[i] = <<asker, q + i - 1>>
        /\ \A i \in a + 1 .. Len(history) :
             history[i].kind = "tool" /\ history[i].call = <<asker, i - a>>
    BY <1>1, AskingFacts
  <1>3. /\ recorded < MaxMessages /\ history' = Append(history, m) /\ due' = Tail(due)
        /\ phase' = IF Len(due) = 1 THEN "head" ELSE "calling"
    BY DEF RecordResult, Record
  <1>4. history \in Seq(Message) /\ due \in Seq(CallId) /\ recorded \in 0 .. MaxMessages
        /\ MaxMessages \in Nat
    BY HistoryConstantsOK DEF HistoryInv, Sound, TurnTypes, HistoryConstantsOK
  <1>5. m \in Message
    <2>1. recorded + 1 \in 1 .. MaxMessages
      BY <1>3, <1>4
    <2>2. QED
      BY <1>2, <2>1, NewMessages
  <1>6. m.kind = "tool" /\ m.call = <<asker, q>>
    BY <1>2
  <1>7. a = Len(history) + 1 - q
    BY DEF Asking
  <1> HIDE DEF m, a, q
  <1>8. /\ Len(history') = Len(history) + 1 /\ history'[Len(history) + 1] = m
        /\ \A i \in 1 .. Len(history) : history'[i] = history[i]
    BY <1>2, <1>3, <1>4, <1>5
  <1>9. Len(due') = Len(due) - 1 /\ \A i \in 1 .. Len(due) - 1 : due'[i] = due[i + 1]
    BY <1>2, <1>3, <1>4
  <1>10. CASE Len(due) = 1
    <2>1. due' \in Seq(CallId) /\ Len(due') = 0
      BY <1>2, <1>3, <1>4, <1>9, <1>10
    <2>2. due' = <<>>
      BY <2>1, EmptySeq
    <2>3. QED
      BY <1>3, <1>10, <2>2 DEF DueInv
  <1>11. CASE Len(due) # 1
    <2>1. phase' = "calling" /\ 1 \in 1 .. Len(due) - 1
      <3>1. phase' = "calling"
        BY <1>3, <1>11
      <3> DEFINE d == Len(due)
      <3>2. d \in Nat \ {0} /\ d # 1
        BY <1>2, <1>11
      <3> HIDE DEF d
      <3>3. 1 \in 1 .. d - 1
        BY <3>2
      <3>4. QED
        BY <3>1, <3>3 DEF d
    <2>2. \A i \in 1 .. Len(due') : due'[i] = <<asker, q + i>>
      <3>1. ASSUME NEW i \in 1 .. Len(due')
            PROVE  due'[i] = <<asker, q + i>>
        <4>1. i \in 1 .. Len(due) - 1 /\ i + 1 \in 1 .. Len(due)
          BY <1>2, <1>9
        <4>2. due'[i] = due[i + 1] /\ q + (i + 1) - 1 = q + i
          BY <1>2, <1>9, <4>1
        <4>3. due[i + 1] = <<asker, q + (i + 1) - 1>>
          BY <1>2, <4>1
        <4>4. QED
          BY <4>2, <4>3
      <3>2. QED
        BY <3>1
    <2>3. due'[1][2] = q + 1 /\ due' # <<>>
      <3>1. Len(due') # 0 /\ 1 \in 1 .. Len(due')
        BY <1>2, <1>9, <2>1
      <3>2. due'[1] = <<asker, q + 1>>
        BY <2>2, <3>1
      <3>3. due' # <<>>
        BY <3>1
      <3>4. QED
        BY <3>2, <3>3
    <2>4. Asking' = a
      <3>1. Asking' = Len(history') + 1 - due'[1][2]
        BY DEF Asking
      <3>2. QED
        BY <1>2, <1>7, <1>8, <2>3, <3>1
    <2> DEFINE b == Asking'
    <2>5. b = a
      BY <2>4
    <2> HIDE DEF b
    <2>6. /\ b >= 1 /\ history'[b].kind = "assistant" /\ history'[b].id = asker
          /\ history'[b].calls = due'[1][2] - 1 + Len(due')
      <3>1. history'[b] = history[a]
        BY <1>2, <1>8, <2>5
      <3>2. q - 1 + Len(due) = due'[1][2] - 1 + Len(due')
        BY <1>2, <1>9, <2>3
      <3>3. QED
        BY <1>2, <2>5, <3>1, <3>2
    <2>7. \A i \in 1 .. Len(due') : due'[i] = <<history'[b].id, due'[1][2] + i - 1>>
      <3>1. \A i \in 1 .. Len(due') : q + i = due'[1][2] + i - 1
        BY <1>2, <1>9, <2>3
      <3>2. QED
        BY <2>2, <2>6, <3>1
    <2>8. ASSUME NEW i \in b + 1 .. Len(history')
          PROVE  history'[i].kind = "tool" /\ history'[i].call = <<history'[b].id, i - b>>
      <3>1. CASE i = Len(history) + 1
        <4>1. i - b = q
          BY <1>2, <1>7, <2>5, <3>1
        <4>2. QED
          BY <1>6, <1>8, <2>6, <3>1, <4>1
      <3>2. CASE i # Len(history) + 1
        <4>1. i \in a + 1 .. Len(history) /\ i \in 1 .. Len(history)
          BY <1>2, <1>8, <2>5, <3>2
        <4>2. QED
          BY <1>2, <1>8, <2>5, <2>6, <4>1
      <3>3. QED
        BY <3>1, <3>2
    <2>9. DueInv'
      BY <2>1, <2>3, <2>6, <2>7, <2>8 DEF DueInv, b
    <2>10. QED
      BY <2>4, <2>9 DEF a
  <1>12. QED
    BY <1>10, <1>11

LEMMA NextDue ==
  ASSUME TurnTypes, HistoryInv, DueInv, [Next]_vars
  PROVE  DueInv'
  <1>1. ASSUME NEW w \in Weights, BeginTurn(w)
        PROVE  DueInv'
    BY <1>1 DEF BeginTurn, DueInv
  <1>2. ASSUME Steer \/ StreamRetry \/ UNCHANGED vars
        PROVE  DueInv'
    <2>1. UNCHANGED <<history, phase, due>>
      BY <1>2 DEF Steer, StreamRetry, vars
    <2>2. QED
      BY <2>1 DEF DueInv, Asking
  <1>3. ASSUME NEW w \in Weights, TakeInputs(w)
        PROVE  DueInv'
    BY <1>3 DEF TakeInputs, DueInv
  <1>4. ASSUME AutoCompact
        PROVE  DueInv'
    BY <1>4 DEF AutoCompact, StartSampling, DueInv
  <1>5. ASSUME EndTurn
        PROVE  DueInv'
    BY <1>5, EndTurnTypes DEF DueInv
  <1>6. ASSUME NEW n \in 0 .. MaxCalls, NEW w \in Weights, Respond(n, w)
        PROVE  DueInv'
    <2>1. CASE n = 0
      <3>1. EndTurn
        BY <1>6, <2>1 DEF Respond
      <3>2. QED
        BY <1>5, <3>1
    <2>2. CASE n # 0
      <3>1. n \in 1 .. MaxCalls
        BY <2>2, HistoryConstantsOK DEF HistoryConstantsOK
      <3>2. QED
        BY <1>6, <3>1, DueAfterResponse
    <2>3. QED
      BY <2>1, <2>2
  <1>7. ASSUME OverflowRetry
        PROVE  DueInv'
    BY <1>7 DEF OverflowRetry, DueInv
  <1>8. ASSUME ManualCompact
        PROVE  DueInv'
    BY <1>8 DEF ManualCompact, DueInv
  <1>9. ASSUME NEW l \in Limits \cup {NoLimit}, SwitchModel(l)
        PROVE  DueInv'
    BY <1>9 DEF SwitchModel, DueInv
  <1>10. QED
    <2>1. AutoCompactFails \/ SamplingFails \/ FatalTool \/ Interrupt => EndTurn
      BY DEF AutoCompactFails, SamplingFails, FatalTool, Interrupt
    <2>2. QED
      BY <1>1, <1>2, <1>3, <1>4, <1>5, <1>6, <1>7, <1>8, <1>9, <2>1, DueAfterResult DEF Next

\* Messages that are recorded join the history and the prompt alike.
LEMMA PromptGrows ==
  ASSUME NEW t \in Seq(Message), NEW p \in 1 .. Len(history) + 1,
         history \in Seq(Message), history' = history \o t,
         prompt' = From(history, p) \o t,
         UNCHANGED limit, limit # NoLimit => Closed(history, p),
         \A i \in 1 .. Len(t) :
           t[i].kind = "tool" => Len(t) = 1 /\ (Len(history) + 1) - t[i].call[2] >= p
  PROVE  /\ p \in 1 .. Len(history') + 1 /\ prompt' = From(history', p)
         /\ limit' # NoLimit => Closed(history', p)
  <1>1. Len(history) \in Nat /\ Len(t) \in Nat /\ p \in Nat
    OBVIOUS
  <1> DEFINE g == history'
  <1>2. /\ g \in Seq(Message) /\ Len(g) = Len(history) + Len(t)
        /\ \A i \in 1 .. Len(history) + Len(t) :
             g[i] = IF i <= Len(history) THEN history[i] ELSE t[i - Len(history)]
    <2>1. g = history \o t
      OBVIOUS
    <2> HIDE DEF g
    <2>2. QED
      BY <2>1, ConcatProperties
  <1>3. p \in 1 .. Len(g) + 1
    <2> HIDE DEF g
    <2>1. QED
      BY <1>1, <1>2
  <1>4. prompt' = From(g, p)
    BY FromConcat
  <1>5. ASSUME limit' # NoLimit
        PROVE  Closed(g, p)
    <2>1. Closed(history, p)
      BY <1>5
    <2> HIDE DEF g
    <2>2. ASSUME NEW j \in p .. Len(g), g[j].kind = "tool"
          PROVE  j - g[j].call[2] >= p
      <3>1. CASE j <= Len(history)
        <4>1. j \in p .. Len(history) /\ j \in 1 .. Len(history) + Len(t)
          BY <1>1, <1>2, <3>1
        <4>2. g[j] = history[j]
          BY <1>2, <3>1, <4>1
        <4>3. QED
          BY <2>1, <2>2, <4>1, <4>2 DEF Closed
      <3>2. CASE ~(j <= Len(history))
        <4> DEFINE i == j - Len(history)
        <4>1. i \in 1 .. Len(t) /\ j \in 1 .. Len(history) + Len(t) /\ j = Len(history) + i
          BY <1>1, <1>2, <3>2
        <4>2. g[j] = t[i]
          BY <1>2, <3>2, <4>1
        <4> HIDE DEF i
        <4>3. Len(t) = 1 /\ (Len(history) + 1) - t[i].call[2] >= p
          BY <2>2, <4>1, <4>2
        <4>4. j = Len(history) + 1
          BY <1>1, <4>1, <4>3
        <4>5. QED
          BY <4>2, <4>3, <4>4
      <3>3. QED
        BY <3>1, <3>2
    <2>3. QED
      BY <2>2 DEF Closed
  <1>6. QED
    BY <1>3, <1>4, <1>5

\* The prompt after a compaction is built from the new history.
LEMMA PromptIsRebuilt ==
  ASSUME TurnTypes, HistoryInv', prompt' = Window(history'), UNCHANGED limit,
         phase' \notin {"idle", "calling"}
  PROVE  PromptInv'
  <1>1. PICK c \in 0 .. recorded' : Sound(history', c)
    BY DEF HistoryInv
  <1>2. c \in Nat
    BY HistoryConstantsOK DEF HistoryInv, HistoryConstantsOK
  <1>3. PICK p \in 1 .. Len(history') + 1 :
          Window(history') = From(history', p) /\ (limit # NoLimit => Closed(history', p))
    BY <1>1, <1>2, WindowIsTheEnd DEF TurnTypes
  <1>4. Begins(p)'
    BY <1>3 DEF Begins
  <1>5. QED
    BY <1>4 DEF PromptInv

LEMMA PromptAtStart ==
  ASSUME TurnTypes, HistoryInv, NEW w \in Weights, BeginTurn(w)
  PROVE  PromptInv'
  <1> DEFINE m == User(w)
             t == <<m>>
  <1>1. /\ recorded < MaxMessages /\ history' = Append(history, m)
        /\ prompt' = Append(Window(history), m) /\ phase' = "head" /\ UNCHANGED limit
    BY DEF BeginTurn, Record
  <1>2. m \in Message /\ m.kind = "user"
    <2>1. recorded + 1 \in 1 .. MaxMessages
      BY <1>1, HistoryConstantsOK, SMTT(40) DEF HistoryInv, HistoryConstantsOK
    <2>2. QED
      BY <2>1, NewMessages DEF User
  <1> HIDE DEF m
  <1>3. PICK c \in 0 .. recorded : Sound(history, c)
    BY DEF HistoryInv
  <1>4. c \in Nat /\ history \in Seq(Message) /\ Len(history) \in Nat
    BY <1>3, HistoryConstantsOK DEF HistoryInv, HistoryConstantsOK, Sound
  <1>5. PICK p \in 1 .. Len(history) + 1 :
          Window(history) = From(history, p) /\ (limit # NoLimit => Closed(history, p))
    BY <1>3, <1>4, WindowIsTheEnd DEF TurnTypes
  <1>6. From(history, p) \in Seq(Message)
    BY <1>4, FromProperties
  <1>7. t \in Seq(Message) /\ Len(t) = 1 /\ t[1] = m
    BY <1>2
  <1>8. history' = history \o t /\ prompt' = From(history, p) \o t
    BY <1>1, <1>2, <1>4, <1>5, <1>6, AppendIsConcat
  <1> HIDE DEF t
  <1>9. \A i \in 1 .. Len(t) : t[i].kind # "tool"
    BY <1>2, <1>7
  <1>10. /\ p \in 1 .. Len(history') + 1 /\ prompt' = From(history', p)
         /\ limit' # NoLimit => Closed(history', p)
    BY <1>1, <1>4, <1>5, <1>7, <1>8, <1>9, PromptGrows
  <1>11. Begins(p)'
    BY <1>1, <1>10 DEF Begins
  <1>12. QED
    BY <1>1, <1>10, <1>11 DEF PromptInv

LEMMA PromptAfterInputs ==
  ASSUME TurnTypes, HistoryInv, PromptInv, NEW w \in Weights, TakeInputs(w)
  PROVE  PromptInv'
  <1> DEFINE t == [i \in 1 .. steering |->
                     [kind |-> "user", id |-> recorded + i, weight |-> w]]
  <1>1. /\ phase = "head" /\ phase' = "compacting" /\ UNCHANGED limit
        /\ recorded + steering <= MaxMessages
        /\ history' = history \o t /\ prompt' = prompt \o t
    BY DEF TakeInputs
  <1>2. history \in Seq(Message) /\ recorded \in Nat /\ steering \in Nat /\ MaxMessages \in Nat
    BY HistoryConstantsOK DEF TurnTypes, HistoryInv, Sound, HistoryConstantsOK
  <1>3. ASSUME NEW i \in 1 .. steering
        PROVE  t[i] \in Message /\ t[i].kind = "user"
    <2>1. recorded + i \in 1 .. MaxMessages
      BY <1>1, <1>2
    <2>2. QED
      BY <2>1, NewMessages
  <1>4. t \in Seq(Message) /\ Len(t) = steering
    <2>1. t = [i \in 1 .. steering |-> t[i]]
      OBVIOUS
    <2> HIDE DEF t
    <2>2. QED
      BY <1>2, <1>3, <2>1
  <1>5. \A i \in 1 .. Len(t) : t[i].kind # "tool"
    BY <1>3, <1>4
  <1> HIDE DEF t
  <1>6. PICK p \in 1 .. Len(history) + 1 : Begins(p)
    BY <1>1 DEF PromptInv
  <1>7. /\ p \in 1 .. Len(history') + 1 /\ prompt' = From(history', p)
        /\ limit' # NoLimit => Closed(history', p)
    BY <1>1, <1>2, <1>4, <1>5, <1>6, PromptGrows DEF Begins
  <1>8. Begins(p)'
    BY <1>1, <1>7 DEF Begins
  <1>9. QED
    BY <1>1, <1>7, <1>8 DEF PromptInv

LEMMA PromptAfterResponse ==
  ASSUME TurnTypes, HistoryInv, PromptInv, NEW n \in 1 .. MaxCalls, NEW w \in Weights,
         Respond(n, w)
  PROVE  PromptInv'
  <1> DEFINE m == [kind |-> "assistant", id |-> recorded + 1, weight |-> w, calls |-> n]
             t == <<m>>
  <1>1. n # 0 /\ n \in 0 .. MaxCalls
    BY HistoryConstantsOK DEF HistoryConstantsOK
  <1>2. /\ recorded < MaxMessages /\ history' = Append(history, m) /\ phase = "sampling"
        /\ prompt' = Append(prompt, m) /\ UNCHANGED limit
    BY <1>1 DEF Respond
  <1>3. m \in Message /\ m.kind = "assistant"
    <2>1. recorded + 1 \in 1 .. MaxMessages
      BY <1>2, HistoryConstantsOK, SMTT(40) DEF HistoryInv, HistoryConstantsOK
    <2>2. QED
      BY <1>1, <2>1, NewMessages
  <1> HIDE DEF m
  <1>4. history \in Seq(Message) /\ Len(history) \in Nat
    BY DEF HistoryInv, Sound
  <1>5. PICK p \in 1 .. Len(history) + 1 : Begins(p)
    BY <1>2 DEF PromptInv
  <1>6. prompt = From(history, p) /\ prompt \in Seq(Message)
        /\ (limit # NoLimit => Closed(history, p))
    BY <1>4, <1>5, FromProperties DEF Begins
  <1>7. t \in Seq(Message) /\ Len(t) = 1 /\ t[1] = m
    BY <1>3
  <1>8. history' = history \o t /\ prompt' = From(history, p) \o t
    BY <1>2, <1>3, <1>4, <1>6, AppendIsConcat
  <1> HIDE DEF t
  <1>9. \A i \in 1 .. Len(t) : t[i].kind # "tool"
    BY <1>3, <1>7
  <1>10. /\ p \in 1 .. Len(history') + 1 /\ prompt' = From(history', p)
         /\ limit' # NoLimit => Closed(history', p)
    BY <1>2, <1>4, <1>6, <1>7, <1>8, <1>9, PromptGrows
  <1>11. p <= Asking' /\ phase' = "calling"
    BY <1>4, DueAfterResponse
  <1>12. Begins(p)'
    BY <1>10, <1>11 DEF Begins
  <1>13. QED
    BY <1>10, <1>11, <1>12 DEF PromptInv

LEMMA PromptAfterResult ==
  ASSUME TurnTypes, HistoryInv, DueInv, PromptInv, NEW w \in Weights, RecordResult(w)
  PROVE  PromptInv'
  <1> DEFINE m == [kind |-> "tool", id |-> recorded + 1, weight |-> w, call |-> Head(due)]
             t == <<m>>
  <1>1. /\ recorded < MaxMessages /\ history' = Append(history, m) /\ phase = "calling"
        /\ prompt' = Append(prompt, m) /\ UNCHANGED limit /\ phase' \in {"head", "calling"}
    BY DEF RecordResult, Record
  <1>2. Head(due) = due[1] /\ due[1] \in CallId /\ due[1][2] \in Nat \ {0}
    BY <1>1, AskingFacts
  <1>3. m \in Message /\ m.call = due[1]
    <2>1. recorded + 1 \in 1 .. MaxMessages
      BY <1>1, HistoryConstantsOK, SMTT(40) DEF HistoryInv, HistoryConstantsOK
    <2>2. QED
      BY <1>2, <2>1, NewMessages
  <1> HIDE DEF m
  <1>4. history \in Seq(Message) /\ Len(history) \in Nat
    BY DEF HistoryInv, Sound
  <1>5. PICK p \in 1 .. Len(history) + 1 : Begins(p)
    BY <1>1 DEF PromptInv
  <1>6. prompt = From(history, p) /\ prompt \in Seq(Message) /\ p <= Asking
        /\ (limit # NoLimit => Closed(history, p))
    BY <1>1, <1>4, <1>5, FromProperties DEF Begins
  <1>7. t \in Seq(Message) /\ Len(t) = 1 /\ t[1] = m
    BY <1>3
  <1>8. history' = history \o t /\ prompt' = From(history, p) \o t
    BY <1>1, <1>3, <1>4, <1>6, AppendIsConcat
  <1> HIDE DEF t
  <1>9. \A i \in 1 .. Len(t) : Len(t) = 1 /\ (Len(history) + 1) - t[i].call[2] >= p
    <2>1. \A i \in 1 .. Len(t) : t[i].call = due[1]
      BY <1>3, <1>7
    <2>2. (Len(history) + 1) - due[1][2] >= p
      BY <1>2, <1>4, <1>6 DEF Asking
    <2>3. QED
      BY <1>7, <2>1, <2>2
  <1>10. /\ p \in 1 .. Len(history') + 1 /\ prompt' = From(history', p)
         /\ limit' # NoLimit => Closed(history', p)
    BY <1>1, <1>4, <1>6, <1>7, <1>8, <1>9, PromptGrows
  <1>11. phase' = "calling" => p <= Asking'
    BY <1>6, DueAfterResult
  <1>12. Begins(p)'
    BY <1>10, <1>11 DEF Begins
  <1>13. QED
    BY <1>1, <1>10, <1>12 DEF PromptInv

LEMMA NextPrompt ==
  ASSUME TurnTypes, HistoryInv, DueInv, PromptInv, [Next]_vars
  PROVE  PromptInv'
  <1>1. HistoryInv'
    BY NextHistory
  <1>2. ASSUME Steer \/ StreamRetry \/ UNCHANGED vars
        PROVE  PromptInv'
    <2>1. UNCHANGED <<history, prompt, phase, due, limit>>
      BY <1>2 DEF Steer, StreamRetry, vars
    <2>2. QED
      BY <2>1 DEF PromptInv, Begins, Asking
  <1>3. ASSUME AutoCompact
        PROVE  PromptInv'
    <2>1. phase = "compacting" /\ phase' = "sampling" /\ UNCHANGED limit
      BY <1>3 DEF AutoCompact, StartSampling
    <2>2. CASE ReplaceHistory
      BY <1>1, <2>1, <2>2, PromptIsRebuilt DEF ReplaceHistory
    <2>3. CASE UNCHANGED <<history, prompt>>
      BY <2>1, <2>3 DEF PromptInv, Begins
    <2>4. QED
      BY <1>3, <2>2, <2>3 DEF AutoCompact
  <1>4. ASSUME EndTurn
        PROVE  PromptInv'
    BY <1>4, EndTurnTypes DEF PromptInv
  <1>5. ASSUME NEW n \in 0 .. MaxCalls, NEW w \in Weights, Respond(n, w)
        PROVE  PromptInv'
    <2>1. CASE n = 0
      <3>1. EndTurn
        BY <1>5, <2>1 DEF Respond
      <3>2. QED
        BY <1>4, <3>1
    <2>2. CASE n # 0
      <3>1. n \in 1 .. MaxCalls
        BY <2>2, HistoryConstantsOK DEF HistoryConstantsOK
      <3>2. QED
        BY <1>5, <3>1, PromptAfterResponse
    <2>3. QED
      BY <2>1, <2>2
  <1>6. ASSUME OverflowRetry
        PROVE  PromptInv'
    <2>1. phase' = "sampling" /\ UNCHANGED limit /\ ReplaceHistory
      BY <1>6 DEF OverflowRetry
    <2>2. QED
      BY <1>1, <2>1, PromptIsRebuilt DEF ReplaceHistory
  <1>7. ASSUME ManualCompact \/ \E l \in Limits \cup {NoLimit} : SwitchModel(l)
        PROVE  PromptInv'
    <2>1. phase = "idle" /\ UNCHANGED <<phase, prompt>>
      BY <1>7 DEF ManualCompact, SwitchModel
    <2>2. QED
      BY <2>1 DEF PromptInv
  <1>8. QED
    <2>1. AutoCompactFails \/ SamplingFails \/ FatalTool \/ Interrupt => EndTurn
      BY DEF AutoCompactFails, SamplingFails, FatalTool, Interrupt
    <2>2. QED
      BY <1>2, <1>3, <1>4, <1>5, <1>6, <1>7, <2>1, PromptAtStart, PromptAfterInputs,
         PromptAfterResult DEF Next

LEMMA OneMoreTime ==
  ASSUME NEW a \in Nat, NEW b \in Nat
  PROVE  a * b \in Nat /\ (a + 1) * b = a * b + b /\ 0 * b = 0
  OBVIOUS

LEMMA TimesGrows ==
  ASSUME NEW a \in Nat, NEW b \in Nat, NEW c \in Nat, a <= b
  PROVE  a * c <= b * c
  <1>1. b - a \in Nat /\ b = a + (b - a)
    OBVIOUS
  <1>2. (a + (b - a)) * c = a * c + (b - a) * c /\ (b - a) * c \in Nat /\ a * c \in Nat
    BY <1>1
  <1>3. QED
    BY <1>1, <1>2

LEMMA NextRequests ==
  ASSUME RequestsInv, [Next]_vars
  PROVE  RequestsInv'
  <1> DEFINE each == MaxRetries + 1
  <1>1. MaxRetries \in Nat /\ MaxOverflowRetries \in Nat /\ each \in Nat
    BY HistoryConstantsOK DEF HistoryConstantsOK
  <1>2. /\ requests \in Nat /\ retries \in 0 .. MaxRetries
        /\ overflows \in 0 .. MaxOverflowRetries /\ requests <= overflows * each + retries + 1
    BY DEF RequestsInv
  <1>3. overflows \in Nat /\ retries \in Nat
    BY <1>1, <1>2
  <1>4. overflows * each \in Nat /\ (overflows + 1) * each = overflows * each + each
        /\ 0 * each = 0
    BY <1>1, <1>3, OneMoreTime
  <1>5. ASSUME UNCHANGED <<requests, retries, overflows>>
        PROVE  RequestsInv'
    BY <1>2, <1>5 DEF RequestsInv
  <1>6. ASSUME requests' \in {0, 1}, retries' = 0, overflows' = 0
        PROVE  RequestsInv'
    <2>1. requests' <= 0 + 0 + 1 /\ requests' \in Nat
      BY <1>6
    <2>2. requests' <= overflows' * each + retries' + 1
      <3>1. overflows' * each = 0
        BY <1>4, <1>6
      <3> HIDE DEF each
      <3>2. QED
        BY <1>6, <2>1, <3>1
    <2>3. QED
      BY <1>1, <1>6, <2>1, <2>2 DEF RequestsInv
  <1>7. ASSUME OverflowRetry
        PROVE  RequestsInv'
    <2>1. overflows < MaxOverflowRetries /\ overflows' = overflows + 1 /\ retries' = 0
          /\ requests' = requests + 1
      BY <1>7 DEF OverflowRetry, OverflowCounted
    <2>2. overflows' * each = overflows * each + each
      BY <1>4, <2>1
    <2> DEFINE x == overflows * each
               y == overflows' * each
    <2>3. x \in Nat /\ y = x + each /\ requests <= x + retries + 1 /\ each = MaxRetries + 1
      BY <1>2, <1>4, <2>2
    <2> HIDE DEF x, y, each
    <2>4. requests' <= y + retries' + 1 /\ requests' \in Nat
      BY <1>1, <1>2, <2>1, <2>3
    <2>5. overflows' \in 0 .. MaxOverflowRetries /\ retries' \in 0 .. MaxRetries
      BY <1>1, <1>3, <2>1
    <2>6. QED
      BY <2>4, <2>5 DEF RequestsInv, y, each
  <1>8. ASSUME StreamRetry
        PROVE  RequestsInv'
    <2>1. retries < MaxRetries /\ retries' = retries + 1 /\ requests' = requests + 1
          /\ overflows' = overflows
      BY <1>8 DEF StreamRetry
    <2> DEFINE x == overflows * each
    <2>2. x \in Nat /\ requests <= x + retries + 1 /\ overflows' * each = x
      BY <1>2, <1>4, <2>1
    <2> HIDE DEF x, each
    <2>3. requests' <= x + retries' + 1 /\ requests' \in Nat /\ retries' \in 0 .. MaxRetries
      BY <1>1, <1>2, <2>1, <2>2
    <2>4. QED
      BY <1>2, <2>1, <2>2, <2>3 DEF RequestsInv, each
  <1>9. AutoCompact => requests' = 1 /\ retries' = 0 /\ overflows' = 0
    BY DEF AutoCompact, StartSampling
  <1>10. EndTurn => requests' = 0 /\ retries' = 0 /\ overflows' = 0
    BY DEF EndTurn
  <1>11. AutoCompactFails \/ SamplingFails \/ FatalTool \/ Interrupt => EndTurn
    BY DEF AutoCompactFails, SamplingFails, FatalTool, Interrupt
  <1>12. ASSUME NEW n \in 0 .. MaxCalls, NEW w \in Weights, Respond(n, w)
         PROVE  EndTurn \/ UNCHANGED <<requests, retries, overflows>>
    BY <1>12 DEF Respond
  <1>13. \A w \in Weights :
           BeginTurn(w) \/ TakeInputs(w) \/ RecordResult(w)
             => UNCHANGED <<requests, retries, overflows>>
    BY DEF BeginTurn, TakeInputs, RecordResult
  <1>14. Steer \/ ManualCompact \/ (\E l \in Limits \cup {NoLimit} : SwitchModel(l))
           \/ UNCHANGED vars
             => UNCHANGED <<requests, retries, overflows>>
    BY DEF Steer, ManualCompact, SwitchModel, vars
  <1> HIDE DEF each
  <1>15. EndTurn \/ AutoCompact => RequestsInv'
    BY <1>6, <1>9, <1>10
  <1>16. QED
    BY <1>5, <1>7, <1>8, <1>11, <1>12, <1>13, <1>14, <1>15 DEF Next

-----------------------------------------------------------------------------
(* The theorems *)

LEMMA InitHistory == Init => IInv
  <1> SUFFICES ASSUME Init PROVE IInv
    OBVIOUS
  <1> USE DEF Init
  <1>1. /\ {MaxMessages, MaxSteering, MaxRetries, MaxOverflowRetries} \subseteq Nat
        /\ history = <<>> /\ Len(history) = 0 /\ history \in Seq(Message)
    BY HistoryConstantsOK DEF HistoryConstantsOK
  <1>2. TurnTypes
    BY <1>1 DEF TurnTypes, Phase
  <1>3. HistoryInv
    <2>1. Heads(history) = 0
      BY DEF Heads
    <2>2. Sound(history, 0)
      BY <1>1, <2>1 DEF Sound, Numbered, ResultsFollowCalls
    <2>3. AllAnswered(history, Open)
      BY <1>1 DEF AllAnswered
    <2>4. 0 \in 0 .. recorded /\ recorded = 0 + Len(history) - Heads(history)
      BY <1>1, <2>1
    <2>5. QED
      BY <1>1, <2>2, <2>3, <2>4 DEF HistoryInv
  <1>4. DueInv /\ PromptInv
    BY DEF DueInv, PromptInv
  <1>5. RequestsInv
    <2>1. MaxRetries + 1 \in Nat /\ 0 * (MaxRetries + 1) = 0
      BY <1>1, OneMoreTime
    <2>2. QED
      BY <1>1, <2>1 DEF RequestsInv
  <1>6. QED
    BY <1>2, <1>3, <1>4, <1>5 DEF IInv

\* The inductive invariant of the conversation: where the summary, the responses, the
\* results and the prompt stand, and how often the present sampling was tried.
THEOREM HistoryInvariant == Spec => []IInv
  <1>1. Init => IInv
    BY InitHistory
  <1>2. IInv /\ [Next]_vars => IInv'
    BY NextTypes, NextHistory, NextDue, NextPrompt, NextRequests DEF IInv
  <1>3. QED
    BY <1>1, <1>2, PTL DEF Spec

LEMMA HeadsCount ==
  ASSUME NEW n \in Nat
  PROVE  Cardinality(1 .. n) = n
  <1>1. 1 \in Int /\ n \in Int
    OBVIOUS
  <1>2. Cardinality(1 .. n) = IF 1 > n THEN 0 ELSE n - 1 + 1
    BY <1>1, FS_Interval
  <1>3. QED
    BY <1>2

LEMMA InvIsTyped == IInv => TypeOK
  <1> SUFFICES ASSUME IInv PROVE TypeOK
    OBVIOUS
  <1>1. history \in Seq(Message) /\ recorded \in 0 .. MaxMessages
    BY DEF IInv, HistoryInv, Sound
  <1>2. prompt \in Seq(Message)
    <2>1. CASE phase = "idle"
      <3>1. prompt = <<>>
        BY <2>1 DEF IInv, PromptInv
      <3>2. QED
        BY <3>1
    <2>2. CASE phase # "idle"
      <3>1. PICK p \in 1 .. Len(history) + 1 : Begins(p)
        BY <2>2 DEF IInv, PromptInv
      <3>2. QED
        BY <1>1, <3>1, FromProperties DEF Begins
    <2>3. QED
      BY <2>1, <2>2
  <1>3. TurnTypes /\ requests \in Nat /\ retries \in 0 .. MaxRetries
        /\ overflows \in 0 .. MaxOverflowRetries
    BY DEF IInv, RequestsInv
  <1>4. QED
    BY <1>1, <1>2, <1>3 DEF TypeOK, TurnTypes

\* No message that was recorded is lost: apply_compaction covers exactly what it takes
\* out, and what it keeps follows in order, whatever asked for the compaction.
THEOREM HistoryLosesNothing == Spec => []NothingLost
  <1>1. IInv => NothingLost
    <2> SUFFICES ASSUME IInv PROVE NothingLost
      OBVIOUS
    <2> DEFINE covered == UNION {history[i].covers : i \in Summaries(history)}
               n == Cardinality(Summaries(history))
    <2>1. PICK c \in 0 .. recorded :
            Sound(history, c) /\ recorded = c + Len(history) - Heads(history)
      BY DEF IInv, HistoryInv
    <2>2. c \in Nat
      BY HistoryConstantsOK DEF IInv, HistoryInv, HistoryConstantsOK
    <2>3. /\ Heads(history) \in {0, 1} /\ Len(history) \in Nat
          /\ Summaries(history) = 1 .. Heads(history) /\ Numbered(history, c)
      BY <2>1, <2>2, SummaryIsFirst DEF Sound
    <2>4. n = Heads(history)
      BY <2>3, HeadsCount
    <2>5. covered = 1 .. c
      <3>1. CASE Heads(history) = 0
        <4>1. Summaries(history) = {} /\ c = 0
          BY <2>3, <3>1 DEF Numbered
        <4>2. covered = {}
          BY <4>1
        <4>3. QED
          BY <4>1, <4>2
      <3>2. CASE Heads(history) = 1
        <4>1. Summaries(history) = {1} /\ history[1].covers = 1 .. c
          BY <2>3, <3>2 DEF Numbered
        <4>2. QED
          BY <4>1
      <3>3. QED
        BY <2>3, <3>1, <3>2
    <2>6. Cardinality(covered) = c
      BY <2>2, <2>5, HeadsCount
    <2>7. \A i \in n + 1 .. Len(history) : history[i].id = c + i - n
      BY <2>3, <2>4 DEF Numbered
    <2>8. Summaries(history) \subseteq {1}
      BY <2>3
    <2> HIDE DEF covered, n
    <2>9. /\ covered = 1 .. Cardinality(covered)
          /\ \A i \in n + 1 .. Len(history) : history[i].id = Cardinality(covered) + i - n
          /\ recorded = Cardinality(covered) + Len(history) - n
      BY <2>1, <2>4, <2>5, <2>6, <2>7
    <2>10. QED
      BY <2>8, <2>9, InvIsTyped DEF NothingLost, covered, n
  <1>2. QED
    BY <1>1, HistoryInvariant, PTL

\* What is sent holds no result without its call: compute_valid_kept_boundaries ends no
\* tail between a response and its results.
THEOREM HistoryKeepsPairs == Spec => []NoOrphanResults
  <1>1. IInv => NoOrphanResults
    <2> SUFFICES ASSUME IInv PROVE NoOrphanResults
      OBVIOUS
    <2>1. history \in Seq(Message) /\ Len(history) \in Nat /\ ResultsFollowCalls(history)
      BY DEF IInv, HistoryInv, Sound
    <2>2. ASSUME limit # NoLimit
          PROVE  ResultsFollowCalls(prompt)
      <3>1. CASE phase = "idle"
        BY <3>1 DEF IInv, PromptInv, ResultsFollowCalls
      <3>2. CASE phase # "idle"
        <4>1. PICK p \in 1 .. Len(history) + 1 : Begins(p)
          BY <3>2 DEF IInv, PromptInv
        <4>2. prompt = From(history, p) /\ Closed(history, p)
          BY <2>2, <4>1 DEF Begins
        <4>3. /\ Len(prompt) = Len(history) + 1 - p /\ p \in Nat /\ p >= 1
              /\ \A j \in 1 .. Len(history) + 1 - p : prompt[j] = history[p + j - 1]
          <5>1. /\ Len(From(history, p)) = Len(history) + 1 - p
                /\ \A j \in 1 .. Len(history) + 1 - p : From(history, p)[j] = history[p + j - 1]
            BY <2>1, FromProperties
          <5>2. p \in Nat /\ p >= 1
            BY <2>1
          <5>3. QED
            BY <4>2, <5>1, <5>2, Zenon
        <4>4. ASSUME NEW j \in 1 .. Len(prompt), prompt[j].kind = "tool"
              PROVE  LET k == j - prompt[j].call[2]
                     IN  /\ k >= 1 /\ Answers(prompt[j], prompt[k])
                         /\ \A i \in k + 1 .. j : prompt[i].kind = "tool"
          <5> DEFINE q == prompt[j].call[2]
                     k == j - q
                     jj == p + j - 1
                     kk == jj - q
          <5>1. jj \in p .. Len(history) /\ jj \in 1 .. Len(history) /\ prompt[j] = history[jj]
            BY <2>1, <4>3
          <5> HIDE DEF jj
          <5>2. kk >= 1 /\ Answers(history[jj], history[kk])
                  /\ \A i \in kk + 1 .. jj : history[i].kind = "tool"
            BY <2>1, <4>4, <5>1 DEF ResultsFollowCalls
          <5>3. kk >= p
            BY <4>2, <4>4, <5>1 DEF Closed
          <5>4. q \in Nat \ {0}
            <6>1. history[jj] \in Message
              BY <2>1, <5>1
            <6>2. prompt[j].call \in (1 .. MaxMessages) \X (1 .. MaxCalls)
              BY <4>4, <5>1, <6>1, MessageFields
            <6>3. QED
              BY <6>2
          <5>5. jj = p + j - 1 /\ j \in Nat /\ j <= Len(history) + 1 - p
            BY <2>1, <4>3 DEF jj
          <5>6. k >= 1 /\ k \in 1 .. Len(history) + 1 - p /\ kk = p + k - 1
            <6> HIDE DEF q
            <6>1. QED
              BY <2>1, <4>3, <5>3, <5>4, <5>5
          <5>7. prompt[k] = history[kk]
            BY <4>3, <5>6
          <5>8. ASSUME NEW i \in k + 1 .. j
                PROVE  prompt[i].kind = "tool"
            <6> HIDE DEF q, k, kk
            <6>1. i \in 1 .. Len(history) + 1 - p /\ p + i - 1 \in kk + 1 .. jj
              BY <2>1, <4>3, <5>5, <5>6
            <6>2. QED
              BY <4>3, <5>2, <6>1
          <5>9. Answers(prompt[j], prompt[k])
            BY <5>1, <5>2, <5>7
          <5> HIDE DEF kk
          <5>10. QED
            BY <5>6, <5>8, <5>9
        <4>5. QED
          BY <4>4 DEF ResultsFollowCalls
      <3>3. QED
        BY <3>1, <3>2
    <2>3. QED
      BY <2>1, <2>2 DEF NoOrphanResults
  <1>2. QED
    BY <1>1, HistoryInvariant, PTL

\* What a turn shows the model is the end of the recorded history: run_sse_interaction
\* records and appends alike, and a compaction builds the prompt again.
THEOREM HistoryEndsInPrompt == Spec => []PromptIsRecorded
  <1>1. IInv => PromptIsRecorded
    <2> SUFFICES ASSUME IInv PROVE PromptIsRecorded
      OBVIOUS
    <2>1. history \in Seq(Message) /\ Len(history) \in Nat
      BY DEF IInv, HistoryInv, Sound
    <2>2. \E p \in 1 .. Len(history) + 1 : prompt = From(history, p)
      <3>1. CASE phase = "idle"
        <4>1. prompt = <<>>
          BY <3>1 DEF IInv, PromptInv
        <4>2. From(history, Len(history) + 1) = <<>>
          <5>1. Len(history) + 1 \in Int /\ Len(history) \in Int
                  /\ Len(history) < Len(history) + 1
            BY <2>1
          <5>2. QED
            BY <2>1, <5>1, SubSeqEmpty DEF From
        <4>3. Len(history) + 1 \in 1 .. Len(history) + 1
          BY <2>1
        <4>4. QED
          BY <4>1, <4>2, <4>3
      <3>2. CASE phase # "idle"
        BY <3>2 DEF IInv, PromptInv, Begins
      <3>3. QED
        BY <3>1, <3>2
    <2>3. QED
      BY <2>1, <2>2, FromIsSuffix DEF PromptIsRecorded
  <1>2. QED
    BY <1>1, HistoryInvariant, PTL

\* Every call of a response that stands in the history is answered behind it, but for
\* those that are still due and those whose turn was cut short.
THEOREM HistoryAnswersCalls == Spec => []CallsAnswered
  <1>1. IInv => CallsAnswered
    BY DEF IInv, HistoryInv, AllAnswered, Open, CallsAnswered
  <1>2. QED
    BY <1>1, HistoryInvariant, PTL

\* run_sampling_request gives up: stream retries start again after an overflow, and
\* overflows are counted over the whole sampling.
THEOREM HistoryGivesUp == Spec => []SamplingGivesUp
  <1>1. IInv => SamplingGivesUp
    <2> SUFFICES ASSUME IInv PROVE SamplingGivesUp
      OBVIOUS
    <2> DEFINE each == MaxRetries + 1
               x == overflows * each
               y == MaxOverflowRetries * each
    <2>1. /\ MaxRetries \in Nat /\ MaxOverflowRetries \in Nat /\ each \in Nat
          /\ requests \in Nat /\ retries \in Nat /\ retries <= MaxRetries
          /\ overflows \in Nat /\ overflows <= MaxOverflowRetries
          /\ requests <= x + retries + 1
      BY HistoryConstantsOK DEF HistoryConstantsOK, IInv, RequestsInv
    <2>2. x <= y /\ x \in Nat /\ y \in Nat
      BY <2>1, OneMoreTime, TimesGrows
    <2>3. (MaxRetries + 1) * (MaxOverflowRetries + 1) = y + each
      <3>1. (MaxOverflowRetries + 1) * each = y + each
        BY <2>1, OneMoreTime
      <3>2. (MaxOverflowRetries + 1) * each = each * (MaxOverflowRetries + 1)
        BY <2>1
      <3>3. QED
        BY <3>1, <3>2
    <2>4. each = MaxRetries + 1
      OBVIOUS
    <2> HIDE DEF x, y, each
    <2>5. requests <= y + each
      BY <2>1, <2>2, <2>4
    <2>6. QED
      BY <2>3, <2>5 DEF SamplingGivesUp
  <1>2. QED
    BY <1>1, HistoryInvariant, PTL
=============================================================================

----------------------- MODULE StreamingSenderProofs -----------------------
(***************************************************************************)
(* Proofs about StreamingSender for any set of requests, any key function  *)
(* (keys may collide), any queue limit and batch size and any number of    *)
(* outages: the sender forgets no open promise, something drains whatever  *)
(* is queued on a stream, close() settles everybody, requests reach the    *)
(* wire once, in the order in which they were accepted, and the sender     *)
(* implements RequestLine.                                                 *)
(***************************************************************************)
EXTENDS StreamingSender, FiniteSetTheorems, SequenceTheorems, TLAPS

\* Before start() nothing exists that could call back.
NothingBeforeStart ==
  ~started => ~closed /\ closing = "no" /\ stream = NoStream /\ opened = 0 /\ alive = {}

\* The current stream is alive, and when it is under backpressure it owes a 'drain'.
StreamIsLive ==
  /\ stream # NoStream /\ ~closed => stream \in alive
  /\ stream # NoStream /\ paused => stream \in needDrain

\* close() leaves nothing in the queue, and in the end nothing in the map.
CloseEmpties ==
  /\ closing # "no" => closed /\ queue = <<>>
  /\ closing = "done" => pendingMap = NoPending

\* OpenIsHeld for a queue q, a map pm and outcomes out.
Held(q, pm, out) ==
  \A m \in Tracked : out[m] = "open" =>
    \/ \E i \in 1..Len(q) : q[i] = m
    \/ pm[KeyOf[m]] = m
    \/ \E other \in Tracked \ {m} : KeyOf[other] = KeyOf[m] /\ out[other] # "unsent"

\* Request a was accepted before request b.
Before(acc, a, b) == \E i, j \in 1..Len(acc) : i < j /\ acc[i] = a /\ acc[j] = b

\* enqueue() takes a request once, and it is on record from then on.
AcceptedOnce(acc, out) ==
  /\ \A i, j \in 1..Len(acc) : acc[i] = acc[j] => i = j
  /\ \A i \in 1..Len(acc) : out[acc[i]] # "unsent"

\* What was written and what is queued, as one line of accepted requests in order.
InLine(acc, q, w) ==
  /\ \A i \in 1..Len(q) : \E a \in 1..Len(acc) : acc[a] = q[i]
  /\ \A i \in 1..Len(w) : \E a \in 1..Len(acc) : acc[a] = w[i][2]
  /\ \A i, j \in 1..Len(q) : i < j => Before(acc, q[i], q[j])
  /\ \A i \in 1..Len(w), j \in 1..Len(q) : Before(acc, w[i][2], q[j])
  /\ \A i, j \in 1..Len(w) : i < j => Before(acc, w[i][2], w[j][2])

Line == AcceptedOnce(accepted, outcome) /\ InLine(accepted, queue, sent)

Flags == NothingBeforeStart /\ StreamIsLive /\ CloseEmpties /\ QueueHasWaker

SenderInv == TypeOK /\ Flags /\ Held(queue, pendingMap, outcome) /\ Line

-----------------------------------------------------------------------------
\* A set of positions has a last one.

Less == {ss \in Nat \X Nat : ss[1] < ss[2]}

LEMMA NatLess == IsWellFoundedOn(Less, Nat)
BY NatLessThanWellFounded DEF OpToRel, Less

LEMMA HasLast ==
  ASSUME NEW n \in Nat, NEW T, T \subseteq 1..n, T # {}
  PROVE  \E x \in T : \A y \in T : y <= x
<1> DEFINE U == {n - x : x \in T}
<1>1. U \subseteq Nat /\ U # {}
  <2>1. \E x \in T : n - x \in U
    OBVIOUS
  <2>2. \A x \in T : n - x \in Nat
    OBVIOUS
  <2> QED BY <2>1, <2>2
<1> HIDE DEF U
<1>2. PICK u \in U : \A v \in U : ~ (<<v, u>> \in Less)
  BY <1>1, NatLess, WFMin
<1>3. PICK x \in T : u = n - x
  BY <1>2 DEF U
<1>4. ASSUME NEW y \in T PROVE y <= x
  <2>1. n - y \in U /\ n - y \in Nat /\ u \in Nat
    BY <1>1, <1>3 DEF U
  <2>2. ~ (n - y < u)
    BY <2>1, <1>2 DEF Less
  <2> QED BY <1>3, <2>2
<1> QED BY <1>4

-----------------------------------------------------------------------------
\* What the loop of _drain does to the queue, the map, the callers and the wire.

LEMMA Constants ==
  /\ Tracked \subseteq Msgs /\ Signalled \subseteq Tracked /\ KeyOf \in [Tracked -> Keys] /\ NoMsg \notin Msgs
  /\ MaxQueueSize \in Nat /\ MaxQueueSize > 0 /\ DrainBatch \in Nat /\ DrainBatch > 0 /\ MaxOutages \in Nat
BY SenderConstants DEF SenderConstants

\* The first n items of q go.
Shortened(q, n) ==
  /\ queue' \in Seq(Msgs) /\ Len(queue') = Len(q) - n
  /\ \A i \in 1..Len(queue') : queue'[i] = q[n + i]

\* Each tracked request among them that was written is in the map, unless a later one
\* took its key; only what was written comes into the map.
Recorded(q, n) ==
  /\ pendingMap' \in [Keys -> Tracked \cup {NoMsg}]
  /\ \A k \in Keys : \/ pendingMap'[k] = pendingMap[k]
                     \/ \E i \in 1..n : /\ pendingMap'[k] = q[i] /\ ~Dead(q[i])
                                        /\ q[i] \in Tracked /\ KeyOf[q[i]] = k
  /\ \A i \in 1..n : ~Dead(q[i]) /\ q[i] \in Tracked =>
       \E j \in 1..n : pendingMap'[KeyOf[q[i]]] = q[j] /\ q[j] \in Tracked /\ KeyOf[q[j]] = KeyOf[q[i]]

\* Those that were not written are told.
Told(q, n, out) ==
  /\ outcome' \in [Msgs -> Outcomes]
  /\ \A m \in Msgs : \/ outcome'[m] = out[m]
                     \/ /\ out[m] = "open" /\ Dead(m) /\ \E i \in 1..n : q[i] = m
                        /\ outcome'[m] \in {"timeout", "cancelled"} /\ (outcome'[m] = "timeout" => m \in expired)
  /\ \A i \in 1..n : Dead(q[i]) => outcome'[q[i]] # "open"

\* The others are on the wire.
Written(q, n, s) ==
  \E N \in Nat : \E at \in [1..N -> 1..n] :
    /\ \A i, j \in 1..N : i < j => at[i] < at[j]
    /\ \A i \in 1..N : ~Dead(q[at[i]])
    /\ \A i \in 1..n : ~Dead(q[i]) => \E j \in 1..N : at[j] = i
    /\ sent' \in Seq((1..opened') \X Msgs) /\ Len(sent') = Len(sent) + N
    /\ \A i \in 1..Len(sent) : sent'[i] = sent[i]
    /\ \A i \in 1..N : sent'[Len(sent) + i] = <<s, q[at[i]]>>

LEMMA DrainRecorded ==
  ASSUME TypeOK, NEW q \in Seq(Msgs), NEW n \in 0..Len(q), NEW out, NEW s, DrainPrefix(q, n, out, s)
  PROVE  Recorded(q, n)
<1> DEFINE W == {i \in 1..n : ~Dead(q[i])}
           Last(k) == {i \in W : /\ q[i] \in Tracked /\ KeyOf[q[i]] = k
                                 /\ \A j \in W : q[j] \in Tracked /\ KeyOf[q[j]] = k => j <= i}
           last(k) == CHOOSE i \in Last(k) : TRUE
<1>1. pendingMap' = [k \in Keys |-> IF Last(k) = {} THEN pendingMap[k] ELSE q[last(k)]]
  BY DEF DrainPrefix
<1>2. \A k : Last(k) # {} => last(k) \in Last(k)
  OBVIOUS
<1>3. \A k : \A i \in Last(k) : i \in 1..n /\ ~Dead(q[i]) /\ q[i] \in Tracked /\ KeyOf[q[i]] = k
  OBVIOUS
<1>4. ASSUME NEW i \in 1..n, ~Dead(q[i]), q[i] \in Tracked
      PROVE  Last(KeyOf[q[i]]) # {}
  <2> DEFINE T == {j \in W : q[j] \in Tracked /\ KeyOf[q[j]] = KeyOf[q[i]]}
  <2>1. T \subseteq 1..n /\ i \in T /\ n \in Nat
    BY <1>4
  <2>2. PICK x \in T : \A y \in T : y <= x
    BY <2>1, HasLast
  <2>3. x \in Last(KeyOf[q[i]])
    BY <2>2
  <2> QED BY <2>3
<1> HIDE DEF Last, last
<1>5. \A k \in Keys : pendingMap'[k] = IF Last(k) = {} THEN pendingMap[k] ELSE q[last(k)]
  BY <1>1
<1>6. pendingMap' \in [Keys -> Tracked \cup {NoMsg}]
  <2>1. \A k \in Keys : (IF Last(k) = {} THEN pendingMap[k] ELSE q[last(k)]) \in Tracked \cup {NoMsg}
    BY <1>2, <1>3 DEF TypeOK
  <2> QED BY <1>1, <2>1
<1>7. \A k \in Keys : \/ pendingMap'[k] = pendingMap[k]
                      \/ \E i \in 1..n : pendingMap'[k] = q[i] /\ ~Dead(q[i]) /\ q[i] \in Tracked /\ KeyOf[q[i]] = k
  BY <1>2, <1>3, <1>5
<1>8. ASSUME NEW i \in 1..n, ~Dead(q[i]), q[i] \in Tracked
      PROVE  \E j \in 1..n : pendingMap'[KeyOf[q[i]]] = q[j] /\ q[j] \in Tracked /\ KeyOf[q[j]] = KeyOf[q[i]]
  <2>1. KeyOf[q[i]] \in Keys
    BY <1>8, Constants
  <2> QED BY <1>2, <1>3, <1>4, <1>5, <1>8, <2>1
<1> QED BY <1>6, <1>7, <1>8 DEF Recorded

LEMMA DrainTold ==
  ASSUME NEW q \in Seq(Msgs), NEW n \in 0..Len(q), NEW out \in [Msgs -> Outcomes], NEW s, DrainPrefix(q, n, out, s)
  PROVE  Told(q, n, out)
<1> DEFINE W == {i \in 1..n : ~Dead(q[i])}
           o(m) == IF out[m] = "open" /\ \E i \in (1..n) \ W : q[i] = m THEN DeadOutcome(m) ELSE out[m]
<1>1. outcome' = [m \in Msgs |-> o(m)]
  BY DEF DrainPrefix
<1>2. \A m \in Msgs : \/ o(m) = out[m]
                       \/ /\ out[m] = "open" /\ Dead(m) /\ \E i \in 1..n : q[i] = m
                          /\ o(m) \in {"timeout", "cancelled"} /\ (o(m) = "timeout" => m \in expired)
  <2> SUFFICES ASSUME NEW m \in Msgs, o(m) # out[m]
               PROVE  /\ out[m] = "open" /\ Dead(m) /\ \E i \in 1..n : q[i] = m
                      /\ o(m) \in {"timeout", "cancelled"} /\ (o(m) = "timeout" => m \in expired)
    OBVIOUS
  <2>1. out[m] = "open" /\ o(m) = DeadOutcome(m) /\ \E i \in (1..n) \ W : q[i] = m
    OBVIOUS
  <2>2. PICK i \in 1..n : Dead(q[i]) /\ q[i] = m
    BY <2>1
  <2> HIDE DEF o
  <2> QED BY <2>1, <2>2 DEF DeadOutcome
<1>3. \A i \in 1..n : Dead(q[i]) => o(q[i]) # "open" /\ q[i] \in Msgs
  BY DEF DeadOutcome
<1>4. \A m \in Msgs : o(m) \in Outcomes
  BY <1>2 DEF Outcomes
<1> HIDE DEF o
<1>5. outcome' \in [Msgs -> Outcomes] /\ \A m \in Msgs : outcome'[m] = o(m)
  BY <1>1, <1>4
<1> QED BY <1>2, <1>3, <1>5 DEF Told

LEMMA DrainWritten ==
  ASSUME TypeOK, NEW q \in Seq(Msgs), NEW n \in 0..Len(q), NEW out, NEW s \in 1..opened', DrainPrefix(q, n, out, s),
         opened' \in Nat, opened <= opened'
  PROVE  Written(q, n, s)
<1> DEFINE W == {i \in 1..n : ~Dead(q[i])}
           N == Cardinality(W)
           S == (1..opened') \X Msgs
<1>1. PICK at \in [1..N -> W] : /\ \A i, j \in 1..N : i < j => at[i] < at[j]
                                /\ sent' = sent \o [i \in 1..N |-> <<s, q[at[i]]>>]
  BY DEF DrainPrefix
<1>2. N \in Nat
  <2>1. IsFiniteSet(1..n)
    BY FS_Interval
  <2>2. IsFiniteSet(W)
    BY <2>1, FS_Subset
  <2> QED BY <2>2, FS_CardinalityType
<1>3. sent \in Seq(S)
  <2>1. (1..opened) \X Msgs \subseteq S
    BY DEF TypeOK
  <2> QED BY <2>1, SeqMonotonic DEF TypeOK
<1> HIDE DEF N
<1> DEFINE new == [i \in 1..N |-> <<s, q[at[i]]>>]
<1>4. \A i \in 1..N : at[i] \in 1..n /\ q[at[i]] \in Msgs
  BY <1>1
<1>5. new \in [1..N -> S]
  BY <1>4
<1>6. new \in Seq(S) /\ Len(new) = N
  BY <1>2, <1>5
<1>7. \A i \in 1..N : new[i] = <<s, q[at[i]]>>
  OBVIOUS
<1>8. sent' = sent \o new
  BY <1>1
<1> HIDE DEF new, S
<1>9. /\ sent' \in Seq(S) /\ Len(sent') = Len(sent) + N
      /\ \A i \in 1..Len(sent) + N : sent'[i] = IF i <= Len(sent) THEN sent[i] ELSE new[i - Len(sent)]
  BY <1>3, <1>6, <1>8, ConcatProperties
<1>10. Len(sent) \in Nat
  BY <1>3, LenProperties
<1>11. \A i \in 1..Len(sent) : sent'[i] = sent[i]
  BY <1>2, <1>9, <1>10
<1>12. ASSUME NEW i \in 1..N PROVE sent'[Len(sent) + i] = <<s, q[at[i]]>>
  <2>1. /\ Len(sent) + i \in 1..Len(sent) + N /\ ~ (Len(sent) + i <= Len(sent))
        /\ Len(sent) + i - Len(sent) = i
    BY <1>2, <1>10
  <2>2. sent'[Len(sent) + i] = new[i]
    BY <1>9, <2>1
  <2> QED BY <1>7, <2>2
<1>13. at \in [1..N -> 1..n] /\ \A i \in 1..N : ~Dead(q[at[i]])
  BY <1>1
<1>14. \A i \in 1..n : ~Dead(q[i]) => \E j \in 1..N : at[j] = i
  <2>1. IsFiniteSet(W)
    <3>1. IsFiniteSet(1..n)
      BY FS_Interval
    <3> QED BY <3>1, FS_Subset
  <2>2. Cardinality(1..N) = N /\ Cardinality(W) = N
    BY <1>2, FS_Interval DEF N
  <2>3. at \in Injection(1..N, W)
    <3>1. \A i, j \in 1..N : at[i] = at[j] => i = j
      BY <1>1, <1>2
    <3>2. DOMAIN at = 1..N
      BY <1>1
    <3> QED BY <1>1, <3>1, <3>2 DEF Injection, IsInjective
  <2>4. at \in Surjection(1..N, W)
    BY <2>1, <2>2, <2>3, FS_Injection
  <2> QED BY <2>4 DEF Surjection
<1> QED BY <1>1, <1>2, <1>9, <1>11, <1>12, <1>13, <1>14 DEF Written, S

LEMMA DrainShortened ==
  ASSUME NEW q \in Seq(Msgs), NEW n \in 0..Len(q), NEW out, NEW s, DrainPrefix(q, n, out, s)
  PROVE  Shortened(q, n)
<1>1. queue' = SubSeq(q, n + 1, Len(q))
  BY DEF DrainPrefix
<1>2. n + 1 \in Int /\ Len(q) \in Int /\ n <= Len(q) /\ \A i \in (n + 1)..Len(q) : q[i] \in Msgs
  OBVIOUS
<1>3. /\ queue' \in Seq(Msgs) /\ Len(queue') = (IF n + 1 <= Len(q) THEN Len(q) - (n + 1) + 1 ELSE 0)
      /\ \A i \in 1..(Len(q) - (n + 1) + 1) : queue'[i] = q[n + 1 + i - 1]
  BY <1>1, <1>2, SubSeqProperties
<1>4. Len(queue') = Len(q) - n
  BY <1>2, <1>3
<1> QED BY <1>3, <1>4 DEF Shortened

\* Drain as a whole: the loop over the first n requests, and why it ended there.
Drained(q, n, out, s, need, p, sch) ==
  /\ Shortened(q, n) /\ Recorded(q, n) /\ Told(q, n, out) /\ Written(q, n, s)
  /\ \/ n = Len(q) /\ paused' = p /\ needDrain' = need /\ scheduled' = sch
     \/ paused' = TRUE /\ needDrain' = need \cup {s} /\ scheduled' = sch
     \/ paused' = p /\ needDrain' = need /\ scheduled' = (sch \/ ~p)

LEMMA DrainSteps ==
  ASSUME TypeOK, NEW q \in Seq(Msgs), NEW out \in [Msgs -> Outcomes], NEW s \in 1..opened', NEW need,
         NEW p, NEW sch, Drain(q, out, s, need, p, sch), opened' \in Nat, opened <= opened'
  PROVE  \E n \in 0..Len(q) : Drained(q, n, out, s, need, p, sch)
<1>1. PICK n \in 0..Len(q) :
        /\ DrainPrefix(q, n, out, s)
        /\ \/ n = Len(q) /\ paused' = p /\ needDrain' = need /\ scheduled' = sch
           \/ paused' = TRUE /\ needDrain' = need \cup {s} /\ scheduled' = sch
           \/ paused' = p /\ needDrain' = need /\ scheduled' = (sch \/ ~p)
  BY DEF Drain
<1>2. Shortened(q, n) /\ Recorded(q, n) /\ Told(q, n, out) /\ Written(q, n, s)
  BY <1>1, DrainShortened, DrainRecorded, DrainTold, DrainWritten
<1>3. Drained(q, n, out, s, need, p, sch)
  BY <1>1, <1>2 DEF Drained
<1> QED BY <1>3

LEMMA DrainTypes ==
  ASSUME TypeOK, NEW q \in Seq(Msgs), NEW out \in [Msgs -> Outcomes], NEW s \in 1..opened', NEW need \in SUBSET (1..opened'),
         NEW p \in BOOLEAN, NEW sch \in BOOLEAN, Drain(q, out, s, need, p, sch), opened' \in Nat, opened <= opened'
  PROVE  /\ queue' \in Seq(Msgs) /\ Len(queue') <= Len(q) /\ pendingMap' \in [Keys -> Tracked \cup {NoMsg}]
         /\ outcome' \in [Msgs -> Outcomes] /\ sent' \in Seq((1..opened') \X Msgs)
         /\ needDrain' \subseteq 1..opened' /\ paused' \in BOOLEAN /\ scheduled' \in BOOLEAN
<1>1. PICK n \in 0..Len(q) : Drained(q, n, out, s, need, p, sch)
  BY DrainSteps
<1> USE DEF Drained
<1>2. Len(q) \in Nat /\ Len(queue') = Len(q) - n
  BY <1>1, LenProperties DEF Shortened
<1>3. Len(queue') <= Len(q)
  BY <1>2
<1>4. needDrain' \subseteq 1..opened'
  BY <1>1
<1>5. paused' \in BOOLEAN /\ scheduled' \in BOOLEAN
  BY <1>1
<1> QED BY <1>1, <1>3, <1>4, <1>5 DEF Shortened, Recorded, Told, Written

\* Who was held is held or told.
LEMMA DrainHolds ==
  ASSUME TypeOK, NEW q \in Seq(Msgs), NEW out \in [Msgs -> Outcomes], NEW s \in 1..opened', NEW need,
         NEW p, NEW sch, Drain(q, out, s, need, p, sch), opened' \in Nat, opened <= opened',
         Held(q, pendingMap, out), \A i \in 1..Len(q) : out[q[i]] # "unsent"
  PROVE  Held(queue', pendingMap', outcome')
<1>1. PICK n \in 0..Len(q) : Shortened(q, n) /\ Recorded(q, n) /\ Told(q, n, out)
  BY DrainSteps DEF Drained
<1>2. Len(q) \in Nat /\ Len(queue') = Len(q) - n /\ \A i \in 1..Len(queue') : queue'[i] = q[n + i]
  BY <1>1, LenProperties DEF Shortened
<1>3. \A m \in Msgs : outcome'[m] = "open" => out[m] = "open"
  BY <1>1 DEF Told
<1>4. \A m \in Msgs : out[m] # "unsent" => outcome'[m] # "unsent"
  BY <1>1 DEF Told
<1>5. ASSUME NEW m \in Tracked, outcome'[m] = "open"
      PROVE  \/ \E i \in 1..Len(queue') : queue'[i] = m
             \/ pendingMap'[KeyOf[m]] = m
             \/ \E other \in Tracked \ {m} : KeyOf[other] = KeyOf[m] /\ outcome'[other] # "unsent"
  <2>1. m \in Msgs /\ KeyOf[m] \in Keys /\ Tracked \subseteq Msgs
    BY Constants
  <2>2. out[m] = "open"
    BY <1>3, <1>5, <2>1
  <2>3. ASSUME NEW j \in 1..n, pendingMap'[KeyOf[m]] = q[j], q[j] \in Tracked, KeyOf[q[j]] = KeyOf[m]
        PROVE  \/ pendingMap'[KeyOf[m]] = m
               \/ \E other \in Tracked \ {m} : KeyOf[other] = KeyOf[m] /\ outcome'[other] # "unsent"
    <3>1. CASE q[j] = m
      BY <2>3, <3>1
    <3>2. CASE q[j] # m
      <4>1. j \in 1..Len(q)
        BY <1>2
      <4>2. out[q[j]] # "unsent"
        BY <4>1
      <4>3. outcome'[q[j]] # "unsent"
        BY <1>4, <2>1, <2>3, <4>2
      <4> QED BY <2>3, <3>2, <4>3
    <3> QED BY <3>1, <3>2
  <2>4. CASE \E i \in 1..Len(q) : q[i] = m
    <3>1. PICK i \in 1..Len(q) : q[i] = m
      BY <2>4
    <3>2. CASE i <= n
      <4>1. i \in 1..n
        BY <1>2, <3>2
      <4>2. ~Dead(q[i])
        BY <1>1, <1>5, <3>1, <4>1 DEF Told
      <4>3. \E j \in 1..n : pendingMap'[KeyOf[q[i]]] = q[j] /\ q[j] \in Tracked /\ KeyOf[q[j]] = KeyOf[q[i]]
        BY <1>1, <3>1, <4>1, <4>2 DEF Recorded
      <4> QED BY <2>3, <3>1, <4>3
    <3>3. CASE ~(i <= n)
      <4>1. i - n \in 1..Len(queue') /\ n + (i - n) = i
        BY <1>2, <3>3
      <4>2. queue'[i - n] = m
        BY <1>2, <3>1, <4>1
      <4> QED BY <4>1, <4>2
    <3> QED BY <3>2, <3>3
  <2>5. CASE pendingMap[KeyOf[m]] = m
    <3>1. CASE pendingMap'[KeyOf[m]] = pendingMap[KeyOf[m]]
      BY <2>5, <3>1
    <3>2. CASE \E j \in 1..n : pendingMap'[KeyOf[m]] = q[j] /\ q[j] \in Tracked /\ KeyOf[q[j]] = KeyOf[m]
      BY <2>3, <3>2
    <3> QED BY <1>1, <2>1, <3>1, <3>2 DEF Recorded
  <2>6. CASE \E other \in Tracked \ {m} : KeyOf[other] = KeyOf[m] /\ out[other] # "unsent"
    BY <1>4, <2>1, <2>6
  <2> QED BY <2>2, <2>4, <2>5, <2>6 DEF Held
<1> QED BY <1>5 DEF Held

\* What is still queued afterwards has a waker, unless there was backpressure already.
LEMMA DrainWakes ==
  ASSUME TypeOK, NEW q \in Seq(Msgs), NEW out \in [Msgs -> Outcomes], NEW s \in 1..opened', NEW need,
         NEW p \in BOOLEAN, NEW sch \in BOOLEAN, Drain(q, out, s, need, p, sch), opened' \in Nat, opened <= opened'
  PROVE  /\ queue' = <<>> \/ scheduled' \/ paused'
         /\ paused' => p \/ s \in needDrain'
         /\ need \subseteq needDrain'
<1>1. PICK n \in 0..Len(q) : Drained(q, n, out, s, need, p, sch)
  BY DrainSteps
<1> USE DEF Drained
<1>2. n = Len(q) => queue' = <<>>
  <2> SUFFICES ASSUME n = Len(q) PROVE queue' = <<>>
    OBVIOUS
  <2>1. queue' \in Seq(Msgs) /\ Len(queue') = 0
    BY <1>1 DEF Shortened
  <2> QED BY <2>1, EmptySeq
<1>3. need \subseteq needDrain' /\ (paused' => p \/ s \in needDrain')
  BY <1>1
<1>4. queue' = <<>> \/ scheduled' \/ paused'
  <2>1. CASE n = Len(q)
    BY <1>2, <2>1
  <2>2. CASE paused' = TRUE
    BY <2>2
  <2>3. CASE paused' = p /\ scheduled' = (sch \/ ~p)
    BY <2>3
  <2> QED BY <1>1, <2>1, <2>2, <2>3
<1> QED BY <1>3, <1>4

\* The line goes on in its order.
LEMMA DrainInLine ==
  ASSUME TypeOK, NEW q \in Seq(Msgs), NEW out \in [Msgs -> Outcomes], NEW s \in 1..opened', NEW need,
         NEW p, NEW sch, Drain(q, out, s, need, p, sch), opened' \in Nat, opened <= opened',
         NEW acc \in Seq(Msgs), AcceptedOnce(acc, out), InLine(acc, q, sent)
  PROVE  AcceptedOnce(acc, outcome') /\ InLine(acc, queue', sent')
<1>1. PICK n \in 0..Len(q) : Shortened(q, n) /\ Told(q, n, out) /\ Written(q, n, s)
  BY DrainSteps DEF Drained
<1>2. Len(q) \in Nat /\ Len(queue') = Len(q) - n /\ \A i \in 1..Len(queue') : queue'[i] = q[n + i]
  BY <1>1, LenProperties DEF Shortened
<1>3. AcceptedOnce(acc, outcome')
  <2>1. \A i \in 1..Len(acc) : acc[i] \in Msgs
    BY ElementOfSeq
  <2> QED BY <1>1, <2>1 DEF Told, AcceptedOnce
<1>4. PICK N \in Nat : \E at \in [1..N -> 1..n] :
        /\ \A i, j \in 1..N : i < j => at[i] < at[j]
        /\ Len(sent') = Len(sent) + N
        /\ \A i \in 1..Len(sent) : sent'[i] = sent[i]
        /\ \A i \in 1..N : sent'[Len(sent) + i] = <<s, q[at[i]]>>
  BY <1>1 DEF Written
<1>5. PICK at \in [1..N -> 1..n] :
        /\ \A i, j \in 1..N : i < j => at[i] < at[j]
        /\ Len(sent') = Len(sent) + N
        /\ \A i \in 1..Len(sent) : sent'[i] = sent[i]
        /\ \A i \in 1..N : sent'[Len(sent) + i] = <<s, q[at[i]]>>
  BY <1>4
<1>6. Len(sent) \in Nat
  BY LenProperties DEF TypeOK
<1>7. ASSUME NEW i \in 1..Len(sent')
      PROVE  (i \in 1..Len(sent) /\ sent'[i] = sent[i])
             \/ (i - Len(sent) \in 1..N /\ sent'[i][2] = q[at[i - Len(sent)]] /\ at[i - Len(sent)] \in 1..n)
  <2>1. CASE i <= Len(sent)
    BY <1>5, <1>6, <2>1
  <2>2. CASE ~(i <= Len(sent))
    <3>1. i - Len(sent) \in 1..N /\ Len(sent) + (i - Len(sent)) = i
      BY <1>5, <1>6, <2>2
    <3>2. sent'[i] = <<s, q[at[i - Len(sent)]]>> /\ at[i - Len(sent)] \in 1..n
      BY <1>5, <3>1
    <3> QED BY <3>1, <3>2
  <2> QED BY <2>1, <2>2
<1>8. \A i \in 1..n : i \in 1..Len(q)
  BY <1>2
<1>9. \A i \in 1..Len(queue') : n + i \in 1..Len(q)
  BY <1>2
<1>10. \A i \in 1..Len(queue') : \E a \in 1..Len(acc) : acc[a] = queue'[i]
  BY <1>2, <1>9 DEF InLine
<1>11. ASSUME NEW i \in 1..Len(sent') PROVE \E a \in 1..Len(acc) : acc[a] = sent'[i][2]
  <2>1. CASE i \in 1..Len(sent) /\ sent'[i] = sent[i]
    BY <2>1 DEF InLine
  <2>2. CASE sent'[i][2] = q[at[i - Len(sent)]] /\ at[i - Len(sent)] \in 1..n
    <3>1. at[i - Len(sent)] \in 1..Len(q)
      BY <1>8, <2>2
    <3> QED BY <2>2, <3>1 DEF InLine
  <2> QED BY <1>7, <2>1, <2>2
<1>12. ASSUME NEW i \in 1..Len(queue'), NEW j \in 1..Len(queue'), i < j
       PROVE  Before(acc, queue'[i], queue'[j])
  <2>1. n + i < n + j /\ n + i \in 1..Len(q) /\ n + j \in 1..Len(q)
    BY <1>2, <1>9, <1>12
  <2> QED BY <1>2, <2>1 DEF InLine
<1>13. ASSUME NEW i \in 1..Len(sent'), NEW j \in 1..Len(queue')
       PROVE  Before(acc, sent'[i][2], queue'[j])
  <2>1. n + j \in 1..Len(q) /\ queue'[j] = q[n + j] /\ \A a \in 1..n : a < n + j
    BY <1>2, <1>9
  <2> QED BY <1>7, <1>8, <2>1 DEF InLine
<1>14. ASSUME NEW i \in 1..Len(sent'), NEW j \in 1..Len(sent'), i < j
       PROVE  Before(acc, sent'[i][2], sent'[j][2])
  <2>1. CASE j \in 1..Len(sent)
    <3>1. i \in 1..Len(sent)
      BY <1>6, <1>14, <2>1
    <3> QED BY <1>5, <1>14, <2>1, <3>1 DEF InLine
  <2>2. CASE j \notin 1..Len(sent)
    <3>1. j - Len(sent) \in 1..N /\ sent'[j][2] = q[at[j - Len(sent)]] /\ at[j - Len(sent)] \in 1..Len(q)
      BY <1>7, <1>8, <2>2
    <3>2. CASE i \in 1..Len(sent)
      BY <1>5, <3>1, <3>2 DEF InLine
    <3>3. CASE i \notin 1..Len(sent)
      <4>1. i - Len(sent) \in 1..N /\ sent'[i][2] = q[at[i - Len(sent)]] /\ at[i - Len(sent)] \in 1..Len(q)
        BY <1>7, <1>8, <3>3
      <4>2. i - Len(sent) < j - Len(sent)
        BY <1>5, <1>6, <1>14
      <4>3. at[i - Len(sent)] < at[j - Len(sent)]
        BY <1>5, <3>1, <4>1, <4>2
      <4> QED BY <3>1, <4>1, <4>3 DEF InLine
    <3> QED BY <3>2, <3>3
  <2> QED BY <2>1, <2>2
<1>15. InLine(acc, queue', sent')
  BY <1>10, <1>11, <1>12, <1>13, <1>14 DEF InLine
<1> QED BY <1>3, <1>15

-----------------------------------------------------------------------------
\* Types.

TransportTypes ==
  /\ tstate \in {"READY", "RECONNECTING", "CLOSED"} /\ tclosing \in BOOLEAN
  /\ events \in Seq({"READY", "RECONNECTING", "CLOSED"}) /\ outages \in 0..MaxOutages

LEMMA TransportTypesKept ==
  ASSUME TransportTypes, [Next]_vars
  PROVE  TransportTypes'
<1> DEFINE S == {"READY", "RECONNECTING", "CLOSED"}
<1>1. CASE DeliverStateChange
  <2>1. events # <<>> /\ events' = Tail(events) /\ UNCHANGED <<tstate, tclosing, outages>>
    BY <1>1 DEF DeliverStateChange
  <2>2. events' \in Seq(S)
    BY <2>1, HeadTailProperties DEF TransportTypes
  <2> QED BY <2>1, <2>2 DEF TransportTypes
<1>2. CASE TransportLost
  <2>1. tstate' = "RECONNECTING" /\ tclosing' = tclosing /\ events' = events \o <<"RECONNECTING", "RECONNECTING">>
    BY <1>2 DEF TransportLost
  <2>2. outages' \in 0..MaxOutages
    BY <1>2, Constants DEF TransportLost, TransportTypes
  <2>3. <<"RECONNECTING", "RECONNECTING">> \in Seq(S)
    OBVIOUS
  <2>4. events' \in Seq(S)
    BY <2>1, <2>3, ConcatProperties DEF TransportTypes
  <2> QED BY <2>1, <2>2, <2>4 DEF TransportTypes
<1>3. CASE TransportRetry \/ TransportReady \/ TransportClosed
  <2>1. \E e \in S : events' = Append(events, e)
    BY <1>3 DEF TransportRetry, TransportReady, TransportClosed
  <2>2. events' \in Seq(S)
    BY <2>1, AppendProperties DEF TransportTypes
  <2>3. tstate' \in {"READY", "RECONNECTING", "CLOSED"} /\ UNCHANGED <<tclosing, outages>>
    BY <1>3 DEF TransportRetry, TransportReady, TransportClosed, TransportTypes
  <2> QED BY <2>2, <2>3 DEF TransportTypes
<1>4. CASE TransportClosing
  BY <1>4 DEF TransportClosing, TransportTypes
<1>5. ASSUME UNCHANGED transport PROVE TransportTypes'
  BY <1>5 DEF transport, TransportTypes
<1>6. CASE Start \/ DrainImmediate \/ SweepExpiredPending \/ Close \/ CloseFinish \/ UNCHANGED vars
  BY <1>5, <1>6 DEF Start, DrainImmediate, SweepExpiredPending, Close, CloseFinish, vars
<1>7. CASE \E m \in Msgs : Enqueue(m) \/ Abort(m) \/ Expire(m)
  BY <1>5, <1>7 DEF Enqueue, Abort, Expire
<1>8. CASE \/ \E x \in StreamIds : StreamDrain(x)
           \/ \E x \in StreamIds, k \in Keys, how \in {"ok", "error"} : StreamData(x, k, how)
           \/ \E x \in StreamIds, code \in {"ok", "cancelled", "transient", "permanent"} : StreamEnd(x, code)
  BY <1>5, <1>8 DEF StreamDrain, StreamData, StreamEnd
<1> QED BY <1>1, <1>2, <1>3, <1>4, <1>6, <1>7, <1>8 DEF Next

\* The types of a step that leaves the queue and the wire alone.
LEMMA QuietTypes ==
  ASSUME TypeOK, TransportTypes',
         UNCHANGED <<queue, opened, sent, accepted>>,
         pendingMap' \in [Keys -> Tracked \cup {NoMsg}], outcome' \in [Msgs -> Outcomes],
         stream' \in 0..opened, paused' \in BOOLEAN, scheduled' \in BOOLEAN, closed' \in BOOLEAN,
         closing' \in {"no", "waiting", "done"}, started' \in BOOLEAN,
         streamState' \in {"initializing", "connected", "reconnecting", "closed"},
         expired' \subseteq Tracked, aborted' \subseteq Signalled,
         alive' \subseteq 1..opened, needDrain' \subseteq 1..opened
  PROVE  TypeOK'
BY DEF TypeOK, TransportTypes

-----------------------------------------------------------------------------
\* Who is held, and the line, when no request is drained.

LEMMA SettleTells ==
  ASSUME NEW out \in [Msgs -> Outcomes], NEW S, NEW how \in Outcomes \ {"unsent", "open"}
  PROVE  /\ Settle(out, S, how) \in [Msgs -> Outcomes]
         /\ \A m \in Msgs : /\ out[m] # "unsent" => Settle(out, S, how)[m] # "unsent"
                            /\ Settle(out, S, how)[m] = "open" => out[m] = "open" /\ m \notin S
BY DEF Settle

\* A step after which each promise that is still open has what held it.
LEMMA HeldKept ==
  ASSUME Held(queue, pendingMap, outcome),
         \A m \in Tracked : outcome[m] # "unsent" => outcome'[m] # "unsent",
         \A m \in Tracked : outcome'[m] = "open" =>
           /\ outcome[m] = "open"
           /\ \A i \in 1..Len(queue) : queue[i] = m => \E j \in 1..Len(queue') : queue'[j] = m
           /\ pendingMap[KeyOf[m]] = m => pendingMap'[KeyOf[m]] = m
  PROVE  Held(queue', pendingMap', outcome')
<1> SUFFICES ASSUME NEW m \in Tracked, outcome'[m] = "open"
             PROVE  \/ \E i \in 1..Len(queue') : queue'[i] = m
                    \/ pendingMap'[KeyOf[m]] = m
                    \/ \E other \in Tracked \ {m} : KeyOf[other] = KeyOf[m] /\ outcome'[other] # "unsent"
  BY DEF Held
<1>1. \/ \E i \in 1..Len(queue) : queue[i] = m
      \/ pendingMap[KeyOf[m]] = m
      \/ \E other \in Tracked \ {m} : KeyOf[other] = KeyOf[m] /\ outcome[other] # "unsent"
  BY DEF Held
<1> QED BY <1>1

LEMMA LineKept ==
  ASSUME TypeOK, Line, UNCHANGED <<queue, sent, accepted>>,
         \A m \in Msgs : outcome[m] # "unsent" => outcome'[m] # "unsent"
  PROVE  Line'
<1>1. \A i \in 1..Len(accepted) : accepted[i] \in Msgs
  BY ElementOfSeq DEF TypeOK
<1> QED BY <1>1 DEF Line, AcceptedOnce, InLine

LEMMA QueuedIsKnown ==
  ASSUME NEW acc, NEW out, NEW q, NEW w, AcceptedOnce(acc, out), InLine(acc, q, w)
  PROVE  \A i \in 1..Len(q) : out[q[i]] # "unsent"
BY DEF AcceptedOnce, InLine

\* All of them together: a step that settles some promises, S or more, with how, and
\* forgets only what it settled.
LEMMA QuietKept ==
  ASSUME TypeOK, Held(queue, pendingMap, outcome), Line, UNCHANGED <<queue, sent, accepted>>,
         NEW S, NEW how \in Outcomes \ {"unsent", "open"}, outcome' = Settle(outcome, S, how),
         \A m \in Tracked : m \notin S /\ pendingMap[KeyOf[m]] = m => pendingMap'[KeyOf[m]] = m
  PROVE  /\ outcome' \in [Msgs -> Outcomes]
         /\ Held(queue', pendingMap', outcome') /\ Line'
<1>1. /\ outcome' \in [Msgs -> Outcomes]
      /\ \A m \in Msgs : /\ outcome[m] # "unsent" => outcome'[m] # "unsent"
                         /\ outcome'[m] = "open" => outcome[m] = "open" /\ m \notin S
  BY SettleTells DEF TypeOK
<1>2. Tracked \subseteq Msgs
  BY Constants
<1>3. Line'
  BY <1>1, LineKept
<1>4. Held(queue', pendingMap', outcome')
  BY <1>1, <1>2, HeldKept
<1> QED BY <1>1, <1>3, <1>4

LEMMA UnchangedKept ==
  ASSUME Held(queue, pendingMap, outcome), Line, UNCHANGED <<queue, pendingMap, outcome, sent, accepted>>
  PROVE  Held(queue', pendingMap', outcome') /\ Line'
BY DEF Held, Line, AcceptedOnce, InLine

-----------------------------------------------------------------------------
\* The actions, one by one.

\* A new stream, for whoever opens it.
LEMMA OpenStreamKeeps ==
  ASSUME SenderInv, TransportTypes', OpenStream,
         ~closed, closed' = closed, closing = "no", closing' = closing, started' = TRUE,
         UNCHANGED <<expired, aborted, accepted>>
  PROVE  SenderInv'
<1> USE DEF SenderInv
<1>1. opened \in Nat /\ stream \in 0..opened /\ paused \in BOOLEAN /\ scheduled \in BOOLEAN
  BY DEF TypeOK
<1>2. CASE tclosing /\ streamState' = "reconnecting" /\ UNCHANGED <<stream, opened, alive>>
           /\ NoDrain(queue, outcome, needDrain, paused, scheduled)
  <2>1. UNCHANGED <<queue, pendingMap, outcome, needDrain, paused, scheduled, sent, stream, opened, alive>>
    BY <1>2 DEF NoDrain
  <2>2. TypeOK'
    <3>1. started' \in BOOLEAN
      OBVIOUS
    <3> QED BY <1>2, <2>1, <3>1 DEF TypeOK, TransportTypes
  <2>3. Flags'
    BY <2>1 DEF Flags, NothingBeforeStart, StreamIsLive, CloseEmpties, QueueHasWaker, NoPending
  <2> QED BY <2>1, <2>2, <2>3, UnchangedKept
<1>3. CASE ~tclosing /\ opened' = opened + 1 /\ stream' = opened + 1 /\ alive' = alive \cup {opened + 1}
           /\ streamState' = "connected" /\ Drain(queue, outcome, opened + 1, needDrain, FALSE, scheduled)
  <2>1. opened' \in Nat /\ opened <= opened' /\ opened + 1 \in 1..opened' /\ stream' \in 0..opened'
    BY <1>1, <1>3
  <2>2. queue \in Seq(Msgs) /\ outcome \in [Msgs -> Outcomes] /\ needDrain \in SUBSET (1..opened') /\ alive' \subseteq 1..opened'
    BY <1>1, <1>3 DEF TypeOK
  <2>3. Drain(queue, outcome, opened + 1, needDrain, FALSE, scheduled)
    BY <1>3
  <2>4. /\ queue' \in Seq(Msgs) /\ Len(queue') <= Len(queue) /\ pendingMap' \in [Keys -> Tracked \cup {NoMsg}]
        /\ outcome' \in [Msgs -> Outcomes] /\ sent' \in Seq((1..opened') \X Msgs)
        /\ needDrain' \subseteq 1..opened' /\ paused' \in BOOLEAN /\ scheduled' \in BOOLEAN
    BY <1>1, <2>1, <2>2, <2>3, DrainTypes
  <2>5. Len(queue') <= MaxQueueSize
    <3>1. Len(queue) \in Nat /\ Len(queue') \in Nat /\ Len(queue) <= MaxQueueSize
      BY <2>2, <2>4, LenProperties DEF TypeOK
    <3> QED BY <2>4, <3>1, Constants
  <2>6. TypeOK'
    <3>1. started' \in BOOLEAN /\ closed' \in BOOLEAN /\ streamState' \in {"initializing", "connected", "reconnecting", "closed"}
      BY <1>3 DEF TypeOK
    <3> QED BY <2>1, <2>2, <2>4, <2>5, <3>1 DEF TypeOK, TransportTypes
  <2>7. /\ queue' = <<>> \/ scheduled' \/ paused'
        /\ paused' => FALSE \/ opened + 1 \in needDrain'
    BY <1>1, <2>1, <2>2, <2>3, DrainWakes
  <2>8. Flags'
    BY <1>3, <2>7 DEF Flags, NothingBeforeStart, StreamIsLive, CloseEmpties, QueueHasWaker
  <2>9. Held(queue', pendingMap', outcome')
    <3>1. \A i \in 1..Len(queue) : outcome[queue[i]] # "unsent"
      BY QueuedIsKnown DEF Line
    <3> QED BY <2>1, <2>2, <2>3, <3>1, DrainHolds
  <2>10. Line'
    <3>1. accepted \in Seq(Msgs)
      BY DEF TypeOK
    <3>2. AcceptedOnce(accepted, outcome') /\ InLine(accepted, queue', sent')
      BY <2>1, <2>2, <2>3, <3>1, DrainInLine DEF Line
    <3> QED BY <3>2 DEF Line
  <2> QED BY <2>6, <2>8, <2>9, <2>10
<1> QED BY <1>2, <1>3 DEF OpenStream

LEMMA StartKeeps ==
  ASSUME SenderInv, TransportTypes', Start
  PROVE  SenderInv'
<1> USE DEF SenderInv
<1>1. started' = TRUE /\ UNCHANGED <<closed, closing, expired, aborted, accepted>> /\ ~closed /\ closing = "no"
  BY DEF Start, Flags, NothingBeforeStart
<1>2. CASE OpenStream
  BY <1>1, <1>2, OpenStreamKeeps
<1>3. CASE UNCHANGED <<streamState, stream, opened, alive>> /\ NoDrain(queue, outcome, needDrain, paused, scheduled)
  <2>1. UNCHANGED <<queue, pendingMap, outcome, needDrain, paused, scheduled, sent, stream, opened, alive, streamState>>
    BY <1>3 DEF NoDrain
  <2>2. TypeOK'
    <3>1. started' \in BOOLEAN
      BY <1>1
    <3> QED BY <1>1, <2>1, <3>1 DEF TypeOK, TransportTypes
  <2>3. Flags'
    BY <1>1, <2>1 DEF Flags, NothingBeforeStart, StreamIsLive, CloseEmpties, QueueHasWaker, NoPending
  <2> QED BY <1>1, <2>1, <2>2, <2>3, UnchangedKept
<1> QED BY <1>2, <1>3 DEF Start

\* A request that was accepted just now is the last in line.
LEMMA Accepted ==
  ASSUME TypeOK, Line, Held(queue, pendingMap, outcome), NEW m \in Msgs, outcome[m] = "unsent",
         NEW o \in Outcomes \ {"unsent"}
  PROVE  /\ Append(queue, m) \in Seq(Msgs) /\ Append(accepted, m) \in Seq(Msgs)
         /\ [outcome EXCEPT ![m] = o] \in [Msgs -> Outcomes]
         /\ Held(Append(queue, m), pendingMap, [outcome EXCEPT ![m] = o])
         /\ AcceptedOnce(Append(accepted, m), [outcome EXCEPT ![m] = o])
         /\ InLine(Append(accepted, m), Append(queue, m), sent)
<1> DEFINE q == Append(queue, m)
           acc == Append(accepted, m)
           out == [outcome EXCEPT ![m] = o]
           a1 == Len(accepted)
<1>1. /\ q \in Seq(Msgs) /\ Len(q) = Len(queue) + 1 /\ Len(queue) \in Nat
      /\ \A i \in 1..Len(queue) : q[i] = queue[i]
      /\ q[Len(queue) + 1] = m
  BY AppendProperties, LenProperties DEF TypeOK
<1>2. /\ acc \in Seq(Msgs) /\ Len(acc) = a1 + 1 /\ a1 \in Nat
      /\ \A i \in 1..a1 : acc[i] = accepted[i] /\ accepted[i] \in Msgs
      /\ acc[a1 + 1] = m
  BY AppendProperties, LenProperties, ElementOfSeq DEF TypeOK
<1>3. /\ out \in [Msgs -> Outcomes] /\ out[m] = o
      /\ \A x \in Msgs : x # m => out[x] = outcome[x]
  BY DEF TypeOK
<1> HIDE DEF q, acc, out, a1
<1>4. \A i \in 1..a1 : accepted[i] # m
  BY DEF Line, AcceptedOnce, a1
<1>5. Held(q, pendingMap, out)
  <2> SUFFICES ASSUME NEW x \in Tracked, out[x] = "open"
               PROVE  \/ \E i \in 1..Len(q) : q[i] = x
                      \/ pendingMap[KeyOf[x]] = x
                      \/ \E other \in Tracked \ {x} : KeyOf[other] = KeyOf[x] /\ out[other] # "unsent"
    BY DEF Held
  <2>1. CASE x = m
    <3>1. Len(queue) + 1 \in 1..Len(q)
      BY <1>1
    <3> QED BY <1>1, <2>1, <3>1
  <2>2. CASE x # m
    <3>1. Tracked \subseteq Msgs
      BY Constants
    <3>2. outcome[x] = "open"
      BY <1>3, <2>2, <3>1
    <3>3. \A y \in Msgs : outcome[y] # "unsent" => out[y] # "unsent"
      BY <1>3
    <3>4. \A i \in 1..Len(queue) : i \in 1..Len(q) /\ q[i] = queue[i]
      BY <1>1
    <3> QED BY <3>1, <3>2, <3>3, <3>4 DEF Held
  <2> QED BY <2>1, <2>2
<1>6. AcceptedOnce(acc, out)
  <2>1. ASSUME NEW i \in 1..Len(acc), NEW j \in 1..Len(acc), acc[i] = acc[j] PROVE i = j
    <3>1. i \in 1..a1 \/ i = a1 + 1
      BY <1>2
    <3>2. j \in 1..a1 \/ j = a1 + 1
      BY <1>2
    <3> QED BY <1>2, <1>4, <2>1, <3>1, <3>2 DEF Line, AcceptedOnce, a1
  <2>2. ASSUME NEW i \in 1..Len(acc) PROVE out[acc[i]] # "unsent"
    <3>1. i \in 1..a1 \/ i = a1 + 1
      BY <1>2
    <3>2. CASE i = a1 + 1
      BY <1>2, <1>3, <3>2
    <3>3. CASE i \in 1..a1
      BY <1>2, <1>3, <1>4, <3>3 DEF Line, AcceptedOnce, a1
    <3> QED BY <3>1, <3>2, <3>3
  <2> QED BY <2>1, <2>2 DEF AcceptedOnce
<1>7. ASSUME NEW x, NEW y, Before(accepted, x, y) PROVE Before(acc, x, y)
  <2>1. PICK i, j \in 1..a1 : i < j /\ accepted[i] = x /\ accepted[j] = y
    BY <1>7 DEF Before, a1
  <2>2. i \in 1..Len(acc) /\ j \in 1..Len(acc) /\ acc[i] = x /\ acc[j] = y
    BY <1>2, <2>1
  <2> QED BY <2>1, <2>2 DEF Before
<1>8. ASSUME NEW x, NEW i \in 1..a1, accepted[i] = x PROVE Before(acc, x, m)
  <2>1. i \in 1..Len(acc) /\ a1 + 1 \in 1..Len(acc) /\ i < a1 + 1 /\ acc[i] = x /\ acc[a1 + 1] = m
    BY <1>2, <1>8
  <2> QED BY <2>1 DEF Before
<1>9. \A i \in 1..Len(q) : (i \in 1..Len(queue) /\ q[i] = queue[i]) \/ (i = Len(queue) + 1 /\ q[i] = m)
  BY <1>1
<1>10. \A i \in 1..a1 : i \in 1..Len(acc) /\ acc[i] = accepted[i]
  BY <1>2
<1>11. a1 + 1 \in 1..Len(acc)
  BY <1>2
<1>12. \A i \in 1..Len(q) : \E a \in 1..Len(acc) : acc[a] = q[i]
  BY <1>2, <1>9, <1>10, <1>11 DEF Line, InLine, a1
<1>13. \A i \in 1..Len(sent) : \E a \in 1..Len(acc) : acc[a] = sent[i][2]
  BY <1>10 DEF Line, InLine, a1
<1>14. ASSUME NEW i \in 1..Len(q), NEW j \in 1..Len(q), i < j
       PROVE  Before(acc, q[i], q[j])
  <2>1. i \in 1..Len(queue) /\ q[i] = queue[i]
    BY <1>1, <1>14
  <2>2. PICK a \in 1..a1 : accepted[a] = queue[i]
    BY <2>1 DEF Line, InLine, a1
  <2>3. CASE j = Len(queue) + 1 /\ q[j] = m
    BY <1>8, <2>1, <2>2, <2>3
  <2>4. CASE j \in 1..Len(queue) /\ q[j] = queue[j]
    BY <1>7, <1>14, <2>1, <2>4 DEF Line, InLine
  <2> QED BY <1>9, <2>3, <2>4
<1>15. ASSUME NEW i \in 1..Len(sent), NEW j \in 1..Len(q)
       PROVE  Before(acc, sent[i][2], q[j])
  <2>1. PICK a \in 1..a1 : accepted[a] = sent[i][2]
    BY DEF Line, InLine, a1
  <2>2. CASE j = Len(queue) + 1 /\ q[j] = m
    BY <1>8, <2>1, <2>2
  <2>3. CASE j \in 1..Len(queue) /\ q[j] = queue[j]
    BY <1>7, <2>3 DEF Line, InLine
  <2> QED BY <1>9, <2>2, <2>3
<1>16. \A i, j \in 1..Len(sent) : i < j => Before(acc, sent[i][2], sent[j][2])
  BY <1>7 DEF Line, InLine
<1>17. InLine(acc, q, sent)
  BY <1>12, <1>13, <1>14, <1>15, <1>16 DEF InLine
<1> QED BY <1>1, <1>2, <1>3, <1>5, <1>6, <1>17 DEF q, acc, out

\* A drain to the current stream of an open sender.
LEMMA CurrentDrainKeeps ==
  ASSUME TypeOK, Flags, TransportTypes',
         NEW q \in Seq(Msgs), Len(q) <= MaxQueueSize, NEW out \in [Msgs -> Outcomes], NEW acc \in Seq(Msgs),
         Held(q, pendingMap, out), AcceptedOnce(acc, out), InLine(acc, q, sent),
         NEW sch, sch \in BOOLEAN,
         stream # NoStream, ~closed, Drain(q, out, stream, needDrain, paused, sch),
         accepted' = acc,
         UNCHANGED <<stream, closed, streamState, closing, started, expired, aborted, opened, alive>>
  PROVE  SenderInv'
<1>1. /\ opened' \in Nat /\ opened <= opened' /\ stream \in 1..opened' /\ needDrain \in SUBSET (1..opened')
      /\ paused \in BOOLEAN
  BY DEF TypeOK, NoStream
<1>2. /\ queue' \in Seq(Msgs) /\ Len(queue') <= Len(q) /\ pendingMap' \in [Keys -> Tracked \cup {NoMsg}]
      /\ outcome' \in [Msgs -> Outcomes] /\ sent' \in Seq((1..opened') \X Msgs)
      /\ needDrain' \subseteq 1..opened' /\ paused' \in BOOLEAN /\ scheduled' \in BOOLEAN
  BY <1>1, DrainTypes
<1>3. Len(queue') <= MaxQueueSize
  <2>1. Len(q) \in Nat /\ Len(queue') \in Nat
    BY <1>2, LenProperties
  <2> QED BY <1>2, <2>1, Constants
<1>4. TypeOK'
  BY <1>2, <1>3 DEF TypeOK, TransportTypes
<1>5. /\ queue' = <<>> \/ scheduled' \/ paused'
      /\ paused' => paused \/ stream \in needDrain'
      /\ needDrain \subseteq needDrain'
  BY <1>1, DrainWakes
<1>6. stream \in alive /\ (paused => stream \in needDrain)
  BY DEF Flags, StreamIsLive
<1>7. paused' => stream \in needDrain'
  BY <1>5, <1>6
<1>8. Flags'
  BY <1>5, <1>6, <1>7 DEF Flags, NothingBeforeStart, StreamIsLive, CloseEmpties, QueueHasWaker
<1>9. Held(queue', pendingMap', outcome')
  <2>1. \A i \in 1..Len(q) : out[q[i]] # "unsent"
    BY QueuedIsKnown
  <2> QED BY <1>1, <2>1, DrainHolds
<1>10. AcceptedOnce(acc, outcome') /\ InLine(acc, queue', sent')
  BY <1>1, DrainInLine
<1> QED BY <1>4, <1>8, <1>9, <1>10 DEF SenderInv, Line

LEMMA EnqueueKeeps ==
  ASSUME SenderInv, TransportTypes', NEW m \in Msgs, Enqueue(m)
  PROVE  SenderInv'
<1> USE DEF SenderInv
<1>1. started /\ outcome[m] = "unsent" /\ outcome \in [Msgs -> Outcomes]
  BY DEF Enqueue, TypeOK
<1>2. ASSUME NEW o \in {"closed", "cancelled", "full"}, outcome' = [outcome EXCEPT ![m] = o],
             UNCHANGED <<sender, grpc, expired, aborted, accepted>>
      PROVE  SenderInv'
  <2>1. o \in Outcomes /\ outcome' \in [Msgs -> Outcomes]
    BY <1>2 DEF TypeOK, Outcomes
  <2>2. \A x \in Msgs : (outcome[x] # "unsent" => outcome'[x] # "unsent")
                        /\ (outcome'[x] = "open" => outcome[x] = "open")
    BY <1>1, <1>2
  <2>3. TypeOK'
    BY <1>2, <2>1 DEF TypeOK, TransportTypes, sender, grpc
  <2>4. Flags'
    BY <1>2 DEF sender, grpc, Flags, NothingBeforeStart, StreamIsLive, CloseEmpties, QueueHasWaker, NoPending
  <2>5. queue' = queue /\ pendingMap' = pendingMap /\ sent' = sent
    BY <1>2 DEF sender, grpc
  <2>6. Held(queue', pendingMap', outcome')
    BY <2>2, <2>5, HeldKept, Constants
  <2>7. Line'
    BY <1>2, <2>2, <2>5, LineKept
  <2> QED BY <2>3, <2>4, <2>6, <2>7
<1>3. ASSUME ~closed, ~QueueFull, accepted' = Append(accepted, m),
             NEW o \in {"open", "void"}, NEW q, q = Append(queue, m), NEW out, out = [outcome EXCEPT ![m] = o],
             IF paused \/ stream = NoStream
             THEN NoDrain(q, out, needDrain, paused, scheduled)
             ELSE Drain(q, out, stream, needDrain, paused, scheduled),
             UNCHANGED <<stream, closed, streamState, closing, started, expired, aborted, opened, alive>>
      PROVE  SenderInv'
  <2>1. /\ q \in Seq(Msgs) /\ accepted' \in Seq(Msgs) /\ out \in [Msgs -> Outcomes]
        /\ Held(q, pendingMap, out)
        /\ AcceptedOnce(accepted', out) /\ InLine(accepted', q, sent)
    <3>1. o \in Outcomes \ {"unsent"}
      BY DEF Outcomes
    <3> QED BY <1>1, <1>3, <3>1, Accepted
  <2>2. Len(q) <= MaxQueueSize
    <3>1. Len(q) = Len(queue) + 1 /\ Len(queue) \in Nat
      BY <1>3, AppendProperties, LenProperties DEF TypeOK
    <3>2. ~(Len(queue) >= MaxQueueSize)
      BY <1>3 DEF QueueFull
    <3> QED BY <3>1, <3>2, Constants
  <2>3. CASE ~(paused \/ stream = NoStream)
    <3>1. Drain(q, out, stream, needDrain, paused, scheduled)
      BY <1>3, <2>3
    <3>2. scheduled \in BOOLEAN
      BY DEF TypeOK
    <3>3. TypeOK /\ Flags /\ stream # NoStream /\ ~closed
      BY <1>3, <2>3
    <3> QED BY <1>3, <2>1, <2>2, <3>1, <3>2, <3>3, CurrentDrainKeeps
  <2>4. CASE paused \/ stream = NoStream
    <3>1. queue' = q /\ outcome' = out /\ UNCHANGED <<needDrain, paused, scheduled, pendingMap, sent>>
      BY <1>3, <2>4 DEF NoDrain
    <3>2. TypeOK'
      BY <1>3, <2>1, <2>2, <3>1 DEF TypeOK, TransportTypes
    <3>3. Flags'
      BY <1>1, <1>3, <2>4, <3>1 DEF Flags, NothingBeforeStart, StreamIsLive, CloseEmpties, QueueHasWaker
    <3>4. Held(queue', pendingMap', outcome') /\ Line'
      BY <2>1, <3>1 DEF Line
    <3> QED BY <3>2, <3>3, <3>4
  <2> QED BY <2>3, <2>4
<1>4. CASE outcome' = [outcome EXCEPT ![m] = "closed"] /\ UNCHANGED <<sender, grpc, expired, aborted, accepted>>
  BY <1>2, <1>4
<1>5. CASE outcome' = [outcome EXCEPT ![m] = "cancelled"] /\ UNCHANGED <<sender, grpc, expired, aborted, accepted>>
  BY <1>2, <1>5
<1>6. CASE outcome' = [outcome EXCEPT ![m] = "full"] /\ UNCHANGED <<sender, grpc, expired, aborted, accepted>>
  BY <1>2, <1>6
<1>7. CASE /\ ~closed /\ ~QueueFull
           /\ accepted' = Append(accepted, m)
           /\ LET q == Append(queue, m)
                  out == [outcome EXCEPT ![m] = IF m \in Tracked THEN "open" ELSE "void"]
              IN IF paused \/ stream = NoStream
                 THEN NoDrain(q, out, needDrain, paused, scheduled)
                 ELSE Drain(q, out, stream, needDrain, paused, scheduled)
           /\ UNCHANGED <<stream, closed, streamState, closing, started, expired, aborted, opened, alive>>
  <2> DEFINE o == IF m \in Tracked THEN "open" ELSE "void"
             q == Append(queue, m)
             out == [outcome EXCEPT ![m] = o]
  <2>1. o \in {"open", "void"}
    OBVIOUS
  <2>2. /\ IF paused \/ stream = NoStream
           THEN NoDrain(q, out, needDrain, paused, scheduled)
           ELSE Drain(q, out, stream, needDrain, paused, scheduled)
    BY <1>7
  <2> HIDE DEF o
  <2> QED BY <1>3, <1>7, <2>1, <2>2
<1> QED BY <1>4, <1>5, <1>6, <1>7 DEF Enqueue, Push

LEMMA SplicePlaces ==
  ASSUME NEW n \in Nat, NEW i \in 1..n
  PROVE  /\ (i - 1) + (n - i) = n - 1
         /\ \A j \in 1..(n - 1) : ~(j < i) =>
              ~(j <= i - 1) /\ j - (i - 1) \in 1..(n - i) /\ i + (j - (i - 1)) = j + 1
OBVIOUS

\* queue.splice(idx, 1).
LEMMA Splice ==
  ASSUME NEW q \in Seq(Msgs), NEW i \in 1..Len(q), NEW r, r = SubSeq(q, 1, i - 1) \o SubSeq(q, i + 1, Len(q))
  PROVE  /\ r \in Seq(Msgs) /\ Len(q) \in Nat /\ Len(r) = Len(q) - 1
         /\ \A j \in 1..Len(r) : r[j] = IF j < i THEN q[j] ELSE q[j + 1]
<1> DEFINE front == SubSeq(q, 1, i - 1)
           back == SubSeq(q, i + 1, Len(q))
<1>1. Len(q) \in Nat /\ i \in Int /\ i - 1 \in Int /\ i + 1 \in Int /\ 1 \in Int /\ i <= Len(q) /\ 1 <= i
  BY LenProperties
<1>2. \A j \in 1..Len(q) : q[j] \in Msgs
  BY ElementOfSeq
<1>3. /\ front \in Seq(Msgs) /\ Len(front) = (IF 1 <= i - 1 THEN i - 1 - 1 + 1 ELSE 0)
      /\ \A j \in 1..(i - 1 - 1 + 1) : front[j] = q[1 + j - 1]
  <2>1. \A j \in 1..(i - 1) : q[j] \in Msgs
    BY <1>1, <1>2
  <2> QED BY <1>1, <2>1, SubSeqProperties
<1>4. /\ back \in Seq(Msgs) /\ Len(back) = (IF i + 1 <= Len(q) THEN Len(q) - (i + 1) + 1 ELSE 0)
      /\ \A j \in 1..(Len(q) - (i + 1) + 1) : back[j] = q[i + 1 + j - 1]
  <2>1. \A j \in (i + 1)..Len(q) : q[j] \in Msgs
    BY <1>1, <1>2
  <2> QED BY <1>1, <2>1, SubSeqProperties
<1>5. r = front \o back
  OBVIOUS
<1> HIDE DEF front, back
<1>6. Len(front) = i - 1 /\ \A j \in 1..(i - 1) : front[j] = q[j]
  BY <1>1, <1>3
<1>7. Len(back) = Len(q) - i /\ \A j \in 1..(Len(q) - i) : back[j] = q[i + j]
  <2>1. Len(back) = Len(q) - i
    BY <1>1, <1>4
  <2>2. Len(q) - (i + 1) + 1 = Len(q) - i /\ \A j \in 1..(Len(q) - i) : i + 1 + j - 1 = i + j
    BY <1>1
  <2> QED BY <1>4, <2>1, <2>2
<1>8. front \in Seq(Msgs) /\ back \in Seq(Msgs)
  BY <1>3, <1>4
<1>9. /\ r \in Seq(Msgs) /\ Len(r) = Len(front) + Len(back)
      /\ \A j \in 1..Len(front) + Len(back) : r[j] = IF j <= Len(front) THEN front[j] ELSE back[j - Len(front)]
  BY <1>5, <1>8, ConcatProperties
<1>10. Len(r) = Len(q) - 1
  <2>1. Len(r) = (i - 1) + (Len(q) - i)
    BY <1>6, <1>7, <1>9, Zenon
  <2>2. (i - 1) + (Len(q) - i) = Len(q) - 1
    BY <1>1, SplicePlaces, Zenon
  <2> QED BY <2>1, <2>2, Zenon
<1>11. ASSUME NEW j \in 1..Len(r) PROVE r[j] = IF j < i THEN q[j] ELSE q[j + 1]
  <2>1. r[j] = IF j <= i - 1 THEN front[j] ELSE back[j - (i - 1)]
    BY <1>6, <1>9
  <2>2. CASE j < i
    <3>1. j <= i - 1 /\ j \in 1..(i - 1)
      BY <1>1, <2>2
    <3> QED BY <1>6, <2>1, <2>2, <3>1
  <2>3. CASE ~(j < i)
    <3>1. ~(j <= i - 1) /\ j - (i - 1) \in 1..(Len(q) - i) /\ i + (j - (i - 1)) = j + 1
      <4>1. j \in 1..(Len(q) - 1)
        BY <1>10, Zenon
      <4> QED BY <1>1, <2>3, <4>1, SplicePlaces, Zenon
    <3> QED BY <1>7, <2>1, <2>3, <3>1
  <2> QED BY <2>2, <2>3
<1> QED BY <1>1, <1>9, <1>10, <1>11

LEMMA AbortKeeps ==
  ASSUME SenderInv, TransportTypes', NEW m \in Msgs, Abort(m)
  PROVE  SenderInv'
<1> USE DEF SenderInv
<1>1. /\ m \in Signalled /\ aborted' = aborted \cup {m} /\ aborted' \subseteq Signalled
      /\ UNCHANGED <<pendingMap, stream, paused, scheduled, closed, streamState, closing, started, expired, accepted>>
      /\ UNCHANGED <<opened, alive, needDrain, sent>>
  BY DEF Abort, TypeOK, grpc
<1>2. CASE m \notin Queued /\ UNCHANGED <<queue, outcome>>
  <2>1. TypeOK'
    BY <1>1, <1>2 DEF TypeOK, TransportTypes
  <2>2. Flags'
    BY <1>1, <1>2 DEF Flags, NothingBeforeStart, StreamIsLive, CloseEmpties, QueueHasWaker, NoPending
  <2> QED BY <1>1, <1>2, <2>1, <2>2, UnchangedKept
<1>3. ASSUME NEW i \in 1..Len(queue), queue[i] = m,
             queue' = SubSeq(queue, 1, i - 1) \o SubSeq(queue, i + 1, Len(queue)),
             outcome' = [outcome EXCEPT ![m] = "cancelled"]
      PROVE  SenderInv'
  <2>1. /\ queue' \in Seq(Msgs) /\ Len(queue) \in Nat /\ Len(queue') = Len(queue) - 1
        /\ \A j \in 1..Len(queue') : queue'[j] = IF j < i THEN queue[j] ELSE queue[j + 1]
    BY <1>3, Splice DEF TypeOK
  <2>2. outcome' \in [Msgs -> Outcomes] /\ outcome'[m] = "cancelled" /\ \A x \in Msgs : x # m => outcome'[x] = outcome[x]
    BY <1>3 DEF TypeOK, Outcomes
  <2>3. Len(queue') <= MaxQueueSize
    BY <2>1, Constants DEF TypeOK
  <2>4. TypeOK'
    BY <1>1, <2>1, <2>2, <2>3 DEF TypeOK, TransportTypes
  <2>5. queue # <<>>
    BY <1>3
  <2>6. Flags'
    BY <1>1, <2>5 DEF Flags, NothingBeforeStart, StreamIsLive, CloseEmpties, QueueHasWaker
  <2>7. \A x \in Msgs : outcome[x] # "unsent" => outcome'[x] # "unsent"
    BY <2>2
  <2>8. ASSUME NEW x \in Tracked, outcome'[x] = "open", NEW j \in 1..Len(queue), queue[j] = x
        PROVE  \E l \in 1..Len(queue') : queue'[l] = x
    <3>1. j # i
      BY <1>3, <2>2, <2>8
    <3>2. CASE j < i
      <4>1. j \in 1..Len(queue')
        BY <2>1, <3>2
      <4> QED BY <2>1, <2>8, <3>2, <4>1
    <3>3. CASE ~(j < i)
      <4>1. j - 1 \in 1..Len(queue') /\ ~(j - 1 < i) /\ j - 1 + 1 = j
        BY <2>1, <3>1, <3>3
      <4>2. queue'[j - 1] = x
        BY <2>1, <2>8, <4>1
      <4> QED BY <4>1, <4>2
    <3> QED BY <3>2, <3>3
  <2>9. Held(queue', pendingMap', outcome')
    <3>1. \A x \in Tracked : outcome'[x] = "open" => outcome[x] = "open"
      BY <2>2, Constants
    <3>2. \A x \in Tracked : outcome[x] # "unsent" => outcome'[x] # "unsent"
      BY <2>7, Constants
    <3> QED BY <1>1, <2>8, <3>1, <3>2, HeldKept
  <2>10. AcceptedOnce(accepted', outcome')
    <3>1. \A j \in 1..Len(accepted) : accepted[j] \in Msgs
      BY ElementOfSeq DEF TypeOK
    <3> QED BY <1>1, <2>7, <3>1 DEF Line, AcceptedOnce
  <2>11. InLine(accepted', queue', sent')
    <3> DEFINE old(j) == IF j < i THEN j ELSE j + 1
    <3>1. \A j \in 1..Len(queue') : old(j) \in 1..Len(queue) /\ queue'[j] = queue[old(j)]
      BY <2>1
    <3>2. \A j, l \in 1..Len(queue') : j < l => old(j) < old(l)
      BY <2>1
    <3> HIDE DEF old
    <3>3. \A j \in 1..Len(queue') : \E a \in 1..Len(accepted) : accepted[a] = queue'[j]
      BY <3>1 DEF Line, InLine
    <3>4. \A j, l \in 1..Len(queue') : j < l => Before(accepted, queue'[j], queue'[l])
      BY <3>1, <3>2 DEF Line, InLine
    <3>5. \A j \in 1..Len(sent), l \in 1..Len(queue') : Before(accepted, sent[j][2], queue'[l])
      BY <3>1 DEF Line, InLine
    <3> QED BY <1>1, <3>3, <3>4, <3>5 DEF Line, InLine
  <2> QED BY <2>4, <2>6, <2>9, <2>10, <2>11 DEF Line
<1> QED BY <1>2, <1>3 DEF Abort

\* Pending has whoever the map can hold for a request of its key.
LEMMA PendingHasAll ==
  ASSUME NEW m \in Tracked, pendingMap[KeyOf[m]] = m
  PROVE  m \in Pending
BY Constants DEF Pending

LEMMA NoPendingType == NoPending \in [Keys -> Tracked \cup {NoMsg}]
BY DEF NoPending

LEMMA RejectAllKept ==
  ASSUME TypeOK, Held(queue, pendingMap, outcome), Line, UNCHANGED <<queue, sent, accepted>>,
         NEW how \in Outcomes \ {"unsent", "open"}, RejectAllPending(how)
  PROVE  /\ pendingMap' \in [Keys -> Tracked \cup {NoMsg}] /\ outcome' \in [Msgs -> Outcomes]
         /\ Held(queue', pendingMap', outcome') /\ Line'
<1>1. outcome' = Settle(outcome, Pending, how) /\ pendingMap' = NoPending
  BY DEF RejectAllPending
<1>2. \A m \in Tracked : m \notin Pending /\ pendingMap[KeyOf[m]] = m => pendingMap'[KeyOf[m]] = m
  BY PendingHasAll
<1> QED BY <1>1, <1>2, NoPendingType, QuietKept

LEMMA DeliverKeeps ==
  ASSUME SenderInv, TransportTypes', DeliverStateChange
  PROVE  SenderInv'
<1> USE DEF SenderInv
<1>1. UNCHANGED <<closing, started, expired, aborted, accepted>>
  BY DEF DeliverStateChange
<1>2. CASE ~Listening
  <2>1. UNCHANGED <<queue, pendingMap, stream, paused, scheduled, closed, streamState, outcome>>
        /\ UNCHANGED <<opened, alive, needDrain, sent>>
    BY <1>2 DEF DeliverStateChange, grpc
  <2>2. TypeOK'
    BY <1>1, <2>1 DEF TypeOK, TransportTypes
  <2>3. Flags'
    BY <1>1, <2>1 DEF Flags, NothingBeforeStart, StreamIsLive, CloseEmpties, QueueHasWaker, NoPending
  <2> QED BY <1>1, <2>1, <2>2, <2>3, UnchangedKept
<1>3. ASSUME Listening, NEW how \in {"disconnected", "closed"}, RejectAllPending(how), stream' = NoStream,
             paused' \in {FALSE, paused}, closed' \in BOOLEAN, streamState' \in {"reconnecting", "closed"},
             UNCHANGED <<queue, scheduled, grpc>>
      PROVE  SenderInv'
  <2>1. UNCHANGED <<queue, scheduled, opened, alive, needDrain, sent>>
    BY <1>3 DEF grpc
  <2>2. how \in Outcomes \ {"unsent", "open"}
    BY DEF Outcomes
  <2>3. /\ pendingMap' \in [Keys -> Tracked \cup {NoMsg}] /\ outcome' \in [Msgs -> Outcomes]
        /\ Held(queue', pendingMap', outcome') /\ Line'
    <3>1. TypeOK /\ Held(queue, pendingMap, outcome) /\ Line /\ UNCHANGED <<queue, sent, accepted>> /\ RejectAllPending(how)
      BY <1>1, <1>3, <2>1
    <3> QED BY <2>2, <3>1, RejectAllKept
  <2>4. opened \in Nat /\ stream' = 0 /\ 0 \in 0..opened
    BY <1>3 DEF TypeOK, NoStream
  <2>5. TypeOK'
    <3>1. paused \in BOOLEAN /\ paused' \in {FALSE, paused}
      BY <1>3, Zenon DEF TypeOK
    <3>2. paused' \in BOOLEAN
      BY <3>1, Zenon
    <3> QED BY <1>1, <1>3, <2>1, <2>3, <2>4, <3>2 DEF TypeOK, TransportTypes
  <2>6. Flags'
    BY <1>1, <1>3, <2>1 DEF Listening, Flags, NothingBeforeStart, StreamIsLive, CloseEmpties, QueueHasWaker
  <2> QED BY <2>3, <2>5, <2>6
<1>4. CASE Listening
  <2>1. started /\ closing = "no" /\ ~closed /\ HandleStateChange(Head(events))
    BY <1>4 DEF Listening, DeliverStateChange
  <2>2. CASE OpenStream /\ closed' = closed
    <3>1. started' = TRUE
      BY <1>1, <2>1 DEF TypeOK
    <3> QED BY <1>1, <2>1, <2>2, <3>1, OpenStreamKeeps
  <2>3. CASE /\ RejectAllPending("disconnected") /\ DropStream
             /\ streamState' = "reconnecting" /\ closed' = closed
             /\ UNCHANGED <<queue, scheduled, grpc>>
    <3>1. closed' \in BOOLEAN /\ stream' = NoStream /\ paused' = FALSE
      BY <2>3 DEF TypeOK, DropStream
    <3> QED BY <1>3, <1>4, <2>3, <3>1
  <2>4. CASE /\ RejectAllPending("closed") /\ stream' = NoStream
             /\ streamState' = "closed" /\ closed' = TRUE
             /\ UNCHANGED <<queue, paused, scheduled, grpc>>
    BY <1>3, <1>4, <2>4
  <2> QED BY <2>1, <2>2, <2>3, <2>4 DEF HandleStateChange
<1> QED BY <1>2, <1>4

LEMMA ExpireKeeps ==
  ASSUME SenderInv, TransportTypes', NEW m \in Msgs, Expire(m)
  PROVE  SenderInv'
<1> USE DEF SenderInv
<1>1. UNCHANGED <<queue, pendingMap, stream, paused, scheduled, closed, streamState, closing, started>>
      /\ UNCHANGED <<outcome, aborted, accepted, opened, alive, needDrain, sent>> /\ expired' \subseteq Tracked
  BY DEF Expire, sender, grpc, TypeOK
<1>2. TypeOK'
  BY <1>1 DEF TypeOK, TransportTypes
<1>3. Flags'
  BY <1>1 DEF Flags, NothingBeforeStart, StreamIsLive, CloseEmpties, QueueHasWaker, NoPending
<1> QED BY <1>1, <1>2, <1>3, UnchangedKept

LEMMA DrainImmediateKeeps ==
  ASSUME SenderInv, TransportTypes', DrainImmediate
  PROVE  SenderInv'
<1> USE DEF SenderInv
<1>1. UNCHANGED <<stream, closed, streamState, closing, started, expired, aborted, accepted, opened, alive>>
  BY DEF DrainImmediate
<1>2. CASE (stream = NoStream \/ closed) /\ NoDrain(queue, outcome, needDrain, paused, FALSE)
  <2>1. UNCHANGED <<queue, pendingMap, outcome, needDrain, paused, sent>> /\ scheduled' = FALSE
    BY <1>2 DEF NoDrain
  <2>2. TypeOK'
    BY <1>1, <2>1 DEF TypeOK, TransportTypes
  <2>3. Flags'
    BY <1>1, <1>2, <2>1 DEF Flags, NothingBeforeStart, StreamIsLive, CloseEmpties, QueueHasWaker, NoPending
  <2> QED BY <1>1, <2>1, <2>2, <2>3, UnchangedKept
<1>3. CASE ~(stream = NoStream \/ closed) /\ Drain(queue, outcome, stream, needDrain, paused, FALSE)
  <2>1. queue \in Seq(Msgs) /\ Len(queue) <= MaxQueueSize /\ outcome \in [Msgs -> Outcomes] /\ accepted \in Seq(Msgs)
    BY DEF TypeOK
  <2>2. AcceptedOnce(accepted, outcome) /\ InLine(accepted, queue, sent)
    BY DEF Line
  <2>3. TypeOK /\ Flags /\ Held(queue, pendingMap, outcome) /\ stream # NoStream /\ ~closed
    BY <1>3
  <2>4. FALSE \in BOOLEAN /\ Drain(queue, outcome, stream, needDrain, paused, FALSE)
    BY <1>3
  <2> QED BY <1>1, <2>1, <2>2, <2>3, <2>4, CurrentDrainKeeps
<1> QED BY <1>2, <1>3 DEF DrainImmediate

LEMMA StreamDrainKeeps ==
  ASSUME SenderInv, TransportTypes', NEW s \in StreamIds, StreamDrain(s)
  PROVE  SenderInv'
<1> USE DEF SenderInv
<1>1. /\ UNCHANGED <<queue, pendingMap, stream, closed, streamState, closing, started>>
      /\ UNCHANGED <<outcome, expired, aborted, accepted, opened, alive, sent>>
      /\ paused' = FALSE /\ scheduled' = (scheduled \/ ~closed) /\ needDrain' \subseteq needDrain
  BY DEF StreamDrain, DrainDeferred, calls
<1>2. TypeOK'
  <2>1. scheduled' \in BOOLEAN /\ paused' \in BOOLEAN
    BY <1>1
  <2>2. needDrain' \subseteq 1..opened'
    BY <1>1 DEF TypeOK
  <2> QED BY <1>1, <2>1, <2>2 DEF TypeOK, TransportTypes
<1>3. Flags'
  BY <1>1 DEF Flags, NothingBeforeStart, StreamIsLive, CloseEmpties, QueueHasWaker, NoPending
<1> QED BY <1>1, <1>2, <1>3, UnchangedKept

LEMMA StreamDataKeeps ==
  ASSUME SenderInv, TransportTypes', NEW s \in StreamIds, NEW k \in Keys, NEW how \in {"ok", "error"},
         StreamData(s, k, how)
  PROVE  SenderInv'
<1> USE DEF SenderInv
<1>1. /\ UNCHANGED <<queue, stream, paused, scheduled, closed, streamState, closing, started>>
      /\ UNCHANGED <<expired, aborted, accepted, opened, alive, needDrain, sent>>
      /\ outcome' = Settle(outcome, {pendingMap[k]}, how)
      /\ pendingMap' = [pendingMap EXCEPT ![k] = NoMsg] /\ pendingMap[k] # NoMsg
  BY DEF StreamData, grpc
<1>2. how \in Outcomes \ {"unsent", "open"}
  BY DEF Outcomes
<1>3. \A m \in Tracked : m \notin {pendingMap[k]} /\ pendingMap[KeyOf[m]] = m => pendingMap'[KeyOf[m]] = m
  BY <1>1, Constants DEF TypeOK
<1>4. outcome' \in [Msgs -> Outcomes] /\ Held(queue', pendingMap', outcome') /\ Line'
  BY <1>1, <1>2, <1>3, QuietKept
<1>5. TypeOK'
  <2>1. pendingMap' \in [Keys -> Tracked \cup {NoMsg}]
    BY <1>1 DEF TypeOK
  <2> QED BY <1>1, <1>4, <2>1 DEF TypeOK, TransportTypes
<1>6. closing' # "done"
  BY <1>1 DEF Flags, CloseEmpties, NoPending
<1>7. Flags'
  BY <1>1, <1>6 DEF Flags, NothingBeforeStart, StreamIsLive, CloseEmpties, QueueHasWaker
<1> QED BY <1>4, <1>5, <1>7

LEMMA StreamEndKeeps ==
  ASSUME SenderInv, TransportTypes', NEW s \in StreamIds, NEW code \in {"ok", "cancelled", "transient", "permanent"},
         StreamEnd(s, code)
  PROVE  SenderInv'
<1> USE DEF SenderInv
<1>1. /\ UNCHANGED <<queue, scheduled, closing, started, expired, aborted, accepted, opened, needDrain, sent>>
      /\ s \in alive /\ alive' = alive \ {s} /\ started
  BY DEF StreamEnd, Flags, NothingBeforeStart
<1>2. CASE closed /\ UNCHANGED <<pendingMap, stream, paused, closed, streamState, outcome>>
  <2>1. TypeOK'
    BY <1>1, <1>2 DEF TypeOK, TransportTypes
  <2>2. Flags'
    BY <1>1, <1>2 DEF Flags, NothingBeforeStart, StreamIsLive, CloseEmpties, QueueHasWaker, NoPending
  <2> QED BY <1>1, <1>2, <2>1, <2>2, UnchangedKept
<1>3. CASE /\ ~closed /\ RejectAllPending("disconnected") /\ DropStream /\ closed' = (code = "permanent")
           /\ streamState' = IF code = "permanent" THEN "closed" ELSE "reconnecting"
  <2>1. stream' = NoStream /\ paused' = FALSE
    BY <1>3 DEF DropStream
  <2>2. "disconnected" \in Outcomes \ {"unsent", "open"}
    BY DEF Outcomes
  <2>3. /\ pendingMap' \in [Keys -> Tracked \cup {NoMsg}] /\ outcome' \in [Msgs -> Outcomes]
        /\ Held(queue', pendingMap', outcome') /\ Line'
    BY <1>1, <1>3, <2>2, RejectAllKept
  <2>4. /\ closed' \in BOOLEAN /\ paused' \in BOOLEAN
        /\ streamState' \in {"initializing", "connected", "reconnecting", "closed"}
    BY <1>3, <2>1
  <2>5. stream' \in 0..opened /\ alive' \subseteq 1..opened
    BY <1>1, <2>1 DEF TypeOK, NoStream
  <2>6. TypeOK'
    BY <1>1, <2>3, <2>4, <2>5 DEF TypeOK, TransportTypes
  <2>7. closing = "no"
    BY <1>3 DEF Flags, CloseEmpties
  <2>8. Flags'
    BY <1>1, <2>1, <2>7 DEF Flags, NothingBeforeStart, StreamIsLive, CloseEmpties, QueueHasWaker
  <2> QED BY <2>3, <2>6, <2>8
<1> QED BY <1>2, <1>3 DEF StreamEnd

LEMMA SweepKeeps ==
  ASSUME SenderInv, TransportTypes', SweepExpiredPending
  PROVE  SenderInv'
<1> USE DEF SenderInv
<1>1. /\ UNCHANGED <<queue, stream, paused, scheduled, closed, streamState, closing, started>>
      /\ UNCHANGED <<expired, aborted, accepted, opened, alive, needDrain, sent>>
      /\ outcome' = Settle(outcome, Pending \cap expired, "timeout") /\ closing = "no"
      /\ pendingMap' = [k \in Keys |-> IF pendingMap[k] \in expired THEN NoMsg ELSE pendingMap[k]]
  BY DEF SweepExpiredPending, grpc
<1>2. "timeout" \in Outcomes \ {"unsent", "open"}
  BY DEF Outcomes
<1>3. \A m \in Tracked : m \notin Pending \cap expired /\ pendingMap[KeyOf[m]] = m => pendingMap'[KeyOf[m]] = m
  BY <1>1, Constants, PendingHasAll
<1>4. outcome' \in [Msgs -> Outcomes] /\ Held(queue', pendingMap', outcome') /\ Line'
  BY <1>1, <1>2, <1>3, QuietKept
<1>5. TypeOK'
  <2>1. pendingMap' \in [Keys -> Tracked \cup {NoMsg}]
    BY <1>1 DEF TypeOK
  <2> QED BY <1>1, <1>4, <2>1 DEF TypeOK, TransportTypes
<1>6. Flags'
  BY <1>1 DEF Flags, NothingBeforeStart, StreamIsLive, CloseEmpties, QueueHasWaker
<1> QED BY <1>4, <1>5, <1>6

LEMMA CloseKeeps ==
  ASSUME SenderInv, TransportTypes', Close
  PROVE  SenderInv'
<1> USE DEF SenderInv
<1>1. /\ UNCHANGED <<scheduled, started, expired, aborted, accepted, opened, alive, needDrain, sent>>
      /\ started /\ closing = "no"
      /\ closed' = TRUE /\ streamState' = "closed" /\ paused' = FALSE /\ queue' = <<>>
  BY DEF Close, grpc
<1>2. "closed" \in Outcomes \ {"unsent", "open"}
  BY DEF Outcomes
<1>3. ASSUME NEW S, Queued \subseteq S, outcome' = Settle(outcome, S, "closed"),
             \A m \in Tracked : m \notin S /\ pendingMap[KeyOf[m]] = m => pendingMap'[KeyOf[m]] = m
      PROVE  outcome' \in [Msgs -> Outcomes] /\ Held(queue', pendingMap', outcome') /\ Line'
  <2>1. /\ outcome' \in [Msgs -> Outcomes]
        /\ \A m \in Msgs : /\ outcome[m] # "unsent" => outcome'[m] # "unsent"
                           /\ outcome'[m] = "open" => outcome[m] = "open" /\ m \notin S
    <3>1. outcome \in [Msgs -> Outcomes]
      BY DEF TypeOK
    <3>2. /\ Settle(outcome, S, "closed") \in [Msgs -> Outcomes]
          /\ \A m \in Msgs : /\ outcome[m] # "unsent" => Settle(outcome, S, "closed")[m] # "unsent"
                             /\ Settle(outcome, S, "closed")[m] = "open" => outcome[m] = "open" /\ m \notin S
      BY <1>2, <3>1, SettleTells
    <3> QED BY <1>3, <3>2
  <2>2. Tracked \subseteq Msgs
    BY Constants
  <2>3. \A m : m \notin S => \A i \in 1..Len(queue) : queue[i] # m
    BY <1>3 DEF Queued
  <2>4. Held(queue', pendingMap', outcome')
    BY <1>3, <2>1, <2>2, <2>3, HeldKept
  <2>5. \A i \in 1..Len(accepted) : accepted[i] \in Msgs
    BY ElementOfSeq DEF TypeOK
  <2>6. Len(queue') = 0
    BY <1>1
  <2>7. Line'
    BY <1>1, <2>1, <2>5, <2>6 DEF Line, AcceptedOnce, InLine
  <2> QED BY <2>1, <2>4, <2>7
<1>4. queue' \in Seq(Msgs) /\ Len(queue') <= MaxQueueSize
  BY <1>1, Constants
<1>5. CASE /\ Pending # {} /\ closing' = "waiting"
           /\ outcome' = Settle(outcome, Queued, "closed")
           /\ UNCHANGED <<pendingMap, stream>>
  <2>1. outcome' \in [Msgs -> Outcomes] /\ Held(queue', pendingMap', outcome') /\ Line'
    BY <1>3, <1>5
  <2>2. TypeOK'
    BY <1>1, <1>4, <1>5, <2>1 DEF TypeOK, TransportTypes
  <2>3. Flags'
    BY <1>1, <1>5 DEF Flags, NothingBeforeStart, StreamIsLive, CloseEmpties, QueueHasWaker
  <2> QED BY <2>1, <2>2, <2>3
<1>6. CASE /\ closing' = "done" /\ outcome' = Settle(outcome, Queued \cup Pending, "closed")
           /\ pendingMap' = NoPending /\ stream' = NoStream
  <2>1. \A m \in Tracked : m \notin Queued \cup Pending /\ pendingMap[KeyOf[m]] = m => pendingMap'[KeyOf[m]] = m
    BY PendingHasAll
  <2>2. outcome' \in [Msgs -> Outcomes] /\ Held(queue', pendingMap', outcome') /\ Line'
    BY <1>3, <1>6, <2>1
  <2>3. stream' \in 0..opened' /\ pendingMap' \in [Keys -> Tracked \cup {NoMsg}]
    BY <1>1, <1>6, NoPendingType DEF TypeOK, NoStream
  <2>4. TypeOK'
    BY <1>1, <1>4, <1>6, <2>2, <2>3 DEF TypeOK, TransportTypes
  <2>5. Flags'
    BY <1>1, <1>6 DEF Flags, NothingBeforeStart, StreamIsLive, CloseEmpties, QueueHasWaker, NoPending
  <2> QED BY <2>2, <2>4, <2>5
<1> QED BY <1>5, <1>6 DEF Close

LEMMA CloseFinishKeeps ==
  ASSUME SenderInv, TransportTypes', CloseFinish
  PROVE  SenderInv'
<1> USE DEF SenderInv
<1>1. /\ UNCHANGED <<queue, paused, scheduled, closed, streamState, started, expired, aborted, accepted>>
      /\ UNCHANGED <<opened, alive, needDrain, sent>>
      /\ closing = "waiting" /\ closing' = "done" /\ stream' = NoStream /\ RejectAllPending("closed")
  BY DEF CloseFinish, grpc
<1>2. "closed" \in Outcomes \ {"unsent", "open"}
  BY DEF Outcomes
<1>3. /\ pendingMap' \in [Keys -> Tracked \cup {NoMsg}] /\ outcome' \in [Msgs -> Outcomes]
      /\ Held(queue', pendingMap', outcome') /\ Line'
  BY <1>1, <1>2, RejectAllKept
<1>4. stream' \in 0..opened
  BY <1>1 DEF TypeOK, NoStream
<1>5. TypeOK'
  BY <1>1, <1>3, <1>4 DEF TypeOK, TransportTypes
<1>6. pendingMap' = NoPending
  BY <1>1 DEF RejectAllPending
<1>7. NoPending' = NoPending
  BY DEF NoPending
<1>8. Flags'
  BY <1>1, <1>6, <1>7 DEF Flags, NothingBeforeStart, StreamIsLive, CloseEmpties, QueueHasWaker
<1> QED BY <1>3, <1>5, <1>8

\* The transport touches nothing of the sender.
LEMMA TransportKeeps ==
  ASSUME SenderInv, TransportTypes', UNCHANGED <<sender, calls, grpc>>
  PROVE  SenderInv'
<1> USE DEF SenderInv
<1>1. /\ UNCHANGED <<queue, pendingMap, stream, paused, scheduled, closed, streamState, closing, started>>
      /\ UNCHANGED <<outcome, expired, aborted, accepted, opened, alive, needDrain, sent>>
  BY DEF sender, calls, grpc
<1>2. TypeOK'
  BY <1>1 DEF TypeOK, TransportTypes
<1>3. Flags'
  BY <1>1 DEF Flags, NothingBeforeStart, StreamIsLive, CloseEmpties, QueueHasWaker, NoPending
<1> QED BY <1>1, <1>2, <1>3, UnchangedKept

-----------------------------------------------------------------------------
\* The inductive invariant, and what follows from it.

LEMMA InitInv == Init => SenderInv
<1> SUFFICES ASSUME Init PROVE SenderInv
  OBVIOUS
<1> USE DEF Init
<1>1. <<>> \in Seq(Msgs) /\ <<>> \in Seq((1..0) \X Msgs) /\ <<>> \in Seq({"READY", "RECONNECTING", "CLOSED"})
      /\ Len(<<>>) = 0
  OBVIOUS
<1>2. outcome \in [Msgs -> Outcomes] /\ \A m \in Msgs : outcome[m] # "open"
  BY DEF Outcomes
<1>3. TypeOK
  <2>1. queue \in Seq(Msgs) /\ accepted \in Seq(Msgs) /\ Len(queue) <= MaxQueueSize
    BY <1>1, Constants
  <2>2. sent \in Seq((1..opened) \X Msgs) /\ events \in Seq({"READY", "RECONNECTING", "CLOSED"})
    BY <1>1
  <2>3. pendingMap \in [Keys -> Tracked \cup {NoMsg}]
    BY NoPendingType
  <2>4. paused \in BOOLEAN /\ scheduled \in BOOLEAN /\ closed \in BOOLEAN /\ started \in BOOLEAN /\ tclosing \in BOOLEAN
    OBVIOUS
  <2>5. /\ streamState \in {"initializing", "connected", "reconnecting", "closed"} /\ closing \in {"no", "waiting", "done"}
        /\ tstate \in {"READY", "RECONNECTING", "CLOSED"}
    OBVIOUS
  <2>6. opened \in Nat /\ stream \in 0..opened /\ outages \in 0..MaxOutages
    BY Constants DEF NoStream
  <2>7. expired \subseteq Tracked /\ aborted \subseteq Signalled /\ alive \subseteq 1..opened /\ needDrain \subseteq 1..opened
    OBVIOUS
  <2> HIDE DEF Init
  <2> QED BY <1>2, <2>1, <2>2, <2>3, <2>4, <2>5, <2>6, <2>7 DEF TypeOK
<1>4. Flags
  BY DEF Flags, NothingBeforeStart, StreamIsLive, CloseEmpties, QueueHasWaker
<1>5. Held(queue, pendingMap, outcome)
  BY <1>2, Constants DEF Held
<1>6. Line
  BY <1>1 DEF Line, AcceptedOnce, InLine
<1> QED BY <1>3, <1>4, <1>5, <1>6 DEF SenderInv

LEMMA NextInv == SenderInv /\ [Next]_vars => SenderInv'
<1> SUFFICES ASSUME SenderInv, [Next]_vars PROVE SenderInv'
  OBVIOUS
<1>1. TransportTypes'
  <2>1. TransportTypes
    BY DEF SenderInv, TypeOK, TransportTypes
  <2> QED BY <2>1, TransportTypesKept
<1>2. CASE Start
  BY <1>1, <1>2, StartKeeps
<1>3. CASE \E m \in Msgs : Enqueue(m) \/ Abort(m) \/ Expire(m)
  BY <1>1, <1>3, EnqueueKeeps, AbortKeeps, ExpireKeeps
<1>4. CASE DeliverStateChange
  BY <1>1, <1>4, DeliverKeeps
<1>5. CASE DrainImmediate
  BY <1>1, <1>5, DrainImmediateKeeps
<1>6. CASE \E s \in StreamIds : StreamDrain(s)
  BY <1>1, <1>6, StreamDrainKeeps
<1>7. CASE \E s \in StreamIds, k \in Keys, how \in {"ok", "error"} : StreamData(s, k, how)
  BY <1>1, <1>7, StreamDataKeeps
<1>8. CASE \E s \in StreamIds, code \in {"ok", "cancelled", "transient", "permanent"} : StreamEnd(s, code)
  BY <1>1, <1>8, StreamEndKeeps
<1>9. CASE SweepExpiredPending
  BY <1>1, <1>9, SweepKeeps
<1>10. CASE Close
  BY <1>1, <1>10, CloseKeeps
<1>11. CASE CloseFinish
  BY <1>1, <1>11, CloseFinishKeeps
<1>12. CASE TransportLost \/ TransportRetry \/ TransportReady \/ TransportClosing \/ TransportClosed
  <2>1. UNCHANGED <<sender, calls, grpc>>
    BY <1>12 DEF TransportLost, TransportRetry, TransportReady, TransportClosing, TransportClosed
  <2> QED BY <1>1, <2>1, TransportKeeps
<1>13. CASE UNCHANGED vars
  <2>1. UNCHANGED <<sender, calls, grpc>>
    BY <1>13 DEF vars
  <2> QED BY <1>1, <2>1, TransportKeeps
<1> QED BY <1>2, <1>3, <1>4, <1>5, <1>6, <1>7, <1>8, <1>9, <1>10, <1>11, <1>12, <1>13 DEF Next

LEMMA InvForgetsNothing == SenderInv => NothingForgotten
<1> SUFFICES ASSUME SenderInv PROVE NothingForgotten
  OBVIOUS
<1>1. OpenIsHeld
  BY DEF SenderInv, Held, OpenIsHeld, Queued
<1>2. ASSUME closing = "done", DistinctKeys, NEW m \in Tracked PROVE outcome[m] # "open"
  <2>1. queue = <<>> /\ pendingMap = NoPending
    BY <1>2 DEF SenderInv, Flags, CloseEmpties
  <2>2. ~ \E i \in 1..Len(queue) : queue[i] = m
    BY <2>1
  <2>3. pendingMap[KeyOf[m]] # m
    BY <2>1, Constants DEF NoPending
  <2>4. ~ \E other \in Tracked \ {m} : KeyOf[other] = KeyOf[m]
    BY <1>2 DEF DistinctKeys
  <2> QED BY <2>2, <2>3, <2>4 DEF SenderInv, Held
<1> QED BY <1>1, <1>2 DEF NothingForgotten, SenderInv, Flags, CloseSettlesAll

\* The sender forgets no caller: as long as a promise is open its request is in the
\* queue or in the pending map, or a later request took its key over; whatever is
\* queued on an open stream has something that will drain it; and when close() is done
\* no promise is open, for every number of requests, limit and batch size.
THEOREM SenderForgetsNothing == Spec => []NothingForgotten
<1>1. Init => SenderInv
  BY InitInv
<1>2. SenderInv /\ [Next]_vars => SenderInv'
  BY NextInv
<1>3. SenderInv => NothingForgotten
  BY InvForgetsNothing
<1> QED BY <1>1, <1>2, <1>3, PTL DEF Spec

\* Position of a request in the order of acceptance is unique.
LEMMA PositionIs ==
  ASSUME AcceptedOnce(accepted, outcome), NEW i \in 1..Len(accepted)
  PROVE  Position(accepted[i]) = i
BY DEF Position, AcceptedOnce

LEMMA InvInOrder == SenderInv => WritesInOrder
<1> SUFFICES ASSUME SenderInv, NEW i \in 1..Len(sent), NEW j \in 1..Len(sent), i < j
             PROVE  Position(sent[i][2]) < Position(sent[j][2])
  BY DEF WritesInOrder
<1>1. AcceptedOnce(accepted, outcome) /\ Before(accepted, sent[i][2], sent[j][2])
  BY DEF SenderInv, Line, InLine
<1>2. PICK a, b \in 1..Len(accepted) : a < b /\ accepted[a] = sent[i][2] /\ accepted[b] = sent[j][2]
  BY <1>1 DEF Before
<1> QED BY <1>1, <1>2, PositionIs

LEMMA ClosedIsSilent ==
  ASSUME SenderInv, [Next]_vars, closed
  PROVE  sent' = sent /\ opened' = opened
<1>1. started /\ ~Listening
  BY DEF SenderInv, Flags, NothingBeforeStart, Listening
<1>2. ASSUME UNCHANGED grpc PROVE sent' = sent /\ opened' = opened
  BY <1>2 DEF grpc
<1>3. CASE DeliverStateChange
  BY <1>1, <1>2, <1>3 DEF DeliverStateChange
<1>4. CASE DrainImmediate
  BY <1>4 DEF DrainImmediate, NoDrain
<1>5. CASE \E m \in Msgs : Enqueue(m) \/ Abort(m) \/ Expire(m)
  BY <1>2, <1>5 DEF Enqueue, Abort, Expire
<1>6. CASE \/ \E s \in StreamIds : StreamDrain(s)
           \/ \E s \in StreamIds, k \in Keys, how \in {"ok", "error"} : StreamData(s, k, how)
           \/ \E s \in StreamIds, code \in {"ok", "cancelled", "transient", "permanent"} : StreamEnd(s, code)
  BY <1>2, <1>6 DEF StreamDrain, StreamData, StreamEnd
<1>7. CASE SweepExpiredPending \/ Close \/ CloseFinish \/ UNCHANGED vars
  BY <1>2, <1>7 DEF SweepExpiredPending, Close, CloseFinish, vars
<1>8. CASE TransportLost \/ TransportRetry \/ TransportReady \/ TransportClosing \/ TransportClosed
  BY <1>2, <1>8 DEF TransportLost, TransportRetry, TransportReady, TransportClosing, TransportClosed
<1>9. CASE Start
  BY <1>1, <1>9 DEF Start
<1> QED BY <1>3, <1>4, <1>5, <1>6, <1>7, <1>8, <1>9 DEF Next

\* Requests reach the wire in the order in which enqueue() accepted them and none is
\* written twice, whatever reconnections, backpressure, deadlines and aborts come between;
\* a closed sender writes nothing and opens no stream.
THEOREM WrittenInOrder == Spec => WireInOrder
<1>1. Init => SenderInv
  BY InitInv
<1>2. SenderInv /\ [Next]_vars => SenderInv'
  BY NextInv
<1>3. SenderInv => WritesInOrder
  BY InvInOrder
<1>4. SenderInv /\ [Next]_vars => (closed => sent' = sent /\ opened' = opened)
  BY ClosedIsSilent
<1>5. SenderInv /\ SenderInv' /\ [Next]_vars => [WritesInOrder' /\ (closed => sent' = sent /\ opened' = opened)]_vars
  <2>1. SenderInv' => WritesInOrder'
    BY <1>3, PTL
  <2> QED BY <1>4, <2>1
<1> QED BY <1>1, <1>2, <1>5, PTL DEF Spec, WireInOrder

-----------------------------------------------------------------------------
\* The sender implements RequestLine.  What its callers know has to agree with what it
\* holds: only what was written waits in the map, nobody whose request is queued has been
\* told anything, and no deadline runs for a request that was never taken.

Agreed(q, pm, out, w) ==
  /\ \A k \in Keys : pm[k] # NoMsg => \E i \in 1..Len(w) : w[i][2] = pm[k]
  /\ \A i \in 1..Len(q) : out[q[i]] \in {"open", "void"}

PromiseInv ==
  /\ SenderInv
  /\ Agreed(queue, pendingMap, outcome, sent)
  /\ \A m \in expired : outcome[m] # "unsent"

LEMMA BeforeDiffers ==
  ASSUME NEW acc, NEW out, NEW a, NEW b, AcceptedOnce(acc, out), Before(acc, a, b)
  PROVE  a # b
BY DEF AcceptedOnce, Before

LEMMA QueueIsApart ==
  ASSUME SenderInv
  PROVE  \A i \in 1..Len(sent), j \in 1..Len(queue) : sent[i][2] # queue[j]
BY BeforeDiffers DEF SenderInv, Line, InLine

LEMMA WireIs ==
  TypeOK => Len(Wire) = Len(sent) /\ Len(sent) \in Nat /\ \A i \in 1..Len(sent) : Wire[i] = sent[i][2]
<1> SUFFICES ASSUME TypeOK PROVE Len(Wire) = Len(sent) /\ Len(sent) \in Nat /\ \A i \in 1..Len(sent) : Wire[i] = sent[i][2]
  OBVIOUS
<1>1. Len(sent) \in Nat
  BY LenProperties DEF TypeOK
<1> QED BY <1>1 DEF Wire

LEMMA WireIsNow ==
  TypeOK' => /\ Len(Wire') = Len(sent') /\ Len(sent') \in Nat
             /\ \A i \in 1..Len(sent') : Wire'[i] = sent'[i][2]
<1> SUFFICES ASSUME TypeOK' PROVE Len(Wire') = Len(sent') /\ Len(sent') \in Nat /\ \A i \in 1..Len(sent') : Wire'[i] = sent'[i][2]
  OBVIOUS
<1>1. Len(sent') \in Nat
  BY LenProperties DEF TypeOK
<1> QED BY <1>1 DEF Wire

-----------------------------------------------------------------------------
\* Steps that write nothing.

LEMMA QuietImplements ==
  ASSUME TypeOK, UNCHANGED <<sent, accepted>>, closed => closed', expired \subseteq expired',
         \A m \in Msgs : Abstract!Tell(m)
  PROVE  Abstract!Next
<1>1. Wire' = Wire
  BY DEF Wire
<1>2. Len(Wire) \in Nat
  BY WireIs
<1>3. Abstract!Write
  BY <1>1, <1>2 DEF Abstract!Write
<1> QED BY <1>3 DEF Abstract!Next

\* No step makes a caller forget.
LEMMA TellKeepsKnown ==
  ASSUME NEW m, Abstract!Tell(m), outcome[m] # "unsent"
  PROVE  outcome'[m] # "unsent"
BY DEF Abstract!Tell, Abstract!Take, Abstract!Refuse, Abstract!Cancel, Abstract!GiveUp, Abstract!Answer

LEMMA ExpiredKnown ==
  ASSUME TypeOK, \A m \in expired : outcome[m] # "unsent", expired' = expired, \A m \in Msgs : Abstract!Tell(m)
  PROVE  \A m \in expired' : outcome'[m] # "unsent"
<1>1. expired \subseteq Msgs
  BY Constants DEF TypeOK
<1> QED BY <1>1, TellKeepsKnown

\* Callers of requests in S are told how.
LEMMA SettleTold ==
  ASSUME TypeOK, UNCHANGED sent, NEW S, NEW how, outcome' = Settle(outcome, S, how),
         \/ how = "closed"
         \/ how = "timeout" /\ S \subseteq expired
         \/ /\ how \in {"ok", "error", "disconnected"}
            /\ \A m \in S : \E i \in 1..Len(sent) : sent[i][2] = m
  PROVE  \A m \in Msgs : Abstract!Tell(m)
<1> SUFFICES ASSUME NEW m \in Msgs PROVE Abstract!Tell(m)
  OBVIOUS
<1>1. outcome'[m] = outcome[m] \/ (m \in S /\ outcome[m] = "open" /\ outcome'[m] = how)
  BY DEF Settle
<1>2. CASE outcome'[m] = outcome[m]
  BY <1>2 DEF Abstract!Tell
<1>3. CASE m \in S /\ outcome[m] = "open" /\ outcome'[m] = how
  <2>1. CASE how = "closed" \/ (how = "timeout" /\ S \subseteq expired)
    BY <1>3, <2>1 DEF Abstract!Tell, Abstract!GiveUp
  <2>2. CASE /\ how \in {"ok", "error", "disconnected"}
             /\ \A x \in S : \E i \in 1..Len(sent) : sent[i][2] = x
    <3>1. PICK i \in 1..Len(sent) : sent[i][2] = m
      BY <1>3, <2>2
    <3>2. i \in 1..Len(Wire) /\ Wire[i] = m
      BY <3>1, WireIs
    <3>3. Abstract!Has(Wire, m)
      BY <3>2 DEF Abstract!Has
    <3> QED BY <1>3, <2>2, <3>3 DEF Abstract!Tell, Abstract!Answer
  <2> QED BY <2>1, <2>2
<1> QED BY <1>1, <1>2, <1>3

LEMMA SameTold ==
  ASSUME outcome' = outcome
  PROVE  \A m \in Msgs : Abstract!Tell(m)
BY DEF Abstract!Tell

\* A step that settles promises of requests that are not queued, or that queues nothing.
LEMMA SettleAgrees ==
  ASSUME TypeOK, Agreed(queue, pendingMap, outcome, sent), UNCHANGED sent, NEW S, NEW how,
         outcome' = Settle(outcome, S, how),
         queue' = <<>> \/ (queue' = queue /\ \A i \in 1..Len(queue) : queue[i] \notin S),
         \A k \in Keys : pendingMap'[k] \in {NoMsg, pendingMap[k]}
  PROVE  Agreed(queue', pendingMap', outcome', sent')
<1>1. \A k \in Keys : pendingMap'[k] # NoMsg => \E i \in 1..Len(sent') : sent'[i][2] = pendingMap'[k]
  BY DEF Agreed
<1>2. \A i \in 1..Len(queue') : outcome'[queue'[i]] \in {"open", "void"}
  <2>1. CASE queue' = <<>>
    BY <2>1
  <2>2. CASE queue' = queue /\ \A i \in 1..Len(queue) : queue[i] \notin S
    <3>1. \A i \in 1..Len(queue) : queue[i] \in Msgs
      BY ElementOfSeq DEF TypeOK
    <3>2. \A i \in 1..Len(queue) : outcome'[queue[i]] = outcome[queue[i]]
      BY <2>2, <3>1 DEF Settle
    <3> QED BY <2>2, <3>2 DEF Agreed
  <2> QED BY <2>1, <2>2
<1> QED BY <1>1, <1>2 DEF Agreed

\* Who waits in the map was written, and is not queued.
LEMMA PendingIsWritten ==
  ASSUME PromiseInv
  PROVE  /\ \A m \in Pending : \E i \in 1..Len(sent) : sent[i][2] = m
         /\ \A i \in 1..Len(queue) : queue[i] \notin Pending
<1>1. \A m \in Pending : \E i \in 1..Len(sent) : sent[i][2] = m
  BY DEF PromiseInv, Agreed, Pending
<1> QED BY <1>1, QueueIsApart DEF PromiseInv

\* What an action owes to the refinement.
Refines ==
  /\ Agreed(queue', pendingMap', outcome', sent')
  /\ \A m \in expired' : outcome'[m] # "unsent"
  /\ [Abstract!Next]_(Abstract!line)

LEMMA SettleRefines ==
  ASSUME PromiseInv, UNCHANGED <<sent, accepted, expired>>, closed => closed',
         NEW S, NEW how, outcome' = Settle(outcome, S, how),
         \/ how = "closed"
         \/ how = "timeout" /\ S \subseteq expired
         \/ /\ how \in {"ok", "error", "disconnected"}
            /\ \A m \in S : \E i \in 1..Len(sent) : sent[i][2] = m,
         queue' = <<>> \/ (queue' = queue /\ \A i \in 1..Len(queue) : queue[i] \notin S),
         \A k \in Keys : pendingMap'[k] \in {NoMsg, pendingMap[k]}
  PROVE  Refines
<1>1. TypeOK /\ Agreed(queue, pendingMap, outcome, sent) /\ \A m \in expired : outcome[m] # "unsent"
  BY DEF PromiseInv, SenderInv
<1>2. \A m \in Msgs : Abstract!Tell(m)
  BY <1>1, SettleTold
<1>3. Agreed(queue', pendingMap', outcome', sent')
  BY <1>1, SettleAgrees
<1>4. \A m \in expired' : outcome'[m] # "unsent"
  BY <1>1, <1>2, ExpiredKnown
<1>5. Abstract!Next
  BY <1>1, <1>2, QuietImplements
<1> QED BY <1>3, <1>4, <1>5 DEF Refines

\* Nothing happens that a caller could see.
LEMMA SilentRefines ==
  ASSUME PromiseInv, UNCHANGED <<queue, pendingMap, outcome, sent, accepted, expired, closed>>
  PROVE  Refines
<1>1. Agreed(queue', pendingMap', outcome', sent')
  BY DEF PromiseInv, Agreed
<1>2. \A m \in expired' : outcome'[m] # "unsent"
  BY DEF PromiseInv
<1>3. UNCHANGED Abstract!line
  BY DEF Abstract!line, Wire
<1> QED BY <1>1, <1>2, <1>3 DEF Refines

LEMMA RejectAllRefines ==
  ASSUME PromiseInv, UNCHANGED <<queue, sent, accepted, expired>>, closed => closed',
         NEW how \in {"closed", "disconnected"}, RejectAllPending(how)
  PROVE  Refines
<1>1. outcome' = Settle(outcome, Pending, how) /\ \A k \in Keys : pendingMap'[k] = NoMsg
  BY DEF RejectAllPending, NoPending
<1>2. /\ \A m \in Pending : \E i \in 1..Len(sent) : sent[i][2] = m
      /\ \A i \in 1..Len(queue) : queue[i] \notin Pending
  BY PendingIsWritten
<1> QED BY <1>1, <1>2, SettleRefines

-----------------------------------------------------------------------------
\* Steps that drain.

\* What a drain does for the callers and on the wire.
LEMMA DrainPromises ==
  ASSUME TypeOK, NEW q \in Seq(Msgs), NEW out \in [Msgs -> Outcomes], NEW s \in 1..opened', NEW need,
         NEW p, NEW sch, Drain(q, out, s, need, p, sch), opened' \in Nat, opened <= opened',
         NEW acc \in Seq(Msgs), AcceptedOnce(acc, out), InLine(acc, q, sent), Agreed(q, pendingMap, out, sent)
  PROVE  /\ Agreed(queue', pendingMap', outcome', sent')
         /\ Len(sent) <= Len(sent') /\ \A i \in 1..Len(sent) : sent'[i] = sent[i]
         /\ \A j \in (Len(sent) + 1)..Len(sent') :
              ~Dead(sent'[j][2]) /\ outcome'[sent'[j][2]] \in {"open", "void"}
         /\ \A m \in Msgs :
              \/ outcome'[m] = out[m]
              \/ /\ out[m] = "open" /\ Dead(m)
                 /\ \/ outcome'[m] = "timeout" /\ m \in expired
                    \/ outcome'[m] = "cancelled" /\ \A j \in 1..Len(sent') : sent'[j][2] # m
<1>1. PICK n \in 0..Len(q) : Shortened(q, n) /\ Recorded(q, n) /\ Told(q, n, out) /\ Written(q, n, s)
  BY DrainSteps DEF Drained
<1>2. Len(q) \in Nat /\ Len(queue') = Len(q) - n /\ \A i \in 1..Len(queue') : queue'[i] = q[n + i]
  BY <1>1, LenProperties DEF Shortened
<1>3. PICK N \in Nat : \E at \in [1..N -> 1..n] :
        /\ \A i \in 1..N : ~Dead(q[at[i]])
        /\ \A i \in 1..n : ~Dead(q[i]) => \E j \in 1..N : at[j] = i
        /\ Len(sent') = Len(sent) + N
        /\ \A i \in 1..Len(sent) : sent'[i] = sent[i]
        /\ \A i \in 1..N : sent'[Len(sent) + i] = <<s, q[at[i]]>>
  BY <1>1 DEF Written
<1>4. PICK at \in [1..N -> 1..n] :
        /\ \A i \in 1..N : ~Dead(q[at[i]])
        /\ \A i \in 1..n : ~Dead(q[i]) => \E j \in 1..N : at[j] = i
        /\ Len(sent') = Len(sent) + N
        /\ \A i \in 1..Len(sent) : sent'[i] = sent[i]
        /\ \A i \in 1..N : sent'[Len(sent) + i] = <<s, q[at[i]]>>
  BY <1>3
<1>5. Len(sent) \in Nat
  BY LenProperties DEF TypeOK
<1>6. \A i \in 1..Len(q) : q[i] \in Msgs /\ out[q[i]] \in {"open", "void"}
  BY ElementOfSeq DEF Agreed
<1>7. \A i \in 1..n : i \in 1..Len(q)
  BY <1>2
<1>8. \A i, j \in 1..Len(q) : i < j => q[i] # q[j]
  BY BeforeDiffers DEF InLine
<1>9. \A i \in 1..Len(sent), j \in 1..Len(q) : sent[i][2] # q[j]
  BY BeforeDiffers DEF InLine
<1>10. ASSUME NEW j \in (Len(sent) + 1)..Len(sent')
       PROVE  \E i \in 1..n : sent'[j][2] = q[i] /\ ~Dead(q[i])
  <2>1. j - Len(sent) \in 1..N /\ Len(sent) + (j - Len(sent)) = j
    BY <1>4, <1>5
  <2>2. sent'[j][2] = q[at[j - Len(sent)]] /\ ~Dead(q[at[j - Len(sent)]]) /\ at[j - Len(sent)] \in 1..n
    BY <1>4, <2>1
  <2> QED BY <2>2
<1>11. ASSUME NEW i \in 1..n, ~Dead(q[i]) PROVE \E l \in 1..Len(sent') : sent'[l][2] = q[i]
  <2>1. PICK j \in 1..N : at[j] = i
    BY <1>4, <1>11
  <2>2. Len(sent) + j \in 1..Len(sent') /\ sent'[Len(sent) + j][2] = q[i]
    BY <1>4, <1>5, <2>1
  <2> QED BY <2>2
<1>12. \A i \in 1..Len(q) : ~Dead(q[i]) => outcome'[q[i]] = out[q[i]]
  BY <1>1, <1>6 DEF Told
<1>13. Len(sent) <= Len(sent') /\ \A i \in 1..Len(sent) : sent'[i] = sent[i]
  BY <1>4, <1>5
<1>14. \A j \in (Len(sent) + 1)..Len(sent') : ~Dead(sent'[j][2]) /\ outcome'[sent'[j][2]] \in {"open", "void"}
  BY <1>6, <1>7, <1>10, <1>12
<1>15. ASSUME NEW m \in Msgs, outcome'[m] # out[m]
       PROVE  /\ out[m] = "open" /\ Dead(m)
              /\ \/ outcome'[m] = "timeout" /\ m \in expired
                 \/ outcome'[m] = "cancelled" /\ \A j \in 1..Len(sent') : sent'[j][2] # m
  <2>1. /\ out[m] = "open" /\ Dead(m) /\ outcome'[m] \in {"timeout", "cancelled"}
        /\ (outcome'[m] = "timeout" => m \in expired) /\ \E i \in 1..n : q[i] = m
    BY <1>1, <1>15 DEF Told
  <2>2. ASSUME NEW j \in 1..Len(sent') PROVE sent'[j][2] # m
    <3>1. CASE j \in 1..Len(sent)
      BY <1>7, <1>9, <1>13, <2>1, <3>1
    <3>2. CASE j \in (Len(sent) + 1)..Len(sent')
      BY <1>10, <2>1, <3>2
    <3>3. j \in 1..Len(sent) \/ j \in (Len(sent) + 1)..Len(sent')
      BY <1>4, <1>5
    <3> QED BY <3>1, <3>2, <3>3
  <2> QED BY <2>1, <2>2
<1>16. ASSUME NEW i \in 1..Len(queue') PROVE outcome'[queue'[i]] \in {"open", "void"}
  <2>1. n + i \in 1..Len(q) /\ queue'[i] = q[n + i] /\ \A l \in 1..n : l < n + i
    BY <1>2
  <2>2. \A l \in 1..n : q[l] # q[n + i]
    BY <1>7, <1>8, <2>1
  <2>3. q[n + i] \in Msgs /\ out[q[n + i]] \in {"open", "void"}
    BY <1>6, <2>1
  <2>4. outcome'[q[n + i]] = out[q[n + i]]
    BY <1>1, <2>2, <2>3 DEF Told
  <2> QED BY <2>1, <2>3, <2>4
<1>17. ASSUME NEW k \in Keys, pendingMap'[k] # NoMsg
       PROVE  \E i \in 1..Len(sent') : sent'[i][2] = pendingMap'[k]
  <2>1. CASE pendingMap'[k] = pendingMap[k]
    <3>1. PICK i \in 1..Len(sent) : sent[i][2] = pendingMap[k]
      BY <1>17, <2>1 DEF Agreed
    <3>2. i \in 1..Len(sent')
      BY <1>4, <1>5
    <3> QED BY <1>13, <2>1, <3>1, <3>2
  <2>2. CASE \E i \in 1..n : pendingMap'[k] = q[i] /\ ~Dead(q[i])
    BY <1>11, <2>2
  <2> QED BY <1>1, <2>1, <2>2 DEF Recorded
<1>18. Agreed(queue', pendingMap', outcome', sent')
  BY <1>16, <1>17 DEF Agreed
<1> QED BY <1>13, <1>14, <1>15, <1>18

\* What a drain writes, RequestLine may write.
LEMMA DrainWrites ==
  ASSUME TypeOK, TypeOK', ~closed, InLine(accepted', queue', sent'),
         Len(sent) <= Len(sent'), \A i \in 1..Len(sent) : sent'[i] = sent[i],
         \A j \in (Len(sent) + 1)..Len(sent') :
           ~Dead(sent'[j][2]) /\ outcome'[sent'[j][2]] \in {"open", "void"}
  PROVE  Abstract!Write
<1>1. Len(Wire) = Len(sent) /\ Len(sent) \in Nat /\ \A i \in 1..Len(sent) : Wire[i] = sent[i][2]
  BY WireIs
<1>2. Len(Wire') = Len(sent') /\ Len(sent') \in Nat /\ \A i \in 1..Len(sent') : Wire'[i] = sent'[i][2]
  BY WireIsNow
<1>3. Len(Wire) <= Len(Wire') /\ \A i \in 1..Len(Wire) : Wire'[i] = Wire[i]
  BY <1>1, <1>2
<1>4. ASSUME NEW j \in (Len(Wire) + 1)..Len(Wire')
      PROVE  /\ Abstract!Has(accepted', Wire'[j])
             /\ Wire'[j] \notin expired /\ outcome'[Wire'[j]] \in {"open", "void"}
             /\ \A i \in 1..(j - 1) : Abstract!Before(accepted', Wire'[i], Wire'[j])
  <2>1. j \in 1..Len(sent') /\ j \in (Len(sent) + 1)..Len(sent') /\ Wire'[j] = sent'[j][2]
    BY <1>1, <1>2
  <2>2. Abstract!Has(accepted', Wire'[j])
    BY <2>1 DEF InLine, Abstract!Has
  <2>3. Wire'[j] \notin expired /\ outcome'[Wire'[j]] \in {"open", "void"}
    BY <2>1 DEF Dead
  <2>4. ASSUME NEW i \in 1..(j - 1) PROVE Abstract!Before(accepted', Wire'[i], Wire'[j])
    <3>1. i \in 1..Len(sent') /\ i < j /\ Wire'[i] = sent'[i][2]
      BY <1>2, <2>1
    <3> QED BY <2>1, <3>1 DEF InLine, Before, Abstract!Before
  <2> QED BY <2>2, <2>3, <2>4
<1> QED BY <1>3, <1>4 DEF Abstract!Write

\* A caller whom the drain told.
LEMMA DrainTells ==
  ASSUME TypeOK', NEW m, outcome[m] = "open",
         \/ outcome'[m] = outcome[m]
         \/ outcome'[m] = "timeout" /\ m \in expired
         \/ outcome'[m] = "cancelled" /\ \A j \in 1..Len(sent') : sent'[j][2] # m
  PROVE  Abstract!Tell(m)
<1>1. CASE outcome'[m] = outcome[m]
  BY <1>1 DEF Abstract!Tell
<1>2. CASE outcome'[m] = "timeout" /\ m \in expired
  BY <1>2 DEF Abstract!Tell, Abstract!GiveUp
<1>3. CASE outcome'[m] = "cancelled" /\ \A j \in 1..Len(sent') : sent'[j][2] # m
  <2>1. ~Abstract!Has(Wire', m)
    BY <1>3, WireIsNow DEF Abstract!Has
  <2> QED BY <1>3, <2>1 DEF Abstract!Tell, Abstract!Cancel
<1> QED BY <1>1, <1>2, <1>3

\* A drain of what was queued before.
LEMMA DrainRefines ==
  ASSUME PromiseInv, SenderInv', ~closed, UNCHANGED <<accepted, expired>>,
         NEW s \in 1..opened', NEW p, NEW sch, opened' \in Nat, opened <= opened',
         Drain(queue, outcome, s, needDrain, p, sch)
  PROVE  Refines
<1>1. /\ TypeOK /\ TypeOK' /\ Agreed(queue, pendingMap, outcome, sent) /\ \A m \in expired : outcome[m] # "unsent"
      /\ AcceptedOnce(accepted, outcome) /\ InLine(accepted, queue, sent) /\ InLine(accepted', queue', sent')
  BY DEF PromiseInv, SenderInv, Line
<1>2. queue \in Seq(Msgs) /\ outcome \in [Msgs -> Outcomes] /\ accepted \in Seq(Msgs)
  BY <1>1 DEF TypeOK
<1>3. /\ Agreed(queue', pendingMap', outcome', sent')
      /\ Len(sent) <= Len(sent') /\ \A i \in 1..Len(sent) : sent'[i] = sent[i]
      /\ \A j \in (Len(sent) + 1)..Len(sent') :
           ~Dead(sent'[j][2]) /\ outcome'[sent'[j][2]] \in {"open", "void"}
      /\ \A m \in Msgs :
           \/ outcome'[m] = outcome[m]
           \/ /\ outcome[m] = "open" /\ Dead(m)
              /\ \/ outcome'[m] = "timeout" /\ m \in expired
                 \/ outcome'[m] = "cancelled" /\ \A j \in 1..Len(sent') : sent'[j][2] # m
  BY <1>1, <1>2, DrainPromises
<1>4. Abstract!Write
  BY <1>1, <1>3, DrainWrites
<1>5. ASSUME NEW m \in Msgs PROVE Abstract!Tell(m)
  <2>1. CASE outcome'[m] = outcome[m]
    BY <2>1 DEF Abstract!Tell
  <2>2. CASE outcome'[m] # outcome[m]
    BY <1>1, <1>3, <2>2, DrainTells
  <2> QED BY <2>1, <2>2
<1>6. \A m \in expired' : outcome'[m] # "unsent"
  BY <1>1, <1>5, ExpiredKnown
<1>7. Abstract!Next
  BY <1>4, <1>5 DEF Abstract!Next
<1> QED BY <1>3, <1>6, <1>7 DEF Refines

-----------------------------------------------------------------------------
\* The actions, one by one.

\* The drain in the step that takes m, on the queue q with m at its end.
LEMMA TakenDrained ==
  ASSUME TypeOK, TypeOK', ~closed, NEW m \in Msgs, ~Dead(m),
         NEW q \in Seq(Msgs), NEW out \in [Msgs -> Outcomes], NEW acc \in Seq(Msgs),
         AcceptedOnce(acc, out), InLine(acc, q, sent), Agreed(q, pendingMap, out, sent),
         accepted' = acc, InLine(accepted', queue', sent'),
         NEW s \in 1..opened', opened' \in Nat, opened <= opened',
         Drain(q, out, s, needDrain, paused, scheduled)
  PROVE  /\ Agreed(queue', pendingMap', outcome', sent') /\ Abstract!Write /\ outcome'[m] = out[m]
         /\ \A x \in Msgs : out[x] = outcome[x] => Abstract!Tell(x)
<1>1. /\ Agreed(queue', pendingMap', outcome', sent')
      /\ Len(sent) <= Len(sent') /\ \A i \in 1..Len(sent) : sent'[i] = sent[i]
      /\ \A j \in (Len(sent) + 1)..Len(sent') :
           ~Dead(sent'[j][2]) /\ outcome'[sent'[j][2]] \in {"open", "void"}
      /\ \A x \in Msgs :
           \/ outcome'[x] = out[x]
           \/ /\ out[x] = "open" /\ Dead(x)
              /\ \/ outcome'[x] = "timeout" /\ x \in expired
                 \/ outcome'[x] = "cancelled" /\ \A j \in 1..Len(sent') : sent'[j][2] # x
  BY DrainPromises
<1>2. Abstract!Write
  BY <1>1, DrainWrites
<1>3. outcome'[m] = out[m]
  BY <1>1
<1>4. ASSUME NEW x \in Msgs, out[x] = outcome[x] PROVE Abstract!Tell(x)
  <2>1. CASE outcome'[x] = out[x]
    BY <1>4, <2>1 DEF Abstract!Tell
  <2>2. CASE outcome'[x] # out[x]
    BY <1>1, <1>4, <2>2, DrainTells
  <2> QED BY <2>1, <2>2
<1> QED BY <1>1, <1>2, <1>3, <1>4

\* enqueue() takes m and drains the queue, or leaves it to somebody else.
LEMMA TakeRefines ==
  ASSUME PromiseInv, SenderInv', NEW m \in Msgs, outcome[m] = "unsent", m \notin aborted, ~closed,
         accepted' = Append(accepted, m), UNCHANGED <<expired, opened>>,
         NEW o, o = (IF m \in Tracked THEN "open" ELSE "void"),
         NEW q, q = Append(queue, m), NEW out, out = [outcome EXCEPT ![m] = o],
         \/ NoDrain(q, out, needDrain, paused, scheduled)
         \/ stream # NoStream /\ Drain(q, out, stream, needDrain, paused, scheduled)
  PROVE  Refines
<1>1. /\ TypeOK /\ TypeOK' /\ Agreed(queue, pendingMap, outcome, sent) /\ \A x \in expired : outcome[x] # "unsent"
      /\ Line /\ Held(queue, pendingMap, outcome) /\ InLine(accepted', queue', sent')
  BY DEF PromiseInv, SenderInv, Line
<1>2. ~Dead(m)
  BY <1>1 DEF Dead
<1>3. o \in Outcomes \ {"unsent"} /\ o \in {"open", "void"}
  BY DEF Outcomes
<1>4. /\ q \in Seq(Msgs) /\ accepted' \in Seq(Msgs) /\ out \in [Msgs -> Outcomes]
      /\ AcceptedOnce(accepted', out) /\ InLine(accepted', q, sent)
  BY <1>1, <1>3, Accepted
<1>5. out[m] = o /\ \A x \in Msgs : x # m => out[x] = outcome[x]
  BY <1>1 DEF TypeOK
<1>6. Agreed(q, pendingMap, out, sent)
  <2>1. /\ Len(q) = Len(queue) + 1 /\ Len(queue) \in Nat /\ q[Len(queue) + 1] = m
        /\ \A i \in 1..Len(queue) : q[i] = queue[i] /\ queue[i] \in Msgs
    BY <1>1, AppendProperties, LenProperties, ElementOfSeq DEF TypeOK
  <2>2. ASSUME NEW i \in 1..Len(q) PROVE out[q[i]] \in {"open", "void"}
    <3>1. i \in 1..Len(queue) \/ i = Len(queue) + 1
      BY <2>1
    <3>2. CASE i = Len(queue) + 1
      BY <1>3, <1>5, <2>1, <3>2
    <3>3. CASE i \in 1..Len(queue)
      <4>1. q[i] \in Msgs /\ outcome[q[i]] \in {"open", "void"}
        BY <1>1, <2>1, <3>3 DEF Agreed
      <4>2. q[i] # m
        BY <4>1
      <4> QED BY <1>5, <4>1, <4>2
    <3> QED BY <3>1, <3>2, <3>3
  <2> QED BY <1>1, <2>2 DEF Agreed
<1>7. ASSUME outcome'[m] = o PROVE Abstract!Take(m)
  BY <1>7 DEF Abstract!Take
<1>8. \A x \in expired : x \in Msgs /\ x # m
  BY <1>1, Constants DEF TypeOK
<1>9. ASSUME Agreed(queue', pendingMap', outcome', sent'), Abstract!Write, outcome'[m] = o,
             \A x \in Msgs : x # m => Abstract!Tell(x)
      PROVE  Refines
  <2>1. Abstract!Take(m)
    BY <1>7, <1>9
  <2>2. \A x \in Msgs : Abstract!Tell(x)
    BY <1>9, <2>1 DEF Abstract!Tell
  <2>3. Abstract!Next
    BY <1>9, <2>1, <2>2 DEF Abstract!Next
  <2>4. \A x \in expired' : outcome'[x] # "unsent"
    BY <1>1, <1>8, <2>2, TellKeepsKnown
  <2> QED BY <1>9, <2>3, <2>4 DEF Refines
<1>10. CASE NoDrain(q, out, needDrain, paused, scheduled)
  <2>1. queue' = q /\ outcome' = out /\ UNCHANGED <<pendingMap, sent>>
    BY <1>10 DEF NoDrain
  <2>2. Abstract!Write
    <3>1. Wire' = Wire
      BY <2>1 DEF Wire
    <3>2. Len(Wire) \in Nat
      BY <1>1, WireIs
    <3> QED BY <3>1, <3>2 DEF Abstract!Write
  <2>3. \A x \in Msgs : x # m => Abstract!Tell(x)
    BY <1>5, <2>1 DEF Abstract!Tell
  <2>4. Agreed(queue', pendingMap', outcome', sent')
    BY <1>6, <2>1
  <2> QED BY <1>5, <1>9, <2>1, <2>2, <2>3, <2>4
<1>11. CASE stream # NoStream /\ Drain(q, out, stream, needDrain, paused, scheduled)
  <2>1. stream \in 1..opened' /\ opened' \in Nat /\ opened <= opened'
    BY <1>1, <1>11 DEF TypeOK, NoStream
  <2>2. Drain(q, out, stream, needDrain, paused, scheduled)
    BY <1>11
  <2>3. /\ Agreed(queue', pendingMap', outcome', sent') /\ Abstract!Write /\ outcome'[m] = out[m]
        /\ \A x \in Msgs : out[x] = outcome[x] => Abstract!Tell(x)
    BY <1>1, <1>2, <1>4, <1>6, <2>1, <2>2, TakenDrained
  <2> QED BY <1>5, <1>9, <2>3
<1> QED BY <1>10, <1>11

LEMMA EnqueueRefines ==
  ASSUME PromiseInv, SenderInv', NEW m \in Msgs, Enqueue(m)
  PROVE  Refines
<1>1. outcome[m] = "unsent" /\ TypeOK
  BY DEF Enqueue, PromiseInv, SenderInv
<1>2. ASSUME NEW o \in {"closed", "cancelled", "full"}, outcome' = [outcome EXCEPT ![m] = o],
             UNCHANGED <<sender, grpc, expired, accepted>>
      PROVE  Refines
  <2>1. UNCHANGED <<queue, pendingMap, closed, sent, expired, accepted>>
    BY <1>2 DEF sender, grpc
  <2>2. outcome'[m] = o /\ \A x \in Msgs : x # m => outcome'[x] = outcome[x]
    BY <1>1, <1>2 DEF TypeOK
  <2>3. ASSUME NEW x \in Msgs PROVE Abstract!Tell(x)
    <3>1. CASE x = m
      <4>1. Abstract!Refuse(m)
        BY <1>1, <2>1, <2>2 DEF Abstract!Refuse
      <4> QED BY <3>1, <4>1 DEF Abstract!Tell
    <3>2. CASE x # m
      BY <2>2, <3>2 DEF Abstract!Tell
    <3> QED BY <3>1, <3>2
  <2>4. Abstract!Next
    BY <1>1, <2>1, <2>3, QuietImplements
  <2>5. \A x \in expired' : outcome'[x] # "unsent"
    BY <1>1, <2>1, <2>3, ExpiredKnown DEF PromiseInv
  <2>6. Agreed(queue', pendingMap', outcome', sent')
    <3>1. \A i \in 1..Len(queue) : queue[i] \in Msgs /\ outcome[queue[i]] \in {"open", "void"}
      BY <1>1, ElementOfSeq DEF PromiseInv, Agreed, TypeOK
    <3>2. \A i \in 1..Len(queue) : outcome'[queue[i]] = outcome[queue[i]]
      BY <1>1, <2>2, <3>1
    <3> QED BY <2>1, <3>1, <3>2 DEF PromiseInv, Agreed
  <2> QED BY <2>4, <2>5, <2>6 DEF Refines
<1>3. CASE outcome' = [outcome EXCEPT ![m] = "closed"] /\ UNCHANGED <<sender, grpc, expired, accepted>>
  BY <1>2, <1>3
<1>4. CASE outcome' = [outcome EXCEPT ![m] = "cancelled"] /\ UNCHANGED <<sender, grpc, expired, accepted>>
  BY <1>2, <1>4
<1>5. CASE outcome' = [outcome EXCEPT ![m] = "full"] /\ UNCHANGED <<sender, grpc, expired, accepted>>
  BY <1>2, <1>5
<1>6. CASE /\ ~closed /\ m \notin aborted
           /\ accepted' = Append(accepted, m)
           /\ LET q == Append(queue, m)
                  out == [outcome EXCEPT ![m] = IF m \in Tracked THEN "open" ELSE "void"]
              IN IF paused \/ stream = NoStream
                 THEN NoDrain(q, out, needDrain, paused, scheduled)
                 ELSE Drain(q, out, stream, needDrain, paused, scheduled)
           /\ UNCHANGED <<expired, opened>>
  <2> DEFINE o == IF m \in Tracked THEN "open" ELSE "void"
             q == Append(queue, m)
             out == [outcome EXCEPT ![m] = o]
  <2>1. \/ NoDrain(q, out, needDrain, paused, scheduled)
        \/ stream # NoStream /\ Drain(q, out, stream, needDrain, paused, scheduled)
    BY <1>6
  <2>2. o = (IF m \in Tracked THEN "open" ELSE "void") /\ q = Append(queue, m) /\ out = [outcome EXCEPT ![m] = o]
    OBVIOUS
  <2> HIDE DEF o, q, out
  <2> QED BY <1>1, <1>6, <2>1, <2>2, TakeRefines
<1> QED BY <1>3, <1>4, <1>5, <1>6 DEF Enqueue, Push

LEMMA AbortRefines ==
  ASSUME PromiseInv, SenderInv', NEW m \in Msgs, Abort(m)
  PROVE  Refines
<1>1. UNCHANGED <<pendingMap, closed, expired, accepted, sent>>
  BY DEF Abort, grpc
<1>2. TypeOK /\ TypeOK' /\ Agreed(queue, pendingMap, outcome, sent) /\ SenderInv
  BY DEF PromiseInv, SenderInv
<1>3. CASE UNCHANGED <<queue, outcome>>
  BY <1>1, <1>3, SilentRefines
<1>4. ASSUME NEW i \in 1..Len(queue), queue[i] = m,
             queue' = SubSeq(queue, 1, i - 1) \o SubSeq(queue, i + 1, Len(queue)),
             outcome' = [outcome EXCEPT ![m] = "cancelled"], outcome[m] = "open"
      PROVE  Refines
  <2>1. /\ Len(queue) \in Nat /\ Len(queue') = Len(queue) - 1
        /\ \A j \in 1..Len(queue') : queue'[j] = IF j < i THEN queue[j] ELSE queue[j + 1]
    <3>1. queue \in Seq(Msgs)
      BY <1>2 DEF TypeOK
    <3> QED BY <1>4, <3>1, Splice
  <2>2. outcome'[m] = "cancelled" /\ \A x \in Msgs : x # m => outcome'[x] = outcome[x]
    BY <1>2, <1>4 DEF TypeOK
  <2>3. \A j \in 1..Len(sent) : sent[j][2] # m
    BY <1>2, <1>4, QueueIsApart
  <2>4. Abstract!Tell(m)
    BY <1>1, <1>2, <1>4, <2>2, <2>3, DrainTells
  <2>5. \A x \in Msgs : Abstract!Tell(x)
    BY <2>2, <2>4 DEF Abstract!Tell
  <2>6. Abstract!Next
    BY <1>1, <1>2, <2>5, QuietImplements
  <2>7. \A x \in expired' : outcome'[x] # "unsent"
    BY <1>1, <1>2, <2>5, ExpiredKnown DEF PromiseInv
  <2>8. ASSUME NEW j \in 1..Len(queue') PROVE outcome'[queue'[j]] \in {"open", "void"}
    <3>1. \A a, b \in 1..Len(queue) : a < b => queue[a] # queue[b]
      BY <1>2, BeforeDiffers DEF SenderInv, Line, InLine
    <3>2. PICK l \in 1..Len(queue) : queue'[j] = queue[l] /\ (l < i \/ i < l)
      <4>1. CASE j < i
        BY <2>1, <4>1
      <4>2. CASE ~(j < i)
        <5>1. j + 1 \in 1..Len(queue) /\ i < j + 1
          BY <2>1, <4>2
        <5> QED BY <2>1, <4>2, <5>1
      <4> QED BY <4>1, <4>2
    <3>3. queue[l] # m /\ queue[l] \in Msgs
      BY <1>2, <1>4, <3>1, <3>2, ElementOfSeq DEF TypeOK
    <3> QED BY <1>2, <2>2, <3>2, <3>3 DEF Agreed
  <2>9. Agreed(queue', pendingMap', outcome', sent')
    BY <1>1, <1>2, <2>8 DEF Agreed
  <2> QED BY <2>6, <2>7, <2>9 DEF Refines
<1>5. ASSUME NEW i \in 1..Len(queue), queue[i] = m PROVE outcome[m] = "open"
  <2>1. outcome[m] \in {"unsent", "open"} /\ outcome[m] \in {"open", "void"}
    BY <1>2, <1>5 DEF Abort, Agreed
  <2> QED BY <2>1
<1> QED BY <1>3, <1>4, <1>5 DEF Abort

LEMMA ExpireRefines ==
  ASSUME PromiseInv, NEW m \in Msgs, Expire(m)
  PROVE  Refines
<1>1. UNCHANGED <<queue, pendingMap, closed, outcome, accepted, sent>> /\ expired' = expired \cup {m} /\ outcome[m] = "open"
  BY DEF Expire, sender, grpc
<1>2. Agreed(queue', pendingMap', outcome', sent')
  BY <1>1 DEF PromiseInv, Agreed
<1>3. \A x \in expired' : outcome'[x] # "unsent"
  BY <1>1 DEF PromiseInv
<1>4. Abstract!Next
  BY <1>1, SameTold, QuietImplements DEF PromiseInv, SenderInv
<1> QED BY <1>2, <1>3, <1>4 DEF Refines

LEMMA OpenStreamRefines ==
  ASSUME PromiseInv, SenderInv', ~closed, UNCHANGED <<closed, accepted, expired>>, OpenStream
  PROVE  Refines
<1>1. opened \in Nat
  BY DEF PromiseInv, SenderInv, TypeOK
<1>2. CASE NoDrain(queue, outcome, needDrain, paused, scheduled)
  BY <1>2, SilentRefines DEF NoDrain
<1>3. CASE opened' = opened + 1 /\ Drain(queue, outcome, opened + 1, needDrain, FALSE, scheduled)
  <2>1. opened + 1 \in 1..opened' /\ opened' \in Nat /\ opened <= opened'
    BY <1>1, <1>3
  <2> QED BY <1>3, <2>1, DrainRefines
<1> QED BY <1>2, <1>3 DEF OpenStream

LEMMA StartRefines ==
  ASSUME PromiseInv, SenderInv', Start
  PROVE  Refines
<1>1. UNCHANGED <<closed, accepted, expired>> /\ ~closed
  BY DEF Start, PromiseInv, SenderInv, Flags, NothingBeforeStart
<1>2. CASE OpenStream
  BY <1>1, <1>2, OpenStreamRefines
<1>3. CASE NoDrain(queue, outcome, needDrain, paused, scheduled)
  BY <1>1, <1>3, SilentRefines DEF NoDrain
<1> QED BY <1>2, <1>3 DEF Start

LEMMA DeliverRefines ==
  ASSUME PromiseInv, SenderInv', DeliverStateChange
  PROVE  Refines
<1>1. UNCHANGED <<accepted, expired>>
  BY DEF DeliverStateChange
<1>2. CASE ~Listening
  BY <1>1, <1>2, SilentRefines DEF DeliverStateChange, grpc
<1>3. CASE Listening
  <2>1. ~closed /\ HandleStateChange(Head(events))
    BY <1>3 DEF Listening, DeliverStateChange
  <2>2. CASE OpenStream /\ closed' = closed
    BY <1>1, <2>1, <2>2, OpenStreamRefines
  <2>3. ASSUME NEW how \in {"disconnected", "closed"}, RejectAllPending(how), UNCHANGED <<queue, grpc>>
        PROVE  Refines
    <3>1. UNCHANGED sent
      BY <2>3 DEF grpc
    <3> QED BY <1>1, <2>1, <2>3, <3>1, RejectAllRefines
  <2> QED BY <2>1, <2>2, <2>3 DEF HandleStateChange
<1> QED BY <1>2, <1>3

LEMMA DrainImmediateRefines ==
  ASSUME PromiseInv, SenderInv', DrainImmediate
  PROVE  Refines
<1>1. UNCHANGED <<stream, closed, accepted, expired, opened>>
  BY DEF DrainImmediate
<1>2. CASE NoDrain(queue, outcome, needDrain, paused, FALSE)
  BY <1>1, <1>2, SilentRefines DEF NoDrain
<1>3. CASE stream # NoStream /\ ~closed /\ Drain(queue, outcome, stream, needDrain, paused, FALSE)
  <2>1. stream \in 1..opened' /\ opened' \in Nat /\ opened <= opened'
    BY <1>1, <1>3 DEF PromiseInv, SenderInv, TypeOK, NoStream
  <2> QED BY <1>1, <1>3, <2>1, DrainRefines
<1> QED BY <1>2, <1>3 DEF DrainImmediate

LEMMA StreamDataRefines ==
  ASSUME PromiseInv, NEW s \in StreamIds, NEW k \in Keys, NEW how \in {"ok", "error"}, StreamData(s, k, how)
  PROVE  Refines
<1>1. /\ UNCHANGED <<queue, closed, expired, accepted, sent>>
      /\ outcome' = Settle(outcome, {pendingMap[k]}, how)
      /\ pendingMap' = [pendingMap EXCEPT ![k] = NoMsg] /\ pendingMap[k] # NoMsg
  BY DEF StreamData, grpc
<1>2. pendingMap[k] \in Pending
  BY <1>1 DEF Pending
<1>3. /\ \A m \in {pendingMap[k]} : \E i \in 1..Len(sent) : sent[i][2] = m
      /\ \A i \in 1..Len(queue) : queue[i] \notin {pendingMap[k]}
  BY <1>2, PendingIsWritten
<1>4. \A l \in Keys : pendingMap'[l] \in {NoMsg, pendingMap[l]}
  BY <1>1 DEF PromiseInv, SenderInv, TypeOK
<1> QED BY <1>1, <1>3, <1>4, SettleRefines

LEMMA StreamEndRefines ==
  ASSUME PromiseInv, NEW s \in StreamIds, NEW code \in {"ok", "cancelled", "transient", "permanent"},
         StreamEnd(s, code)
  PROVE  Refines
<1>1. UNCHANGED <<queue, accepted, expired, sent>>
  BY DEF StreamEnd
<1>2. CASE closed
  BY <1>1, <1>2, SilentRefines DEF StreamEnd
<1>3. CASE ~closed
  <2>1. RejectAllPending("disconnected")
    BY <1>3 DEF StreamEnd
  <2> QED BY <1>1, <1>3, <2>1, RejectAllRefines
<1> QED BY <1>2, <1>3

LEMMA SweepRefines ==
  ASSUME PromiseInv, SweepExpiredPending
  PROVE  Refines
<1>1. /\ UNCHANGED <<queue, closed, expired, accepted, sent>>
      /\ outcome' = Settle(outcome, Pending \cap expired, "timeout")
      /\ pendingMap' = [k \in Keys |-> IF pendingMap[k] \in expired THEN NoMsg ELSE pendingMap[k]]
  BY DEF SweepExpiredPending, grpc
<1>2. \A i \in 1..Len(queue) : queue[i] \notin Pending \cap expired
  BY PendingIsWritten
<1>3. \A k \in Keys : pendingMap'[k] \in {NoMsg, pendingMap[k]}
  BY <1>1
<1>4. Pending \cap expired \subseteq expired
  OBVIOUS
<1> QED BY <1>1, <1>2, <1>3, <1>4, SettleRefines

LEMMA CloseRefines ==
  ASSUME PromiseInv, Close
  PROVE  Refines
<1>1. UNCHANGED <<accepted, expired, sent>> /\ closed' = TRUE /\ queue' = <<>>
  BY DEF Close, grpc
<1>2. CASE outcome' = Settle(outcome, Queued, "closed") /\ UNCHANGED pendingMap
  BY <1>1, <1>2, SettleRefines
<1>3. CASE outcome' = Settle(outcome, Queued \cup Pending, "closed") /\ pendingMap' = NoPending
  <2>1. \A k \in Keys : pendingMap'[k] \in {NoMsg, pendingMap[k]}
    BY <1>3 DEF NoPending
  <2> QED BY <1>1, <1>3, <2>1, SettleRefines
<1> QED BY <1>2, <1>3 DEF Close

LEMMA CloseFinishRefines ==
  ASSUME PromiseInv, CloseFinish
  PROVE  Refines
<1>1. UNCHANGED <<queue, closed, accepted, expired, sent>> /\ RejectAllPending("closed")
  BY DEF CloseFinish, grpc
<1> QED BY <1>1, RejectAllRefines

-----------------------------------------------------------------------------
\* Every step is a step of RequestLine or none.

LEMMA StepsRefine ==
  ASSUME PromiseInv, [Next]_vars
  PROVE  PromiseInv' /\ [Abstract!Next]_(Abstract!line)
<1>1. SenderInv'
  BY NextInv DEF PromiseInv
<1>2. Refines
  <2>1. CASE Start
    BY <1>1, <2>1, StartRefines
  <2>2. CASE \E m \in Msgs : Enqueue(m) \/ Abort(m) \/ Expire(m)
    BY <1>1, <2>2, EnqueueRefines, AbortRefines, ExpireRefines
  <2>3. CASE DeliverStateChange
    BY <1>1, <2>3, DeliverRefines
  <2>4. CASE DrainImmediate
    BY <1>1, <2>4, DrainImmediateRefines
  <2>5. CASE \E s \in StreamIds : StreamDrain(s)
    BY <2>5, SilentRefines DEF StreamDrain, calls
  <2>6. CASE \E s \in StreamIds, k \in Keys, how \in {"ok", "error"} : StreamData(s, k, how)
    BY <2>6, StreamDataRefines
  <2>7. CASE \E s \in StreamIds, code \in {"ok", "cancelled", "transient", "permanent"} : StreamEnd(s, code)
    BY <2>7, StreamEndRefines
  <2>8. CASE SweepExpiredPending
    BY <2>8, SweepRefines
  <2>9. CASE Close
    BY <2>9, CloseRefines
  <2>10. CASE CloseFinish
    BY <2>10, CloseFinishRefines
  <2>11. CASE UNCHANGED <<sender, calls, grpc>>
    BY <2>11, SilentRefines DEF sender, calls, grpc
  <2>12. CASE TransportLost \/ TransportRetry \/ TransportReady \/ TransportClosing \/ TransportClosed \/ UNCHANGED vars
    BY <2>11, <2>12 DEF TransportLost, TransportRetry, TransportReady, TransportClosing, TransportClosed, vars
  <2> QED BY <2>1, <2>2, <2>3, <2>4, <2>5, <2>6, <2>7, <2>8, <2>9, <2>10, <2>12 DEF Next
<1>3. PromiseInv'
  BY <1>1, <1>2 DEF PromiseInv, Refines
<1> QED BY <1>2, <1>3 DEF Refines

LEMMA InitPromises == Init => PromiseInv
<1> SUFFICES ASSUME Init PROVE PromiseInv
  OBVIOUS
<1>1. SenderInv
  BY InitInv
<1>2. expired = {} /\ Len(queue) = 0 /\ pendingMap = NoPending
  BY DEF Init
<1>3. \A k \in Keys : pendingMap[k] = NoMsg
  BY <1>2 DEF NoPending
<1> QED BY <1>1, <1>2, <1>3 DEF PromiseInv, Agreed

\* The shared sender keeps what RequestLine promises, for any requests, keys, limit and
\* batch size, through outages, backpressure, late events of old streams, aborts, deadlines
\* and close(): a request is refused or taken, written at most once, in order and in time
\* and only while its caller has been told nothing; a caller is told one thing, an answer
\* only to what was written, and never that a request is cancelled that was written or
\* will be.
THEOREM SenderIsARequestLine == Spec => ImplementsRequestLine
<1>1. Init => PromiseInv
  BY InitPromises
<1>2. Init => Abstract!Init
  <2> SUFFICES ASSUME Init PROVE Abstract!Init
    OBVIOUS
  <2>1. Wire = <<>>
    BY DEF Init, Wire
  <2> QED BY <2>1 DEF Init, Abstract!Init
<1>3. PromiseInv /\ [Next]_vars => PromiseInv' /\ [Abstract!Next]_(Abstract!line)
  BY StepsRefine
<1> QED BY <1>1, <1>2, <1>3, PTL DEF Spec, ImplementsRequestLine, Abstract!Spec

\* What a caller may conclude from what it is told.
CallersKnow ==
  \A m \in Msgs :
    /\ outcome[m] \in {"ok", "error", "disconnected"} => Abstract!Has(Wire, m)
    /\ outcome[m] \in {"unsent", "full", "cancelled"} => ~Abstract!Has(Wire, m)

LEMMA CallersGoOnKnowing ==
  ASSUME TypeOK, TypeOK', CallersKnow, [Abstract!Next]_(Abstract!line)
  PROVE  CallersKnow'
<1>1. Len(Wire) \in Nat /\ Len(Wire') \in Nat
  BY WireIs, WireIsNow
<1>2. CASE UNCHANGED Abstract!line
  BY <1>2 DEF Abstract!line, Abstract!Has, CallersKnow
<1>3. CASE Abstract!Next
  <2>1. Abstract!Write /\ \A m \in Msgs : Abstract!Tell(m)
    BY <1>3 DEF Abstract!Next
  <2>2. ASSUME NEW m, Abstract!Has(Wire, m) PROVE Abstract!Has(Wire', m)
    <3>1. PICK i \in 1..Len(Wire) : Wire[i] = m
      BY <2>2 DEF Abstract!Has
    <3>2. i \in 1..Len(Wire') /\ Wire'[i] = m
      BY <1>1, <2>1, <3>1 DEF Abstract!Write
    <3> QED BY <3>2 DEF Abstract!Has
  <2>3. ASSUME NEW m, Abstract!Has(Wire', m), ~Abstract!Has(Wire, m) PROVE outcome'[m] \in {"open", "void"}
    <3>1. PICK i \in 1..Len(Wire') : Wire'[i] = m
      BY <2>3 DEF Abstract!Has
    <3>2. i \in (Len(Wire) + 1)..Len(Wire')
      <4>1. CASE i \in 1..Len(Wire)
        BY <2>1, <2>3, <3>1, <4>1 DEF Abstract!Write, Abstract!Has
      <4> QED BY <1>1, <4>1
    <3> QED BY <2>1, <3>1, <3>2 DEF Abstract!Write
  <2>4. ASSUME NEW m \in Msgs, outcome'[m] \in {"ok", "error", "disconnected"} PROVE Abstract!Has(Wire', m)
    <3>1. outcome'[m] = outcome[m] \/ Abstract!Has(Wire, m)
      BY <2>1, <2>4 DEF Abstract!Tell, Abstract!Take, Abstract!Refuse, Abstract!Cancel, Abstract!GiveUp, Abstract!Answer
    <3> QED BY <2>2, <2>4, <3>1 DEF CallersKnow
  <2>5. ASSUME NEW m \in Msgs, outcome'[m] \in {"unsent", "full", "cancelled"} PROVE ~Abstract!Has(Wire', m)
    <3>1. outcome'[m] = outcome[m] \/ outcome[m] = "unsent" \/ ~Abstract!Has(Wire', m)
      BY <2>1, <2>5 DEF Abstract!Tell, Abstract!Take, Abstract!Refuse, Abstract!Cancel, Abstract!GiveUp, Abstract!Answer
    <3>2. outcome[m] \in {"unsent", "full", "cancelled"} \/ ~Abstract!Has(Wire', m)
      BY <2>5, <3>1
    <3> QED BY <2>3, <2>5, <3>2 DEF CallersKnow
  <2> QED BY <2>4, <2>5 DEF CallersKnow
<1> QED BY <1>2, <1>3

\* A caller may rely on what it is told: an acknowledgement, an error of the server and
\* SenderDisconnectedError stand for a request that was written; BufferFull and a
\* cancellation for one that was not, and from then on never is.
THEOREM CallersAreToldTheTruth == Spec => []CallersKnow
<1>1. Init => PromiseInv /\ CallersKnow
  <2> SUFFICES ASSUME Init PROVE CallersKnow
    BY InitPromises
  <2>1. Len(Wire) = 0
    BY DEF Init, Wire
  <2>2. \A m \in Msgs : outcome[m] = "unsent"
    BY DEF Init
  <2> QED BY <2>1, <2>2 DEF CallersKnow, Abstract!Has
<1>2. PromiseInv /\ [Next]_vars => PromiseInv' /\ [Abstract!Next]_(Abstract!line)
  BY StepsRefine
<1>3. PromiseInv => TypeOK
  BY DEF PromiseInv, SenderInv
<1>4. PromiseInv /\ PromiseInv' /\ CallersKnow /\ [Abstract!Next]_(Abstract!line) => CallersKnow'
  <2>1. PromiseInv' => TypeOK'
    BY <1>3, PTL
  <2> QED BY <1>3, <2>1, CallersGoOnKnowing
<1> QED BY <1>1, <1>2, <1>4, PTL DEF Spec
=============================================================================

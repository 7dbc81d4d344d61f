------------------------- MODULE ClientCloseProofs --------------------------
(***************************************************************************)
(* Proofs about CallbackDispatcher and about close() of the client, for    *)
(* every MaxConcurrent, MaxQueueDepth, number of messages and set of       *)
(* handlers that hang.                                                     *)
(*                                                                         *)
(* The dispatcher: permits are conserved and handlers bounded, nobody      *)
(* waits beside a free permit, `active` is exact, handlers begin in the    *)
(* order of delivery, and all of it is DrainableWork.                      *)
(*                                                                         *)
(* The client: its steps are steps of the dispatcher, so that all that is  *)
(* proved about one holds in its place, and close() is orderly.            *)
(***************************************************************************)
EXTENDS ClientClose, FiniteSetTheorems, TLAPS

-----------------------------------------------------------------------------
\* Types of the dispatcher.

LEMMA AcquireTypes ==
  ASSUME TypeOK, NEW m \in Messages, Acquire(m)
  PROVE  permits' \in Nat /\ waiters' \in Seq(Messages) /\ granted' \in Seq(Messages)
<1>1. CASE permits > 0 /\ permits' = permits - 1 /\ granted' = Append(granted, m) /\ UNCHANGED waiters
  BY <1>1 DEF TypeOK
<1>2. CASE waiters' = Append(waiters, m) /\ UNCHANGED <<permits, granted>>
  BY <1>2 DEF TypeOK
<1> QED BY <1>1, <1>2 DEF Acquire

LEMMA ReleaseTypes ==
  ASSUME TypeOK, Release
  PROVE  permits' \in Nat /\ waiters' \in Seq(Messages) /\ granted' \in Seq(Messages)
<1>1. CASE waiters = <<>> /\ permits' = permits + 1 /\ UNCHANGED <<waiters, granted>>
  BY <1>1 DEF TypeOK
<1>2. CASE /\ waiters # <<>> /\ granted' = Append(granted, Head(waiters))
           /\ waiters' = Tail(waiters) /\ UNCHANGED permits
  BY <1>2 DEF TypeOK
<1> QED BY <1>1, <1>2 DEF Release

LEMMA ReceiveTypes ==
  ASSUME TypeOK, Receive PROVE TypeOK'
<1>1. received' \in 0..MaxMessages /\ received + 1 \in Messages
  BY DispatcherConstants DEF DispatcherConstants, Receive, TypeOK, Messages
<1>2. CASE UNCHANGED <<semaphore, granted, active, highWater, streamPaused>>
  BY <1>1, <1>2 DEF semaphore, Receive, TypeOK
<1>3. CASE NoteHighWater /\ active' = active + 1 /\ Acquire(received + 1)
  <2>1. permits' \in Nat /\ waiters' \in Seq(Messages) /\ granted' \in Seq(Messages)
    BY <1>1, <1>3, AcquireTypes
  <2>2. highWater' \in BOOLEAN /\ streamPaused' \in BOOLEAN
    BY <1>3 DEF NoteHighWater, TypeOK
  <2> QED BY <1>1, <1>3, <2>1, <2>2 DEF Receive, TypeOK
<1> QED BY <1>2, <1>3 DEF Receive, Dispatch

LEMMA InitialTypes == Init => TypeOK
<1> SUFFICES ASSUME Init PROVE TypeOK
  OBVIOUS
<1>1. permits \in Nat /\ received \in 0..MaxMessages /\ resubscribes \in 0..MaxResubscribes
  BY DispatcherConstants DEF DispatcherConstants, Init
<1>2. waiters \in Seq(Messages) /\ granted \in Seq(Messages)
  BY DEF Init
<1>3. settling \in Seq(Messages) /\ began \in Seq(Messages)
  BY DEF Init
<1>4. highWater \in BOOLEAN /\ closed \in BOOLEAN /\ streamPaused \in BOOLEAN
  BY DEF Init
<1>5. drain \in {"none", "waiting", "resolved"} /\ active \in Int /\ running \subseteq Messages
  BY DEF Init
<1> QED BY <1>1, <1>2, <1>3, <1>4, <1>5 DEF TypeOK

LEMMA NextTypes == TypeOK /\ [Next]_vars => TypeOK'
<1> SUFFICES ASSUME TypeOK, [Next]_vars PROVE TypeOK'
  OBVIOUS
<1>1. CASE Receive
  BY <1>1, ReceiveTypes
<1>2. CASE Begin
  BY <1>2 DEF Begin, TypeOK, semaphore
<1>3. ASSUME NEW m \in Messages, End(m) PROVE TypeOK'
  BY <1>3, ReleaseTypes DEF End, TypeOK
<1>4. CASE Settle
  <2>1. highWater' \in BOOLEAN /\ streamPaused' \in BOOLEAN
    BY <1>4 DEF Settle, TypeOK
  <2>2. drain' \in {"none", "waiting", "resolved"}
    BY <1>4 DEF Settle, ResolveDrain, TypeOK
  <2> QED BY <1>4, <2>1, <2>2 DEF Settle, TypeOK, semaphore
<1>5. CASE CallDrain
  BY <1>5 DEF CallDrain, TypeOK, semaphore
<1>6. CASE Close
  BY <1>6 DEF Close, TypeOK, semaphore
<1>7. CASE Resubscribe
  <2>1. resubscribes' \in 0..MaxResubscribes
    BY <1>7, DispatcherConstants DEF Resubscribe, TypeOK, DispatcherConstants
  <2> QED BY <1>7, <2>1 DEF Resubscribe, TypeOK, semaphore
<1>8. CASE UNCHANGED vars
  BY <1>8 DEF vars, TypeOK, semaphore
<1> QED BY <1>1, <1>2, <1>3, <1>4, <1>5, <1>6, <1>7, <1>8 DEF Next

\* Every variable stays in its type.
THEOREM TypeCorrect == Spec => []TypeOK
BY InitialTypes, NextTypes, PTL DEF Spec

-----------------------------------------------------------------------------
\* Increasing sequences of messages under Append, Head and Tail.

LEMMA MessagesAreNumbers == \A m \in Messages : m \in Nat
BY DEF Messages

LEMMA AppendIncreasing ==
  ASSUME NEW s \in Seq(Messages), NEW x \in Messages, Increasing(s),
         \A i \in 1..Len(s) : s[i] < x
  PROVE  Increasing(Append(s, x))
<1> SUFFICES ASSUME NEW i \in 1..Len(s) + 1, NEW j \in 1..Len(s) + 1, i < j
             PROVE  Append(s, x)[i] < Append(s, x)[j]
  BY DEF Increasing
<1>1. i \in 1..Len(s) /\ Append(s, x)[i] = s[i]
  OBVIOUS
<1>2. CASE j = Len(s) + 1
  BY <1>1, <1>2
<1>3. CASE j \in 1..Len(s)
  BY <1>1, <1>3 DEF Increasing
<1> QED BY <1>2, <1>3

LEMMA TailIncreasing ==
  ASSUME NEW s \in Seq(Messages), s # <<>>, Increasing(s)
  PROVE  Increasing(Tail(s)) /\ \A i \in 1..Len(Tail(s)) : Head(s) < Tail(s)[i]
<1>1. Len(Tail(s)) = Len(s) - 1 /\ \A i \in 1..Len(Tail(s)) : Tail(s)[i] = s[i + 1]
  OBVIOUS
<1> QED BY <1>1 DEF Increasing

LEMMA AppendBefore ==
  ASSUME NEW s \in Seq(Messages), NEW t \in Seq(Messages), NEW x \in Messages, Before(s, t)
  PROVE  /\ (\A i \in 1..Len(s) : s[i] < x) => Before(s, Append(t, x))
         /\ (\A i \in 1..Len(t) : x < t[i]) => Before(Append(s, x), t)
BY DEF Before

LEMMA TailBefore ==
  ASSUME NEW s \in Seq(Messages), NEW t \in Seq(Messages), Before(s, t)
  PROVE  /\ s # <<>> => Before(Tail(s), t)
         /\ t # <<>> => Before(s, Tail(t)) /\ \A i \in 1..Len(s) : s[i] < Head(t)
BY DEF Before

LEMMA UpToSteps ==
  ASSUME NEW s \in Seq(Messages), NEW n \in Nat, UpTo(s, n)
  PROVE  /\ s # <<>> => UpTo(Tail(s), n) /\ Head(s) <= n /\ Head(s) \in Messages
         /\ \A x \in Messages : x <= n => UpTo(Append(s, x), n)
         /\ UpTo(s, n + 1)
<1>1. ASSUME s # <<>> PROVE UpTo(Tail(s), n) /\ Head(s) <= n /\ Head(s) \in Messages
  BY <1>1 DEF UpTo
<1>2. ASSUME NEW x \in Messages, x <= n PROVE UpTo(Append(s, x), n)
  BY <1>2 DEF UpTo
<1>3. UpTo(s, n + 1)
  <2> SUFFICES ASSUME NEW i \in 1..Len(s) PROVE s[i] <= n + 1
    BY DEF UpTo
  <2>1. s[i] \in Messages
    OBVIOUS
  <2>2. s[i] <= n
    BY DEF UpTo
  <2> QED BY <2>1, <2>2, MessagesAreNumbers
<1> QED BY <1>1, <1>2, <1>3

-----------------------------------------------------------------------------
\* The inductive invariant.  Counting permits needs TypeOK (the sets are finite)
\* and DeliveryOrder (a message that may begin is not running already); keeping
\* the order when a message gets a permit at once needs NoIdlePermit.
Inv == TypeOK /\ PermitsConserved /\ NoIdlePermit /\ ActiveCounted /\ DeliveryOrder

LEMMA RunningFinite ==
  ASSUME TypeOK
  PROVE  IsFiniteSet(running) /\ Cardinality(running) \in Nat
<1>1. IsFiniteSet(Messages)
  BY FS_Interval, DispatcherConstants DEF Messages, DispatcherConstants
<1>2. IsFiniteSet(running)
  BY <1>1, FS_Subset DEF TypeOK
<1> QED BY <1>2, FS_CardinalityType

LEMMA BeginIsNew ==
  ASSUME Inv, granted # <<>>
  PROVE  Head(granted) \in Messages /\ Head(granted) \notin running
<1>1. Head(granted) \in Messages /\ Head(granted) = granted[1] /\ 1 \in 1..Len(granted)
  BY DEF Inv, TypeOK
<1>2. ASSUME Head(granted) \in running PROVE FALSE
  <2>1. PICK i \in 1..Len(began) : began[i] = Head(granted)
    BY <1>2 DEF Inv, DeliveryOrder
  <2>2. began[i] < granted[1]
    BY <1>1, <2>1 DEF Inv, DeliveryOrder, Before
  <2>3. Head(granted) \in Nat
    BY <1>1, MessagesAreNumbers
  <2> QED BY <1>1, <2>1, <2>2, <2>3
<1> QED BY <1>1, <1>2

LEMMA InitialInv == Init => Inv
<1> SUFFICES ASSUME Init PROVE Inv
  OBVIOUS
<1>1. TypeOK
  BY InitialTypes
<1>2. Cardinality(running) = 0
  BY FS_EmptySet DEF Init
<1>3. PermitsConserved /\ ActiveCounted /\ NoIdlePermit
  BY <1>2, DispatcherConstants DEF Init, PermitsConserved, ActiveCounted, NoIdlePermit,
     DispatcherConstants
<1>4. DeliveryOrder
  BY DEF Init, DeliveryOrder, Increasing, Before, UpTo
<1> QED BY <1>1, <1>3, <1>4 DEF Inv

\* The semaphore's part of Inv: a message that came last is granted or waits.
LEMMA AcquireKeeps ==
  ASSUME Inv, Receive, ~UNCHANGED <<semaphore, granted, active, highWater, streamPaused>>
  PROVE  PermitsConserved' /\ NoIdlePermit' /\ ActiveCounted' /\ DeliveryOrder'
<1> DEFINE m == received + 1
<1>1. /\ m \in Messages /\ received \in Nat /\ received' = m /\ m <= received'
      /\ active' = active + 1 /\ Acquire(m)
      /\ UNCHANGED <<running, settling, began>>
  BY DispatcherConstants DEF DispatcherConstants, Receive, Dispatch, Inv, TypeOK, Messages
<1>2. /\ waiters \in Seq(Messages) /\ granted \in Seq(Messages) /\ began \in Seq(Messages)
      /\ settling \in Seq(Messages) /\ permits \in Nat
      /\ Cardinality(running) \in Nat /\ MaxConcurrent \in Nat
  BY RunningFinite, DispatcherConstants DEF Inv, TypeOK, DispatcherConstants
<1>3. /\ \A i \in 1..Len(waiters) : waiters[i] < m
      /\ \A i \in 1..Len(granted) : granted[i] < m
      /\ \A i \in 1..Len(began) : began[i] < m
  <2>1. ASSUME NEW s \in Seq(Messages), UpTo(s, received), NEW i \in 1..Len(s)
        PROVE  s[i] < m
    <3>1. s[i] \in Nat
      BY MessagesAreNumbers
    <3> QED BY <2>1, <3>1, <1>1 DEF UpTo
  <2> QED BY <2>1, <1>2 DEF Inv, DeliveryOrder
<1>4. /\ UpTo(waiters, m) /\ UpTo(granted, m) /\ UpTo(began, m)
      /\ \A x \in running : \E i \in 1..Len(began) : began[i] = x
  BY <1>1, <1>2, UpToSteps DEF Inv, DeliveryOrder
<1>5. CASE permits > 0 /\ permits' = permits - 1 /\ granted' = Append(granted, m) /\ UNCHANGED waiters
  <2>1. waiters = <<>>
    BY <1>5, <1>2 DEF Inv, NoIdlePermit
  <2>2. PermitsConserved' /\ NoIdlePermit' /\ ActiveCounted'
    BY <1>1, <1>2, <1>5, <2>1 DEF Inv, PermitsConserved, NoIdlePermit, ActiveCounted
  <2>3. Increasing(granted') /\ Before(began', granted')
    BY <1>1, <1>2, <1>3, <1>5, AppendIncreasing, AppendBefore DEF Inv, DeliveryOrder
  <2>5. Before(granted', waiters')
    BY <1>5, <2>1 DEF Before
  <2>4. UpTo(granted', received')
    BY <1>1, <1>2, <1>4, <1>5, UpToSteps
  <2> QED BY <1>1, <1>4, <1>5, <2>2, <2>3, <2>4, <2>5 DEF Inv, DeliveryOrder
<1>6. CASE permits = 0 /\ waiters' = Append(waiters, m) /\ UNCHANGED <<permits, granted>>
  <2>1. PermitsConserved' /\ NoIdlePermit' /\ ActiveCounted'
    BY <1>1, <1>2, <1>6 DEF Inv, PermitsConserved, NoIdlePermit, ActiveCounted
  <2>2. Increasing(waiters') /\ Before(began', waiters') /\ Before(granted', waiters')
    BY <1>1, <1>2, <1>3, <1>6, AppendIncreasing, AppendBefore DEF Inv, DeliveryOrder
  <2>3. UpTo(waiters', received')
    BY <1>1, <1>2, <1>4, <1>6, UpToSteps
  <2> QED BY <1>1, <1>4, <1>6, <2>1, <2>2, <2>3 DEF Inv, DeliveryOrder
<1> QED BY <1>1, <1>5, <1>6 DEF Acquire

LEMMA BeginKeeps ==
  ASSUME Inv, Begin
  PROVE  PermitsConserved' /\ NoIdlePermit' /\ ActiveCounted' /\ DeliveryOrder'
<1> DEFINE m == Head(granted)
<1>1. /\ granted # <<>> /\ granted' = Tail(granted)
      /\ running' = running \cup {m} /\ began' = Append(began, m)
      /\ UNCHANGED <<permits, waiters, settling, active, received>>
  BY DEF Begin, semaphore
<1>2. m \in Messages /\ m \notin running
  BY <1>1, BeginIsNew
<1>3. /\ waiters \in Seq(Messages) /\ granted \in Seq(Messages) /\ began \in Seq(Messages)
      /\ settling \in Seq(Messages) /\ permits \in Nat /\ received \in Nat
      /\ Cardinality(running) \in Nat /\ MaxConcurrent \in Nat
  BY RunningFinite, DispatcherConstants DEF Inv, TypeOK, DispatcherConstants
<1>4. Cardinality(running') = Cardinality(running) + 1
  BY <1>1, <1>2, RunningFinite, FS_AddElement DEF Inv
<1>5. PermitsConserved' /\ NoIdlePermit' /\ ActiveCounted'
  <2>1. /\ Len(granted') = Len(granted) - 1 /\ Len(granted) \in Nat
        /\ Len(waiters) \in Nat /\ Len(settling) \in Nat
    BY <1>1, <1>3
  <2>2. PermitsConserved'
    BY <1>1, <1>3, <1>4, <2>1 DEF Inv, PermitsConserved
  <2>3. ActiveCounted'
    BY <1>1, <1>3, <1>4, <2>1 DEF Inv, ActiveCounted
  <2> QED BY <1>1, <2>2, <2>3 DEF Inv, NoIdlePermit
<1>6. Increasing(granted') /\ \A i \in 1..Len(granted') : m < granted'[i]
  BY <1>1, <1>3, TailIncreasing DEF Inv, DeliveryOrder
<1>7. /\ Before(granted', waiters) /\ Before(began, granted')
      /\ \A i \in 1..Len(began) : began[i] < m
      /\ \A i \in 1..Len(waiters) : m < waiters[i]
  <2>1. \A i \in 1..Len(waiters) : m < waiters[i]
    <3>1. 1 \in 1..Len(granted) /\ m = granted[1]
      BY <1>1, <1>3
    <3> QED BY <3>1 DEF Inv, DeliveryOrder, Before
  <2> QED BY <2>1, <1>1, <1>3, TailBefore DEF Inv, DeliveryOrder
<1>8. granted' \in Seq(Messages)
  BY <1>1, <1>3
<1>9. Increasing(began') /\ Before(began', granted') /\ Before(began', waiters)
  BY <1>1, <1>2, <1>3, <1>6, <1>7, <1>8, AppendIncreasing, AppendBefore DEF Inv, DeliveryOrder
<1>10. UpTo(began', received) /\ UpTo(granted', received)
  BY <1>1, <1>2, <1>3, UpToSteps DEF Inv, DeliveryOrder
<1>11. \A x \in running' : \E i \in 1..Len(began') : began'[i] = x
  <2>1. ASSUME NEW x \in running PROVE \E i \in 1..Len(began') : began'[i] = x
    <3>1. PICK i \in 1..Len(began) : began[i] = x
      BY DEF Inv, DeliveryOrder
    <3>2. i \in 1..Len(began') /\ began'[i] = x
      BY <1>1, <1>3, <3>1
    <3> QED BY <3>2
  <2>2. Len(began') \in 1..Len(began') /\ began'[Len(began')] = m
    BY <1>1, <1>2, <1>3
  <2> QED BY <1>1, <2>1, <2>2
<1> QED BY <1>1, <1>5, <1>6, <1>7, <1>9, <1>10, <1>11 DEF Inv, DeliveryOrder

LEMMA EndKeeps ==
  ASSUME Inv, NEW m \in Messages, End(m)
  PROVE  PermitsConserved' /\ NoIdlePermit' /\ ActiveCounted' /\ DeliveryOrder'
<1>1. /\ m \in running /\ running' = running \ {m} /\ settling' = Append(settling, m)
      /\ Release
      /\ UNCHANGED <<active, received, began>>
  BY DEF End
<1>2. /\ waiters \in Seq(Messages) /\ granted \in Seq(Messages) /\ began \in Seq(Messages)
      /\ settling \in Seq(Messages) /\ permits \in Nat /\ received \in Nat
      /\ Cardinality(running) \in Nat /\ MaxConcurrent \in Nat
  BY RunningFinite, DispatcherConstants DEF Inv, TypeOK, DispatcherConstants
<1>3. Cardinality(running') = Cardinality(running) - 1
  BY <1>1, RunningFinite, FS_RemoveElement DEF Inv
<1>4. Len(settling') = Len(settling) + 1
  BY <1>1, <1>2
<1>5. \A x \in running' : \E i \in 1..Len(began') : began'[i] = x
  BY <1>1 DEF Inv, DeliveryOrder
<1>6. CASE waiters = <<>> /\ permits' = permits + 1 /\ UNCHANGED <<waiters, granted>>
  <2>1. PermitsConserved' /\ NoIdlePermit' /\ ActiveCounted'
    BY <1>1, <1>2, <1>3, <1>4, <1>6 DEF Inv, PermitsConserved, NoIdlePermit, ActiveCounted
  <2> QED BY <1>1, <1>5, <1>6, <2>1 DEF Inv, DeliveryOrder
<1>7. CASE /\ waiters # <<>> /\ granted' = Append(granted, Head(waiters))
           /\ waiters' = Tail(waiters) /\ UNCHANGED permits
  <2> DEFINE w == Head(waiters)
  <2>1. /\ w \in Messages /\ waiters' \in Seq(Messages)
        /\ Len(waiters') = Len(waiters) - 1 /\ Len(granted') = Len(granted) + 1
    BY <1>2, <1>7
  <2>2. PermitsConserved' /\ NoIdlePermit' /\ ActiveCounted'
    <3>1. permits' = permits /\ active' = active
      BY <1>1, <1>7
    <3>4. Len(granted) \in Nat /\ Len(waiters) \in Nat /\ Len(settling) \in Nat
      BY <1>2
    <3>2. PermitsConserved'
      BY <1>2, <1>3, <2>1, <3>1, <3>4 DEF Inv, PermitsConserved
    <3>3. ActiveCounted'
      <4>1. active = Len(waiters) + Len(granted) + Cardinality(running) + Len(settling)
        BY DEF Inv, ActiveCounted
      <4>2. \A a, b, c, d \in Nat : a + b + c + d = (a - 1) + (b + 1) + (c - 1) + (d + 1)
        OBVIOUS
      <4>3. active' = (Len(waiters) - 1) + (Len(granted) + 1) + (Cardinality(running) - 1)
                      + (Len(settling) + 1)
        BY <1>2, <3>1, <3>4, <4>1, <4>2
      <4> QED BY <1>3, <1>4, <2>1, <4>3 DEF ActiveCounted
    <3> QED BY <1>7, <3>1, <3>2, <3>3 DEF Inv, NoIdlePermit
  <2>3. Increasing(waiters') /\ \A i \in 1..Len(waiters') : w < waiters'[i]
    BY <1>2, <1>7, TailIncreasing DEF Inv, DeliveryOrder
  <2>4. /\ Before(granted, waiters') /\ Before(began, waiters')
        /\ \A i \in 1..Len(granted) : granted[i] < w
        /\ \A i \in 1..Len(began) : began[i] < w
    BY <1>2, <1>7, TailBefore DEF Inv, DeliveryOrder
  <2>5. Increasing(granted') /\ Before(began, granted') /\ Before(granted', waiters')
    BY <1>2, <1>7, <2>1, <2>3, <2>4, AppendIncreasing, AppendBefore DEF Inv, DeliveryOrder
  <2>6. UpTo(granted', received) /\ UpTo(waiters', received)
    BY <1>2, <1>7, UpToSteps DEF Inv, DeliveryOrder
  <2> QED BY <1>1, <1>5, <2>2, <2>3, <2>4, <2>5, <2>6 DEF Inv, DeliveryOrder
<1> QED BY <1>1, <1>6, <1>7 DEF Release

LEMMA NextInv == Inv /\ [Next]_vars => Inv'
<1> SUFFICES ASSUME Inv, [Next]_vars PROVE Inv'
  OBVIOUS
<1>1. TypeOK'
  BY NextTypes DEF Inv
<1>2. ASSUME UNCHANGED <<semaphore, granted, running, settling, active, began>>,
             received' \in {received, received + 1}
      PROVE  PermitsConserved' /\ NoIdlePermit' /\ ActiveCounted' /\ DeliveryOrder'
  <2>1. PermitsConserved' /\ NoIdlePermit' /\ ActiveCounted'
    BY <1>2 DEF semaphore, Inv, PermitsConserved, NoIdlePermit, ActiveCounted
  <2>2. UpTo(began, received') /\ UpTo(granted, received') /\ UpTo(waiters, received')
    <3>1. received \in Nat /\ waiters \in Seq(Messages) /\ granted \in Seq(Messages)
          /\ began \in Seq(Messages)
      BY DispatcherConstants DEF Inv, TypeOK, DispatcherConstants
    <3> QED BY <3>1, <1>2, UpToSteps DEF Inv, DeliveryOrder
  <2> QED BY <1>2, <2>1, <2>2 DEF semaphore, Inv, DeliveryOrder
<1>3. CASE Receive
  <2>1. CASE UNCHANGED <<semaphore, granted, active, highWater, streamPaused>>
    <3>1. /\ UNCHANGED <<semaphore, granted, running, settling, active, began>>
          /\ received' \in {received, received + 1}
      BY <1>3, <2>1 DEF Receive
    <3> QED BY <1>1, <1>2, <3>1 DEF Inv
  <2> QED BY <1>1, <1>3, <2>1, <1>2, AcquireKeeps DEF Inv, Receive
<1>4. CASE Begin
  BY <1>1, <1>4, BeginKeeps DEF Inv
<1>5. ASSUME NEW m \in Messages, End(m) PROVE Inv'
  BY <1>1, <1>5, EndKeeps DEF Inv
<1>6. CASE Settle
  <2>1. settling # <<>> /\ settling' = Tail(settling) /\ active' = active - 1
        /\ UNCHANGED <<semaphore, granted, running, received, began>>
    BY <1>6 DEF Settle
  <2>2. Len(settling') = Len(settling) - 1 /\ Len(settling) \in Nat
    BY <2>1 DEF Inv, TypeOK
  <2>3. /\ waiters \in Seq(Messages) /\ granted \in Seq(Messages)
        /\ Cardinality(running) \in Nat
    BY RunningFinite DEF Inv, TypeOK
  <2>4. PermitsConserved' /\ NoIdlePermit' /\ ActiveCounted'
    BY <2>1, <2>2, <2>3 DEF semaphore, Inv, PermitsConserved, NoIdlePermit, ActiveCounted
  <2>5. DeliveryOrder'
    BY <2>1 DEF semaphore, Inv, DeliveryOrder
  <2> QED BY <1>1, <2>4, <2>5 DEF Inv
<1>7. CASE CallDrain \/ Close \/ Resubscribe \/ UNCHANGED vars
  BY <1>1, <1>2, <1>7 DEF Inv, CallDrain, Close, Resubscribe, vars
<1> QED BY <1>3, <1>4, <1>5, <1>6, <1>7 DEF Next

\* All of Inv holds in every reachable state, whatever the constants.
THEOREM Invariance == Spec => []Inv
BY InitialInv, NextInv, PTL DEF Spec

-----------------------------------------------------------------------------
\* The hand-off in release() neither loses nor forges a permit.
THEOREM PermitsAreConserved == Spec => []PermitsConserved
<1>1. Inv => PermitsConserved
  BY DEF Inv
<1> QED BY <1>1, Invariance, PTL

\* maxConcurrentCallbacks bounds the handlers that run.
THEOREM HandlersAreBounded == Spec => []ConcurrencyBounded
<1>1. Inv => ConcurrencyBounded
  <2> SUFFICES ASSUME Inv PROVE Cardinality(running) <= MaxConcurrent
    BY DEF ConcurrencyBounded
  <2>1. permits \in Nat /\ Len(granted) \in Nat /\ Cardinality(running) \in Nat
    BY RunningFinite DEF Inv, TypeOK
  <2> QED BY <2>1 DEF Inv, PermitsConserved
<1> QED BY <1>1, Invariance, PTL

\* Nobody waits beside a free permit.
THEOREM NoPermitIdles == Spec => []NoIdlePermit
<1>1. Inv => NoIdlePermit
  BY DEF Inv
<1> QED BY <1>1, Invariance, PTL

\* `active`, what drain() and the client's close() wait for, is exact.
THEOREM ActiveIsExact == Spec => []ActiveCounted
<1>1. Inv => ActiveCounted
  BY DEF Inv
<1> QED BY <1>1, Invariance, PTL

\* Handlers begin in the order of delivery, whatever the concurrency.
THEOREM HandlersBeginInOrder == Spec => []DeliveryOrder
<1>1. Inv => DeliveryOrder
  BY DEF Inv
<1> QED BY <1>1, Invariance, PTL

LEMMA NothingOutstanding ==
  ASSUME Inv, active = Len(settling)
  PROVE  waiters = <<>> /\ granted = <<>> /\ running = {}
<1>1. Cardinality(running) \in Nat /\ Len(waiters) \in Nat /\ Len(granted) \in Nat
      /\ Len(settling) \in Nat
  BY RunningFinite DEF Inv, TypeOK
<1>2. Cardinality(running) = 0 /\ Len(waiters) = 0 /\ Len(granted) = 0
  BY <1>1 DEF Inv, ActiveCounted
<1>3. running = {}
  BY <1>2, RunningFinite, FS_EmptySet DEF Inv
<1>4. waiters = <<>> /\ granted = <<>>
  BY <1>2 DEF Inv, TypeOK
<1> QED BY <1>3, <1>4

\* A promise of drain() that resolves without a close() finds nothing outstanding.
LEMMA ResolvedByLast ==
  ASSUME Inv, [Next]_vars, drain # "resolved", drain' = "resolved", ~closed'
  PROVE  waiters = <<>> /\ granted = <<>> /\ running = {}
<1>1. CASE Settle
  <2>1. settling # <<>> /\ active - 1 = 0
    BY <1>1 DEF Settle, ResolveDrain
  <2>2. /\ Len(settling) \in Nat \ {0} /\ Cardinality(running) \in Nat
        /\ Len(waiters) \in Nat /\ Len(granted) \in Nat /\ active \in Int
    BY <2>1, RunningFinite DEF Inv, TypeOK
  <2>3. active = Len(settling)
    BY <2>1, <2>2 DEF Inv, ActiveCounted
  <2> QED BY <2>3, NothingOutstanding
<1>2. CASE CallDrain
  <2>1. active = 0
    BY <1>2 DEF CallDrain
  <2>2. /\ Len(settling) \in Nat /\ Cardinality(running) \in Nat
        /\ Len(waiters) \in Nat /\ Len(granted) \in Nat
    BY RunningFinite DEF Inv, TypeOK
  <2>3. active = Len(settling)
    BY <2>1, <2>2 DEF Inv, ActiveCounted
  <2> QED BY <2>3, NothingOutstanding
<1>3. CASE Close
  BY <1>3 DEF Close
<1>4. CASE Receive \/ Begin \/ Resubscribe \/ UNCHANGED vars \/ \E m \in Messages : End(m)
  BY <1>4 DEF Receive, Begin, Resubscribe, End, vars
<1> QED BY <1>1, <1>2, <1>3, <1>4 DEF Next

\* drain() resolves only when every callback is over, or because of close().
THEOREM DrainWaitsForAll == Spec => DrainNotEarly
<1>1. Inv /\ [Next]_vars =>
        [drain # "resolved" /\ drain' = "resolved" =>
           closed' \/ (waiters = <<>> /\ granted = <<>> /\ running = {})]_vars
  BY ResolvedByLast
<1> QED BY <1>1, Invariance, PTL DEF Spec, DrainNotEarly

-----------------------------------------------------------------------------
\* Backpressure.

\* With dropOnHighWater the queue stays at the depth and the stream flows.
THEOREM DroppingBoundsTheQueue == Spec => []DropBoundsQueue
<1>1. Init => DropBoundsQueue
  BY DispatcherConstants DEF Init, DropBoundsQueue, DispatcherConstants
<1>2. TypeOK /\ DropBoundsQueue /\ [Next]_vars => DropBoundsQueue'
  <2> SUFFICES ASSUME TypeOK, DropBoundsQueue, [Next]_vars, DropOnHighWater
               PROVE  Len(waiters') <= MaxQueueDepth /\ ~streamPaused'
    BY DEF DropBoundsQueue
  <2>1. /\ Len(waiters) <= MaxQueueDepth /\ ~streamPaused /\ Len(waiters) \in Nat
        /\ waiters \in Seq(Messages) /\ MaxQueueDepth \in Nat
    BY DispatcherConstants DEF DropBoundsQueue, TypeOK, DispatcherConstants
  <2>2. CASE Receive
    <3>1. CASE UNCHANGED <<semaphore, granted, active, highWater, streamPaused>>
      BY <2>1, <3>1 DEF semaphore
    <3>2. CASE ~Drops /\ NoteHighWater /\ Acquire(received + 1)
      <4>1. Len(waiters) < MaxQueueDepth /\ streamPaused' = streamPaused
        BY <2>1, <3>2 DEF Drops, AtHighWater, NoteHighWater
      <4>2. waiters' = waiters \/ waiters' = Append(waiters, received + 1)
        BY <3>2 DEF Acquire
      <4>3. received + 1 \in Messages
        BY <2>2, DispatcherConstants DEF Receive, TypeOK, DispatcherConstants, Messages
      <4>4. Len(waiters') <= Len(waiters) + 1 /\ Len(waiters') \in Nat
        BY <2>1, <4>2, <4>3
      <4> QED BY <2>1, <4>1, <4>4
    <3> QED BY <2>2, <3>1, <3>2 DEF Receive, Dispatch
  <2>3. ASSUME NEW m \in Messages, End(m)
        PROVE  Len(waiters') <= MaxQueueDepth /\ ~streamPaused'
    <3>1. waiters' = waiters \/ (waiters # <<>> /\ waiters' = Tail(waiters))
      BY <2>3 DEF End, Release
    <3>2. Len(waiters') <= Len(waiters) /\ Len(waiters') \in Nat
      BY <2>1, <3>1
    <3> QED BY <2>1, <2>3, <3>2 DEF End
  <2>4. CASE Begin \/ Settle \/ CallDrain \/ Close \/ Resubscribe \/ UNCHANGED vars
    BY <2>1, <2>4 DEF Begin, Settle, CallDrain, Close, Resubscribe, semaphore, vars
  <2> QED BY <2>2, <2>3, <2>4 DEF Next
<1> QED BY <1>1, <1>2, TypeCorrect, PTL DEF Spec

\* A paused stream is known to be paused, and an outstanding callback will look
\* at the low water mark: after Settle above the mark somebody still waits.
THEOREM PausedStreamsHaveAResumer == Spec => []PausedHasResumer
<1>1. Init => PausedHasResumer
  BY DEF Init, PausedHasResumer
<1>2. Inv /\ Inv' /\ PausedHasResumer /\ [Next]_vars => PausedHasResumer'
  <2> SUFFICES ASSUME Inv, Inv', PausedHasResumer, [Next]_vars PROVE PausedHasResumer'
    OBVIOUS
  <2>1. active \in Int /\ active >= 0 /\ MaxQueueDepth \in Nat
    <3>1. /\ Len(waiters) \in Nat /\ Len(granted) \in Nat /\ Len(settling) \in Nat
          /\ Cardinality(running) \in Nat
      BY RunningFinite DEF Inv, TypeOK
    <3> QED BY <3>1, DispatcherConstants DEF Inv, ActiveCounted, DispatcherConstants
  <2>2. CASE Receive
    <3>1. CASE UNCHANGED <<semaphore, granted, active, highWater, streamPaused>>
      BY <3>1 DEF PausedHasResumer
    <3>2. CASE NoteHighWater /\ active' = active + 1
      BY <2>1, <3>2 DEF NoteHighWater, PausedHasResumer
    <3> QED BY <2>2, <3>1, <3>2 DEF Receive, Dispatch
  <2>3. CASE Settle
    <3>1. CASE highWater /\ BelowLowWater
      BY <2>3, <3>1 DEF Settle, PausedHasResumer
    <3>2. CASE ~(highWater /\ BelowLowWater)
      <4>1. UNCHANGED <<highWater, streamPaused, waiters>>
        BY <2>3, <3>2 DEF Settle, semaphore
      <4>2. ASSUME highWater, MaxQueueDepth > 0 PROVE active' > 0
        <5>1. /\ Len(waiters') \in Nat /\ Len(granted') \in Nat /\ Len(settling') \in Nat
              /\ Cardinality(running') \in Nat
          <6>1. TypeOK'
            BY DEF Inv
          <6>2. Cardinality(running) \in Nat /\ running' = running
            BY <2>3, RunningFinite DEF Settle, Inv
          <6> QED BY <6>1, <6>2 DEF TypeOK
        <5>2. Len(waiters') > 0
          BY <2>1, <3>2, <4>1, <4>2, <5>1 DEF BelowLowWater
        <5> QED BY <5>1, <5>2 DEF Inv, ActiveCounted
      <4> QED BY <4>1, <4>2 DEF PausedHasResumer
    <3> QED BY <3>1, <3>2
  <2>4. CASE Resubscribe
    BY <2>4 DEF Resubscribe, PausedHasResumer
  <2>5. CASE Begin \/ CallDrain \/ Close \/ UNCHANGED vars \/ \E m \in Messages : End(m)
    BY <2>5 DEF Begin, CallDrain, Close, End, vars, PausedHasResumer
  <2> QED BY <2>2, <2>3, <2>4, <2>5 DEF Next
<1> QED BY <1>1, <1>2, Invariance, PTL DEF Spec

\* As long as the stream is never replaced, backpressure keeps the queue at the
\* depth plus the message that hit the mark: the stream pauses with the mark.
PauseFollowsMark ==
  resubscribes = 0 =>
    /\ streamPaused <=> highWater
    /\ Len(waiters) <= MaxQueueDepth + 1
    /\ ~highWater => Len(waiters) <= MaxQueueDepth

THEOREM BackpressureBoundsTheQueue == Spec => []QueueBounded
<1>1. Init => PauseFollowsMark
  BY DispatcherConstants DEF Init, PauseFollowsMark, DispatcherConstants
<1>2. TypeOK /\ PauseFollowsMark /\ [Next]_vars => PauseFollowsMark'
  <2> SUFFICES ASSUME TypeOK, PauseFollowsMark, [Next]_vars, resubscribes' = 0
               PROVE  PauseFollowsMark'
    BY DEF PauseFollowsMark
  <2>7. CASE Resubscribe
    BY <2>7 DEF Resubscribe, TypeOK
  <2>8. CASE resubscribes' # resubscribes
    BY <2>7, <2>8 DEF Next, Receive, Begin, End, Settle, CallDrain, Close, vars
  <2> SUFFICES ASSUME resubscribes = 0 PROVE PauseFollowsMark'
    BY <2>8
  <2>1. /\ Len(waiters) \in Nat /\ waiters \in Seq(Messages) /\ MaxQueueDepth \in Nat
        /\ highWater \in BOOLEAN
    BY DispatcherConstants DEF TypeOK, DispatcherConstants
  <2>2. CASE Receive
    <3>1. ~streamPaused /\ ~highWater /\ Len(waiters) <= MaxQueueDepth
      BY <2>2 DEF Receive, PauseFollowsMark
    <3>2. CASE UNCHANGED <<semaphore, granted, active, highWater, streamPaused>>
      BY <3>1, <3>2 DEF PauseFollowsMark, semaphore
    <3>3. CASE NoteHighWater /\ Acquire(received + 1)
      <4>1. received + 1 \in Messages
        BY <2>2, DispatcherConstants DEF Receive, TypeOK, DispatcherConstants, Messages
      <4>2. waiters' = waiters \/ waiters' = Append(waiters, received + 1)
        BY <3>3 DEF Acquire
      <4>3. Len(waiters') <= Len(waiters) + 1 /\ Len(waiters') \in Nat
        BY <2>1, <4>1, <4>2
      <4>4. CASE Len(waiters) >= MaxQueueDepth
        <5>1. highWater' = TRUE /\ streamPaused' = TRUE
          BY <3>1, <3>3, <4>4 DEF NoteHighWater, AtHighWater
        <5> QED BY <2>1, <3>1, <4>3, <5>1 DEF PauseFollowsMark
      <4>5. CASE Len(waiters) < MaxQueueDepth
        <5>1. highWater' = highWater /\ streamPaused' = streamPaused
          BY <2>1, <3>3, <4>5 DEF NoteHighWater, AtHighWater
        <5> QED BY <2>1, <3>1, <4>3, <4>5, <5>1 DEF PauseFollowsMark
      <4> QED BY <2>1, <4>4, <4>5
    <3> QED BY <2>2, <3>2, <3>3 DEF Receive, Dispatch
  <2>3. ASSUME NEW m \in Messages, End(m) PROVE PauseFollowsMark'
    <3>1. waiters' = waiters \/ (waiters # <<>> /\ waiters' = Tail(waiters))
      BY <2>3 DEF End, Release
    <3>2. Len(waiters') <= Len(waiters) /\ Len(waiters') \in Nat
      BY <2>1, <3>1
    <3> QED BY <2>1, <2>3, <3>2 DEF End, PauseFollowsMark
  <2>4. CASE Settle
    <3>1. waiters' = waiters /\ resubscribes' = resubscribes
      BY <2>4 DEF Settle, semaphore
    <3>2. CASE highWater /\ BelowLowWater
      <4>1. highWater' = FALSE /\ streamPaused' = FALSE
        BY <2>4, <3>2 DEF Settle
      <4> QED BY <2>1, <3>1, <3>2, <4>1 DEF PauseFollowsMark, BelowLowWater
    <3>3. CASE ~(highWater /\ BelowLowWater)
      BY <2>4, <3>1, <3>3 DEF Settle, PauseFollowsMark
    <3> QED BY <3>2, <3>3
  <2>6. CASE Begin \/ CallDrain \/ Close \/ UNCHANGED vars
    BY <2>6 DEF Begin, CallDrain, Close, semaphore, vars, PauseFollowsMark
  <2> QED BY <2>2, <2>3, <2>4, <2>6, <2>7 DEF Next
<1>3. PauseFollowsMark => QueueBounded
  BY DEF PauseFollowsMark, QueueBounded
<1> QED BY <1>1, <1>2, <1>3, TypeCorrect, PTL DEF Spec
-----------------------------------------------------------------------------
\* The refinement: with `outstanding` read off `active`, the dispatcher is DrainableWork.

LEMMA ActiveIsNatural ==
  ASSUME Inv
  PROVE  active \in Nat /\ (settling # <<>> => active > 0)
<1>1. /\ Len(waiters) \in Nat /\ Len(granted) \in Nat /\ Len(settling) \in Nat
      /\ Cardinality(running) \in Nat
  BY RunningFinite DEF Inv, TypeOK
<1>2. settling # <<>> => Len(settling) > 0
  BY <1>1 DEF Inv, TypeOK
<1> QED BY <1>1, <1>2 DEF Inv, ActiveCounted

\* A message that is dispatched is work taken, a callback that settles is work finished,
\* drain() and close() are those of DrainableWork, and all else is a stutter.
LEMMA StepsAreWork ==
  ASSUME Inv, [Next]_vars
  PROVE  [Work!Next]_(Work!dispatcher)
<1> USE DEF Work!Next, Work!dispatcher
<1>1. CASE Receive
  <2>1. CASE UNCHANGED <<semaphore, granted, active, highWater, streamPaused>>
    BY <1>1, <2>1 DEF Receive
  <2>2. CASE ~closed /\ active' = active + 1
    BY <1>1, <2>2 DEF Receive, Work!Take
  <2> QED BY <1>1, <2>1, <2>2 DEF Receive, Dispatch
<1>2. CASE Settle
  <2>1. active \in Nat /\ active > 0 /\ active' = active - 1 /\ closed' = closed
    BY <1>2, ActiveIsNatural DEF Settle
  <2>2. drain' = IF drain = "waiting" /\ active = 1 THEN "resolved" ELSE drain
    BY <1>2, <2>1 DEF Settle, ResolveDrain
  <2> QED BY <2>1, <2>2 DEF Work!Finish
<1>3. CASE CallDrain
  BY <1>3 DEF CallDrain, Work!CallDrain
<1>4. CASE Close
  BY <1>4 DEF Close, Work!Close
<1>5. CASE Begin \/ Resubscribe \/ UNCHANGED vars \/ \E m \in Messages : End(m)
  BY <1>5 DEF Begin, Resubscribe, End, vars
<1> QED BY <1>1, <1>2, <1>3, <1>4, <1>5 DEF Next

\* To whoever shuts it down, the dispatcher with its queue, permits, microtasks and
\* marks is DrainableWork: what close() of the client relies on.
THEOREM DispatcherIsDrainable == Spec => ImplementsWork
<1>1. Init => Work!Init
  BY DEF Init, Work!Init
<1> QED BY <1>1, StepsAreWork, Invariance, PTL DEF Spec, ImplementsWork, Work!Spec

-----------------------------------------------------------------------------
\* close().

\* The client does to the first dispatcher only what Next allows.
LEMMA StepsOfDispatcher ==
  ASSUME [CloseNext]_clientVars
  PROVE  [Next]_vars
<1>1. CASE FirstSteps
  BY <1>1 DEF FirstSteps, Next
<1>2. CASE CancelFirst
  BY <1>2 DEF CancelFirst, Next
<1>3. CASE CallClose
  BY <1>3 DEF CallClose, Next
<1>4. CASE DrainOver \/ DrainExpires
  BY <1>4 DEF DrainOver, DrainExpires, CloseDispatchers, Next
<1>5. CASE SubscribeLate \/ LateReceive \/ LateFinish \/ CancelLate
  BY <1>5 DEF SubscribeLate, LateReceive, LateFinish, CancelLate
<1>6. CASE SendersClosed \/ TransportClosed \/ UNCHANGED clientVars
  BY <1>6 DEF SendersClosed, TransportClosed, clientVars
<1> QED BY <1>1, <1>2, <1>3, <1>4, <1>5, <1>6 DEF CloseNext

\* Beside close() and another subscription, the dispatcher is still one: every theorem
\* above holds of the client.
THEOREM ClientKeepsDispatcher == CloseSpec => Spec
<1>1. CloseInit => Init
  BY DEF CloseInit
<1> QED BY <1>1, StepsOfDispatcher, PTL DEF CloseSpec, Spec

-----------------------------------------------------------------------------
\* The inductive invariant.

\* Until close() forgets them all, a dispatcher is registered until it is cancelled, and
\* closed from then on.
RegisteredAreOpen ==
  phase \in {"open", "draining"} =>
    /\ closed <=> "first" \in cancelled
    /\ "first" \in registered <=> "first" \notin cancelled
    /\ lateClosed <=> "late" \in cancelled
    /\ "late" \in registered <=> lateMade # "never" /\ "late" \notin cancelled
    /\ lateMade = "never" => "late" \notin cancelled

\* A drain that close() did not end leaves nothing behind that was there when it began.
DrainsAreTrue ==
  /\ drain = "resolved" /\ ~closed => \A m \in Unsettled : m > owed
  /\ lateDrain = "resolved" /\ ~lateClosed => lateOwed = 0
  /\ owed <= received /\ lateOwed <= lateOut
  /\ lateMade = "never" => lateOut = 0

\* close() awaits all there were, but those that were cancelled before.
AwaitedAreAll ==
  phase = "draining" =>
    /\ "first" \in awaited \/ "first" \in cancelled
    /\ "late" \in awaited \/ "late" \in cancelled \/ lateOwed = 0

CloseInv == CloseIsOrderly /\ RegisteredAreOpen /\ DrainsAreTrue /\ AwaitedAreAll

LEMMA CloseInitially == CloseInit => CloseInv
<1> SUFFICES ASSUME CloseInit PROVE CloseInv
  OBVIOUS
<1>1. CloseTypeOK
  <2>1. lateSent \in 0..MaxLate /\ owed \in 0..MaxMessages
    BY CloseConstants, DispatcherConstants DEF CloseInit, CloseConstants, DispatcherConstants
  <2>2. lateClosed \in BOOLEAN /\ timedOut \in BOOLEAN
    BY DEF CloseInit, Late!Init
  <2> QED BY <2>1, <2>2 DEF CloseInit, CloseTypeOK, Late!Init
<1>2. RegisteredAreOpen /\ AwaitedAreAll /\ OwedAreOver /\ NoneTakesBehindClose
  BY DEF CloseInit, Init, Late!Init, RegisteredAreOpen, AwaitedAreAll, OwedAreOver,
     NoneTakesBehindClose
<1>3. DrainsAreTrue
  BY DEF CloseInit, Init, Late!Init, DrainsAreTrue
<1> QED BY <1>1, <1>2, <1>3 DEF CloseInv, CloseIsOrderly

LEMMA MoreTypes ==
  ASSUME CloseInv, Inv, Inv', [CloseNext]_clientVars
  PROVE  CloseTypeOK'
<1> USE DEF CloseInv, CloseIsOrderly, CloseTypeOK
<1>1. received \in 0..MaxMessages
  BY DEF Inv, TypeOK
<1>2. CASE FirstSteps
  BY <1>2 DEF FirstSteps, late, lateDispatcher, closing
<1>3. CASE CancelFirst \/ CancelLate
  BY <1>3 DEF CancelFirst, CancelLate, Forget, Late!Close, late, lateDispatcher
<1>4. CASE SubscribeLate
  BY <1>4 DEF SubscribeLate, lateDispatcher
<1>9. CASE LateFinish
  <2>1. lateOut' \in Nat /\ lateOwed' \in Nat /\ lateDrain' \in {"none", "waiting", "resolved"}
    BY <1>9 DEF LateFinish, Late!Finish
  <2> QED BY <1>9, <2>1 DEF LateFinish, Late!Finish
<1>5. CASE LateReceive
  BY <1>5, CloseConstants DEF CloseConstants, LateReceive, Late!Take, closing
<1>6. CASE CallClose
  BY <1>1, <1>6 DEF CallClose, Late!CallDrain, lateDispatcher
<1>7. CASE DrainOver \/ DrainExpires
  BY <1>7 DEF DrainOver, DrainExpires, CloseDispatchers, Late!Close, lateDispatcher
<1>8. CASE SendersClosed \/ TransportClosed \/ UNCHANGED clientVars
  BY <1>8 DEF SendersClosed, TransportClosed, clientVars, late, lateDispatcher, closing
<1> QED BY <1>2, <1>3, <1>4, <1>5, <1>6, <1>7, <1>8, <1>9 DEF CloseNext

\* What is unsettled was so before, or has just come.
LEMMA UnsettledSteps ==
  ASSUME Inv, [Next]_vars
  PROVE  \A m \in Unsettled' : m \in Unsettled \/ (m = received + 1 /\ ~closed)
<1> SUFFICES ASSUME NEW m \in Unsettled' PROVE m \in Unsettled \/ (m = received + 1 /\ ~closed)
  OBVIOUS
<1>1. /\ waiters \in Seq(Messages) /\ granted \in Seq(Messages) /\ m \in Messages
  BY DEF Inv, TypeOK, Unsettled
<1>2. CASE Receive
  <2>1. CASE UNCHANGED <<semaphore, granted, active, highWater, streamPaused>>
    BY <1>2, <2>1 DEF Receive, Unsettled, semaphore
  <2>2. CASE ~closed /\ Acquire(received + 1)
    <3>1. received + 1 \in Messages /\ running' = running
      BY <1>2, DispatcherConstants DEF Receive, Inv, TypeOK, DispatcherConstants, Messages
    <3>2. CASE granted' = Append(granted, received + 1) /\ waiters' = waiters
      BY <1>1, <2>2, <3>1, <3>2 DEF Unsettled
    <3>3. CASE waiters' = Append(waiters, received + 1) /\ granted' = granted
      BY <1>1, <2>2, <3>1, <3>3 DEF Unsettled
    <3> QED BY <2>2, <3>2, <3>3 DEF Acquire
  <2> QED BY <1>2, <2>1, <2>2 DEF Receive, Dispatch
<1>3. CASE Begin
  <2>1. /\ granted # <<>> /\ granted' = Tail(granted) /\ waiters' = waiters
        /\ running' = running \cup {Head(granted)}
    BY <1>3 DEF Begin, semaphore
  <2>2. 1 \in 1..Len(granted) /\ granted[1] = Head(granted)
    BY <1>1, <2>1
  <2>3. \A i \in 1..Len(granted') : i + 1 \in 1..Len(granted) /\ granted'[i] = granted[i + 1]
    BY <1>1, <2>1
  <2> QED BY <2>1, <2>2, <2>3 DEF Unsettled
<1>4. ASSUME NEW x \in Messages, End(x) PROVE m \in Unsettled
  <2>1. running' \subseteq running
    BY <1>4 DEF End
  <2>2. CASE UNCHANGED <<waiters, granted>>
    BY <2>1, <2>2 DEF Unsettled
  <2>3. CASE /\ waiters # <<>> /\ granted' = Append(granted, Head(waiters))
             /\ waiters' = Tail(waiters)
    <3>1. 1 \in 1..Len(waiters) /\ waiters[1] = Head(waiters)
      BY <1>1, <2>3
    <3>2. \A i \in 1..Len(waiters') : i + 1 \in 1..Len(waiters) /\ waiters'[i] = waiters[i + 1]
      BY <1>1, <2>3
    <3>3. \A i \in 1..Len(granted') :
            (i \in 1..Len(granted) /\ granted'[i] = granted[i]) \/ granted'[i] = waiters[1]
      BY <1>1, <2>3, <3>1
    <3> QED BY <2>1, <3>1, <3>2, <3>3 DEF Unsettled
  <2> QED BY <1>4, <2>2, <2>3 DEF End, Release
<1>5. CASE Settle \/ CallDrain \/ Close \/ Resubscribe \/ UNCHANGED vars
  BY <1>5 DEF Settle, CallDrain, Close, Resubscribe, vars, semaphore, Unsettled
<1> QED BY <1>2, <1>3, <1>4, <1>5 DEF Next

\* Nothing but cancel() and close() touches registered and cancelled in the phases before
\* the senders.
LEMMA RegisteredStay ==
  ASSUME CloseInv, [CloseNext]_clientVars
  PROVE  RegisteredAreOpen'
<1> USE DEF CloseInv, CloseIsOrderly, CloseTypeOK, RegisteredAreOpen
<1>1. CASE FirstSteps
  <2>1. closed' = closed
    BY <1>1 DEF FirstSteps, Receive, Begin, Settle, End, Resubscribe
  <2> QED BY <1>1, <2>1 DEF FirstSteps, late, lateDispatcher, closing
<1>2. CASE CancelFirst
  BY <1>2 DEF CancelFirst, Close, Forget, late, lateDispatcher
<1>3. CASE CancelLate
  BY <1>3 DEF CancelLate, Late!Close, Forget, vars
<1>4. CASE SubscribeLate
  <2>1. lateMade = "never" /\ lateMade' = phase /\ phase # "never"
    BY <1>4 DEF SubscribeLate
  <2> QED BY <1>4, <2>1 DEF SubscribeLate, lateDispatcher, vars
<1>5. CASE LateReceive \/ LateFinish
  BY <1>5 DEF LateReceive, LateFinish, Late!Take, Late!Finish, closing, vars
<1>6. CASE CallClose
  BY <1>6 DEF CallClose, CallDrain, Late!CallDrain, vars, lateDispatcher
<1>7. CASE DrainOver \/ DrainExpires
  BY <1>7 DEF DrainOver, DrainExpires, CloseDispatchers
<1>8. CASE SendersClosed \/ TransportClosed \/ UNCHANGED clientVars
  BY <1>8 DEF SendersClosed, TransportClosed, clientVars, late, lateDispatcher, closing, vars
<1> QED BY <1>1, <1>2, <1>3, <1>4, <1>5, <1>6, <1>7, <1>8 DEF CloseNext

\* drain() of the first: when it resolves without close(), nothing is outstanding; what
\* comes afterwards has a higher number than what close() owes.
LEMMA FirstDrain ==
  ASSUME CloseInv, Inv, [CloseNext]_clientVars, drain' = "resolved", ~closed',
         NEW m \in Unsettled'
  PROVE  m > owed'
<1>1. [Next]_vars
  BY StepsOfDispatcher
<1>2. /\ received \in Nat /\ owed \in Nat /\ owed <= received /\ closed \in BOOLEAN
  BY DispatcherConstants
  DEF CloseInv, DrainsAreTrue, CloseIsOrderly, CloseTypeOK, Inv, TypeOK, DispatcherConstants
<1>3. m \in Unsettled \/ m = received + 1
  BY <1>1, UnsettledSteps
<1>4. ASSUME drain # "resolved" PROVE m = received + 1
  <2>1. waiters = <<>> /\ granted = <<>> /\ running = {}
    BY <1>1, <1>4, ResolvedByLast
  <2> QED BY <1>3, <2>1 DEF Unsettled
<1>5. ~closed
  BY <1>1 DEF Next, Receive, Begin, End, Settle, CallDrain, Close, Resubscribe, vars
<1>6. CASE owed' = owed
  <2>1. CASE drain = "resolved"
    BY <1>2, <1>3, <1>5, <1>6, <2>1 DEF CloseInv, DrainsAreTrue
  <2>2. CASE drain # "resolved"
    BY <1>2, <1>4, <1>6, <2>2
  <2> QED BY <2>1, <2>2
<1>7. CASE CallClose
  <2>1. owed' = received /\ phase = "open"
    BY <1>7 DEF CallClose
  <2>2. "first" \in registered
    BY <1>5, <2>1 DEF CloseInv, RegisteredAreOpen
  <2>3. drain # "resolved"
    BY <1>7, <2>2 DEF CallClose, CallDrain
  <2> QED BY <1>2, <1>4, <2>1, <2>3
<1>8. CASE CloseNext /\ ~CallClose
  <2>1. owed' = owed
    BY <1>8 DEF CloseNext, FirstSteps, CancelFirst, Forget, SubscribeLate, LateReceive,
       LateFinish, CancelLate, DrainOver, DrainExpires, CloseDispatchers, SendersClosed,
       TransportClosed, closing
  <2> QED BY <1>6, <2>1
<1>9. CASE UNCHANGED clientVars
  BY <1>6, <1>9 DEF clientVars, closing
<1> QED BY <1>7, <1>8, <1>9

LEMMA DrainsStayTrue ==
  ASSUME CloseInv, Inv, [CloseNext]_clientVars
  PROVE  DrainsAreTrue'
<1> USE DEF CloseInv, CloseIsOrderly, CloseTypeOK
<1>1. /\ lateOut \in Nat /\ lateOwed \in Nat /\ lateOwed <= lateOut
      /\ lateMade = "never" => lateOut = 0
      /\ lateDrain = "resolved" /\ ~lateClosed => lateOwed = 0
      /\ received \in Nat /\ owed \in Nat /\ owed <= received
  BY DispatcherConstants DEF DrainsAreTrue, Inv, TypeOK, DispatcherConstants
<1>2. received' \in {received, received + 1}
  <2>1. [Next]_vars
    BY StepsOfDispatcher
  <2> QED BY <2>1 DEF Next, Receive, Begin, End, Settle, CallDrain, Close, Resubscribe, vars
<1>3. ASSUME UNCHANGED <<late, owed, lateOwed>> PROVE DrainsAreTrue'
  <2>1. /\ lateDrain' = "resolved" /\ ~lateClosed' => lateOwed' = 0
        /\ owed' <= received' /\ lateOwed' <= lateOut'
        /\ lateMade' = "never" => lateOut' = 0
    BY <1>1, <1>2, <1>3 DEF late, lateDispatcher
  <2> QED BY <2>1, FirstDrain DEF DrainsAreTrue
<1>4. CASE FirstSteps \/ CancelFirst \/ SendersClosed \/ TransportClosed \/ UNCHANGED clientVars
  BY <1>3, <1>4 DEF FirstSteps, CancelFirst, Forget, SendersClosed, TransportClosed,
     clientVars, closing
<1>5. CASE SubscribeLate
  <2>1. UNCHANGED <<owed, lateOwed, lateOut, lateClosed, lateDrain, received>>
    BY <1>5 DEF SubscribeLate, lateDispatcher, vars
  <2> QED BY <1>1, <1>5, <2>1, FirstDrain DEF DrainsAreTrue, SubscribeLate
<1>6. CASE LateReceive
  <2>1. /\ lateOut' = lateOut + 1 /\ lateMade' # "never"
        /\ UNCHANGED <<owed, lateOwed, lateClosed, lateDrain, received>>
    BY <1>6 DEF LateReceive, Late!Take, closing, vars
  <2> QED BY <1>1, <2>1, FirstDrain DEF DrainsAreTrue
<1>7. CASE LateFinish
  <2>1. /\ lateOut > 0 /\ lateOut' = lateOut - 1 /\ UNCHANGED <<owed, received, lateMade, lateClosed>>
        /\ lateOwed' = IF lateOwed > 0 THEN lateOwed - 1 ELSE 0
        /\ lateDrain' = IF lateDrain = "waiting" /\ lateOut = 1 THEN "resolved" ELSE lateDrain
    BY <1>7 DEF LateFinish, Late!Finish, vars
  <2>2. lateOwed' <= lateOut' /\ (lateDrain' = "resolved" /\ ~lateClosed' => lateOwed' = 0)
    BY <1>1, <2>1
  <2> QED BY <1>1, <2>1, <2>2, FirstDrain DEF DrainsAreTrue
<1>8. CASE CancelLate
  <2>1. /\ lateClosed' /\ UNCHANGED <<owed, received, lateMade, lateOut, lateOwed>>
    BY <1>8 DEF CancelLate, Forget, Late!Close, vars
  <2> QED BY <1>1, <2>1, FirstDrain DEF DrainsAreTrue
<1>9. CASE CallClose
  <2>1. /\ owed' = received /\ lateOwed' = lateOut /\ phase = "open"
        /\ UNCHANGED <<lateMade, lateOut, lateClosed>>
    BY <1>9 DEF CallClose, Late!CallDrain, lateDispatcher
  <2>2. lateDrain' = "resolved" /\ ~lateClosed => lateOut = 0
    <3>1. CASE "late" \in registered
      BY <1>9, <3>1 DEF CallClose, Late!CallDrain
    <3>2. CASE "late" \notin registered
      BY <1>1, <2>1, <3>2 DEF RegisteredAreOpen
    <3> QED BY <3>1, <3>2
  <2> QED BY <1>1, <1>2, <2>1, <2>2, FirstDrain DEF DrainsAreTrue
<1>10. CASE DrainOver \/ DrainExpires
  <2>1. /\ UNCHANGED <<lateMade, lateOut, owed, lateOwed>>
        /\ lateClosed' = lateClosed => lateDrain' = lateDrain
        /\ lateClosed' = lateClosed \/ lateClosed' = TRUE
    BY <1>10 DEF DrainOver, DrainExpires, CloseDispatchers, Late!Close, lateDispatcher
  <2> QED BY <1>1, <1>2, <2>1, FirstDrain DEF DrainsAreTrue
<1> QED BY <1>4, <1>5, <1>6, <1>7, <1>8, <1>9, <1>10 DEF CloseNext

\* What close() does not await has been cancelled, or owes nothing.
LEMMA AllStayAwaited ==
  ASSUME CloseInv, [CloseNext]_clientVars
  PROVE  AwaitedAreAll'
<1> USE DEF CloseInv, CloseIsOrderly, CloseTypeOK, AwaitedAreAll
<1>1. CASE FirstSteps \/ UNCHANGED clientVars
  BY <1>1 DEF FirstSteps, clientVars, closing
<1>2. CASE CancelFirst \/ CancelLate
  BY <1>2 DEF CancelFirst, CancelLate, Forget
<1>3. CASE SubscribeLate \/ LateReceive \/ LateFinish
  BY <1>3 DEF SubscribeLate, LateReceive, LateFinish, closing
<1>4. CASE CallClose
  <2>1. phase = "open" /\ awaited' = registered /\ cancelled' = cancelled /\ lateOwed' = lateOut
    BY <1>4 DEF CallClose
  <2> QED BY <2>1 DEF RegisteredAreOpen, DrainsAreTrue
<1>5. CASE DrainOver \/ DrainExpires \/ SendersClosed \/ TransportClosed
  BY <1>5 DEF DrainOver, DrainExpires, CloseDispatchers, SendersClosed, TransportClosed
<1> QED BY <1>1, <1>2, <1>3, <1>4, <1>5 DEF CloseNext

\* The two promises of close(), step by step.
LEMMA PromisesKept ==
  ASSUME CloseInv, Inv, [CloseNext]_clientVars
  PROVE  OwedAreOver' /\ NoneTakesBehindClose'
<1> USE DEF CloseInv, CloseIsOrderly, CloseTypeOK
<1>1. [Next]_vars
  BY StepsOfDispatcher
<1>2. closed => \A m \in Unsettled' : m \in Unsettled
  BY <1>1, UnsettledSteps
<1>3. CASE phase' \in {"open", "draining"}
  BY <1>3 DEF OwedAreOver, NoneTakesBehindClose
<1>4. CASE phase \notin {"open", "draining"}
  <2>1. /\ closed /\ (lateClosed \/ lateMade \notin {"open", "draining"})
        /\ ~timedOut => /\ "first" \in cancelled \/ \A m \in Unsettled : m > owed
                        /\ "late" \in cancelled \/ lateOwed = 0
    BY <1>4 DEF OwedAreOver, NoneTakesBehindClose
  <2>2. closed'
    BY <1>1, <2>1 DEF Next, Receive, Begin, End, Settle, CallDrain, Close, Resubscribe, vars
  <2>3. /\ timedOut' = timedOut /\ owed' = owed /\ lateOwed' \in {lateOwed, lateOwed - 1}
        /\ cancelled \subseteq cancelled' /\ (lateOwed = 0 => lateOwed' = 0)
        /\ lateClosed => lateClosed'
        /\ lateMade' = lateMade \/ (lateMade = "never" /\ lateMade' = "senders")
    <3>1. CASE FirstSteps \/ UNCHANGED clientVars
      BY <3>1 DEF FirstSteps, clientVars, closing, late, lateDispatcher
    <3>2. CASE CancelFirst \/ CancelLate
      BY <3>2 DEF CancelFirst, CancelLate, Forget, Late!Close, late, lateDispatcher
    <3>3. CASE SubscribeLate
      BY <1>4, <3>3 DEF SubscribeLate, lateDispatcher
    <3>4. CASE LateReceive \/ LateFinish
      BY <3>4 DEF LateReceive, LateFinish, Late!Take, Late!Finish, closing
    <3>5. CASE CallClose \/ DrainOver \/ DrainExpires
      BY <1>4, <3>5 DEF CallClose, DrainOver, DrainExpires
    <3>6. CASE SendersClosed \/ TransportClosed
      BY <3>6 DEF SendersClosed, TransportClosed, late, lateDispatcher
    <3> QED BY <3>1, <3>2, <3>3, <3>4, <3>5, <3>6 DEF CloseNext
  <2> QED BY <1>2, <2>1, <2>2, <2>3 DEF OwedAreOver, NoneTakesBehindClose
<1>5. CASE phase \in {"open", "draining"} /\ phase' \notin {"open", "draining"}
  <2>1. CASE CallClose
    <3>1. registered = {} /\ UNCHANGED <<vars, lateMade, cancelled>> /\ phase = "open"
          /\ UNCHANGED lateDispatcher /\ lateOwed' = lateOut
      BY <1>5, <2>1 DEF CallClose
    <3>2. /\ "first" \in cancelled /\ closed
          /\ ("late" \in cancelled /\ lateClosed) \/ (lateMade = "never" /\ lateOut = 0)
      BY <3>1 DEF RegisteredAreOpen, DrainsAreTrue
    <3> QED BY <3>1, <3>2 DEF OwedAreOver, NoneTakesBehindClose, lateDispatcher, vars
  <2>2. CASE DrainOver \/ DrainExpires
    <3>1. /\ CloseDispatchers /\ phase = "draining" /\ cancelled' = cancelled
          /\ UNCHANGED <<owed, lateOwed, lateMade>>
      BY <2>2 DEF DrainOver, DrainExpires, CloseDispatchers
    <3>2. closed' /\ (lateClosed' \/ lateMade = "never")
      BY <3>1 DEF CloseDispatchers, ToClose, Close, Late!Close, RegisteredAreOpen, vars, lateDispatcher
    <3>3. Unsettled' = Unsettled
      BY <3>1 DEF CloseDispatchers, Close, vars, semaphore, Unsettled
    <3>4. ASSUME DrainOver
          PROVE  /\ "first" \in cancelled \/ \A m \in Unsettled : m > owed
                 /\ "late" \in cancelled \/ lateOwed = 0
      <4>1. \A d \in awaited : IF d = "first" THEN drain = "resolved" ELSE lateDrain = "resolved"
        BY <3>4 DEF DrainOver, Drained
      <4>2. "first" \in cancelled \/ (drain = "resolved" /\ ~closed)
        BY <3>1, <4>1 DEF AwaitedAreAll, RegisteredAreOpen
      <4>3. "late" \in cancelled \/ lateOwed = 0 \/ (lateDrain = "resolved" /\ ~lateClosed)
        BY <3>1, <4>1 DEF AwaitedAreAll, RegisteredAreOpen
      <4> QED BY <4>2, <4>3 DEF DrainsAreTrue
    <3>5. DrainOver \/ timedOut'
      BY <2>2 DEF DrainExpires
    <3> QED BY <3>1, <3>2, <3>3, <3>4, <3>5 DEF OwedAreOver, NoneTakesBehindClose
  <2>3. CASE FirstSteps \/ CancelFirst \/ CancelLate \/ SubscribeLate \/ LateReceive
             \/ LateFinish \/ SendersClosed \/ TransportClosed \/ UNCHANGED clientVars
    BY <1>5, <2>3 DEF FirstSteps, CancelFirst, CancelLate, Forget, SubscribeLate, LateReceive,
       LateFinish, SendersClosed, TransportClosed, clientVars, closing
  <2> QED BY <2>1, <2>2, <2>3 DEF CloseNext
<1> QED BY <1>3, <1>4, <1>5

LEMMA CloseStep == CloseInv /\ Inv /\ Inv' /\ [CloseNext]_clientVars => CloseInv'
BY MoreTypes, RegisteredStay, DrainsStayTrue, AllStayAwaited, PromisesKept
DEF CloseInv, CloseIsOrderly

\* close() goes on to the senders and the transport only when the callbacks that were
\* outstanding are over, its time is up or their subscription was cancelled; from then on
\* no dispatcher it knows takes a message.
THEOREM ClosingIsOrderly == CloseSpec => []CloseIsOrderly
<1>1. CloseInv => CloseIsOrderly
  BY DEF CloseInv
<1> QED BY <1>1, CloseInitially, CloseStep, ClientKeepsDispatcher, Invariance, PTL DEF CloseSpec

\* The permits are conserved beside the close() of the client, too.
THEOREM ClientConservesPermits == CloseSpec => []PermitsConserved
BY ClientKeepsDispatcher, PermitsAreConserved

\* The handlers begin in the order of delivery beside the close() of the client, too.
THEOREM ClientKeepsOrder == CloseSpec => []DeliveryOrder
BY ClientKeepsDispatcher, HandlersBeginInOrder

\* What close() relies on holds while it is at work: the dispatcher is DrainableWork.
THEOREM ClientDrainsWork == CloseSpec => ImplementsWork
BY ClientKeepsDispatcher, DispatcherIsDrainable
=============================================================================

---------------------------- MODULE QueueProofs ----------------------------
(***************************************************************************)
(* Proofs about QueueDownstream and QueueConsumer for every batch size and *)
(* any number of transactions, streams and calls, with and without         *)
(* automatic acknowledgement: the poll cycle neither stalls nor forks, and *)
(* consumeQueue() neither leaves its loop waiting nor passes it over.      *)
(***************************************************************************)
EXTENDS QueueConsumer, FiniteSetTheorems, TLAPS

\* What has not been received is empty, and what was has its place on a stream that was
\* opened by then.
Places ==
  /\ \A t \in Txs : t > txs => size[t] = 0
  /\ \A t \in 1..txs : home[t] \in 1..stream

\* bulkSettled says that nothing came since the last call that settles all there is.
BulkCovers ==
  /\ bulkSettled => covered = 1..txs
  /\ bulkCalls = 0 => ~bulkSettled /\ covered = {}

\* OneAtATime without the cardinality: an unfinished batch excludes a Get.
OneStage ==
  active /\ bulkCalls = 0 /\ stream = 1 =>
    /\ rePolls + gets <= 1
    /\ ~AutoAck => \A t \in Unfinished : activeTx = t /\ rePolls + gets = 0

DownstreamInv == TypeOK /\ Places /\ BulkCovers /\ NeverStalls /\ OneStage

\* A loop body whose stream is gone will find out when it asks for the next batch.
GoneIsNoted == iterating /\ loop = "working" /\ ~active => ended

\* As long as no Get was let loose too early and the loop was not told of an error or the
\* end, at any time and whatever it is doing, the Get there may be belongs to a loop that
\* waits, and no batch can come while the body works.
PromptStage ==
  iterating /\ ~AutoAck /\ ~early /\ ~ended /\ stream = 1 =>
    /\ dropped = {}
    /\ active => /\ rePolls + gets <= 1
                 /\ loop # "waiting" => rePolls + gets = 0

\* Without a generator nothing is dropped.
DirectDropsNothing == ~iterating => dropped = {}

LoopInv ==
  /\ ConsumerTypeOK /\ WaitsOnlyWhileActive /\ GoneIsNoted /\ PromptStage /\ DirectDropsNothing

-----------------------------------------------------------------------------
\* Types.

LEMMA Bounds == BatchSize \in Nat \ {0} /\ MaxTx \in Nat /\ MaxStreams \in Nat \ {0} /\ MaxBulk \in Nat
BY DownstreamConstants DEF DownstreamConstants

LEMMA InitialTypes == Init => TypeOK
<1> SUFFICES ASSUME Init PROVE TypeOK
  OBVIOUS
<1> USE DEF Init, Txs, Streams
<1>1. size \in [Txs -> 0..BatchSize] /\ home \in [Txs -> 0..MaxStreams]
  BY Bounds
<1>2. settled \in [Txs -> SUBSET (1..BatchSize)] /\ atBroker \in [Txs -> SUBSET (1..BatchSize)]
  OBVIOUS
<1>3. \A t \in Txs : settled[t] \subseteq 1..size[t] /\ atBroker[t] \subseteq 1..size[t]
  OBVIOUS
<1>4. active \in BOOLEAN /\ bulkSettled \in BOOLEAN /\ leftCycle \in BOOLEAN
  OBVIOUS
<1>5. stream \in 1..MaxStreams /\ activeTx \in 0..txs /\ rePolls \in Nat /\ txs \in 0..MaxTx
  BY Bounds
<1>6. gets \in Nat /\ confirms \in Nat /\ covered \subseteq 1..txs /\ bulkCalls \in 0..MaxBulk
  BY Bounds
<1> QED BY <1>1, <1>2, <1>3, <1>4, <1>5, <1>6 DEF TypeOK

LEMMA BatchTypes ==
  ASSUME TypeOK, Places, NEW n \in 0..BatchSize, Batch(n)
  PROVE  TypeOK'
<1> USE Bounds DEF TypeOK, Txs, Streams
<1>1. txs + 1 \in 1..MaxTx /\ txs' = txs + 1 /\ gets' \in Nat
  BY DEF Batch
<1>2. rePolls' \in Nat
  BY DEF Batch, RePolls
<1>3. size' \in [Txs -> 0..BatchSize] /\ home' \in [Txs -> 0..MaxStreams]
  BY <1>1 DEF Batch
<1>4. atBroker' \in [Txs -> SUBSET (1..BatchSize)]
  <2> DEFINE b == IF AutoAck THEN 1..n ELSE {}
  <2>1. b \in SUBSET (1..BatchSize)
    OBVIOUS
  <2> HIDE DEF b
  <2>2. atBroker' = [atBroker EXCEPT ![txs + 1] = b]
    BY DEF Batch, b
  <2> QED BY <2>1, <2>2
<1>5. ASSUME NEW t \in Txs PROVE settled'[t] \subseteq 1..size'[t] /\ atBroker'[t] \subseteq 1..size'[t]
  <2>1. CASE t = txs + 1
    <3>1. size[t] = 0 /\ settled[t] = {} /\ size'[t] = n
      BY <1>1, <2>1 DEF Batch, Places
    <3>2. settled' = settled /\ atBroker'[t] = IF AutoAck THEN 1..n ELSE {}
      BY <1>1, <2>1 DEF Batch
    <3> QED BY <3>1, <3>2
  <2>2. CASE t # txs + 1
    <3>1. size'[t] = size[t] /\ settled' = settled /\ atBroker'[t] = atBroker[t]
      BY <1>1, <2>2 DEF Batch
    <3> QED BY <3>1
  <2> QED BY <2>1, <2>2
<1>6. activeTx' \in 0..txs' /\ covered' \subseteq 1..txs'
  BY <1>1 DEF Batch, history
<1>7. bulkSettled' \in BOOLEAN
  BY DEF Batch
<1>8. UNCHANGED <<active, stream, settled, confirms, bulkCalls, leftCycle>>
  BY DEF Batch, history
<1> QED BY <1>1, <1>2, <1>3, <1>4, <1>5, <1>6, <1>7, <1>8

LEMMA ReachesTypes ==
  ASSUME TypeOK, NEW t \in 0..txs, NEW M, t # 0 => M \subseteq 1..size[t], Reaches(t, M)
  PROVE  /\ atBroker' \in [Txs -> SUBSET (1..BatchSize)] /\ confirms' \in Nat
         /\ \A u \in Txs : atBroker'[u] \subseteq 1..size[u]
<1>1. confirms' \in Nat
  BY DEF Reaches, TypeOK
<1>2. CASE UNCHANGED atBroker
  BY <1>1, <1>2 DEF TypeOK
<1>3. CASE t # 0 /\ atBroker' = [atBroker EXCEPT ![t] = @ \cup M]
  <2>1. t \in Txs /\ size[t] \in 0..BatchSize /\ M \subseteq 1..BatchSize
    BY <1>3, Bounds DEF TypeOK, Txs
  <2>2. atBroker[t] \cup M \in SUBSET (1..BatchSize) /\ atBroker[t] \cup M \subseteq 1..size[t]
    BY <1>3, <2>1 DEF TypeOK
  <2> QED BY <1>1, <1>3, <2>1, <2>2 DEF TypeOK
<1> QED BY <1>2, <1>3 DEF Reaches

LEMMA SettleOneTypes ==
  ASSUME TypeOK, NEW t \in Txs, NEW i \in 1..BatchSize, SettleOne(t, i)
  PROVE  TypeOK'
<1>1. t \in 1..txs /\ i \in 1..size[t] /\ settled' = [settled EXCEPT ![t] = @ \cup {i}]
  BY DEF SettleOne
<1>2. atBroker' \in [Txs -> SUBSET (1..BatchSize)] /\ confirms' \in Nat /\ \A u \in Txs : atBroker'[u] \subseteq 1..size[u]
  BY <1>1, ReachesTypes DEF SettleOne, TypeOK
<1>3. settled[t] \cup {i} \in SUBSET (1..BatchSize) /\ settled[t] \cup {i} \subseteq 1..size[t]
  BY <1>1 DEF TypeOK
<1>4. settled' \in [Txs -> SUBSET (1..BatchSize)] /\ \A u \in Txs : settled'[u] \subseteq 1..size[u]
  BY <1>1, <1>3 DEF TypeOK
<1>5. activeTx' \in 0..txs /\ rePolls' \in Nat
  BY DEF SettleOne, RePolls, TypeOK
<1>6. UNCHANGED <<active, stream, bulkSettled, txs, size, home, gets, covered, bulkCalls, leftCycle>>
  BY DEF SettleOne, history
<1> QED BY <1>2, <1>4, <1>5, <1>6 DEF TypeOK

LEMMA BulkTypes ==
  ASSUME TypeOK, NEW M, NEW settles \in BOOLEAN, NEW polls \in {0, 1}, Bulk(M, settles, polls),
         leftCycle' \in BOOLEAN
  PROVE  TypeOK'
<1>1. activeTx # 0 => M \cap ActiveMessages \subseteq 1..size[activeTx]
  BY DEF ActiveMessages
<1>2. atBroker' \in [Txs -> SUBSET (1..BatchSize)] /\ confirms' \in Nat /\ \A u \in Txs : atBroker'[u] \subseteq 1..size[u]
  BY <1>1, ReachesTypes DEF Bulk, TypeOK
<1>3. bulkCalls' \in 0..MaxBulk
  BY Bounds DEF Bulk, TypeOK
<1>4. rePolls' \in Nat
  BY DEF Bulk, RePolls, TypeOK
<1>5. CASE settles
  BY <1>2, <1>3, <1>4, <1>5 DEF Bulk, TypeOK, batches
<1>6. CASE ~settles
  BY <1>2, <1>3, <1>4, <1>6 DEF Bulk, TypeOK, batches
<1> QED BY <1>5, <1>6
LEMMA NextTypes ==
  ASSUME TypeOK, Places, [Next]_vars
  PROVE  TypeOK' /\ Places'
<1>1. CASE \E n \in 0..BatchSize : Batch(n)
  <2>1. PICK n \in 0..BatchSize : Batch(n)
    BY <1>1
  <2>2. TypeOK'
    BY <2>1, BatchTypes
  <2>3. txs \in Nat /\ txs + 1 \in Txs /\ txs' = txs + 1 /\ stream' = stream /\ stream \in 1..MaxStreams
    BY <2>1, Bounds DEF Batch, TypeOK, Txs, Streams
  <2>4. size' = [size EXCEPT ![txs + 1] = n] /\ home' = [home EXCEPT ![txs + 1] = stream]
    BY <2>1 DEF Batch
  <2>5. Places'
    BY <2>3, <2>4, Bounds DEF TypeOK, Places, Txs, Streams
  <2> QED BY <2>2, <2>5
<1>2. CASE \E t \in Txs, i \in 1..BatchSize : SettleOne(t, i)
  BY <1>2, SettleOneTypes DEF SettleOne, Places
<1>3. ASSUME NEW M, NEW settles \in BOOLEAN, NEW polls \in {0, 1}, Bulk(M, settles, polls), leftCycle' \in BOOLEAN
      PROVE  TypeOK' /\ Places'
  BY <1>3, BulkTypes DEF Bulk, batches, Places
<1>4. CASE SettleAll \/ NAckAll
  BY <1>3, <1>4 DEF SettleAll, NAckAll, TypeOK
<1>5. CASE \E M \in Ranges : AckRange(M) \/ ReQueueRange(M) \/ NAckRange(M)
  BY <1>3, <1>5 DEF AckRange, ReQueueRange, NAckRange, TypeOK
<1>6. CASE LateBatch \/ Confirmation \/ Refusal \/ ErrorResponse \/ StreamEnds \/ ClosedByServer \/ Close
  <2>1. UNCHANGED batches /\ UNCHANGED <<atBroker, stream, covered, bulkCalls, rePolls, bulkSettled>>
    BY <1>6 DEF LateBatch, Confirmation, Refusal, ErrorResponse, StreamEnds, ClosedByServer, Close, Confirmed,
                handle, batches, broker, history
  <2>2. active' \in BOOLEAN /\ leftCycle' \in BOOLEAN
    BY <1>6 DEF LateBatch, Confirmation, Refusal, ErrorResponse, StreamEnds, ClosedByServer, Close,
                handle, history, TypeOK
  <2>3. activeTx' \in {0, activeTx}
    BY <1>6 DEF LateBatch, Confirmation, Refusal, ErrorResponse, StreamEnds, ClosedByServer, Close, handle
  <2>4. gets' \in Nat /\ confirms' \in Nat
    BY <1>6 DEF LateBatch, Confirmation, Refusal, ErrorResponse, StreamEnds, ClosedByServer, Close, broker, TypeOK
  <2>5. activeTx' \in 0..txs
    BY <2>3 DEF TypeOK
  <2> QED BY <2>1, <2>2, <2>4, <2>5 DEF TypeOK, Places, batches
<1>7. CASE RePollTimer
  <2>1. gets' \in Nat /\ rePolls' \in Nat
    BY <1>7 DEF RePollTimer, TypeOK
  <2>2. UNCHANGED <<active, stream, activeTx, bulkSettled, batches, atBroker, confirms, history>>
    BY <1>7 DEF RePollTimer
  <2> QED BY <2>1, <2>2 DEF TypeOK, Places, batches, history
<1>8. CASE Resubscribe
  <2>1. stream' = stream + 1 /\ stream' \in Streams /\ activeTx' = 0 /\ gets' = 1 /\ confirms' = 0
    BY <1>8, Bounds DEF Resubscribe, TypeOK, Streams
  <2>2. UNCHANGED <<active, bulkSettled, rePolls, batches, atBroker, history>>
    BY <1>8 DEF Resubscribe
  <2>3. TypeOK'
    BY <2>1, <2>2 DEF TypeOK, batches, history
  <2>4. Places'
    BY <2>1, <2>2 DEF TypeOK, Places, batches, Streams
  <2> QED BY <2>3, <2>4
<1>9. CASE UNCHANGED vars
  BY <1>9 DEF vars, handle, batches, broker, history, TypeOK, Places
<1> QED BY <1>1, <1>2, <1>4, <1>5, <1>6, <1>7, <1>8, <1>9 DEF Next

-----------------------------------------------------------------------------
\* bulkSettled.

\* What a bulk call does to the flags and the history.
LEMMA NextCovers ==
  ASSUME TypeOK, BulkCovers, [Next]_vars
  PROVE  BulkCovers'
<1> USE DEF BulkCovers
<1>1. CASE \E n \in 0..BatchSize : Batch(n)
  BY <1>1 DEF Batch, history
<1>2. CASE \E t \in Txs, i \in 1..BatchSize : SettleOne(t, i)
  BY <1>2 DEF SettleOne, history
<1>3. ASSUME NEW M, NEW settles, NEW polls, Bulk(M, settles, polls)
      PROVE  BulkCovers'
  <2>1. bulkCalls' # 0 /\ txs' = txs
    BY <1>3 DEF Bulk, TypeOK, batches
  <2>2. CASE settles
    BY <1>3, <2>1, <2>2 DEF Bulk
  <2>3. CASE ~settles
    BY <1>3, <2>1, <2>3 DEF Bulk
  <2> QED BY <2>2, <2>3
<1>4. CASE SettleAll \/ NAckAll
  BY <1>3, <1>4 DEF SettleAll, NAckAll
<1>5. CASE \E M \in Ranges : AckRange(M) \/ ReQueueRange(M) \/ NAckRange(M)
  BY <1>3, <1>5 DEF AckRange, ReQueueRange, NAckRange
<1>6. CASE \/ LateBatch \/ Confirmation \/ Refusal \/ ErrorResponse \/ StreamEnds \/ ClosedByServer \/ Close
           \/ RePollTimer \/ Resubscribe \/ UNCHANGED vars
  BY <1>6 DEF LateBatch, Confirmation, Refusal, ErrorResponse, StreamEnds, ClosedByServer, Close, RePollTimer, Resubscribe,
              vars, handle, batches, history
<1> QED BY <1>1, <1>2, <1>4, <1>5, <1>6 DEF Next

-----------------------------------------------------------------------------
\* NeverStalls.

\* A settlement leaves its batch unfinished, or is the last of it and polls, or comes
\* when everything was settled in bulk and something else goes on.
LEMMA SettleOneGoesOn ==
  ASSUME TypeOK, Places, BulkCovers, NeverStalls, NEW t \in Txs, NEW i \in 1..BatchSize, SettleOne(t, i)
  PROVE  NeverStalls'
<1>1. UNCHANGED <<active, stream, bulkSettled, txs, size, home, gets, covered, leftCycle>>
  BY DEF SettleOne, history
<1>2. settled' = [settled EXCEPT ![t] = @ \cup {i}] /\ t \in 1..txs /\ settled \in [Txs -> SUBSET (1..BatchSize)]
  BY DEF SettleOne, TypeOK
<1>3. CASE ~bulkSettled /\ LastOf(t, i)
  <2>1. rePolls' = rePolls + 1
    BY <1>3 DEF SettleOne, RePolls
  <2> QED BY <2>1 DEF NeverStalls, TypeOK
<1>4. CASE bulkSettled
  <2>1. Unfinished = {}
    BY <1>4 DEF Unfinished, BulkCovers
  <2>2. rePolls' = rePolls
    BY <1>4 DEF SettleOne
  <2> QED BY <1>1, <2>1, <2>2 DEF NeverStalls
<1>5. CASE ~bulkSettled /\ ~LastOf(t, i)
  <2>1. rePolls' = rePolls
    BY <1>5 DEF SettleOne
  <2>2. ASSUME NEW u \in Unfinished PROVE u \in Unfinished'
    <3>1. u \in 1..txs /\ home[u] = stream /\ u \notin covered /\ settled[u] # 1..size[u]
      BY <2>2 DEF Unfinished
    <3>2. settled'[u] # 1..size[u]
      <4>1. CASE u = t
        BY <1>2, <1>5, <4>1 DEF LastOf
      <4>2. CASE u # t
        BY <1>2, <3>1, <4>2 DEF TypeOK, Txs
      <4> QED BY <4>1, <4>2
    <3> QED BY <1>1, <3>1, <3>2 DEF Unfinished
  <2> QED BY <1>1, <2>1, <2>2 DEF NeverStalls
<1> QED BY <1>3, <1>4, <1>5

LEMMA BatchGoesOn ==
  ASSUME TypeOK, Places, NEW n \in 0..BatchSize, Batch(n)
  PROVE  NeverStalls'
<1>1. CASE NeedsRePoll(n)
  <2>1. rePolls' = rePolls + 1
    BY <1>1 DEF Batch, RePolls
  <2> QED BY <2>1 DEF NeverStalls, TypeOK
<1>2. CASE ~NeedsRePoll(n)
  <2>1. n > 0
    BY <1>2 DEF NeedsRePoll
  <2>2. txs + 1 \in Txs /\ txs' = txs + 1 /\ txs \in Nat
    BY Bounds DEF Batch, TypeOK, Txs
  <2>3. size' = [size EXCEPT ![txs + 1] = n] /\ home' = [home EXCEPT ![txs + 1] = stream]
    BY DEF Batch
  <2>4. size'[txs + 1] = n /\ home'[txs + 1] = stream' /\ settled'[txs + 1] = settled[txs + 1]
    <3>1. stream' = stream /\ settled' = settled
      BY DEF Batch
    <3> QED BY <2>2, <2>3, <3>1 DEF TypeOK
  <2>5. settled[txs + 1] = {}
    BY <2>2 DEF TypeOK, Places
  <2>6. txs + 1 \notin covered'
    BY <2>2 DEF Batch, history, TypeOK
  <2>7. settled'[txs + 1] # 1..size'[txs + 1]
    <3>1. 1 \in 1..n
      BY <2>1
    <3> QED BY <2>5, <2>4, <3>1
  <2>8. txs + 1 \in Unfinished'
    BY <2>2, <2>6, <2>7, <2>4 DEF Unfinished
  <2> QED BY <2>8 DEF NeverStalls
<1> QED BY <1>1, <1>2

LEMMA NextNeverStalls ==
  ASSUME TypeOK, Places, BulkCovers, NeverStalls, [Next]_vars
  PROVE  NeverStalls'
<1>1. CASE \E n \in 0..BatchSize : Batch(n)
  BY <1>1, BatchGoesOn
<1>2. CASE \E t \in Txs, i \in 1..BatchSize : SettleOne(t, i)
  BY <1>2, SettleOneGoesOn
<1>3. ASSUME NEW M, NEW settles, Bulk(M, settles, 1)
      PROVE  NeverStalls'
  <2>1. rePolls' = rePolls + 1
    BY <1>3 DEF Bulk, RePolls
  <2> QED BY <2>1 DEF NeverStalls, TypeOK
<1>4. CASE SettleAll \/ NAckAll
  BY <1>3, <1>4 DEF SettleAll, NAckAll, NeverStalls
<1>5. CASE \E M \in Ranges : AckRange(M) \/ ReQueueRange(M) \/ NAckRange(M)
  BY <1>3, <1>5 DEF AckRange, ReQueueRange, NAckRange, NeverStalls
<1>6. CASE LateBatch \/ ErrorResponse \/ StreamEnds \/ ClosedByServer \/ Close
  BY <1>6 DEF LateBatch, ErrorResponse, StreamEnds, ClosedByServer, Close, handle, NeverStalls
<1>7. CASE RePollTimer
  <2>1. CASE active
    BY <1>7, <2>1 DEF RePollTimer, NeverStalls, TypeOK
  <2>2. CASE ~active
    BY <1>7, <2>2 DEF RePollTimer, NeverStalls
  <2> QED BY <2>1, <2>2
<1>8. CASE Resubscribe
  BY <1>8 DEF Resubscribe, NeverStalls
<1>9. CASE Confirmation \/ Refusal \/ UNCHANGED vars
  BY <1>9 DEF Confirmation, Confirmed, Refusal, vars, handle, batches, broker, history, NeverStalls, Unfinished
<1> QED BY <1>1, <1>2, <1>4, <1>5, <1>6, <1>7, <1>8, <1>9 DEF Next

-----------------------------------------------------------------------------
\* OneAtATime.

LEMMA BatchIsAlone ==
  ASSUME TypeOK, Places, OneStage, NEW n \in 0..BatchSize, Batch(n)
  PROVE  OneStage'
<1> SUFFICES ASSUME bulkCalls = 0, stream = 1
             PROVE  /\ rePolls' + gets' <= 1
                    /\ ~AutoAck => \A t \in Unfinished' : activeTx' = t /\ rePolls' + gets' = 0
  BY DEF OneStage, Batch, history
<1>1. active /\ gets > 0
  BY DEF Batch
<1>2. rePolls + gets <= 1
  BY <1>1 DEF OneStage
<1>3. gets' = 0 /\ rePolls = 0
  BY <1>1, <1>2 DEF Batch, TypeOK
<1>4. rePolls' = IF NeedsRePoll(n) THEN 1 ELSE 0
  BY <1>1, <1>3 DEF Batch, RePolls
<1>5. ASSUME ~AutoAck, NEW t \in Unfinished'
      PROVE  activeTx' = t /\ rePolls' + gets' = 0
  <2>1. Unfinished = {}
    BY <1>1, <1>5 DEF OneStage, TypeOK
  <2>2. txs \in Nat /\ txs + 1 \in Txs /\ txs' = txs + 1 /\ stream' = stream /\ covered' = covered /\ settled' = settled
    BY Bounds DEF Batch, history, TypeOK, Txs
  <2>3. size' = [size EXCEPT ![txs + 1] = n] /\ home' = [home EXCEPT ![txs + 1] = stream] /\ activeTx' = txs + 1
    BY DEF Batch
  <2>4. t \in 1..txs' /\ home'[t] = stream' /\ t \notin covered' /\ settled'[t] # 1..size'[t]
    BY <1>5 DEF Unfinished
  <2>5. CASE t = txs + 1
    <3>1. settled[t] = {} /\ size'[t] = n
      BY <2>2, <2>3, <2>5 DEF TypeOK, Places
    <3>2. n # 0
      BY <2>2, <2>4, <3>1
    <3>3. ~NeedsRePoll(n)
      BY <1>5, <3>2 DEF NeedsRePoll
    <3> QED BY <1>3, <1>4, <2>3, <2>5, <3>3
  <2>6. CASE t # txs + 1
    <3>1. t \in 1..txs /\ size'[t] = size[t] /\ home'[t] = home[t]
      BY <2>2, <2>3, <2>4, <2>6 DEF TypeOK, Txs
    <3>2. t \in Unfinished
      BY <2>2, <2>4, <3>1 DEF Unfinished
    <3> QED BY <2>1, <3>2
  <2> QED BY <2>5, <2>6
<1> QED BY <1>3, <1>4, <1>5

LEMMA SettleOneIsAlone ==
  ASSUME TypeOK, Places, BulkCovers, OneStage, NEW t \in Txs, NEW i \in 1..BatchSize, SettleOne(t, i)
  PROVE  OneStage'
<1> SUFFICES ASSUME active, bulkCalls = 0, stream = 1
             PROVE  /\ rePolls' + gets' <= 1
                    /\ ~AutoAck => \A u \in Unfinished' : activeTx' = u /\ rePolls' + gets' = 0
  BY DEF OneStage, SettleOne, history
<1>1. ~AutoAck /\ gets' = gets /\ UNCHANGED <<stream, txs, size, home, covered>>
  BY DEF SettleOne, history
<1>2. t \in 1..txs /\ i \in 1..size[t] /\ i \notin settled[t] /\ covered = {} /\ ~bulkSettled /\ home[t] = 1
  BY DEF SettleOne, BulkCovers, Places
<1>3. t \in Unfinished
  BY <1>2 DEF Unfinished
<1>4. rePolls = 0 /\ gets = 0 /\ \A u \in Unfinished : u = t
  BY <1>1, <1>3 DEF OneStage, TypeOK
<1>5. activeTx = t
  BY <1>1, <1>3 DEF OneStage
<1>6. settled' = [settled EXCEPT ![t] = @ \cup {i}] /\ settled \in [Txs -> SUBSET (1..BatchSize)]
  BY DEF SettleOne, TypeOK
<1>7. ASSUME NEW u \in Unfinished' PROVE u = t /\ settled'[t] # 1..size[t]
  <2>1. u \in 1..txs /\ home[u] = stream /\ u \notin covered /\ settled'[u] # 1..size[u]
    BY <1>1 DEF Unfinished
  <2>2. CASE u # t
    <3>1. settled'[u] = settled[u]
      BY <1>6, <2>2
    <3> QED BY <1>4, <2>1, <2>2, <3>1 DEF Unfinished
  <2> QED BY <2>1, <2>2
<1>8. CASE LastOf(t, i)
  <2>1. rePolls' = 1
    BY <1>2, <1>4, <1>8 DEF SettleOne, RePolls
  <2>2. settled'[t] = 1..size[t]
    BY <1>6, <1>8 DEF LastOf
  <2> QED BY <1>1, <1>4, <1>7, <2>1, <2>2
<1>9. CASE ~LastOf(t, i)
  <2>1. rePolls' = rePolls /\ activeTx' = activeTx
    BY <1>9 DEF SettleOne
  <2> QED BY <1>1, <1>4, <1>5, <1>7, <2>1
<1> QED BY <1>8, <1>9

LEMMA NextOneStage ==
  ASSUME TypeOK, Places, BulkCovers, OneStage, [Next]_vars
  PROVE  OneStage'
<1>1. CASE \E n \in 0..BatchSize : Batch(n)
  BY <1>1, BatchIsAlone
<1>2. CASE \E t \in Txs, i \in 1..BatchSize : SettleOne(t, i)
  BY <1>2, SettleOneIsAlone
<1>3. ASSUME NEW M, NEW settles, NEW polls, Bulk(M, settles, polls)
      PROVE  OneStage'
  BY <1>3 DEF Bulk, OneStage, TypeOK
<1>4. CASE SettleAll \/ NAckAll
  BY <1>3, <1>4 DEF SettleAll, NAckAll
<1>5. CASE \E M \in Ranges : AckRange(M) \/ ReQueueRange(M) \/ NAckRange(M)
  BY <1>3, <1>5 DEF AckRange, ReQueueRange, NAckRange
<1>6. CASE LateBatch \/ StreamEnds \/ ClosedByServer \/ Close
  BY <1>6 DEF LateBatch, StreamEnds, ClosedByServer, Close, handle, OneStage
<1>7. CASE ErrorResponse
  <2>1. UNCHANGED <<handle, batches, covered, bulkCalls>> /\ gets' = gets - 1 /\ gets > 0
    BY <1>7 DEF ErrorResponse
  <2>2. Unfinished' = Unfinished
    BY <2>1 DEF handle, batches, Unfinished
  <2> QED BY <2>1, <2>2 DEF handle, OneStage, TypeOK
<1>8. CASE RePollTimer
  <2>1. UNCHANGED <<active, stream, activeTx, batches, history>> /\ rePolls' = rePolls - 1
    BY <1>8 DEF RePollTimer
  <2>2. Unfinished' = Unfinished
    BY <2>1 DEF history, batches, Unfinished
  <2>3. ASSUME active PROVE rePolls' + gets' = rePolls + gets
    <3>1. gets' = gets + 1
      BY <1>8, <2>3 DEF RePollTimer
    <3> QED BY <2>1, <3>1 DEF TypeOK
  <2>4. ASSUME active, bulkCalls = 0, stream = 1
        PROVE  /\ rePolls' + gets' <= 1
               /\ ~AutoAck => \A t \in Unfinished : activeTx = t /\ rePolls' + gets' = 0
    BY <2>3, <2>4 DEF OneStage
  <2> QED BY <2>1, <2>2, <2>4 DEF history, OneStage
<1>9. CASE Resubscribe
  <2>1. stream' # 1
    BY <1>9 DEF Resubscribe, TypeOK, Streams
  <2> QED BY <2>1 DEF OneStage
<1>10. CASE Confirmation \/ Refusal \/ UNCHANGED vars
  BY <1>10 DEF Confirmation, Confirmed, Refusal, vars, handle, batches, broker, history, OneStage, Unfinished
<1> QED BY <1>1, <1>2, <1>4, <1>5, <1>6, <1>7, <1>8, <1>9, <1>10 DEF Next

LEMMA OneStageIsOneAtATime == TypeOK /\ OneStage => OneAtATime
<1> SUFFICES ASSUME TypeOK, OneStage, active, bulkCalls = 0, stream = 1
             PROVE  /\ rePolls + gets <= 1
                    /\ ~AutoAck => /\ Cardinality(Unfinished) + rePolls + gets <= 1
                                   /\ \A t \in Unfinished : activeTx = t
  BY DEF OneAtATime
<1>1. rePolls + gets <= 1
  BY DEF OneStage
<1>2. ASSUME ~AutoAck
      PROVE  /\ Cardinality(Unfinished) + rePolls + gets <= 1
             /\ \A t \in Unfinished : activeTx = t
  <2>1. \A t \in Unfinished : activeTx = t /\ rePolls + gets = 0
    BY <1>2 DEF OneStage
  <2>2. CASE Unfinished = {}
    <3>1. Cardinality(Unfinished) = 0
      BY <2>2, FS_EmptySet
    <3> QED BY <1>1, <2>1, <3>1 DEF TypeOK
  <2>3. CASE Unfinished # {}
    <3>1. Unfinished = {activeTx} /\ rePolls + gets = 0
      BY <2>1, <2>3
    <3>2. Cardinality(Unfinished) = 1
      BY <3>1, FS_Singleton
    <3> QED BY <2>1, <3>1, <3>2 DEF TypeOK
  <2> QED BY <2>2, <2>3
<1> QED BY <1>1, <1>2

-----------------------------------------------------------------------------
\* The handle alone.

LEMMA InitialInv == Init => DownstreamInv
<1> SUFFICES ASSUME Init PROVE DownstreamInv
  OBVIOUS
<1>1. TypeOK
  BY InitialTypes
<1>2. Places /\ BulkCovers
  BY DEF Init, Places, BulkCovers
<1>3. NeverStalls
  BY DEF Init, NeverStalls
<1>4. Unfinished = {} /\ rePolls + gets <= 1
  BY DEF Init, Unfinished
<1>5. OneStage
  BY <1>4 DEF OneStage
<1> QED BY <1>1, <1>2, <1>3, <1>5 DEF DownstreamInv

LEMMA NextInv == DownstreamInv /\ [Next]_vars => DownstreamInv'
BY NextTypes, NextCovers, NextNeverStalls, NextOneStage DEF DownstreamInv

\* Get -> Settle -> Get of a handle the application uses directly: while the handle is
\* active there is a message to settle, a re-poll or an outstanding Get, and on the
\* first stream, with nothing settled in bulk, exactly one of them.
THEOREM PollCycle == Spec => [](TypeOK /\ NeverStalls /\ OneAtATime)
<1>1. DownstreamInv => TypeOK /\ NeverStalls /\ OneAtATime
  BY OneStageIsOneAtATime DEF DownstreamInv
<1> QED BY <1>1, InitialInv, NextInv, PTL DEF Spec

-----------------------------------------------------------------------------
\* The same handle under consumeQueue().

\* Each step of the iterator is a step of its handle, or leaves it alone.
LEMMA ConsumerSteps ==
  ASSUME TypeOK, [ConsumerNext]_consumerVars
  PROVE  [Next]_vars
<1>1. ASSUME NEW t, NEW i \in 1..BatchSize, SettleOne(t, i) PROVE Next
  <2>1. t \in 1..txs
    BY <1>1 DEF SettleOne
  <2>2. t \in Txs
    BY <2>1, Bounds DEF TypeOK, Txs
  <2> QED BY <1>1, <2>2 DEF Next
<1>2. CASE Direct
  BY <1>2 DEF Direct
<1>3. CASE StreamStep
  BY <1>3 DEF StreamStep, Next
<1>4. CASE (\E i \in 1..BatchSize : SettleHeld(i)) \/ SettleBatch \/ SettleAndAsk
  BY <1>1, <1>4 DEF SettleHeld, SettleBatch, SettleAndAsk, Next
<1>5. CASE AskForNext \/ LeaveLoop \/ Finally
  BY <1>5 DEF AskForNext, LeaveLoop, Finally, Next
<1>6. CASE UNCHANGED consumerVars
  BY <1>6 DEF consumerVars
<1> QED BY <1>2, <1>3, <1>4, <1>5, <1>6 DEF ConsumerNext

\* A step of the handle under a generator that does not see it.
LEMMA SilentSteps ==
  ASSUME TypeOK, LoopInv, iterating,
         UNCHANGED <<iterating, loop, held, ended, outcome, dropped, early>>,
         txs' = txs, active' = active, stream' \in Nat, stream' = 1 => stream = 1,
         stream' = 1 /\ active => rePolls' + gets' = rePolls + gets
  PROVE  LoopInv'
<1>1. ConsumerTypeOK' /\ WaitsOnlyWhileActive' /\ GoneIsNoted' /\ DirectDropsNothing'
  BY DEF LoopInv, ConsumerTypeOK, WaitsOnlyWhileActive, GoneIsNoted, DirectDropsNothing
<1>2. PromptStage'
  BY DEF LoopInv, PromptStage
<1> QED BY <1>1, <1>2 DEF LoopInv

LEMMA DirectLoop ==
  ASSUME TypeOK, LoopInv, Direct
  PROVE  LoopInv'
<1>1. ~iterating /\ UNCHANGED <<iterating, loop, held, ended, outcome, dropped, early>> /\ dropped = {}
  BY DEF Direct, generator, LoopInv, DirectDropsNothing
<1>2. txs' \in {txs, txs + 1}
  <2>1. ASSUME NEW n, Batch(n) PROVE txs' = txs + 1
    BY <2>1 DEF Batch
  <2>2. ASSUME NEW t, NEW i, SettleOne(t, i) PROVE txs' = txs
    BY <2>2 DEF SettleOne
  <2>3. ASSUME NEW M, NEW settles, NEW polls, Bulk(M, settles, polls) PROVE txs' = txs
    BY <2>3 DEF Bulk, batches
  <2>4. CASE LateBatch \/ Confirmation \/ Refusal \/ ErrorResponse \/ StreamEnds \/ ClosedByServer \/ RePollTimer \/ Close
             \/ Resubscribe
    BY <2>4 DEF LateBatch, Confirmation, Refusal, ErrorResponse, StreamEnds, ClosedByServer, RePollTimer, Close,
                Resubscribe, batches
  <2>5. CASE SettleAll \/ NAckAll \/ \E M \in Ranges : AckRange(M) \/ ReQueueRange(M) \/ NAckRange(M)
    BY <2>3, <2>5 DEF SettleAll, NAckAll, AckRange, ReQueueRange, NAckRange
  <2> QED BY <2>1, <2>2, <2>4, <2>5 DEF Direct, Next
<1>3. held' \in 0..txs'
  BY <1>1, <1>2 DEF LoopInv, ConsumerTypeOK, TypeOK
<1>4. ConsumerTypeOK'
  BY <1>1, <1>3 DEF LoopInv, ConsumerTypeOK
<1>5. WaitsOnlyWhileActive' /\ GoneIsNoted' /\ DirectDropsNothing' /\ PromptStage'
  BY <1>1 DEF WaitsOnlyWhileActive, GoneIsNoted, DirectDropsNothing, PromptStage
<1> QED BY <1>4, <1>5 DEF LoopInv

LEMMA BatchLoop ==
  ASSUME TypeOK, LoopInv, iterating, UNCHANGED <<iterating, early>>,
         NEW n \in 0..BatchSize, Batch(n), OnMessages(n)
  PROVE  LoopInv'
<1>1. active /\ active' = active /\ stream' = stream /\ ended' = ended /\ outcome' = outcome
  BY DEF Batch, OnMessages, generator
<1>2. txs \in Nat /\ txs' = txs + 1 /\ gets > 0 /\ gets' = gets - 1
  BY DEF Batch, TypeOK
<1>3. rePolls' = rePolls + (IF NeedsRePoll(n) THEN 1 ELSE 0)
  BY <1>1 DEF Batch, RePolls
<1>4. loop' \in {"waiting", "working", "leaving", "ended"} /\ held' \in 0..txs' /\ dropped' \subseteq 1..txs'
  <2>1. loop \in {"waiting", "working", "leaving", "ended"} /\ held \in 0..txs /\ dropped \subseteq 1..txs
    BY DEF LoopInv, ConsumerTypeOK
  <2>2. loop' \in {loop, "working"} /\ held' \in {held, txs + 1} /\ dropped' \in {dropped, dropped \cup {txs + 1}}
    BY DEF OnMessages, SlotAfter, generator
  <2> QED BY <1>2, <2>1, <2>2
<1>5. ConsumerTypeOK'
  BY <1>1, <1>4 DEF LoopInv, ConsumerTypeOK
<1>6. WaitsOnlyWhileActive' /\ GoneIsNoted' /\ DirectDropsNothing'
  BY <1>1 DEF OnMessages, SlotAfter, generator, LoopInv, WaitsOnlyWhileActive, GoneIsNoted, DirectDropsNothing
<1>7. ASSUME ~AutoAck, ~early, ~ended, stream = 1
      PROVE  /\ dropped' = {} /\ rePolls' + gets' <= 1
             /\ loop' # "waiting" => rePolls' + gets' = 0
  <2>1. dropped = {} /\ rePolls + gets <= 1 /\ (loop # "waiting" => rePolls + gets = 0)
    BY <1>1, <1>7 DEF LoopInv, PromptStage
  <2>2. loop = "waiting" /\ gets' = 0 /\ rePolls = 0
    BY <1>2, <2>1 DEF TypeOK
  <2>4. CASE n = 0
    <3>1. rePolls' = 1 /\ loop' = "waiting" /\ dropped' = {}
      BY <1>3, <2>1, <2>2, <2>4 DEF NeedsRePoll, OnMessages, generator
    <3> QED BY <2>2, <3>1
  <2>5. CASE n # 0
    <3>1. ~NeedsRePoll(n)
      BY <1>7, <2>5 DEF NeedsRePoll
    <3>2. rePolls' = 0
      BY <1>3, <2>2, <3>1
    <3>3. dropped' = {}
      BY <2>1, <2>2, <2>5 DEF OnMessages
    <3> QED BY <2>2, <3>2, <3>3
  <2> QED BY <2>4, <2>5
<1>8. PromptStage'
  BY <1>1, <1>7 DEF PromptStage
<1> QED BY <1>5, <1>6, <1>8 DEF LoopInv

\* An error or the end of the stream, which a waiting loop leaves at once, and a loop that
\* works when it asks for the next batch.
LEMMA EndingLoop ==
  ASSUME TypeOK, LoopInv, iterating, UNCHANGED <<iterating, early>>,
         ErrorResponse \/ Refusal \/ StreamEnds \/ ClosedByServer, OnError \/ OnClose
  PROVE  LoopInv'
<1>1. ended' = TRUE /\ held' = held /\ dropped' = dropped /\ txs' = txs
  BY DEF OnError, OnClose, ErrorResponse, Refusal, StreamEnds, ClosedByServer, batches
<1>2. loop' = (IF loop = "waiting" THEN "leaving" ELSE loop) /\ outcome' \in {"done", "error", outcome}
  BY DEF OnError, OnClose
<1>3. ConsumerTypeOK'
  BY <1>1, <1>2 DEF LoopInv, ConsumerTypeOK
<1>4. WaitsOnlyWhileActive' /\ GoneIsNoted' /\ DirectDropsNothing' /\ PromptStage'
  BY <1>1, <1>2 DEF LoopInv, WaitsOnlyWhileActive, GoneIsNoted, DirectDropsNothing, PromptStage
<1> QED BY <1>3, <1>4 DEF LoopInv

LEMMA StreamStepLoop ==
  ASSUME TypeOK, LoopInv, StreamStep
  PROVE  LoopInv'
<1>1. iterating /\ UNCHANGED <<iterating, early>>
  BY DEF StreamStep
<1>2. CASE \E n \in 0..BatchSize : Batch(n) /\ OnMessages(n)
  BY <1>1, <1>2, BatchLoop
<1>3. CASE (ErrorResponse \/ Refusal \/ StreamEnds) /\ OnError
  <2>1. ErrorResponse \/ Refusal \/ StreamEnds \/ ClosedByServer
    BY <1>3
  <2> QED BY <1>1, <1>3, <2>1, EndingLoop
<1>4. CASE (StreamEnds \/ ClosedByServer) /\ OnClose
  BY <1>1, <1>4, EndingLoop
<1>5. CASE (LateBatch \/ Confirmation \/ RePollTimer \/ Resubscribe) /\ UNCHANGED <<generator, dropped>>
  <2>1. UNCHANGED <<iterating, loop, held, ended, outcome, dropped, early>>
    BY <1>1, <1>5 DEF generator
  <2>2. txs' = txs /\ active' = active
    BY <1>5 DEF LateBatch, Confirmation, RePollTimer, Resubscribe, handle, batches
  <2>3. stream' \in Nat /\ (stream' = 1 => stream = 1)
    <3>1. stream \in Nat /\ stream # 0
      BY Bounds DEF TypeOK, Streams
    <3>2. stream' \in {stream, stream + 1}
      BY <1>5 DEF LateBatch, Confirmation, RePollTimer, Resubscribe, handle
    <3> QED BY <3>1, <3>2
  <2>4. ASSUME stream' = 1, active PROVE rePolls' + gets' = rePolls + gets
    <3>1. CASE LateBatch \/ Resubscribe
      BY <2>4, <3>1 DEF LateBatch, Resubscribe, TypeOK, Streams
    <3>2. CASE Confirmation
      BY <3>2 DEF Confirmation, Confirmed
    <3>3. CASE RePollTimer
      <4>1. gets' = gets + 1 /\ rePolls' = rePolls - 1
        BY <2>4, <3>3 DEF RePollTimer
      <4> QED BY <4>1 DEF TypeOK
    <3> QED BY <1>5, <3>1, <3>2, <3>3
  <2> QED BY <1>1, <2>1, <2>2, <2>3, <2>4, SilentSteps
<1> QED BY <1>2, <1>3, <1>4, <1>5 DEF StreamStep

LEMMA OneInAll == \A a \in {0, 1}, b \in {0} : a + b <= 1
OBVIOUS

\* A call of the loop body.  What it leaves on its way to the next Get is what the
\* application was told to wait for, unless it goes on to work.
LEMMA SettlingLoop ==
  ASSUME TypeOK, LoopInv, iterating, loop = "working", active, active' = active, stream' = stream, txs' = txs,
         gets' = gets, UNCHANGED <<iterating, held, ended, dropped>>,
         \/ loop' = loop /\ outcome' = outcome /\ early' \in BOOLEAN /\ (~early' => ~early /\ rePolls' = rePolls)
         \/ Waits /\ early' = early /\ rePolls' \in {rePolls, rePolls + 1}
  PROVE  LoopInv'
<1>1. loop' \in {"waiting", "working", "leaving", "ended"} /\ outcome' \in {"none", "done", "error"} /\ early' \in BOOLEAN
  BY DEF Waits, LoopInv, ConsumerTypeOK
<1>2. ConsumerTypeOK'
  BY <1>1 DEF LoopInv, ConsumerTypeOK
<1>3. WaitsOnlyWhileActive' /\ GoneIsNoted' /\ DirectDropsNothing'
  BY DEF Waits, WaitsOnlyWhileActive, GoneIsNoted, DirectDropsNothing
<1>4. ASSUME ~AutoAck, ~early', ~ended, stream = 1
      PROVE  /\ dropped = {} /\ rePolls' + gets' <= 1
             /\ loop' # "waiting" => rePolls' + gets' = 0
  <2>1. ~early
    BY <1>4
  <2>2. dropped = {} /\ rePolls + gets = 0
    BY <1>4, <2>1 DEF LoopInv, PromptStage
  <2>3. rePolls = 0 /\ gets = 0
    BY <2>2 DEF TypeOK
  <2>4. CASE loop' = loop
    <3>1. rePolls' = rePolls
      BY <1>4, <2>2, <2>4 DEF Waits
    <3> QED BY <2>2, <2>3, <2>4, <3>1
  <2>5. CASE loop' # loop
    <3>1. loop' = "waiting" /\ rePolls' \in {rePolls, rePolls + 1}
      BY <1>4, <2>5 DEF Waits
    <3>2. rePolls' \in {0, 1} /\ gets' = 0
      BY <2>3, <3>1
    <3>3. rePolls' + gets' <= 1
      BY <3>2, OneInAll
    <3> QED BY <2>2, <3>1, <3>3
  <2> QED BY <2>4, <2>5
<1>5. PromptStage'
  BY <1>4 DEF PromptStage
<1> QED BY <1>2, <1>3, <1>5 DEF LoopInv

LEMMA LoopBody ==
  ASSUME TypeOK, LoopInv, (\E i \in 1..BatchSize : SettleHeld(i)) \/ SettleBatch \/ SettleAndAsk
  PROVE  LoopInv'
<1>1. ASSUME NEW i \in 1..BatchSize, SettleOne(held, i)
      PROVE  /\ active /\ active' = active /\ stream' = stream /\ txs' = txs /\ gets' = gets
             /\ rePolls' \in {rePolls, rePolls + 1}
  BY <1>1 DEF SettleOne, RePolls
<1>2. ASSUME NEW M, NEW settles, NEW polls \in {0, 1}, Bulk(M, settles, polls)
      PROVE  /\ active /\ active' = active /\ stream' = stream /\ txs' = txs /\ gets' = gets
             /\ rePolls' \in {rePolls, rePolls + 1}
  BY <1>2 DEF Bulk, RePolls, batches, TypeOK
<1>3. ASSUME SettleAll \/ NAckAll
      PROVE  /\ active /\ active' = active /\ stream' = stream /\ txs' = txs /\ gets' = gets
             /\ rePolls' \in {rePolls, rePolls + 1}
  BY <1>2, <1>3 DEF SettleAll, NAckAll
<1>4. ASSUME NoteEarly, rePolls' \in {rePolls, rePolls + 1}
      PROVE  early' \in BOOLEAN /\ (~early' => ~early /\ rePolls' = rePolls)
  <2>1. early \in BOOLEAN /\ early' = (early \/ rePolls' > rePolls)
    BY <1>4 DEF NoteEarly, LoopInv, ConsumerTypeOK
  <2>2. rePolls' > rePolls \/ rePolls' = rePolls
    BY <1>4 DEF TypeOK
  <2> QED BY <2>1, <2>2
<1>5. ASSUME NEW i \in 1..BatchSize, SettleHeld(i) PROVE LoopInv'
  <2>1. SettleOne(held, i) /\ NoteEarly /\ iterating /\ loop = "working"
    BY <1>5 DEF SettleHeld
  <2>2. UNCHANGED <<iterating, loop, held, ended, outcome, dropped>>
    BY <1>5 DEF SettleHeld, generator
  <2> QED BY <1>1, <1>4, <2>1, <2>2, SettlingLoop
<1>6. CASE SettleBatch
  <2>1. (SettleAll \/ NAckAll) /\ NoteEarly /\ iterating /\ loop = "working"
    BY <1>6 DEF SettleBatch
  <2>2. UNCHANGED <<iterating, loop, held, ended, outcome, dropped>>
    BY <1>6 DEF SettleBatch, generator
  <2> QED BY <1>3, <1>4, <2>1, <2>2, SettlingLoop
<1>7. CASE SettleAndAsk
  <2>1. UNCHANGED <<iterating, held, ended, dropped, early>> /\ Waits /\ iterating /\ loop = "working"
    BY <1>7 DEF SettleAndAsk
  <2>2. /\ active /\ active' = active /\ stream' = stream /\ txs' = txs /\ gets' = gets
        /\ rePolls' \in {rePolls, rePolls + 1}
    BY <1>1, <1>3, <1>7 DEF SettleAndAsk
  <2> QED BY <2>1, <2>2, SettlingLoop
<1> QED BY <1>5, <1>6, <1>7

LEMMA LoopEnds ==
  ASSUME TypeOK, LoopInv, LeaveLoop \/ Finally \/ AskForNext
  PROVE  LoopInv'
<1>1. CASE LeaveLoop
  <2>1. UNCHANGED <<vars, iterating, held, ended, dropped, early>> /\ loop = "working" /\ loop' = "leaving" /\ outcome' = "done"
    BY <1>1 DEF LeaveLoop
  <2>2. UNCHANGED <<txs, active, stream, rePolls, gets>>
    BY <2>1 DEF vars, handle, batches, broker
  <2>3. ConsumerTypeOK'
    BY <2>1, <2>2 DEF LoopInv, ConsumerTypeOK
  <2> QED BY <2>1, <2>2, <2>3 DEF LoopInv, WaitsOnlyWhileActive, GoneIsNoted, DirectDropsNothing, PromptStage
<1>2. CASE AskForNext
  <2>1. UNCHANGED <<vars, iterating, held, ended, dropped, early>> /\ loop = "working" /\ iterating /\ Waits
    BY <1>2 DEF AskForNext
  <2>2. UNCHANGED <<txs, active, stream, rePolls, gets>>
    BY <2>1 DEF vars, handle, batches, broker
  <2>3. loop' = (IF ended THEN "leaving" ELSE "waiting") /\ outcome' \in {outcome, "done"}
    BY <2>1 DEF Waits
  <2>4. ConsumerTypeOK'
    BY <2>1, <2>2, <2>3 DEF LoopInv, ConsumerTypeOK
  <2>5. WaitsOnlyWhileActive' /\ GoneIsNoted' /\ DirectDropsNothing'
    BY <2>1, <2>2, <2>3 DEF LoopInv, WaitsOnlyWhileActive, GoneIsNoted, DirectDropsNothing
  <2>6. PromptStage'
    BY <2>1, <2>2, <2>3 DEF LoopInv, PromptStage
  <2> QED BY <2>4, <2>5, <2>6 DEF LoopInv
<1>3. CASE Finally
  <2>1. UNCHANGED <<iterating, held, ended, outcome, dropped, early>> /\ loop' = "ended" /\ txs' = txs
    BY <1>3 DEF Finally, Close, vars, batches
  <2>2. ~active'
    BY <1>3 DEF Finally, Close, vars, handle
  <2>3. ConsumerTypeOK'
    BY <2>1 DEF LoopInv, ConsumerTypeOK
  <2>4. WaitsOnlyWhileActive' /\ GoneIsNoted' /\ DirectDropsNothing'
    BY <2>1 DEF LoopInv, WaitsOnlyWhileActive, GoneIsNoted, DirectDropsNothing
  <2>5. PromptStage'
    <3>1. stream' = stream
      BY <1>3 DEF Finally, Close, vars, handle
    <3> QED BY <2>1, <2>2, <3>1 DEF LoopInv, PromptStage
  <2> QED BY <2>3, <2>4, <2>5 DEF LoopInv
<1> QED BY <1>1, <1>2, <1>3

LEMMA ConsumerNextInv ==
  ASSUME TypeOK, LoopInv, [ConsumerNext]_consumerVars
  PROVE  LoopInv'
<1>1. CASE UNCHANGED consumerVars
  BY <1>1 DEF consumerVars, generator, vars, handle, batches, broker, LoopInv, ConsumerTypeOK, WaitsOnlyWhileActive,
              GoneIsNoted, PromptStage, DirectDropsNothing
<1> QED BY <1>1, DirectLoop, StreamStepLoop, LoopBody, LoopEnds DEF ConsumerNext

LEMMA ConsumerKeepsHandle == ConsumerSpec => []DownstreamInv
<1>1. ConsumerInit => DownstreamInv
  BY InitialInv DEF ConsumerInit
<1>2. DownstreamInv /\ [ConsumerNext]_consumerVars => DownstreamInv'
  BY ConsumerSteps, NextInv DEF DownstreamInv
<1> QED BY <1>1, <1>2, PTL DEF ConsumerSpec

\* A handle under consumeQueue(), or used directly, never stalls: while it is active
\* there is a message to settle, a re-poll scheduled or a Get to be answered.
THEOREM PollCycleUnderIterator == ConsumerSpec => []NeverStalls
<1>1. DownstreamInv => NeverStalls
  BY DEF DownstreamInv
<1> QED BY <1>1, ConsumerKeepsHandle, PTL

\* Nor does it ever have two Gets, re-polls or batches in progress on its first stream
\* while nothing is settled in bulk.
THEOREM OneCycleUnderIterator == ConsumerSpec => []OneAtATime
<1>1. DownstreamInv => OneAtATime
  BY OneStageIsOneAtATime DEF DownstreamInv
<1> QED BY <1>1, ConsumerKeepsHandle, PTL

\* However the stream ends, and whatever error comes on it, the loop of consumeQueue() is
\* not left waiting, and a loop that asks for the next batch as soon as it has settled the
\* present one gets every batch that comes before it is told of the error or the end.
THEOREM LoopsServed == ConsumerSpec => [](ConsumerTypeOK /\ LoopsAreServed)
<1>1. ConsumerInit => DownstreamInv /\ LoopInv
  <2> SUFFICES ASSUME ConsumerInit PROVE DownstreamInv /\ LoopInv
    OBVIOUS
  <2>1. DownstreamInv
    BY InitialInv DEF ConsumerInit
  <2>2. txs = 0 /\ active = TRUE /\ rePolls + gets <= 1
    BY DEF ConsumerInit, Init
  <2>3. ConsumerTypeOK
    <3>1. held \in 0..txs /\ dropped \subseteq 1..txs
      BY <2>2 DEF ConsumerInit
    <3>2. iterating \in BOOLEAN /\ ended \in BOOLEAN /\ early \in BOOLEAN
      BY DEF ConsumerInit
    <3>3. loop \in {"waiting", "working", "leaving", "ended"} /\ outcome \in {"none", "done", "error"}
      BY DEF ConsumerInit
    <3> QED BY <3>1, <3>2, <3>3 DEF ConsumerTypeOK
  <2>4. WaitsOnlyWhileActive /\ GoneIsNoted /\ DirectDropsNothing
    BY <2>2 DEF ConsumerInit, WaitsOnlyWhileActive, GoneIsNoted, DirectDropsNothing
  <2>5. dropped = {} /\ loop = "waiting"
    BY DEF ConsumerInit
  <2>6. PromptStage
    BY <2>2, <2>5 DEF PromptStage
  <2> QED BY <2>1, <2>3, <2>4, <2>6 DEF LoopInv
<1>2. DownstreamInv /\ LoopInv /\ [ConsumerNext]_consumerVars => (DownstreamInv /\ LoopInv)'
  BY ConsumerSteps, NextInv, ConsumerNextInv DEF DownstreamInv
<1>3. LoopInv => ConsumerTypeOK /\ LoopsAreServed
  BY DEF LoopInv, LoopsAreServed, PromptLoopsMissNothing, PromptStage, DirectDropsNothing
<1> QED BY <1>1, <1>2, <1>3, PTL DEF ConsumerSpec

=============================================================================

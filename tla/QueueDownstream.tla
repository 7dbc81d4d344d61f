-------------------------- MODULE QueueDownstream --------------------------
(***************************************************************************)
(* One streaming queue consumer: the QueueStreamHandle streamQueueMessages *)
(* returns, with its Get -> Settle -> Get loop over a bidi stream.         *)
(*                                                                         *)
(* The broker answers each Get with a batch of messages, empty when its    *)
(* wait is over, and opens a transaction for it.  A transaction is closed  *)
(* when each of its messages is settled.  Settlements are confirmed or     *)
(* refused on the stream, whether the handle is still active or not.       *)
(* Re-polls are setTimeout(0) timers, so that any call of the application  *)
(* may come between a settlement and the next Get.                         *)
(*                                                                         *)
(* The closures of a batch outlive it: the application may settle a        *)
(* message of an old batch while a newer one is active.                    *)
(***************************************************************************)
EXTENDS Integers, FiniteSets

CONSTANTS
  AutoAck,      \* opts.autoAck
  BatchSize,    \* opts.maxItems
  MaxTx,        \* bound: transactions the broker opens
  MaxStreams,   \* bound: streams opened, one and one for each resubscription
  MaxBulk       \* bound: calls of ackAll, nackAll, ... by the application

ASSUME DownstreamConstants ==
  /\ AutoAck \in BOOLEAN /\ BatchSize \in Nat \ {0}
  /\ MaxTx \in Nat /\ MaxStreams \in Nat \ {0} /\ MaxBulk \in Nat

Txs == 1..MaxTx

VARIABLES
  active,       \* active
  stream,       \* stream, numbered in the order of opening
  activeTx,     \* activeTransactionId, 0 for undefined
  bulkSettled,  \* bulkSettled
  rePolls,      \* setTimeout(0) re-polls that have not fired
  txs,          \* how many transactions the broker has opened
  size,         \* batchSize of each batch
  home,         \* the stream on which each batch was received
  settled,      \* messages of each batch settled by ack(), nack() or reQueue()
  atBroker,     \* messages of each transaction the broker was told are settled
  gets,         \* Gets on the current stream that are not answered
  confirms,     \* settlements on the current stream that are not answered
  covered,      \* history: batches received before the last ackAll, reQueueAll, ackRange
  bulkCalls,    \* how many bulk settlements were called
  leftCycle     \* history: nackAll, nackRange or an error response ended a poll cycle

handle == <<active, stream, activeTx, bulkSettled, rePolls>>
batches == <<txs, size, home, settled>>
broker == <<atBroker, gets, confirms>>
history == <<covered, bulkCalls, leftCycle>>
vars == <<handle, batches, broker, history>>

Streams == 1..MaxStreams

Init ==
  /\ active = TRUE /\ stream = 1 /\ activeTx = 0 /\ bulkSettled = FALSE /\ rePolls = 0
  /\ txs = 0 /\ size = [t \in Txs |-> 0] /\ home = [t \in Txs |-> 0]
  /\ settled = [t \in Txs |-> {}] /\ atBroker = [t \in Txs |-> {}]
  /\ gets = 1 /\ confirms = 0
  /\ covered = {} /\ bulkCalls = 0 /\ leftCycle = FALSE

\* Batches received on the current stream that still have unsettled messages.
Unfinished ==
  {t \in 1..txs : home[t] = stream /\ t \notin covered /\ settled[t] # 1..size[t]}

\* scheduleRePoll().
RePolls(n) == rePolls' = rePolls + (IF active THEN n ELSE 0)

\* A settlement of the messages M of transaction t is written on the current stream,
\* and will be answered.  A transaction of another stream, or none, means nothing to the
\* broker there.
Reaches(t, M) ==
  /\ confirms' = confirms + 1
  /\ IF t # 0 /\ home[t] = stream
     THEN atBroker' = [atBroker EXCEPT ![t] = @ \cup M]
     ELSE UNCHANGED atBroker

-----------------------------------------------------------------------------
\* onData.

\* Mutant: nothing follows an empty batch.
NeedsRePollMutant(n) == AutoAck

\* A batch nobody will settle is followed by a Get.
NeedsRePoll(n) == AutoAck \/ n = 0

\* The broker answers a Get with a batch of n messages.
Batch(n) ==
  /\ active /\ gets > 0 /\ txs < MaxTx
  /\ gets' = gets - 1
  /\ txs' = txs + 1
  /\ size' = [size EXCEPT ![txs + 1] = n]
  /\ home' = [home EXCEPT ![txs + 1] = stream]
  /\ atBroker' = [atBroker EXCEPT ![txs + 1] = IF AutoAck THEN 1..n ELSE {}]
  /\ activeTx' = txs + 1 /\ bulkSettled' = FALSE
  /\ RePolls(IF NeedsRePoll(n) THEN 1 ELSE 0)
  /\ UNCHANGED <<active, stream, settled, confirms, history>>

\* An inactive handle ignores a batch that still comes in.
LateBatch ==
  /\ ~active /\ gets > 0
  /\ gets' = gets - 1
  /\ UNCHANGED <<handle, batches, atBroker, confirms, history>>

\* Mutant: a confirmation is taken for an empty batch.
ConfirmedMutant == RePolls(1)

Confirmed == UNCHANGED rePolls

\* A settlement is confirmed: types 2 to 7 are not Get responses.
Confirmation ==
  /\ confirms > 0
  /\ confirms' = confirms - 1
  /\ Confirmed
  /\ UNCHANGED <<active, stream, activeTx, bulkSettled, batches, atBroker, gets, history>>

\* IsError is looked at before the type, on an inactive handle as on an active one:
\* errHandler is called and that is all, if a settlement is refused ...
Refusal ==
  /\ confirms > 0
  /\ confirms' = confirms - 1
  /\ UNCHANGED <<handle, batches, atBroker, gets, history>>

\* ... and if a Get is answered with an error, which no other Get follows.
ErrorResponse ==
  /\ gets > 0
  /\ gets' = gets - 1
  /\ leftCycle' = TRUE
  /\ UNCHANGED <<handle, batches, atBroker, confirms, covered, bulkCalls>>

\* The stream fails or ends: the handle is inactive from now on.
StreamEnds ==
  /\ active /\ active' = FALSE
  /\ UNCHANGED <<stream, activeTx, bulkSettled, rePolls, batches, broker, history>>

\* The broker closes the stream with a response of type 11, which is looked at first.
ClosedByServer ==
  /\ active' = FALSE /\ activeTx' = 0
  /\ UNCHANGED <<stream, bulkSettled, rePolls, batches, broker, history>>

-----------------------------------------------------------------------------
\* The application settles.

\* Mutant: the transaction is forgotten at the first settlement.
LastOfMutant(t, i) == TRUE

\* settledCount === batchSize.
LastOf(t, i) == settled[t] \cup {i} = 1..size[t]

\* ack(), nack() or reQueue() of message i of batch t.
SettleOne(t, i) ==
  /\ active /\ ~AutoAck
  /\ t \in 1..txs /\ i \in 1..size[t] /\ i \notin settled[t]
  /\ settled' = [settled EXCEPT ![t] = @ \cup {i}]
  /\ Reaches(t, {i})
  /\ IF ~bulkSettled /\ LastOf(t, i)
     THEN activeTx' = 0 /\ RePolls(1)
     ELSE UNCHANGED <<activeTx, rePolls>>
  /\ UNCHANGED <<active, stream, bulkSettled, txs, size, home, gets, history>>

\* Mutant: as many messages as were asked for.
ActiveMessagesMutant == IF activeTx = 0 THEN {} ELSE 1..BatchSize

ActiveMessages == IF activeTx = 0 THEN {} ELSE 1..size[activeTx]

\* A bulk call on the messages M of the active transaction: settles says whether it
\* is one of those that set bulkSettled, polls how many re-polls it schedules.  (An
\* inactive handle sets its flags too, but never looks at them again.)
Bulk(M, settles, polls) ==
  /\ active /\ bulkCalls < MaxBulk
  /\ bulkCalls' = bulkCalls + 1
  /\ Reaches(activeTx, M \cap ActiveMessages)
  /\ IF settles
     THEN bulkSettled' = TRUE /\ activeTx' = 0 /\ covered' = 1..txs
     ELSE UNCHANGED <<bulkSettled, activeTx, covered>>
  /\ RePolls(polls)
  /\ UNCHANGED <<active, stream, batches, gets>>

\* ackAll() and reQueueAll().
SettleAll == Bulk(ActiveMessages, TRUE, 1) /\ UNCHANGED leftCycle

\* The ranges take sequence numbers of any batch, whatever transaction is active.
Ranges == SUBSET UNION {1..size[t] : t \in 1..txs} \ {{}}

AckRange(M) == Bulk(M, TRUE, 1) /\ UNCHANGED leftCycle

ReQueueRange(M) == Bulk(M, FALSE, 1) /\ UNCHANGED leftCycle

\* nackAll() and nackRange() schedule nothing.
NAckAll == Bulk(ActiveMessages, FALSE, 0) /\ leftCycle' = TRUE

NAckRange(M) == Bulk(M, FALSE, 0) /\ leftCycle' = TRUE

-----------------------------------------------------------------------------
\* Timers, close() and the tracker.

\* A re-poll timer fires.
RePollTimer ==
  /\ rePolls > 0 /\ rePolls' = rePolls - 1
  /\ gets' = IF active THEN gets + 1 ELSE gets
  /\ UNCHANGED <<active, stream, activeTx, bulkSettled, batches, atBroker, confirms, history>>

\* close(): CloseByClient is written and the stream ended.
Close ==
  /\ active
  /\ active' = FALSE /\ activeTx' = 0
  /\ UNCHANGED <<stream, bulkSettled, rePolls, batches, broker, history>>

\* resubscribe(), after a reconnection.  Only an active handle gets a new stream:
\* one whose stream was opened on the new client before resubscribeAll() came.
\* The old stream loses its listeners and is not cancelled.
Resubscribe ==
  /\ active /\ stream < MaxStreams
  /\ stream' = stream + 1 /\ activeTx' = 0
  /\ gets' = 1 /\ confirms' = 0
  /\ UNCHANGED <<active, bulkSettled, rePolls, batches, atBroker, history>>

Next ==
  \/ \E n \in 0..BatchSize : Batch(n)
  \/ LateBatch \/ Confirmation \/ Refusal \/ ErrorResponse \/ StreamEnds \/ ClosedByServer
  \/ \E t \in Txs, i \in 1..BatchSize : SettleOne(t, i)
  \/ SettleAll \/ NAckAll
  \/ \E M \in Ranges : AckRange(M) \/ ReQueueRange(M) \/ NAckRange(M)
  \/ RePollTimer \/ Close \/ Resubscribe

Spec == Init /\ [][Next]_vars

-----------------------------------------------------------------------------
\* Every variable stays in its type.
TypeOK ==
  /\ active \in BOOLEAN /\ stream \in Streams /\ activeTx \in 0..txs /\ bulkSettled \in BOOLEAN
  /\ rePolls \in Nat /\ txs \in 0..MaxTx /\ size \in [Txs -> 0..BatchSize]
  /\ home \in [Txs -> 0..MaxStreams]
  /\ settled \in [Txs -> SUBSET (1..BatchSize)] /\ atBroker \in [Txs -> SUBSET (1..BatchSize)]
  /\ \A t \in Txs : settled[t] \subseteq 1..size[t] /\ atBroker[t] \subseteq 1..size[t]
  /\ gets \in Nat /\ confirms \in Nat
  /\ covered \subseteq 1..txs /\ bulkCalls \in 0..MaxBulk /\ leftCycle \in BOOLEAN

\* The consumer never stalls: an active handle has a message to settle, a re-poll
\* scheduled, or a Get the broker owes an answer.  (Not after nackAll, nackRange
\* or an error response, which leave the poll cycle for good.)
NeverStalls ==
  active /\ ~leftCycle => Unfinished # {} \/ rePolls > 0 \/ gets > 0

\* Get -> Settle -> Get: as long as nothing is settled in bulk and the stream is the
\* first, there is one re-poll or one Get at a time, and with manual acknowledgement one
\* batch, re-poll or Get, never two; that batch is the one the bulk calls would settle.
OneAtATime ==
  active /\ bulkCalls = 0 /\ stream = 1 =>
    /\ rePolls + gets <= 1
    /\ ~AutoAck => /\ Cardinality(Unfinished) + rePolls + gets <= 1
                   /\ \A t \in Unfinished : activeTx = t

-----------------------------------------------------------------------------
\* What comments and docs of the repository say and the code does not do.

OpenTxs ==
  {t \in 1..txs : home[t] = stream /\ atBroker[t] # 1..size[t]}

\* client.ts: "single active transaction at a time. ... Concurrent transactions are
\* not supported".  ackRange() of a part of a batch polls while the rest is open.
SingleTransaction == active => Cardinality(OpenTxs) <= 1
=============================================================================

---------------------------- MODULE BurninWorker ----------------------------
(***************************************************************************)
(* A channel of a burn-in run: a worker with its producers, the rate       *)
(* limiter they share, the broker, and the consumers' bookkeeping.         *)
(*                                                                         *)
(* A producer takes a token from the limiter, looks at the backlog, sends  *)
(* and awaits the send.  The broker delivers the copies of a message in    *)
(* any order; it may lose one, and deliver one again.  A message goes to   *)
(* one consumer (a queue, a consumer group) or, with events that have no   *)
(* group, to each of them; the worker counts what all of its consumers     *)
(* receive with one Tracker for each producer.                             *)
(*                                                                         *)
(* Time passes between any two steps.  The engine stops the producers      *)
(* first, lets the channel drain, and stops the consumers.                 *)
(***************************************************************************)
EXTENDS Integers, Sequences, FiniteSets, FiniteSetsExt, SequenceTracker

CONSTANTS
  Producers,    \* the producers of the channel
  Patterns,     \* patterns the channel may belong to, of events and of queues
  Copies,       \* how many consumers a message goes to
  Quota,        \* bound: how many messages each producer sends, a function
  MaxTokens,    \* bucket size of the limiter; 0 stands for a rate of 0, no limit
  MaxDepth,     \* queue.max_depth
  MaxFaults     \* bound: losses, repeated deliveries, failed sends and resets

ASSUME WorkerConstants ==
  /\ IsFiniteSet(Producers) /\ Copies \in Nat \ {0} /\ Quota \in [Producers -> Nat]
  /\ MaxTokens \in Nat /\ MaxDepth \in Nat /\ MaxFaults \in Nat

VARIABLES
  pattern,     \* BaseWorker.pattern
  pc,          \* where each producer is
  seq,         \* the last sequence number of each producer
  waitQueue,   \* RateLimiter.waitQueue
  tokens,      \* RateLimiter.tokens
  timer,       \* RateLimiter.timer is set
  aborted,     \* producerAbort, and the handles of the producers are closed
  consuming,   \* the subscriptions are there
  copies,      \* copies of each message on their way to the consumers
  trackers,    \* Tracker.producers
  sent,        \* BaseWorker.sent
  received,    \* BaseWorker.received
  errors,      \* BaseWorker.errors
  corrupted,   \* BaseWorker.corrupted
  faults,      \* bound: how many faults happened
  astray       \* history: a message was lost, passed over, or counted on one side of a reset

limiter == <<waitQueue, tokens, timer>>
producing == <<pc, seq>>
counters == <<trackers, sent, received, errors, corrupted>>
channel == <<copies, faults, astray>>
control == <<aborted, consuming, pattern>>
vars == <<limiter, producing, counters, channel, control>>

Numbers == 1 .. Max({Quota[p] : p \in Producers} \cup {1})

\* The fields of a worker nobody has started.
UnusedChannel ==
  /\ seq = [p \in Producers |-> 0]
  /\ waitQueue = <<>> /\ tokens = MaxTokens /\ timer = FALSE
  /\ copies = [p \in Producers |-> [n \in Numbers |-> 0]]
  /\ trackers = [p \in Producers |-> Fresh]
  /\ sent = 0 /\ received = 0 /\ errors = 0 /\ corrupted = 0
  /\ faults = 0 /\ astray = FALSE /\ pattern \in Patterns

Init ==
  /\ UnusedChannel
  /\ pc = [p \in Producers |-> "loop"]
  /\ aborted = FALSE /\ consuming = TRUE

At(p, from, to) == pc[p] = from /\ pc' = [pc EXCEPT ![p] = to]

-----------------------------------------------------------------------------
\* RateLimiter.

\* refill(): up to MaxTokens, by what the time that has passed is worth.
Refilled(n) == Min({tokens + n, MaxTokens})

\* wait() finds a token, or the rate is 0.
TakeToken(p) ==
  /\ ~aborted /\ At(p, "loop", "check")
  /\ \E n \in 0..1 :
       /\ MaxTokens = 0 \/ Refilled(n) > 0
       /\ tokens' = Max({Refilled(n) - 1, 0})
  /\ UNCHANGED <<waitQueue, timer, seq, counters, channel, control>>

\* wait() queues the producer; ensureTimer().
QueueUp(p) ==
  /\ ~aborted /\ MaxTokens > 0 /\ tokens = 0 /\ At(p, "loop", "queued")
  /\ waitQueue' = Append(waitQueue, p)
  /\ timer' = TRUE
  /\ UNCHANGED <<tokens, seq, counters, channel, control>>

\* Mutant: the timer is cleared whenever it has served somebody.
KeepTimerMutant(n) == n = 0

\* The timer runs as long as somebody waits.
KeepTimer(n) == n < Len(waitQueue)

\* The timer refills and serves the waiters in order.
Tick ==
  /\ timer
  /\ \E n \in 0..MaxTokens :
       LET have == Refilled(n)
           served == Min({have, Len(waitQueue)})
       IN /\ tokens' = have - served
          /\ pc' = [p \in Producers |->
                      IF \E i \in 1..served : waitQueue[i] = p THEN "check" ELSE pc[p]]
          /\ waitQueue' = SubSeq(waitQueue, served + 1, Len(waitQueue))
          /\ timer' = KeepTimer(served)
  /\ UNCHANGED <<seq, counters, channel, control>>

-----------------------------------------------------------------------------
\* runProducer().

Lag == sent - received

\* backpressureCheck() says the backlog is too long: delay(100), and again.  (A producer
\* that has used its quota idles in the same way.)
HoldBack(p) ==
  /\ Lag > MaxDepth \/ seq[p] = Quota[p]
  /\ At(p, "check", "loop")
  /\ UNCHANGED <<limiter, seq, counters, channel, control>>

\* stopProducers() has closed the handle.  queue_simple sends by the client.
HandleClosed == aborted /\ pattern # "queue_simple"

\* The next message is made, and goes to the client; the broker takes it at any time
\* before it hands out a copy.
StartSend(p) ==
  /\ ~HandleClosed
  /\ Lag <= MaxDepth /\ seq[p] < Quota[p] /\ At(p, "check", "sending")
  /\ seq' = [seq EXCEPT ![p] = @ + 1]
  /\ copies' = [copies EXCEPT ![p][seq'[p]] = Copies]
  /\ UNCHANGED <<limiter, counters, faults, astray, control>>

\* A producer that had its token when the handle was closed.
SendOnClosed(p) ==
  /\ HandleClosed
  /\ Lag <= MaxDepth /\ seq[p] < Quota[p] /\ At(p, "check", "loop")
  /\ seq' = [seq EXCEPT ![p] = @ + 1]
  /\ errors' = errors + 1
  /\ UNCHANGED <<limiter, trackers, sent, received, corrupted, channel, control>>

\* The send resolves: recordSend().
SendResolves(p) ==
  /\ At(p, "sending", "loop")
  /\ sent' = sent + 1
  /\ UNCHANGED <<limiter, seq, trackers, received, errors, corrupted, channel, control>>

\* The send fails, though the broker may have the message: recordError(), delay(200).
\* stopProducers() may have closed the handle under it.
SendFails(p) ==
  /\ HandleClosed \/ faults < MaxFaults
  /\ At(p, "sending", "loop")
  /\ faults' = IF HandleClosed THEN faults ELSE faults + 1
  /\ errors' = errors + 1
  /\ UNCHANGED <<limiter, seq, trackers, sent, received, corrupted, copies, astray, control>>

\* The loop ends, at its head or because wait() says so.
Finish(p) ==
  /\ aborted /\ At(p, "loop", "ended")
  /\ UNCHANGED <<limiter, seq, counters, channel, control>>

-----------------------------------------------------------------------------
\* The broker and the consumers.

\* Mutant: each copy is counted.
CountsMutant(p, n) == TRUE

\* Only non-duplicate deliveries are counted.
Counts(p, n) == ~IsDuplicate(trackers[p], n)

\* recordReceive() of message n of producer p.
RecordReceive(p, n) ==
  /\ trackers' = [trackers EXCEPT ![p] = Record(@, n)]
  /\ received' = received + (IF Counts(p, n) THEN 1 ELSE 0)
  /\ astray' = (astray \/ (IsDuplicate(trackers[p], n) /\ n \notin trackers[p].accepted))
  /\ UNCHANGED <<sent, errors, corrupted>>

Deliver(p, n) ==
  /\ consuming /\ copies[p][n] > 0
  /\ copies' = [copies EXCEPT ![p][n] = @ - 1]
  /\ RecordReceive(p, n)
  /\ UNCHANGED <<limiter, producing, faults, control>>

\* A message is delivered, and will be again.
DeliverAgain(p, n) ==
  /\ consuming /\ copies[p][n] > 0 /\ faults < MaxFaults
  /\ faults' = faults + 1
  /\ RecordReceive(p, n)
  /\ UNCHANGED <<limiter, producing, copies, control>>

\* A copy comes damaged: it cannot be decoded, or its checksum, which is looked at once in
\* a hundred messages, is wrong.  The tracker hears nothing of it.
DeliverDamaged(p, n) ==
  /\ consuming /\ copies[p][n] > 0 /\ faults < MaxFaults
  /\ copies' = [copies EXCEPT ![p][n] = @ - 1]
  /\ faults' = faults + 1 /\ astray' = TRUE
  /\ \/ errors' = errors + 1 /\ UNCHANGED corrupted
     \/ corrupted' = corrupted + 1 /\ UNCHANGED errors
  /\ UNCHANGED <<limiter, producing, trackers, sent, received, control>>

LoseCopy(p, n) ==
  /\ copies[p][n] > 0 /\ faults < MaxFaults
  /\ copies' = [copies EXCEPT ![p][n] = @ - 1]
  /\ faults' = faults + 1 /\ astray' = TRUE
  /\ UNCHANGED <<limiter, producing, counters, control>>

\* The subscription, the stream or the poll fails, and comes back: an error.
ConsumerFails ==
  /\ consuming /\ faults < MaxFaults
  /\ faults' = faults + 1 /\ errors' = errors + 1
  /\ UNCHANGED <<limiter, producing, trackers, sent, received, corrupted, copies, astray, control>>

\* What may happen to the messages of the consumers of each pattern.  Events come once.
EventConsumers(p, n) == pattern = "events" /\ (Deliver(p, n) \/ DeliverDamaged(p, n))

StoreConsumers(p, n) == pattern = "events_store" /\ (Deliver(p, n) \/ DeliverDamaged(p, n))

\* A batch is recorded before ackAll(), which may come too late.
StreamConsumers(p, n) ==
  /\ pattern = "queue_stream"
  /\ Deliver(p, n) \/ DeliverDamaged(p, n) \/ DeliverAgain(p, n)

\* Messages are acknowledged as they are polled; one that was sent twice comes twice.
PollConsumers(p, n) ==
  /\ pattern = "queue_simple"
  /\ Deliver(p, n) \/ DeliverDamaged(p, n) \/ DeliverAgain(p, n)

Consumes(p, n) ==
  EventConsumers(p, n) \/ StoreConsumers(p, n) \/ StreamConsumers(p, n) \/ PollConsumers(p, n)

-----------------------------------------------------------------------------
\* The engine.

\* resetAfterWarmup() at the end of the warm-up period, with messages in flight.
ResetAfterWarmup ==
  /\ ~aborted /\ faults < MaxFaults /\ faults' = faults + 1
  /\ sent' = 0 /\ received' = 0 /\ errors' = 0 /\ corrupted' = 0
  /\ trackers' = [p \in Producers |-> Fresh]
  /\ astray' = (astray \/ \E p \in Producers : pc[p] = "sending")
  /\ UNCHANGED <<limiter, producing, copies, control>>

\* Mutant: those that wait for a token are forgotten.
ReleasedMutant(p) == FALSE

\* The abort signal resolves the wait() of a producer with false.
Released(p) == \E i \in 1..Len(waitQueue) : waitQueue[i] = p

\* stopProducers(): the handles are closed and the signal is aborted, which ends the
\* waits for a token.
StopProducers ==
  /\ ~aborted /\ aborted' = TRUE
  /\ pc' = [p \in Producers |-> IF Released(p) THEN "ended" ELSE pc[p]]
  /\ waitQueue' = <<>>
  /\ UNCHANGED <<tokens, timer, seq, counters, channel, consuming, pattern>>

\* After the drain time.
StopConsumers ==
  /\ aborted /\ consuming /\ consuming' = FALSE
  /\ UNCHANGED <<limiter, producing, counters, channel, aborted, pattern>>

\* What producer p does by itself.
Goes(p) ==
  \/ TakeToken(p) \/ QueueUp(p) \/ HoldBack(p)
  \/ StartSend(p) \/ SendOnClosed(p) \/ SendResolves(p) \/ Finish(p)

Delivers == \E p \in Producers, n \in Numbers : Deliver(p, n)

Works ==
  \/ Tick
  \/ \E p \in Producers : Goes(p) \/ SendFails(p)
  \/ ConsumerFails
  \/ \E p \in Producers, n \in Numbers : Consumes(p, n) \/ LoseCopy(p, n)
  \/ ResetAfterWarmup \/ StopConsumers

Next == Works \/ StopProducers

Spec == Init /\ [][Next]_vars

\* Timers fire and bring tokens in the long run, a send settles, the broker delivers.
Fairness ==
  /\ WF_vars(Tick /\ (tokens' > tokens \/ pc' # pc))
  /\ \A p \in Producers : WF_vars(Goes(p))
  /\ WF_vars(Delivers)

FairSpec == Spec /\ Fairness

-----------------------------------------------------------------------------
\* Every variable stays in its type.
TypeOK ==
  /\ pc \in [Producers -> {"none", "loop", "queued", "check", "sending", "ended"}]
  /\ seq \in [Producers -> Nat] /\ \A p \in Producers : seq[p] <= Quota[p]
  /\ waitQueue \in Seq(Producers) /\ tokens \in 0..MaxTokens
  /\ timer \in BOOLEAN /\ aborted \in BOOLEAN /\ consuming \in BOOLEAN
  /\ \A p \in Producers, n \in Numbers : copies[p][n] \in 0..Copies
  /\ sent \in Nat /\ received \in Nat /\ errors \in Nat /\ corrupted \in Nat

\* What each tracker has counted adds up, whatever the broker does, and `received' is
\* what the trackers took for no duplicates: `sent - received' counts no message twice.
CountsAddUp ==
  /\ TypeOK
  /\ \A p \in Producers : TrackerAddsUp(trackers[p])
  /\ received = MapThenSumSet(LAMBDA p : trackers[p].received - trackers[p].duplicates, Producers)

\* Whoever waits for a token gets one in its turn, or is told to stop; a backlog goes away
\* as long as nothing goes astray and the consumers are there.
ProducersGoOn ==
  /\ \A p \in Producers : pc[p] = "queued" ~> pc[p] \in {"check", "ended"}
  /\ Lag > MaxDepth ~> Lag <= MaxDepth \/ astray \/ ~consuming

\* After stopProducers() every producer ends.
WorkersEnd == aborted ~> \A p \in Producers : pc[p] = "ended"

-----------------------------------------------------------------------------
\* What a doc of the repository says and the code does not do.

\* PLAN-REVIEW-FIXES.md: "Fan-out (default): each consumer independent".  The report's
\* own check wants one delivery for each message and consumer.
FanoutIsCountedByConsumer ==
  /\ faults = 0 /\ ~astray
  /\ \A p \in Producers : pc[p] \in {"loop", "ended"}
  /\ \A p \in Producers, n \in Numbers : copies[p][n] = 0
  => received = sent * Copies
=============================================================================

------------------------ MODULE CallbackDispatcher ------------------------
(***************************************************************************)
(* One subscription's CallbackDispatcher with its AsyncSemaphore, and the  *)
(* server stream it throttles.  Messages are numbered as the stream        *)
(* delivers them.                                                          *)
(*                                                                         *)
(* A dispatched message takes a permit at once (granted) or waits          *)
(* (waiters).  Its handler begins in a later microtask (running), and when *)
(* it has returned or thrown the permit is released at once, while         *)
(* the bookkeeping of dispatch() runs in a further microtask (settling).   *)
(* grpc-js emits 'data' from a promise continuation of its own, so a       *)
(* message may arrive between any two of these microtasks.  Handlers of    *)
(* commands and queries are awaited and may run for as long as they like;  *)
(* those of events are not awaited and end with their first microtask,     *)
(* which is one of the behaviours below.                                   *)
(***************************************************************************)
EXTENDS Integers, Sequences, FiniteSets

CONSTANTS
  MaxConcurrent,    \* opts.maxConcurrentCallbacks, 20 by default
  MaxQueueDepth,    \* opts.maxQueueDepth, 1000 by default
  DropOnHighWater,  \* opts.dropOnHighWater
  MaxMessages,      \* bound: messages the server sends
  MaxResubscribes   \* bound: how often the stream is replaced

ASSUME DispatcherConstants ==
  /\ MaxConcurrent \in Nat \ {0}     \* the constructor throws otherwise
  /\ MaxQueueDepth \in Nat
  /\ DropOnHighWater \in BOOLEAN
  /\ MaxMessages \in Nat /\ MaxResubscribes \in Nat

Messages == 1..MaxMessages

VARIABLES
  permits,       \* AsyncSemaphore.permits
  waiters,       \* AsyncSemaphore.waiters, the messages they run for
  granted,       \* messages with a permit whose handler has not begun
  running,       \* messages whose handler is running
  settling,      \* messages whose handler is over, before `active--`
  active,        \* CallbackDispatcher.active
  highWater,     \* CallbackDispatcher._paused
  closed,        \* CallbackDispatcher._closed
  drain,         \* the promise of drain(): "none", "waiting", "resolved"
  streamPaused,  \* the current gRPC stream is paused
  received,      \* how many messages the stream delivered
  resubscribes,  \* how often the stream was replaced
  began          \* history: messages in the order their handlers began

semaphore == <<permits, waiters>>
vars == <<semaphore, granted, running, settling, active, highWater, closed, drain,
          streamPaused, received, resubscribes, began>>

Init ==
  /\ permits = MaxConcurrent /\ waiters = <<>>
  /\ granted = <<>> /\ running = {} /\ settling = <<>> /\ active = 0
  /\ highWater = FALSE /\ closed = FALSE /\ drain = "none"
  /\ streamPaused = FALSE /\ received = 0 /\ resubscribes = 0 /\ began = <<>>

-----------------------------------------------------------------------------
\* AsyncSemaphore.

\* Mutant: a permit is taken without looking whether there is one.
AcquireBlindMutant(m) ==
  /\ permits' = permits - 1
  /\ granted' = Append(granted, m)
  /\ UNCHANGED waiters

Acquire(m) ==
  \/ /\ permits > 0
     /\ permits' = permits - 1
     /\ granted' = Append(granted, m)
     /\ UNCHANGED waiters
  \/ /\ permits = 0
     /\ waiters' = Append(waiters, m)
     /\ UNCHANGED <<permits, granted>>

\* Mutant: the woken waiter takes a permit that was not given back.
ReleaseMutant ==
  \/ /\ waiters # <<>>
     /\ granted' = Append(granted, Head(waiters))
     /\ waiters' = Tail(waiters)
     /\ permits' = permits + 1
  \/ /\ waiters = <<>>
     /\ permits' = permits + 1
     /\ UNCHANGED <<waiters, granted>>

\* Mutant: the newest waiter is woken.
ReleaseNewestMutant ==
  \/ /\ waiters # <<>>
     /\ granted' = Append(granted, waiters[Len(waiters)])
     /\ waiters' = SubSeq(waiters, 1, Len(waiters) - 1)
     /\ UNCHANGED permits
  \/ /\ waiters = <<>>
     /\ permits' = permits + 1
     /\ UNCHANGED <<waiters, granted>>

\* Mutant: the permit goes back although somebody waits for it.
ReleaseNoHandOffMutant ==
  /\ permits' = permits + 1
  /\ UNCHANGED <<waiters, granted>>

\* release(): the permit goes to the oldest waiter or back to the pool.
Release ==
  \/ /\ waiters # <<>>
     /\ granted' = Append(granted, Head(waiters))
     /\ waiters' = Tail(waiters)
     /\ UNCHANGED permits
  \/ /\ waiters = <<>>
     /\ permits' = permits + 1
     /\ UNCHANGED <<waiters, granted>>

-----------------------------------------------------------------------------
\* CallbackDispatcher.

AtHighWater == Len(waiters) >= MaxQueueDepth

\* Mutant: the mark is looked for at one length only.
BelowLowWaterMutant == 2 * Len(waiters) = MaxQueueDepth

BelowLowWater == 2 * Len(waiters) < MaxQueueDepth

NoteHighWater ==
  IF AtHighWater /\ ~highWater
  THEN highWater' = TRUE /\ streamPaused' = TRUE
  ELSE UNCHANGED <<highWater, streamPaused>>

Drops == DropOnHighWater /\ AtHighWater

\* dispatch().
Dispatch(m) ==
  \/ /\ closed \/ Drops
     /\ UNCHANGED <<semaphore, granted, active, highWater, streamPaused>>
  \/ /\ ~closed /\ ~Drops
     /\ NoteHighWater
     /\ active' = active + 1
     /\ Acquire(m)

\* 'data' on the current stream.
Receive ==
  /\ ~streamPaused /\ received < MaxMessages
  /\ received' = received + 1
  /\ Dispatch(received + 1)
  /\ UNCHANGED <<running, settling, closed, drain, resubscribes, began>>

\* The microtask after acquire(): the handler begins.
Begin ==
  /\ granted # <<>>
  /\ granted' = Tail(granted)
  /\ running' = running \cup {Head(granted)}
  /\ began' = Append(began, Head(granted))
  /\ UNCHANGED <<semaphore, settling, active, highWater, closed, drain, streamPaused,
                 received, resubscribes>>

\* The handler returns or throws; semaphore.run releases in its finally.
End(m) ==
  /\ m \in running
  /\ running' = running \ {m}
  /\ Release
  /\ settling' = Append(settling, m)
  /\ UNCHANGED <<active, highWater, closed, drain, streamPaused, received, resubscribes,
                 began>>

\* Mutant: drain() is told about the first callback that ends.
ResolveDrainMutant(left) == drain' = IF drain = "waiting" THEN "resolved" ELSE drain

ResolveDrain(left) == drain' = IF left = 0 /\ drain = "waiting" THEN "resolved" ELSE drain

\* The finally block of dispatch(): active--, low water mark, drain resolvers.
Settle ==
  /\ settling # <<>>
  /\ settling' = Tail(settling)
  /\ active' = active - 1
  /\ IF highWater /\ BelowLowWater
     THEN highWater' = FALSE /\ streamPaused' = FALSE
     ELSE UNCHANGED <<highWater, streamPaused>>
  /\ ResolveDrain(active - 1)
  /\ UNCHANGED <<semaphore, granted, running, closed, received, resubscribes, began>>

\* drain(): resolves at once when nothing is active.
CallDrain ==
  /\ drain = "none"
  /\ drain' = IF active = 0 THEN "resolved" ELSE "waiting"
  /\ UNCHANGED <<semaphore, granted, running, settling, active, highWater, closed,
                 streamPaused, received, resubscribes, began>>

\* close(): by cancel() of the subscription or by close() of the client.
Close ==
  /\ ~closed
  /\ closed' = TRUE
  /\ drain' = IF drain = "waiting" THEN "resolved" ELSE drain
  /\ UNCHANGED <<semaphore, granted, running, settling, active, highWater, streamPaused,
                 received, resubscribes, began>>

\* resubscribe() of the subscription: currentStream is a new stream, which flows.
Resubscribe ==
  /\ ~closed /\ resubscribes < MaxResubscribes
  /\ resubscribes' = resubscribes + 1
  /\ streamPaused' = FALSE
  /\ UNCHANGED <<semaphore, granted, running, settling, active, highWater, closed, drain,
                 received, began>>

Next ==
  \/ Receive
  \/ Begin
  \/ \E m \in Messages : End(m)
  \/ Settle
  \/ CallDrain
  \/ Close
  \/ Resubscribe

Spec == Init /\ [][Next]_vars

\* Microtasks run, and every handler returns eventually.
Fairness ==
  /\ WF_vars(Begin) /\ WF_vars(Settle)
  /\ \A m \in Messages : WF_vars(End(m))

FairSpec == Spec /\ Fairness

-----------------------------------------------------------------------------
\* Every variable stays in its type.
TypeOK ==
  /\ permits \in Nat /\ active \in Int
  /\ waiters \in Seq(Messages) /\ granted \in Seq(Messages)
  /\ settling \in Seq(Messages) /\ began \in Seq(Messages)
  /\ running \subseteq Messages
  /\ highWater \in BOOLEAN /\ closed \in BOOLEAN /\ streamPaused \in BOOLEAN
  /\ drain \in {"none", "waiting", "resolved"}
  /\ received \in 0..MaxMessages /\ resubscribes \in 0..MaxResubscribes

\* A permit is in the pool, with a message about to run, or with a running
\* handler: none is lost or forged by the hand-off in release().
PermitsConserved == permits + Len(granted) + Cardinality(running) = MaxConcurrent

\* What PermitsConserved is for: at most maxConcurrentCallbacks handlers run at a time.
ConcurrencyBounded == Cardinality(running) <= MaxConcurrent

\* Nobody waits while a permit is free.
NoIdlePermit == waiters # <<>> => permits = 0

\* `active` counts every message that was dispatched and is not over, so drain()
\* cannot resolve between dispatch() and the start of the handler (CRIT-R2).
ActiveCounted ==
  active = Len(waiters) + Len(granted) + Cardinality(running) + Len(settling)

\* The semaphore keeps the order of delivery, whatever the concurrency: what has
\* begun came before what may begin, and that before what waits.
Increasing(s) == \A i, j \in 1..Len(s) : i < j => s[i] < s[j]
UpTo(s, n) == \A i \in 1..Len(s) : s[i] <= n
Before(s, t) == \A i \in 1..Len(s), j \in 1..Len(t) : s[i] < t[j]

DeliveryOrder ==
  /\ Increasing(began) /\ Increasing(granted) /\ Increasing(waiters)
  /\ Before(began, granted) /\ Before(granted, waiters) /\ Before(began, waiters)
  /\ UpTo(began, received) /\ UpTo(granted, received) /\ UpTo(waiters, received)
  /\ \A m \in running : \E i \in 1..Len(began) : began[i] = m

\* A paused stream is one the dispatcher knows to be paused, and as long as it
\* does, a callback is outstanding whose end will look at the low water mark.
PausedHasResumer ==
  /\ streamPaused => highWater
  /\ highWater /\ MaxQueueDepth > 0 => active > 0

\* As long as the stream is not replaced, backpressure keeps the queue at the depth
\* plus the message that hit the mark.
QueueBounded == resubscribes = 0 => Len(waiters) <= MaxQueueDepth + 1

\* With dropOnHighWater the queue stays at the depth and the stream is never paused.
DropBoundsQueue == DropOnHighWater => Len(waiters) <= MaxQueueDepth /\ ~streamPaused

\* drain() resolves when every callback is over, or by close().
DrainNotEarly ==
  [][drain # "resolved" /\ drain' = "resolved" =>
       closed' \/ (waiters = <<>> /\ granted = <<>> /\ running = {})]_vars

\* A paused stream flows again.
PausedResumes == streamPaused ~> ~streamPaused

\* What close() of the client relies on: to it the dispatcher is DrainableWork.
Work == INSTANCE DrainableWork WITH outstanding <- active

ImplementsWork == Work!Spec

-----------------------------------------------------------------------------
\* What comments and docs of the repository say and the code does not do.

\* callback-dispatcher.ts: "Added high/low water mark backpressure to prevent
\* unbounded queue growth".  A new stream is not paused while _paused is TRUE.
NeverUnbounded == Len(waiters) <= MaxQueueDepth + 1

\* index.ts: "Callbacks fire sequentially on the event loop by default."
OneAtATime == Cardinality(running) <= 1
=============================================================================

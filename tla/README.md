# A TLA+ model of the KubeMQ client for Node.js

This directory models the client library in `src/src` and the burn-in program that is kept
beside it in `src/burnin` in TLA+, checks the models with TLC and proves part of what they
say with TLAPS. File names below are relative to `src/src`, those that begin with `burnin/`
to `src`; `PROJECT.json` holds the line of the source every definition
stands for, the runs, the mutants each property is measured with, and the hazards.

- [The system](#the-system): its parts, their state, how they interact, what is hard in them
- [Conventions of the models](#conventions-of-the-models)
- [The modules](#the-modules): state and actions against the code, properties, bounds, fairness
- [The runs](#the-runs) and [what the code does not do](#what-the-code-does-not-do)
- [The proofs](#the-proofs)
- [What is not modelled](#what-is-not-modelled) and [the plan](#the-plan)

## The system

A `KubeMQClient` is one object on one JavaScript event loop, with one gRPC channel to a
broker. Nothing in it is a thread, and nothing is persisted; what makes it hard is that
every promise, timer, stream event and connectivity change is a callback of its own, and
that any of them may run between two steps of any other.

    application
      |  unary calls          send*         create*Stream      subscribeTo*      streamQueueMessages
      v                        v                v                  v                   v
    withRetry             streaming         publishing        CallbackDispatcher   poll cycle over
    + RetryThrottle       senders           stream handles    + AsyncSemaphore     a bidi stream
      |                        |                |                  |                   |
      |                        | 'stateChange'  |      SubscriptionTracker.resubscribeAll
      v                        v                v                  v                   v
    GrpcTransport  --  ConnectionStateMachine  --  ReconnectionManager  --  TokenCache
      |
      v
    gRPC channel of grpc-js  -->  broker

### Components

| Component | State | Operations | What is hard in it | What makes it correct |
|---|---|---|---|---|
| Connection state machine (`internal/transport/connection-state-machine.ts`) | the state, its listeners | `transitionTo` | events are emitted from a microtask, when the state may have moved on | listeners hear disconnection and reconnection in turn, 'closed' last |
| Reconnection manager (`reconnection-manager.ts`) | attempt, abort controller | `reconnect`, `cancel` | an attempt that is cancelled between its awaits | the loop neither stops early nor outlives `close()` |
| gRPC transport (`grpc-transport.ts`) | gRPC client, `_closing`, channel watch, message buffer, tracker | `connect`, `close`, `handleTransientFailure`, unary and stream calls | one watch and one loop hand the channel to each other; `close()` at any point | a connection is looked after until it is closed |
| Subscriptions (`client.ts`, `subscription-handle.ts`, `subscription-tracker.ts`) | stream, `isActive`, last sequence, tracker entry | four `subscribeTo*`, `cancel`, `rebind` | outage, resubscription and `cancel()` interleave; events of an old stream arrive late | back after an outage, stored events complete and in order, silent once cancelled |
| Callback dispatcher and semaphore (`callback-dispatcher.ts`, `semaphore.ts`) | permits, waiters, active count, water marks | `dispatch`, `drain`, `close` | hand-off of permits across microtasks; pause and resume against a replaced stream | permits conserved, order of delivery, drain not early, a paused stream flows again |
| Streaming senders (`base-streaming-sender.ts` and its two subclasses) | bounded queue, pending map, stream, flags | `start`, `enqueue`, abort, drain, sweep, `close` | answers, deadlines, aborts, stream ends and outages race for one promise | no promise is lost, the wire keeps the order, `close()` ends |
| Queue consumer stream (`client.ts`, `streamQueueMessages`) | active transaction, bulk flag, closures of batches | ack, nack, re-queue by message, range and batch | closures of an old batch outlive it; re-polls are timers | the poll cycle neither stops nor forks |
| Publishing streams (`client.ts`, `createEventStream`, `createEventStoreStream`, `createQueueUpstream`) | stream, `streamReady`, `healingInProgress`, waiting promises | `send`, `close`, `selfHeal`, resubscription | `selfHeal()` polls across awaits while others replace the stream | no promise is lost, no needless stream, a broken one is replaced |
| Unary operations and retry (`client.ts`, `internal/middleware/retry.ts`) | attempts, throttle, signals | thirteen operations through `withRetry` | timeouts, aborts, throttle and `close()` each leave the loop elsewhere | requests repeat only when that is safe, the throttle is exact |
| Error mapping (`error-mapper.ts`, `errors.ts`) | none | `mapGrpcError` | what counts as transient decides what is repeated | the table the retry engine relies on |
| Token cache (`auth/token-cache.ts`) | token, pending fetch, timer | `getToken`, refresh, `invalidate`, `dispose` | a late fetch against a newer one, expiry, and disposal | one fetch at a time, a token always has its refresh |
| TLS (`auth/tls-utils.ts`, `grpc-transport.ts`) | the options, the files, what the channel was built with | validation, loading, `connect`, every attempt to reconnect | files are renewed one by one while they are read one by one | a channel has a pair that belongs together and is as new as it can be |
| Client lifecycle (`client.ts`) | lazily created senders, active dispatchers, close promise | `create`, `close` | `close()` drains a snapshot while calls go on | what is under way is waited for, nothing that was known is left open, `close()` ends |
| Queue consumer iterator (`client.ts`, `consumeQueue`) | one-slot hand-over of a batch | `for await`, leaving the loop | a batch, an error or the end that meets no waiter | a loop that waits is served, a prompt one misses nothing before it is told of an error or the end |
| Message buffer (`message-buffer.ts`) | a queue of limited bytes, waiting callers | `enqueue`, `flush`, `rejectAll`, `discard` | callers woken by a flush, and those that come meanwhile | bytes counted, order kept, nobody left waiting. Nothing in the library fills it yet |
| Options (`options.ts`, `config-defaults.ts`, `config-validator.ts`, `grpc-transport.ts`) | none | validation, defaults | defaults are filled in twice | what is accepted means the same to the client and to its transport |
| Messages (`messages/*.ts`, `internal/validation/*.ts`, `internal/protocol/marshaller.ts`) | none | factories, validation, conversion both ways | validation, defaults and conversion each see a part | what is accepted arrives, what reaches the wire is complete |
| In-flight tracker (`in-flight-tracker.ts`) | a set | `track`, `drain` | | nothing calls `track` in production code |
| Stream manager and registry, abort helpers | maps | | | used by their own tests only |
| Telemetry, logging, generated protobuf classes, utilities | none that matters here | | | I/O, observability |
| Burn-in engine (`burnin/src/engine.ts`, `httpServer.ts`, `index.ts`, `disconnect.ts`) | one set of fields for all runs: state, clients, groups, report | start, stop, signals, the phases of a run and of its shutdown | every phase awaits; timers, stops and a next run come in between | states in order, whatever was made is released, a stop is obeyed |
| Burn-in warm-up and clean-up (`engine.ts`) | attempts, a pool of batches; jobs that list and delete | `runWarmup`; `POST /cleanup`, clean-up of a run | attempts that were given up go on; listings grow old | each channel is tried, it ends; runs keep their channels |
| Burn-in workers (`burnin/src/workers/*.ts`, `rateLimiter.ts`, `tracker.ts`) | counters, trackers, tokens, waiters | producers, consumers, senders, reset | reordering, loss, repetition, reset in the middle | the counts add up, producers go on and end |
| Burn-in report and configuration (`report.ts`, `config.ts`) | a snapshot; layers of settings | verdict; merge and validation | the snapshot is taken while things move | a pass is earned, a failure has a cause, a run gets what was asked for |
| Burn-in metrics, benchmarks, examples | | | | mirror counters or load the library |

### Interactions

*Connectivity.* `GrpcTransport.connect()` declares READY as soon as the gRPC client is
built; it does not wait for the channel. A watch on the channel reports TRANSIENT_FAILURE
to `handleTransientFailure()`, which starts the `ReconnectionManager`; each attempt closes
the old client, builds a new one and waits for its channel. Success is `transitionTo(READY)`
and, from the `.then` of the loop, a new watch and `resubscribeAll()`.

*Events.* `transitionTo` queues a microtask that emits `stateChange` and the lifecycle event.
The application (`client.on`) and the streaming senders listen. Therefore a listener runs
after the new state is visible and may call the client before `resubscribeAll()` does.

*Streams.* Streams are created through the transport. A tracked subscription or handle is
given back its stream by `resubscribeAll()`; a streaming sender opens one on each READY
event; publishing streams also heal themselves.

*Closing.* `KubeMQClient.close()` stops the dispatchers it knows of, then the senders, then the
transport; `cancel()` of a subscription takes its dispatcher out of that set.

*Burn-in.* An operator starts and stops runs by HTTP. A run makes clients of the library, warms
its channels up, and starts a worker for each channel; workers share a rate limiter and a
tracker per producer, the report reads their counters.

*Callbacks.* `onData` of a subscription calls `dispatch()`; the dispatcher pauses and resumes
the stream that was current when it said so.

## Conventions of the models

- *Atomicity.* One action is one callback run to completion, up to its next `await`. Where
  an await matters (the hand-off of a permit, the awaits of `selfHeal()`, the loop of the
  reconnection manager, the two phases of `close()`), the code after it is another action.
- *Microtasks before timers.* `Connection`, `PublishStreams`, `Subscriptions` and
  `StreamingSender` keep the queued microtasks in a FIFO and let timers, `setImmediate` and
  network events wait until it is empty (`Idle`).
- *Time* is abstracted to the moments that matter: a deadline has passed or not, a timer or a
  sleep may fire at any time once it is armed. Delays, jitter and back-off lengths are left
  out, so the properties hold for all of them.
- *Environment.* The broker, grpc-js and the credential provider do everything their contracts
  allow. Definitions for grpc-js are marked external: a call started while the channel is not
  ready is pending; TRANSIENT_FAILURE fails the pending calls, which do not wait for ready;
  a lost connection fails the open calls or, when the peer is gone silently, leaves them
  orphaned; closing the client leaves open calls alone.
- *Data* is a model value or a number. Payloads, metadata, logs and metrics are left out.
- *Bounds* are constants whose comment begins with "bound:". They limit what the environment
  and the application do (outages, requests, bulk calls), never what the code does.
- *Deadlock* is not checked: every model stops for good reasons, after `close()` or when the
  bounded application and environment have nothing left to do. That something must still
  happen is stated by liveness properties and by invariants such as `NeverStalls`.
- `...Mutant` operators are plausible bugs of the definition they precede. They are used
  by nothing; replacing the definition by its mutant violates the property named with it in
  `PROJECT.json`.
- No module uses RECURSIVE, so that each of them can be proved about.

## The modules

    RequestLine              (abstract)
    StreamingSender          implements RequestLine <- MCStreamingSender, StreamingSenderProofs
    DrainableWork            (abstract)
    CallbackDispatcher       implements DrainableWork
      <- ClientClose         <- ClientCloseProofs (of both)
    ConnectionLifecycle      (abstract)
    Connection               implements ConnectionLifecycle
      <- Subscriptions       <- MCSubscriptions, SubscriptionsProofs
      <- PublishStreams      <- MCPublishStreams, PublishStreamsProofs
    QueueDownstream
      <- QueueConsumer       <- QueueProofs
    UnaryCalls                                      } <- MCUnaryCalls
    Messages <- ClientOptions                       }
    TokenCache, TlsCredentials, ReconnectBuffer       <- MCTransport
    UnaryCalls, TokenCache, TlsCredentials, ReconnectBuffer   <- TransportProofs
    SequenceTracker
      <- BurninWorker        <- BurninReport        } <- MCBurninWorker
    BurninVerdict            <- BurninReport        }
    BurninRpc                                       }
    BurninEngine, BurninConfig, BurninWarmup, BurninCleanup   <- MCBurninEngine
    BurninEngine, BurninConfig, BurninWarmup, BurninCleanup   <- BurninProofs
    BurninReport, BurninRpc                                   <- BurninWorkerProofs

`Subscriptions` and `PublishStreams` extend `Connection` and compose each of its steps with
what that step does to their streams (`With(step)`). `ClientClose` extends
`CallbackDispatcher`, and `QueueConsumer` extends `QueueDownstream`: each adds the variables
and steps of what is built on top, and the steps below it are taken as they are.
`BurninWorker` keeps a record of `SequenceTracker`, whose methods are operators, for each producer.

`MCUnaryCalls`, `MCTransport`, `MCBurninWorker` and `MCBurninEngine` put modules side by side that do
not interact: a behaviour chooses one of them in its initial state, and the variables of
the others stand still. One run then asks all their questions.

### RequestLine and StreamingSender

`RequestLine` is what the sender promises its callers, without queue, streams, timers and batches:
a request is refused or taken; what was taken is written at most once, in the order in which it
was taken, before its deadline and only while its caller has been told nothing; a caller is told
one thing, and an answer or a lost connection only for what was written. A cancelled request
is not on the wire and never will be. A step may take one request, write several and tell
several callers, since one callback of the code does all of that.

`BaseStreamingSender` with both subclasses: fire-and-forget messages (`AsyncEventSender`,
events) and tracked ones (store events, queue sends).

| Model | Code |
|---|---|
| `queue`, `pendingMap`, `stream`, `paused`, `scheduled`, `closed`, `closing`, `streamState`, `started` | the fields of the same names (`scheduled` is the pending `setImmediate`; `closing` the progress of `_doClose`) |
| `outcome`, `expired`, `aborted`, `accepted` | the caller's promise, its deadline and signal; the order `enqueue` took them in |
| `opened`, `alive`, `needDrain`, `sent` | the gRPC streams: a stream that is replaced keeps its handlers |
| `Start`, `Enqueue`, `Abort`, `Drain`, `DrainImmediate`, `SweepExpiredPending`, `Close`, `CloseFinish` | the methods; `Drain` is one pass of `_drain` over at most `DRAIN_BATCH_SIZE` entries, called by every action that calls it in the code |
| `StreamData`, `StreamDrain`, `StreamEnd` | the handlers `_openStream` attaches, for old streams as well |
| `DeliverStateChange` and `TransportLost`, `TransportRetry`, `TransportReady`, `TransportClosing`, `TransportClosed` | the `stateChange` listener, and what the transport may do |

Properties: `NothingForgotten` (an open promise is in the queue or in the pending map, whatever
is queued on a live stream has a `setImmediate` or a drain event coming, and after `close()`
no promise is open), `ImplementsRequestLine` (the refinement, with what was written as the wire
without its streams: it holds across outages, although late events of a replaced stream reject
the requests of its successor), `PendingSettles`, `CloseTerminates`, and, proved, `WireInOrder`
(a closed sender opens no stream either) and `CallersKnow`.

*Bounds.* `sender_safety`: two tracked requests, one with a signal, and a fire-and-forget
one; a queue of two, so that it fills up; a batch of one, so that a drain needs several
passes; one outage, so that two streams exist and the events of the first meet the second.
`sender_liveness` has the two tracked requests only.

*Fairness.* Microtasks, `setImmediate`, the sweep's interval and the timer of `close()` are
run by the event loop; time passes (`Expire`); the transport reconnects in the end. Nothing
is assumed of the server: it need never answer.

### CallbackDispatcher

`CallbackDispatcher` with its `AsyncSemaphore` and the stream it throttles.

| Model | Code |
|---|---|
| `permits`, `waiters` | the fields of `AsyncSemaphore` |
| `granted` | waiters that were handed a permit by `release()`, whose continuation has not run |
| `running`, `settling` | handlers under way; handlers that ended, before the `finally` of `dispatch` |
| `active`, `highWater`, `closed`, `drain` | `active`, `_paused`, `_closed`, the drain promise |
| `Receive` / `Dispatch`, `Begin`, `End`, `Settle` | `onData` / `dispatch`; the continuation after `acquire`; the end of the handler; the `finally` |
| `CallDrain`, `Close`, `Resubscribe` | `drain`, `close`, and the replacement of the stream the dispatcher pauses |

Properties: `PermitsConserved`, `DeliveryOrder`, `ImplementsWork`, and, proved,
`NoIdlePermit`, `ConcurrencyBounded`, `ActiveCounted`, `DrainNotEarly`, `PausedHasResumer`,
`QueueBounded`, `DropBoundsQueue`. `ImplementsWork` is the refinement: seen from outside, a
dispatcher is `DrainableWork`, a number of outstanding callbacks, a drain that resolves when it
is 0 or when the dispatcher is closed, and nothing that is taken after that.

*Bounds.* Two permits let a hand-off and a waiter behind it coincide, a depth of one the high
water mark; four messages fill the dispatcher and go on after it paused; one
resubscription puts a flowing stream under a paused dispatcher. The theorems need none of
these bounds. *Fairness.* Microtasks run and handlers return, those of `Hanging` excepted.

### ClientClose

`close()` of `KubeMQClient`, over one `CallbackDispatcher` that was there before ("first") and one
subscription that may be made at any time ("late"), of which only `DrainableWork` is kept.

| Model | Code |
|---|---|
| `phase` | the await `#doClose` is in |
| `registered`, `awaited`, `timedOut` | `#activeDispatchers`, those whose `drain()` it awaits, the callback timer |
| `CallClose`, `Drained`, `DrainExpires`, `SendersClosed`, `TransportClosed` | `close()` up to its first await, and from each await to the next |
| `CancelFirst`, `CancelLate`, `SubscribeLate`, `LateReceive`, `LateFinish` | what applications do in between |
| `owed`, `lateOwed` | history: the callbacks that were outstanding when `close()` was called |

Properties: `CloseIsOrderly` (no phase begins before the callbacks it owes are over, unless
the timer fired or the subscription was cancelled; and at the end no dispatcher it knew is
open), `NothingStandsStill` (a paused stream flows again; `close()` ends, although a handler hangs),
and those of the dispatcher. *Bounds.* One handler that never returns, one late
message. *Fairness.* The timer of `close()`, and that of the dispatcher.

### ConnectionLifecycle and Connection

`ConnectionLifecycle` is what the application may hear through `client.on()`: after
`create()`, 'disconnected' and 'reconnected' in turn, and 'closed' at most once, last.
`Connection` is `ConnectionStateMachine`, `ReconnectionManager` and the connection part of
`GrpcTransport`.

| Model | Code |
|---|---|
| `tstate`, `microtasks` | the state; the queued emissions, and the `.then` of the loop that resubscribes |
| `client`, `watching` | `grpcClient` by the connectivity of its channel; the channel watch |
| `loop`, `attempt`, `aborted` | where `reconnect()` awaits; its counter; its abort signal |
| `closing`, `closePc` | `_closing`; the await of `close()` |
| `ConnectBegin`, `ConnectEnd`, `ConnectFails`, `Create` | `connect()`, `KubeMQClient.create()` |
| `ChannelConnects`, `ChannelReady`, `ChannelLost` | grpc-js; TRANSIENT_FAILURE of a watched channel calls `handleTransientFailure` |
| `SleepOver`, `SleepAborted`, `Build`, `BuildFails`, `ProbeFails`, `AttemptSucceeds` | the loop, attempt by attempt |
| `CloseReconnecting`, `CloseBegin`, `CloseEnd` | `close()`: in RECONNECTING it returns at once, elsewhere it awaits the in-flight tracker |
| `heard` | history: what listeners heard |

Properties: `LookedAfter`, `ClosedIsFinal`, `LoopEnds`, `OutageEnds`, which the properties of
`Subscriptions` contain, and `LifecycleHeard`:
`Connection` implements `ConnectionLifecycle`. The refinement is not obvious, since an event
is heard when the state has moved on, and a cancelled attempt may still succeed.

*Fairness.* Microtasks and timers run. For the channel of an attempt, strong fairness of
"connects while probing" and "becomes ready while probing": the broker is back after finitely
many outages, and each attempt may give up before it has seen that, so that the step is
enabled again and again rather than continuously.

### Subscriptions

`Connection` with the subscriptions on it. The four `subscribeTo*` operations share their
code; those to the event store also resume from a sequence (`StoreSubs`).

| Model | Code |
|---|---|
| `tracked`, `lastSequence` | `SubscriptionTracker` |
| `active`, `stream`, `phase` | the handle's `isActive`, its stream, whether the application cancelled |
| `log`, `nextSequence`, `received` | the broker's store, where the stream stands in it, what the application received |
| `Subscribe`, `Cancel`, `Receive`, `StreamEnds` | the operation, `cancel()` or its signal, `onData`, `onError` |
| `Resubscribe` | `resubscribeAll()` with the `rebind` of each handle |

Properties: `HandlesAreTrue` (the connection is looked after; `isActive` tells whether a stream is
alive, and a live stream is tracked), `StoreInOrder` (stored events arrive once and in order,
across outages), `StaysClosed` (a closed transport and a cancelled subscription stay so, although
the loop they cancelled may still succeed), `ReconnectionEnds` (a cancelled loop stops, an
outage ends, and by then every tracked subscription is back). *Bounds.* Unlimited attempts (the default policy), three outages of any
kind (an outage within an outage, and one after the recovery), one subscription of each sort,
a log of two. With limited attempts the transport stays in RECONNECTING after the last one,
without a loop: the properties that speak of the end of an outage say `MaxAttempts = -1`.

### QueueDownstream

The handle `streamQueueMessages()` returns, with its Get - Settle - Get cycle.

| Model | Code |
|---|---|
| `active`, `stream`, `activeTx`, `bulkSettled`, `rePolls` | `active`, `stream`, `activeTransactionId`, `bulkSettled`, the `setTimeout(0)` of `scheduleRePoll` |
| `size`, `home`, `settled` | what the closures of each batch remember |
| `gets`, `confirms`, `atBroker` | Gets and settlements on the wire, and what the broker has seen |
| `Batch`, `LateBatch`, `Confirmation`, `Refusal`, `ErrorResponse`, `StreamEnds`, `ClosedByServer` | the stream's events; `IsError` may be in the answer to a Get or to a settlement, and is reported on an inactive handle too |
| `SettleOne` | `ack`, `nack`, `reQueue` of one message, of the current or of an older batch |
| `SettleAll`, `NAckAll`, `AckRange`, `NAckRange`, `ReQueueRange` | the bulk methods, which differ in what they settle and whether they poll |
| `RePollTimer`, `Close`, `Resubscribe` | the timer, `close`, the tracker's entry |

Properties: `NeverStalls` (an active consumer has something to settle, a timer, or a Get
that is owed an answer), `OneAtATime` (one batch, one re-poll or one Get, and that batch is
the one bulk calls would settle). The latter is about
message-wise settlement on one stream: with bulk calls the code polls early or twice, see
below. *Bounds.* Three batches, so that an old closure meets a batch two later; up to two
messages; two streams; one bulk call. Without `autoAck`, since that mode has no settlement.

### QueueConsumer

`consumeQueue()` over `QueueDownstream`. In half of the behaviours (`iterating` is FALSE) the
application uses the handle itself, so that one run checks both.

| Model | Code |
|---|---|
| `loop`, `held` | where the generator is; the batch the loop body works on |
| `ended`, `outcome` | `closed`; how the loop ends |
| `OnMessages`, `OnError`, `OnClose` | the callbacks it registers, within the step of the stream |
| `AskForNext`, `SettleAndAsk`, `LeaveLoop`, `Finally` | `next()`, the usual loop body, `break`, the `finally` block |
| `SettleHeld`, `SettleBatch` | any loop body |

Property: `LoopsAreServed`: a generator waits only while its handle can still fill its slot and no
error was reported to it, and a loop that asks for the next batch in the turn in which it settles the
last gets every batch that comes before it is told of an error or of the end. A settlement the broker
refuses is such an error (`client.ts:1000` looks at `IsError` before the type): it ends a loop whose
handle is alive with a Get on its way. The batch which answers that Get may be emitted before the
`finally` block, a microtask, closes the handle, or while the loop body still works; it is then
dropped, which is why the property ends where `closed` is set (without that condition TLC finds the
loop that waits, is refused a settlement and leaves, and the batch that comes before `finally`).

### PublishStreams

`Connection` with one handle of `createEventStream`, `createEventStoreStream` or
`createQueueUpstream` on it (`kind`).

| Model | Code |
|---|---|
| `handle`, `tracked`, `stream`, `streamReady`, `healing` | `active`, the tracker's entry, the stream, `streamReady`, `healingInProgress` |
| `healers` | calls of `selfHeal()` by the await they are in; several may be under way |
| `waiting`, `outcome` | `drainQueue` or `pending`; the promises of `send` |
| `Fails`, `Ends`, `Answer`, `Drain` | `onError`, `onEnd`, `onData`, `onDrain` |
| `HealPoll`, `HealSettle`, `HealRetry` | `selfHeal()` after each of its awaits |
| `CreateStream`, `SendEvent`, `SendTracked`, `CloseHandle`, `Resubscribe` | the operations |
| `opened`, `deaf` | history: streams opened; the current stream ended and nobody acted on it |

Properties: `OpenIsHeard` (an open promise waits on a live stream), `OpensForAReason` (no
stream beside one that works, none for a closed handle), `Heals`. *Bounds.* All three kinds,
two requests, three failures of the channel or of the stream alone. *Fairness.* As for
`Connection`, and the timers of `selfHeal()`.

### UnaryCalls

The thirteen request-and-answer operations through `withRetry` and
`GrpcTransport.unaryCall`. An operation is a record of what distinguishes it: its
operation type, how its signal is resolved, whether it has a deadline, whether it is retried,
and what becomes of its errors. Two more (`idempotent`, `notIdempotent`) are `withRetry`
around functions that throw typed errors, as its unit tests call it: without them almost
nothing is ever retried (see `TransientsAreRetried`), and the engine would go unchecked.

| Model | Code |
|---|---|
| `pc`, `attempt`, `failure`, `outcome` | where a call is in `withRetry`, and how it ended |
| `signal`, `heard` | the signal of `resolveSignal`, and whether the request listens to it |
| `active` | the permits taken in `RetryThrottle` |
| `Begin`, `Answered` (`Succeeds`, `Fails`), `BackoffOver`, `Abort`, `CloseTransport` | the loop, its backoff, signals, `close()` |

Properties: `RepeatsSafely` (only after a typed transient failure, never after the timeout
of an operation that is not idempotent, never for a caller who gave up, once after UNKNOWN),
`ThrottleCounts`, `CallsSettle`. *Bounds.* Two calls for one permit of the throttle; one
operation of each kind (those left out differ only in a type that behaves alike); one retryable status, a timeout and UNKNOWN; two
retries. *Fairness.* A request with a deadline, or whose signal fired while it was listening,
ends; backoffs and timeout signals are timers. The server owes no answer.

### TokenCache

`TokenCache` between its callers, its timer and the credential provider.

| Model | Code |
|---|---|
| `cached`, `pending`, `timer`, `disposed` | the fields; a token lasts for ever, expires later, or has expired |
| `running`, `settled` | calls of the provider; fetches whose `finally` has not run |
| `awaits` | the fetch each caller of `getToken` awaits |
| `Ask`, `ProviderAnswers`, `ProviderFails`, `Settles`, `TimerFires`, `Invalidate`, `Dispose` | the methods, continuations and timer |

Properties: `OneFetch`, `RefreshArmed`, and `CallersAnswered` within `CallersAndLinksGoOn`. *Bounds.* Three callers, three
outstanding fetches. *Fairness.* Promises and timers are served and the provider answers or
fails in the end; otherwise no caller could be answered.

### TlsCredentials

What `connect()` and each attempt to reconnect make of the TLS options, while whoever owns the
files renews them. A certificate is a version; a file is read in an await of its own.

| Model | Code |
|---|---|
| `tlsOptions`, `disk`, `dates` | the options; the version in each file; whether each version is valid |
| `link` | where `connect()` or the attempt is: validating, loading each part, building, up or down |
| `validated`, `loaded` | the version `validateCertificates` saw, the versions `resolveSslParts` read |
| `Connect`, `ValidateCertificates`, `LoadCa`, `LoadCert`, `LoadKey`, `BuildClient`, `Handshake`, `Disconnected`, `Reconnect` | the code between two awaits |
| `Renews`, `BecomesValid`, `Lapses` | the environment |

Properties: `CredentialsAreFresh` (a channel has a certificate and its own key, both at least as new
as the files that were complete when the attempt began), `LinkReturns`. *Bounds.* Two renewals,
so that a pair may be torn twice. *Fairness.* Reads and timers end; who has renewed one file
renews the other, and renews what expired.

### ReconnectBuffer

`MessageBuffer` with callers, flushes and discards in any order, since nothing in the library says
in which it will be called. Property: `BufferIsSound` (the bytes are those of the messages held and
within the limit, messages leave in the order they came, nobody waits for an empty buffer
unless the message can never fit). *Bounds.* Four messages: two that fit together, one that
fills the buffer, one that never fits.

### Messages and ClientOptions

Pure functions as operators. `Messages` has the validators, the factories and the conversions to
and from protobuf of each kind of message; a message is a record whose fields take the
values the code tells apart ("" and blank texts, negative numbers, fields left out).
`ClientOptions` has `validateClientOptions`, `applyDefaults`, the defaults the transport takes by
itself, the options of the channel, and the delays of the reconnection. The variable `sample` ranges
over all inputs, one to an initial state.

Property: `WhatIsAcceptedWorks`: a message that is accepted arrives as written (`MessagesArrive`), with
nothing missing or negative on the wire (`WireIsComplete`); options that are accepted mean the
same to the client and the transport, and something that can be worked with (`OptionsWork`).

### SequenceTracker and BurninWorker

`SequenceTracker` is `tracker.ts`: what it remembers of the numbers of one producer.
`TrackerAddsUp` says what its counters mean: what is lost is what is missing below the window, nothing
counts twice, the window has exactly what came early. `BurninWorker` is a channel of messages:
producers, rate limiter, back-pressure, broker, consumers of four patterns, the reset after the
warm-up.

| Model | Code |
|---|---|
| `pc`, `seq` | `runProducer` of each producer by its await, its last number |
| `waitQueue`, `tokens`, `timer` | `RateLimiter` |
| `copies`, `astray` | the broker: copies under way; a copy was lost |
| `trackers`, `sent`, `received`, `errors`, `corrupted` | the worker's tracker and counters |
| `Tick`, `HoldBack`, `StartSend`, ... | the limiter's timer, the back-pressure, the send |
| `Deliver`, `DeliverDamaged`, ... | what each pattern's consumer does with a copy |
| `ResetAfterWarmup`, `StopProducers`, `StopConsumers` | the engine's calls |

`BurninVerdict` has the arithmetic of the report as operators, with the rule for the memory's
baseline, `BurninReport` takes the snapshot when the producers are stopped and puts the two
together; `BurninRpc` is a channel of commands or queries.

Properties: `CountsAddUp` (of each tracker; and `received` counts nothing twice), `VerdictIsEarned` (under
thresholds that tolerate nothing what passes has sent, and got, all its trackers know of, once, whole and
without an error; memory that grew beyond its limit fails each run that was to take, and took, five
minutes), `FailureHasCause` (what fails had a reason, not messages on their way), `RpcAccounted` (each request counts once, also across
a reset; none is in flight when its sender ends), `ProducersGoOnAndEnd`. *Bounds.* A producer
that sends three messages through a window of one, so that the window slides; another that
waits for its turn; one fault, which is a loss, a repetition, a failed send or a reset; three requests
of which two are in flight. *Fairness.* The limiter's timer brings tokens, sends settle, the broker
delivers what is not lost.

### BurninEngine, BurninWarmup, BurninCleanup and BurninConfig

`BurninEngine` has the coroutine `executeRun` of each run, by the await it is in, over the one set of
fields of the engine, with one pattern group of one channel.

| Model | Code |
|---|---|
| `state`, `runId`, `report`, `client`, `channels`, `groups` | the fields of `Engine` |
| `pc`, `detached`, `aborted`, `timer` | `executeRun` of each run; `finishIfStopping` goes on by itself; its signal; its start timer |
| `open`, `producers`, `consumers` | history of what was made and not yet released |
| `manager`, `managing` | `DisconnectManager` |
| `StartRun`, `StopRun`, `OnSignal`, `Exit` | `httpServer.ts`, `index.ts` |
| `Created` ... `Begin`, `RunOver`, `Drained`, `Report`, `Closed`, `Cleaned`, `Throw` | the code after each await, and its failing |
| `mixed` | history: runs that were in flight together, or acted upon by what another left |

Properties: `RunsEndProperly` (a run that is over left no worker and no client, and a report; no run
sends while nobody consumes), `StateMachine`, `StopsAndWarmupsEnd`. They make an exception of runs in
`mixed`, for which they are false; that runs can be mixed is `OneRunAtATime`, below.

`BurninWarmup` is `runWarmup` with its parallel batches, attempts and timeouts (`WarmupDone`), `BurninCleanup`
the listing and deletion of channels by requests and by runs (`CleanupSparesRuns`: only a clean-up
that is older than a run takes channels of it), `BurninConfig` the merging of defaults, file,
environment and body (`RunIsAsAsked`: each setting is the one the run's body, then the
program was told, whatever earlier runs asked for). In the place of a number a file may also have NaN, infinity, null or a
text, and a body all of these but NaN. The program's configuration is copied by way of JSON for every run
(`config.ts:706`), and the engine copies the run's once more (`engine.ts:107`): `JsonCopy` makes NaN and infinity
null, which compares as 0, so that the run may be refused for what the program started with, and the property says
null there. Numbers written as texts, and flags and texts that are null, are left out. *Bounds.* Two runs, two awaits that throw,
one forced disconnect; two or three channels to warm up, two at a time, two attempts; two kinds of
channel; bodies and files with one setting of each sort on each side of its limits. *Fairness.*
Delays, and awaits that have a timeout, end.

## The runs

| Run | Configuration (module) | Checks | Distinct states |
|---|---|---|---|
| `sender_safety` | `MCStreamingSender.cfg` | NothingForgotten, ImplementsRequestLine | 3 298 232 |
| `sender_liveness` | `MCSenderLiveness.cfg` (MCStreamingSender) | PendingSettles, CloseTerminates | 202 241 |
| `dispatcher` | `MCClientClose.cfg` (ClientClose) | PermitsConserved, DeliveryOrder, CloseIsOrderly, ImplementsWork, NothingStandsStill | 916 653 |
| `subscriptions` | `MCSubscriptions.cfg` | HandlesAreTrue, StoreInOrder, StaysClosed, LifecycleHeard, ReconnectionEnds | 249 851 |
| `queue_downstream` | `MCQueueConsumer.cfg` (QueueConsumer) | NeverStalls, OneAtATime, LoopsAreServed | 3 743 890 |
| `publish_streams` | `MCPublishStreams.cfg` | OpenIsHeard, OpensForAReason, Heals | 329 688 |
| `unary_calls` | `MCUnaryCalls.cfg` | ThrottleCounts, WhatIsAcceptedWorks, RepeatsSafely, CallsSettle | 719 575 |
| `token_cache` | `MCTransport.cfg` | OneFetch, RefreshArmed, CredentialsAreFresh, BufferIsSound, CallersAndLinksGoOn | 218 015 |
| `burnin_worker` | `MCBurninWorker.cfg` | CountsAddUp, VerdictIsEarned, FailureHasCause, RpcAccounted, ProducersGoOnAndEnd | 241 485 |
| `burnin_engine` | `MCBurninEngine.cfg` | RunsEndProperly, RunIsAsAsked, WarmupDone, StateMachine, CleanupSparesRuns, StopsAndWarmupsEnd | 434 251 |

The two remaining runs, `sender_reopen` and `calls_retried`, expect a violation; see the next section.

Why the bounds are enough: each was chosen as the smallest instance in which the hazards of
the component occur together, and tested with a mutant for each property. The bounds that
cut the environment short (outages, messages, transactions) leave two of everything that can
be confused with another: two streams of a sender, two batches behind a third, an outage
within an outage. What the bounds leave open is settled by proof for the modules that have one.

`tlc -config MCQueueConsumer.cfg QueueConsumer` runs one; the module of a configuration is
the MC module of its name unless the table says otherwise.

## What the code does not do

Two runs check what the repository says of itself and find a behaviour of the code that
differs.

- `sender_reopen`, **StreamReopens** (`base-streaming-sender.ts:398`). The comment at line 402
  says the transport "will emit READY when reconnected". A stream that is reset by a proxy or
  ended by the server leaves the transport READY: no event comes, no stream is opened, and
  the sender accepts requests until its queue is full.
- `calls_retried`, **TransientsAreRetried** (`retry.ts:246`). The documentation says transient
  errors are retried. The transport rejects with plain errors that carry a gRPC code,
  `withRetry` retries instances of `KubeMQError` only, and the mapping from one to the other
  happens outside of it, or never. UNAVAILABLE ends a unary call after one attempt.

Further properties that comments or documents suggest are not part of a run, and are kept
for TLC to be asked by hand; each has a counterexample. Five have a configuration of their own:

| Configuration (module) | Property | What happens |
|---|---|---|
| `MCSenderGhostStream.cfg` (MCStreamingSender) | DisconnectedMeansOwnStream | A late end of the old stream rejects the requests of the new one. |
| `MCDispatcherUnbounded.cfg` (CallbackDispatcher) | NeverUnbounded | A new stream flows while the dispatcher thinks it is paused; the queue then has no bound. |
| `MCQueueSingleTx.cfg` (QueueDownstream) | SingleTransaction | `ackRange()` of a part of a batch polls at once (`client.ts:1202`), and the next transaction is open beside the rest of the first; the comment at `client.ts:950` promises one at a time. |
| `MCBurninFanout.cfg` (MCBurninWorker) | FanoutIsCountedByConsumer | Consumers of a fan-out share one tracker, which takes the copies for duplicates; `burnin/PLAN-REVIEW-FIXES.md:92` has them independent. |
| `MCBurninMixed.cfg` (BurninEngine) | OneRunAtATime | A run that was stopped while it started awaits on, while the next one takes over the fields of the engine. |

The others are to be put in the place of the properties of a run's configuration:

| Configuration | Property | What happens |
|---|---|---|
| `MCSenderLiveness.cfg` | SendTimesOut | The deadline of a request that is still queued is looked at by the drain only, which does not run without a stream. |
| `MCClientClose.cfg` | NoneTakesAfterClose, NoneBeginsAfterClose | A subscription made while `close()` drains keeps its dispatcher and begins callbacks after `close()` has returned. |
| `MCSubscriptions.cfg` | RebindIsClean | A subscription made between the new client and `resubscribeAll()` has a live stream, which `rebind()` cancels without a listener for the error. |
| `MCSubscriptions.cfg` | ConsumersReturn, BrokenStreamReturns | A queue consumer whose stream failed in the outage is skipped; a subscription whose stream breaks under a READY transport is not made again. |
| `MCSubscriptions.cfg` | CloseReleasesChannel | `close()` in RECONNECTING returns without closing the gRPC client, and the cancelled attempt may build another. |
| `MCPublishStreams.cfg` | NothingDangles | `send()` of an upstream handle whose stream failed under a READY transport waits for ever. |
| `MCPublishStreams.cfg` | EndsAreHeard | The end of a stream is ignored while an overtaken `selfHeal()` still waits for its timer; nothing heals the handle. |
| `MCQueueConsumer.cfg` | EveryBatchIsYielded, SettledIsFollowed | A batch that finds no waiter is dropped; after `nackAll()` none is fetched. |
| `MCTransport.cfg` | TokenReturns | Without TLS, nobody fetches a token again after a refresh failed. |
| `MCTransport.cfg` | WhatIsValidatedIsUsed, SkipIsHonoured | The certificate is read again after it was validated; `insecureSkipVerify` reaches no credentials. |
| `MCTransport.cfg` | OversizedIsRefused | In mode "block" a message larger than the buffer waits for ever. |
| `MCUnaryCalls.cfg` | RefusalIsReported, SubscribersMeetPublishers | `sendQueueMessage()` ignores `IsError`; a subscription is accepted for channels to which nothing can be sent. |
| `MCUnaryCalls.cfg` | TlsIsOffByDefault, SomeAttempt | A `tls` object that does not say `enabled` turns TLS on; `maxAttempts` is not validated. |
| `MCBurninEngine.cfg` | RunsAreApart, RunsHaveTimeouts | Runs without a `run_id` share that of the program, and with it their channels; a body may set timeouts the file may not. |
| `MCBurninMixed.cfg` | SignalLeavesAReport | A signal during a start ends the process before the report is there. |
| `MCBurninEngine.cfg` | NoAttemptIsLeft | An attempt of the warm-up that was given up goes on. |
| `MCBurninEngine.cfg` | RunsKeepTheirChannels, CleanupTakesAll | An old clean-up takes the channels of a new run; a request takes those of the last run only. |
| `MCBurninEngine.cfg` | TimeoutCleansUp | A start that timed out leaves its consumers. |

The verdict of the burn-in, beside these: it tells nothing of messages lost after the last one a
tracker has seen; a first message that is overtaken while a tracker warms up counts as a
duplicate; the snapshot is taken before the drain; an answer with an error does not count
as an error of an RPC pattern; the aggregated error rate may hide a channel that fails; in benchmark mode, or
without a rate, errors without operations pass; and the warm-up of a benchmark stays with
a program whose next run is a soak test. NaN and texts that are no numbers pass every range check
of the program's configuration, and texts those of a run's; in a run the program's NaN or infinity is null, which is refused where at
least 1 is demanded, and is a threshold of 0 otherwise. `ReconnectionPolicy` documents a buffer whose messages are replayed, and
nothing enqueues a message.

Seen while reading, outside the models or beside their properties: reaching the last
of a limited number of attempts leaves RECONNECTING for good, with neither loop nor watch, and
`docs/CONCEPTS.md` says 0 is unlimited where the code says -1; `connect()` documents a
`ConnectionError` for a connection that fails, which it does not wait for; 'connected' is
emitted before anybody can listen; `index.ts` says callbacks fire sequentially by default,
where the default is twenty at a time; a `maxQueueDepth` of 0 is never below half of itself, so
a paused stream stays paused; `nackAll()`, `nackRange()` and an error response
leave the poll cycle (`leftCycle` of `QueueDownstream`); a signal given by the caller
replaces the default timeout, and with `maxRetries` 0 one that is aborted already is not
looked at.

## The proofs

`tlapm StreamingSenderProofs.tla`, and likewise for the other modules whose name ends in `Proofs`.
The theorems hold for every value of the constants that satisfies the named assumption of the
module; none of them depends on fairness. Each invariant was given to TLC as an invariant of a
run before it was proved.

**StreamingSender**, assuming `SenderConstants`: any set of requests, with keys that may collide,
any queue limit, any batch size of the drain, any number of outages. The inductive invariant is

    SenderInv == TypeOK /\ Flags /\ Held(queue, pendingMap, outcome) /\ Line

`Flags` holds what the booleans of the class mean together: before `start()` nothing exists that
could call back, the current stream is alive and owes a 'drain' when it is under backpressure,
`close()` leaves an empty queue and in the end an empty map, and somebody drains what is queued.
`Held` is `OpenIsHeld` as an operator, `Line` says that what was written and what is queued form
one line of accepted requests in the order of acceptance. The conjuncts need one another: that a
request which leaves the queue finds a place in the map needs that a stream is there; that what
is appended to the queue comes after all that was written needs that a request is accepted once.

| Theorem | Says |
|---|---|
| `SenderForgetsNothing` | `NothingForgotten`: an open promise is queued or pending, what is queued has a waker, `close()` settles everybody |
| `WrittenInOrder` | `WireInOrder`: requests reach the wire at most once and in the order of acceptance, and nothing is written after `close()` |
| `SenderIsARequestLine` | `ImplementsRequestLine`: every step is a step of `RequestLine`, or a stutter |
| `CallersAreToldTheTruth` | an acknowledgement, an error of the server and a disconnection stand for a request that was written, `BufferFull` and a cancellation for one that never is |

What a pass of the drain does to queue, map, callers and wire is stated once (`DrainSteps`, from
`Recorded`, `Told`, `Written`, `Shortened`) for the six actions that drain. That the map holds the *last*
of several requests with one key uses that a set of positions has a greatest element (`HasLast`),
from the well-foundedness of the order on the natural numbers.

The refinement maps `taken` to `accepted`, `written` to the requests of `sent`, `late` to `expired`
and `over` to `closed`. It needs a stronger invariant,

    PromiseInv == SenderInv /\ Agreed(queue, pendingMap, outcome, sent) /\ (expired requests are known)

`Agreed` says that the map holds only what was written, and that nobody whose request is queued has
been told anything. Without the first an answer could settle a request that never left, without the
second the drain could write one whose caller was told that it failed; that queue and map have
no request in common follows from `Line`. What a step owes to the refinement is `Refines`: steps
that write nothing are one lemma (`SettleRefines`, `SilentRefines`), those that drain another
(`DrainPromises`, `DrainRefines`), and `enqueue()`, which takes and drains at once, has its own
(`TakeRefines`). That the drain records nothing it does not write uses that an increasing map
between finite sets of one size is onto. `CallersAreToldTheTruth` is then an invariant of the
abstract steps alone.

**Connection and Subscriptions**, assuming `ConnectionConstants` and `SubscriptionConstants`: any limit
of attempts, unlimited included, any number of outages, any sets of subscriptions and consumers.
The invariant of the connection is

    ConnInv == ConnTypeOK /\ Opening /\ Shutting /\ Watched /\ Announced

`Opening` and `Shutting` say how far `create()` and `close()` are, `Watched` who looks after the
channel. `Announced` is what the refinement needs: listeners run in microtasks, after the transition
they are told of, so that state and history disagree while the queue is not empty. It says that
the queued emissions, read one after the other, lead by valid transitions (`Leads`) from a state of
which the application knows (`Known`) to the present one. A step either extends the queue by
transitions that fit (`Grown`), or takes its head, which then is news to the application
(`EmissionIsNews`). The subscriptions add

    SubInv == TypeOK /\ ConnInv /\ Registered /\ Resumes /\ StoreInOrder

where `Registered` relates what the application did to tracker and handles, and `Resumes` the
sequence a stream, or the tracker, would go on with to the number of events received.

| Theorem | Says |
|---|---|
| `ConnectionIsLookedAfter` | `LookedAfter`: READY is watched and without a loop, RECONNECTING has a loop if attempts are unlimited |
| `ConnectionTells`, `ApplicationHears` | `LifecycleHeard`, the refinement of `ConnectionLifecycle`, without and with subscriptions |
| `HandlesTellTheTruth` | `HandlesAreTrue`: `isActive` is exact, live streams are tracked until `close()` |
| `EventsArriveInOrder` | `StoreInOrder`: no stored event is missed, repeated or overtaken across outages |
| `OverStaysOver` | `StaysClosed`: CLOSED is final, and so is a cancelled subscription |

**QueueDownstream and QueueConsumer**, assuming `DownstreamConstants`: any size of batches, any number
of transactions, streams and calls, with and without automatic acknowledgement. `DownstreamInv` adds
to `TypeOK` and `NeverStalls` where batches and their streams are (`Places`), what `bulkSettled`
covers (`BulkCovers`), and `OneAtATime` without its cardinality (`OneStage`); that a finite set with
at most one element has a cardinality of at most one is then a lemma. `LoopInv` adds what the
generator of `consumeQueue()` knows: a body whose stream is gone finds out when it asks for the
next batch, and until it was told of an error or the end, the Get there may be belongs to a loop that
waits (`PromptStage`).

| Theorem | Says |
|---|---|
| `PollCycle` | `NeverStalls` and `OneAtATime` of the handle, however it is used |
| `PollCycleUnderIterator`, `OneCycleUnderIterator` | the same under `consumeQueue()` |
| `LoopsServed` | `LoopsAreServed`: a loop waits only where a batch, an error or the end can wake it, and a prompt one misses no batch before it is told of an error or the end |

**PublishStreams**, assuming `ConnectionConstants` and `PublishConstants`: any limit of attempts, any number
of outages and requests, any number of calls of `selfHeal()` in any of its awaits. The inductive invariant is

    PubInv == TypeOK /\ ReadyHasStream /\ WaitingIsServed

`ReadyHasStream`: a handle of events that takes requests has a stream that is alive, unless its end was
ignored. `WaitingIsServed`: an open request is in `drainQueue` or `pending` and the handle takes
requests, since whoever breaks the stream settles them first. The two need one another where `breakStream`,
`resubscribe` and the awaits of `selfHeal()` overtake each other. `TypeOK` contains the types of the
connection, proved for each of its steps (`ConnNextTypes`).

| Theorem | Says |
|---|---|
| `PromisesAreHeard` | `OpenIsHeard`: an open promise waits on a stream that is alive, or whose end was ignored |
| `StreamsHaveReasons` | `OpensForAReason`: no stream for a closed handle, none beside one that works |

**CallbackDispatcher**, in `ClientCloseProofs`, assuming `DispatcherConstants` (at least one permit, as the
constructor demands; natural depth and bounds). The inductive invariant is

    Inv == TypeOK /\ PermitsConserved /\ NoIdlePermit /\ ActiveCounted /\ DeliveryOrder

The conjuncts need one another. Counting the permits takes from `DeliveryOrder` that a message
about to begin is not running already (the number of running handlers would not grow
otherwise); keeping the order when a message takes a permit at once takes from `NoIdlePermit`
that nobody waits then. From `Inv` follow:

| Theorem | Says |
|---|---|
| `TypeCorrect` | every variable stays in its type |
| `PermitsAreConserved`, `HandlersAreBounded` | no permit is lost or forged; at most `maxConcurrentCallbacks` handlers run |
| `NoPermitIdles` | nobody waits while a permit is free |
| `ActiveIsExact`, `DrainWaitsForAll` | `active` counts what is not over; `drain()` is not early |
| `HandlersBeginInOrder` | handlers begin in the order of delivery |
| `PausedStreamsHaveAResumer` | a paused stream has an outstanding callback that will look at the low water mark, also after resubscriptions |
| `BackpressureBoundsTheQueue` | the queue exceeds the depth by one at most, as long as the stream is not replaced (a strengthening of its own, `PauseFollowsMark`; after a replacement it is false, see `NeverUnbounded`) |
| `DroppingBoundsTheQueue` | with `dropOnHighWater` it never does |
| `DispatcherIsDrainable` | the refinement: every step is one of `DrainableWork`, or a stutter |

The refinement needs of the invariant that `active` is exact: `drain()` resolves on the counter,
the abstract drain on the work. `ResolvedByLast` says that the counter reaches 0 in the very
step in which the last callback is over.

**ClientClose**, assuming `CloseConstants` and `DispatcherConstants`. Every step of the client is one of the
dispatcher or leaves it alone (`ClientKeepsDispatcher`), so that its theorems hold here too
(`ClientConservesPermits`, `ClientKeepsOrder`, `ClientDrainsWork`). `ClosingIsOrderly` is the property of the
run. The inductive invariant is

    CloseInv == CloseIsOrderly /\ RegisteredAreOpen /\ DrainsAreTrue /\ AwaitedAreAll

A dispatcher that is registered is open; a drain that has resolved tells the truth about what is
outstanding; and until the timer fires the dispatchers `close()` still owes something are
those it awaits. Without the last, `Drained` could come too early.

**SequenceTracker**, in `BurninWorkerProofs`, assuming `TrackerConstants`: one tracker that is given any numbers in any order,
with any window and any number of repetitions. `CountsAreExact` says that its counters always add up
(`TrackerAddsUp`). The
invariant says that what is buffered is what came early, that what was accepted was seen, and that
the counts add up; the step is hard where the window slides: the tracker jumps to the least number
it holds, or up to the greatest one below a gap. That a finite set of
numbers has a least and a greatest element is proved from the well-foundedness of the strict subset
order (`WFMin`), since the induction theorems cannot be instantiated.

**BurninWorker**, in `BurninWorkerProofs`, assuming `WorkerConstants` and `TrackerConstants`: any finite set of producers with
any quotas, any window, depth and number of faults. `WorkersCountsAddUp` is `CountsAddUp`. The inductive invariant is

    WorkerInv == WorkerTypes /\ TrackersAreGood

`TrackersAreGood` has the tracker's own invariant for each producer, and that `received` is the sum over the
producers of what their trackers took for no duplicates. A delivery moves both by the same:
`recordReceive()` asks `isDuplicate()` before `record()` and `RecordTakes` shows that the two
agree, also in the step that ends the warm-up and in the one that slides the window.

**BurninReport**, in `BurninWorkerProofs`, assuming `ReportConstants` as well: a configuration within the limits of
`validateRunConfig()`. `VerdictsAreEarned` is `VerdictIsEarned`, `FailuresHaveCauses` is
`FailureHasCause`. The inductive invariant is

    ReportInv == WorkerInv /\ pattern \in Patterns /\ faults \in Nat
                 /\ (\A p \in Producers : MarksAre(trackers[p]))
                 /\ (Untroubled => Clean) /\ SoundSnapshot

(written in two parts, `ChannelInv` and `SoundSnapshot`). `MarksAre` ties what a tracker has a bit for to what
it accepted: with `LossIsExact` nothing is lost exactly where nothing is missing (`NothingLost`,
`AllThere`). `Clean` says that as long as nothing has gone wrong a number is on its way, accepted or
neither, never both, so that no delivery is a duplicate. `SoundSnapshot` keeps what that means
for the counters when they are captured, and the rest is about operators: the totals of one channel
are the channel's (`TotalOfOne`, `PartIs`), and `generateVerdict()` of it comes to four comparisons
(`PatternIsOk`, `FailsIs`), of which the throughput's says that something was sent.

The proof showed that `FailureHasCause` had been said too strongly. `finalizeWarmup()`
(`burnin/src/tracker.ts:111`) gives no bit to numbers beyond the window: when `reorder_window` is less
than the warm-up of 64, which no validation refuses, the rest of the warm-up is forgotten and
counted as lost once the window gets there, and a run in which nothing went wrong fails. (TLC shows it with
`WarmupCount = 2`.) The property now makes the exception (`Overrun`). `VerdictIsEarned` was said for one
configuration and is now said for all that tolerate nothing (`ToleratesNothing`); without a rate to keep, a run
that sent nothing passes whatever was received.

**BurninEngine**, in `BurninProofs`, assuming `EngineConstants`: any number of runs, of awaits that throw and of
forced disconnects. `EveryRunEndsProperly` is `RunsEndProperly`, `StatesFollow` is `StateMachine`. The
inductive invariant is

    EngineInv == TypeOK /\ NotYet /\ OthersAreMixed /\ Latest
                 /\ CleanEnd /\ EndedHasReport /\ ProducersStopFirst

`NotYet` says that nothing is there of a run to come, `OthersAreMixed` that what is on its way beside the
latest run is mixed with it, and `Latest` what the latest run is as long as it is not mixed: for each
await it can be in, the state of the engine, the workers of its group, its clients with those the
disconnect manager is exchanging, and its report. The proof showed that the promise of a report had been
said too strongly for three runs, which no run of TLC has: when two older runs and the latest
are mixed, the first can reach the end of its shutdown, and put the engine to rest, before the latest,
which is being stopped, has made its report; then there is none at all. `EndedHasReport` now makes
the exception that the rest of the property makes.

**BurninCleanup**, in `BurninProofs`: any number of runs, clean-ups and kinds of channels. `RunsAreSpared` is
`CleanupSparesRuns`. The invariant, `OlderThanTheRun`, is that a clean-up has found nothing but what
it looks for, and that while a run is active every clean-up began before it.

**BurninWarmup**, in `BurninProofs`: any lists of channels, any number of batches and of attempts.
`WarmupsAreDone` is `WarmupDone`. A task that was taken is some batch's, or has failed, or an attempt at it
succeeded (`TasksAreTried`), a success is earned (`SuccessIsEarned`), and the pool ends for one
of two reasons (`PoolEnds`). The proof needs that there is a batch at all: with
`max_parallel_channels` 0, which nobody refuses, the warm-up is complete and nothing was tried
(`burnin/src/engine.ts:843`), and the property says so.

**BurninRpc**, in `BurninWorkerProofs`, assuming `RpcConstants`: any finite set of senders, any number of requests of
which as many are in flight as the concurrency permits. `RequestsAreAccounted` is `RpcAccounted`.
What has settled (`Settled`) is a sum over the senders, and a step either leaves each sender's share
(`SettledStays`) or adds one to one of them (`SettledGrows`), as `Counted` adds one to the total of the
counters whatever the outcome (`IsCounted`). The sum is `MapThenSumSet` of the community modules, a recursive
function over the subsets: sums exist, are unique and change as one summand does because of a
least set for which they do not (`LeastSet`), again without an induction theorem.

**BurninConfig**, in `BurninProofs`, assuming `NumbersAreNoTexts` (what stands for NaN, infinity and null is not one of
the texts `WithWarmup` compares with): any files, bodies and patterns, any number of runs. `RunsAreAsAsked` is
`RunIsAsAsked`. `ConfigInv` is that the program's configuration is still what it loaded and each run's is that with
its body over it, copied as JSON before and after, which is no other value the second time (`JsonValueTwice`) and
mistakes no text (`JsonTexts`), in the order of the code: address, identifier and warm-up are set after the merge, each
changes nothing else (`AddressedIs`, `IdentifiedIs`, `WithWarmupIs`), and the mode which the warm-up goes
by is that of the merge.

**UnaryCalls**, in `TransportProofs`, assuming `CallsConstants` (finitely many calls, any selection of operations,
any numbers of retries and permits). The inductive invariant adds to `TypeOK` what a call that
sleeps is about to do: it has a retry left, was not aborted, and failed in a way its operation
may repeat (`SafeToRepeat`). `CallTypes` bounds the attempts by `maxRetries + 1` and the
throttle by its limit; `RequestsRepeatSafely` is the action property of the run; for
`ThrottleIsExact` every step is shown to move at most one call into or out of its backoff
(`Moves`), and the throttle with it.

**TokenCache**, assuming `TokenConstants`. `TokenTypes`; `TimerFollowsToken` (`RefreshArmed`)
is inductive with the types; `FetchIsShared` (`OneFetch`) is not: the `finally` of a fetch
clears the pending one whichever it is, which is harmless only because until `dispose()`
every outstanding fetch is the pending one (`Shared`), and a fetch ends once (`Unique`).

**TlsCredentials**, assuming `TlsConstants`: any number of renewals. `ChannelsAreFresh` is `CredentialsAreFresh`.
`ReadsAreFresh` says it of an attempt on its way: what it has read from files is at least as new as the
files complete when it began, since files only get newer, and a channel was built of what belongs together.

**ReconnectBuffer**, assuming `BufferConstants`: any messages of any sizes, any limit. `BufferStaysSound` is
`BufferIsSound`, with `EachInOnePlace` beside it: a message is in one place and there once, so that
the answer to one caller is not the answer to another. The bytes are a sum over a sequence,
written as a recursive function (`BytesOf`). What it does to a message more and to the first one leaving
(`OneMore`, `FirstLeaves`) is proved without an induction theorem: sums exist and are unique
because a least place where they were not would have a predecessor (`HasFirst`).

*Model-checked only.* Liveness and everything about fairness, which the provers do not reach; and
`WhatIsAcceptedWorks`, about the operators of `Messages` and `ClientOptions`: it has no constants, ranges over
samples that TLC goes through one by one, and needs powers (`Delays`), `SelectSeq` and `@@`, for which
the provers have no rules.

## What is not modelled

- The in-flight tracker: nothing fills it, which is how `Connection` sees it, and likewise the
  message buffer of a transport. `ReconnectBuffer` is about the class by itself.
- Stream manager and registry, abort helpers, `wrapHandler`: used by tests only.
- Generated protobuf classes, metadata of calls, telemetry, metrics, logs, versions: no state, or no
  effect on the client. `buildFreshSslParts` and `tls-loader.ts`, which no connection uses.
- The default timeouts of the operations, and the limit of the message size.
- Of the burn-in: latencies, memory and their trends but for the verdict on growth, what is
  printed, what HTTP handlers only read, Prometheus; benchmarks and examples.
- A Markdown and asset tree (`docs/`), which is generated.
- Two requests with one key (two event store messages with the same id): the constant `KeyOf`
  of `StreamingSender` allows it, and `OpenIsHeld` and `CloseSettlesAll` make an exception of
  it; the runs give every request a key of its own, as `randomUUID` does.
- A `maxQueueDepth` of 0, for which the repository states no meaning. The theorems cover it.
- Re-entrancy of application callbacks within one callback of the library, except that a
  listener of the connection may call the client (`Subscribe` needs no idle event loop).

## The plan

Done, in this order: streaming senders, dispatcher with its proofs, connection and
subscriptions with the abstract lifecycle, queue consumer stream, publishing streams, unary
calls and token cache with their proofs; then `close()` of the client and the abstract dispatcher
with their proofs, `consumeQueue`, messages and options, TLS and the message buffer, and the burn-in
with a proof of its tracker.

Then the proofs of the sender, of connection and subscriptions with the refinement of the abstract
lifecycle, of the queue consumer and its iterator, of what a transport keeps beside its connection, of the
publishing streams, and of the engine, the warm-up, the clean-ups, the workers, the requests, the
configuration and the report of the burn-in: every invariant and action property of the runs but
`WhatIsAcceptedWorks`.

Left, the most important first:

1. *A stored subscription as a reader of a log*, as a property of `Subscriptions` (`StoreInOrder` says
   of its history what the abstract reader would say of its steps).
2. *`QueueDownstream` composed with `Connection`*: the poll cycle across an outage.

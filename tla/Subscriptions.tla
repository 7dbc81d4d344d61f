--------------------------- MODULE Subscriptions ---------------------------
(***************************************************************************)
(* Subscriptions over a Connection: those to events, commands and queries, *)
(* which have the same code, those to an event store, with their           *)
(* GrpcSubscriptionHandle, the consumers of streamQueueMessages, and the   *)
(* SubscriptionTracker that re-establishes them when the reconnection      *)
(* loop is over.  What a consumer does with its messages is QueueDownstream*)
(*                                                                         *)
(* A stream is "pending" until its channel is ready and "open" after that. *)
(* grpc-js lets an open stream live on when its channel is closed, or the  *)
(* broker drains its connection ("orphan"); a pending one dies.  A stream  *)
(* emits an 'error' when it dies or is cancelled.  The application may     *)
(* subscribe and cancel at any moment, in particular from a listener of    *)
(* 'reconnected', between two microtasks.                                  *)
(***************************************************************************)
EXTENDS Connection

CONSTANTS
  Subs,           \* subscriptions the application may create, each one once
  StoreSubs,      \* those of subscribeToEventsStore, with StartFromFirst
  Consumers,      \* those of streamQueueMessages
  MaxLog          \* bound: events published on the channel of the store

ASSUME SubscriptionConstants ==
  /\ StoreSubs \subseteq Subs /\ Consumers \subseteq Subs \ StoreSubs /\ MaxLog \in Nat

VARIABLES
  phase,          \* what the application did: "none", "subscribed", "cancelled"
  tracked,        \* SubscriptionTracker.subscriptions
  active,         \* handles whose _isActive is true
  stream,         \* the stream of each handle
  lastSequence,   \* TrackedSubscription.lastSequence, 0 for undefined
  log,            \* the broker has stored the events 1..log
  nextSequence,   \* the sequence the broker sends next on the stream
  received,       \* history: sequences handed to the dispatcher
  unheard         \* an 'error' was emitted on a stream without a listener

subVars == <<phase, tracked, active, stream, lastSequence, log, nextSequence, received, unheard>>
vars == <<connVars, subVars>>

Alive == {s \in Subs : stream[s] \in {"pending", "open", "orphan"}}

SubInit ==
  /\ Init
  /\ phase = [s \in Subs |-> "none"] /\ tracked = {} /\ active = {}
  /\ stream = [s \in Subs |-> "none"] /\ unheard = FALSE
  /\ lastSequence = [s \in Subs |-> 0] /\ log = 0
  /\ nextSequence = [s \in Subs |-> 1] /\ received = [s \in Subs |-> <<>>]

-----------------------------------------------------------------------------
\* Streams.

\* serverStream() throws when the transport is closing or has no client.
CanStream == ~closing /\ client # "none"

NewStream == IF client = "ready" THEN "open" ELSE "pending"

\* Mutant: resumes at the last sequence instead of the one after it.
ResumeAtMutant(s) == IF lastSequence[s] = 0 THEN 1 ELSE lastSequence[s]

\* The start of a subscription: the first event, or lastSequence + 1.
ResumeAt(s) == lastSequence[s] + 1

\* createAndAttachStream() for the subscriptions in S.
AttachStreams(S) ==
  /\ stream' = [s \in Subs |-> IF s \in S THEN NewStream ELSE stream[s]]
  /\ nextSequence' = [s \in Subs |-> IF s \in S THEN ResumeAt(s) ELSE nextSequence[s]]

\* Mutant: the lifecycle listener for 'error' is missing.
DieMutant(S) ==
  /\ stream' = [s \in Subs |-> IF s \in S THEN "dead" ELSE stream[s]]
  /\ active' = active

\* The streams of S end: their handles become inactive, sub.onError is called.
Die(S) ==
  /\ stream' = [s \in Subs |-> IF s \in S THEN "dead" ELSE stream[s]]
  /\ active' = active \ S

\* What the channel's move from client to client' does to the streams on it.  One
\* that was opened on a failed channel fails before the channel does anything else;
\* a broker that drains its connection (GOAWAY) lets some live on.
StreamsFollow ==
  LET pending == {s \in Subs : stream[s] = "pending"}
      open == {s \in Subs : stream[s] = "open"}
      Become(S, how, dead) ==
        /\ stream' = [s \in Subs |-> IF s \in dead THEN "dead"
                                     ELSE IF s \in S THEN how ELSE stream[s]]
        /\ active' = active \ dead
  IN CASE client' # client /\ "failure" \in {client, client'} -> Become({}, "", pending)
       [] client = "ready" /\ client' = "idle" ->
            \E S \in SUBSET open : Become(S, "orphan", open \ S)
       [] client = "connecting" /\ client' = "ready" -> Become(pending, "open", {})
       [] client # "none" /\ client' = "none" -> Become(open, "orphan", pending)
       [] OTHER -> UNCHANGED <<stream, active>>

\* The broker ends a stream, a proxy resets it: onError and onEnd, and no more.
StreamEnds(s) ==
  /\ Idle /\ s \in Alive /\ outages < MaxOutages
  /\ outages' = outages + 1
  /\ Die({s})
  /\ UNCHANGED <<machine, closeVars, channel, manager, created, heard, phase, tracked,
                 lastSequence, log, nextSequence, received, unheard>>

-----------------------------------------------------------------------------
\* The application.

\* ensureNotClosed(), the stream and its listeners, the handle, tracker.register().
Register(s) ==
  /\ created = "yes" /\ phase[s] = "none" /\ CanStream
  /\ phase' = [phase EXCEPT ![s] = "subscribed"]
  /\ AttachStreams({s})
  /\ active' = active \cup {s} /\ tracked' = tracked \cup {s}
  /\ UNCHANGED <<connVars, lastSequence, log, received, unheard>>

SubscribeToEventsStore(s) == s \in StoreSubs /\ Register(s)
StreamQueueMessages(s) == s \in Consumers /\ Register(s)
SubscribeToEvents(s) == s \notin StoreSubs \cup Consumers /\ Register(s)
SubscribeToCommands(s) == s \notin StoreSubs \cup Consumers /\ Register(s)
SubscribeToQueries(s) == s \notin StoreSubs \cup Consumers /\ Register(s)

\* Mutant: the handle is cancelled but stays registered.
UntrackMutant(s) == tracked' = tracked

Untrack(s) == tracked' = tracked \ {s}

\* handle.cancel(): unregister, cancel the stream if the handle is active.
Cancel(s) ==
  /\ phase[s] = "subscribed" /\ s \notin Consumers
  /\ phase' = [phase EXCEPT ![s] = "cancelled"]
  /\ Untrack(s)
  /\ IF s \in active THEN Die({s}) ELSE UNCHANGED <<stream, active>>
  /\ UNCHANGED <<connVars, lastSequence, log, nextSequence, received, unheard>>

\* close() of a consumer, which does nothing for one that is inactive: that one
\* stays registered.
CloseConsumer(s) ==
  /\ phase[s] = "subscribed" /\ s \in Consumers
  /\ phase' = [phase EXCEPT ![s] = "cancelled"]
  /\ IF s \in active THEN Untrack(s) /\ Die({s}) ELSE UNCHANGED <<tracked, stream, active>>
  /\ UNCHANGED <<connVars, lastSequence, log, nextSequence, received, unheard>>

Publish ==
  /\ log < MaxLog /\ log' = log + 1
  /\ UNCHANGED <<connVars, phase, tracked, active, stream, lastSequence, nextSequence,
                 received, unheard>>

\* Mutant: the next sequence is recorded for the last.
UpdateSequenceAheadMutant(s, n) ==
  lastSequence' = IF s \in tracked THEN [lastSequence EXCEPT ![s] = n + 1] ELSE lastSequence

\* tracker.updateSequence(): nothing to update once the subscription is unregistered.
UpdateSequence(s, n) ==
  lastSequence' = IF s \in tracked THEN [lastSequence EXCEPT ![s] = n] ELSE lastSequence

\* onData of a store subscription.  A cancelled one has a closed dispatcher.
Receive(s) ==
  /\ s \in StoreSubs /\ stream[s] \in {"open", "orphan"} /\ nextSequence[s] <= log
  /\ received' = [received EXCEPT ![s] = Append(@, nextSequence[s])]
  /\ UpdateSequence(s, nextSequence[s])
  /\ nextSequence' = [nextSequence EXCEPT ![s] = @ + 1]
  /\ UNCHANGED <<connVars, phase, tracked, active, stream, log, unheard>>

-----------------------------------------------------------------------------
\* Steps of the connection, and what they do to subscriptions.

\* Mutant: nothing is re-established.
RestorableMutant == {}

\* A consumer that is inactive is not restored: one whose stream ended in the outage.
Restorable == IF CanStream THEN {s \in tracked : s \in Consumers => s \in active} ELSE {}

\* tracker.resubscribeAll(): each subscription gets a new stream and its handle is
\* rebound to it: the listeners of the old stream are removed, then it is cancelled.
\* The cancellation of one that is still alive raises an 'error' nobody listens to:
\* the process ends, unless the application handles 'uncaughtException'.  A consumer
\* leaves its old stream as it is, without listeners.
ResubscribeAll ==
  /\ AttachStreams(Restorable)
  /\ active' = active \cup Restorable
  /\ unheard' = (unheard \/ (Restorable \cap Alive) \ Consumers # {})
  /\ UNCHANGED <<phase, tracked, lastSequence, log, received>>

Resubscribe ==
  /\ microtasks # <<>> /\ Head(microtasks) = Resubscription
  /\ RunMicrotask /\ ResubscribeAll

Emit == microtasks # <<>> /\ Head(microtasks) # Resubscription /\ RunMicrotask

\* A step of the connection, composed with what happens to the streams.
With(step) ==
  /\ step /\ StreamsFollow
  /\ UNCHANGED <<phase, tracked, lastSequence, log, nextSequence, received, unheard>>

\* transport.close() clears the tracker, except in RECONNECTING.
CloseAndClear ==
  /\ CloseEnd /\ StreamsFollow /\ tracked' = {}
  /\ UNCHANGED <<phase, lastSequence, log, nextSequence, received, unheard>>

SubNext ==
  \/ With(Emit) \/ Resubscribe
  \/ With(ConnectBegin) \/ With(ConnectEnd) \/ With(ConnectFails) \/ With(Create)
  \/ With(ChannelConnects) \/ With(ChannelReady) \/ With(ChannelLost)
  \/ With(SleepOver) \/ With(SleepAborted) \/ With(Build) \/ With(BuildFails)
  \/ With(ProbeFails) \/ With(AttemptSucceeds)
  \/ With(CloseReconnecting) \/ With(CloseBegin) \/ CloseAndClear
  \/ Publish
  \/ \E s \in Subs :
       \/ SubscribeToEvents(s) \/ SubscribeToEventsStore(s) \/ SubscribeToCommands(s)
       \/ SubscribeToQueries(s) \/ StreamQueueMessages(s)
       \/ Cancel(s) \/ CloseConsumer(s) \/ Receive(s) \/ StreamEnds(s)

SubSpec == SubInit /\ [][SubNext]_vars

\* The fairness of Connection, for the steps composed here.
SubFairness ==
  /\ WF_vars(With(Emit)) /\ WF_vars(Resubscribe)
  /\ WF_vars(With(SleepOver)) /\ WF_vars(With(SleepAborted)) /\ WF_vars(With(Build))
  /\ WF_vars(With(AttemptSucceeds)) /\ WF_vars(CloseAndClear)
  /\ SF_vars(With(loop = "probing" /\ ChannelConnects))
  /\ SF_vars(With(loop = "probing" /\ ChannelReady))

FairSubSpec == SubSpec /\ SubFairness

-----------------------------------------------------------------------------
\* Every variable stays in its type.
TypeOK ==
  /\ ConnTypeOK
  /\ phase \in [Subs -> {"none", "subscribed", "cancelled"}]
  /\ tracked \subseteq Subs /\ active \subseteq Subs
  /\ stream \in [Subs -> {"none", "pending", "open", "orphan", "dead"}]
  /\ lastSequence \in [Subs -> 0..MaxLog] /\ log \in 0..MaxLog
  /\ nextSequence \in [Subs -> 1..(MaxLog + 1)]
  /\ received \in [Subs -> Seq(1..MaxLog)] /\ unheard \in BOOLEAN

\* The application receives the events of the store from the first one, in order,
\* none twice and none left out, across reconnections.
StoreInOrder ==
  \A s \in Subs : \A i \in 1..Len(received[s]) : received[s][i] = i

\* isActive tells the truth: the handle is active while its stream is alive.
ActiveIsTrue == active = Alive

\* The connection is looked after (Connection), and so is every handle: its isActive
\* tells whether a stream is alive, and a live stream belongs to a subscription the
\* tracker knows, unless close() has cleared it.
HandlesAreTrue ==
  /\ TypeOK /\ LookedAfter /\ ActiveIsTrue
  /\ \A s \in Alive : s \in tracked \/ closing

\* What is over stays over: a closed transport never announces another state, although
\* the loop it cancelled may still succeed; a cancelled subscription and a closed
\* consumer never come back, whatever the connection does later.
StaysClosed ==
  /\ ClosedIsFinal
  /\ [][\A s \in Subs : phase[s] = "cancelled" =>
         phase'[s] = "cancelled" /\ s \notin Alive' /\ received'[s] = received[s]]_vars

\* A reconnection comes to its end: a cancelled loop stops, an outage ends in READY or
\* in close(), and by then every tracked subscription is back.
ReconnectionEnds ==
  /\ LoopEnds /\ OutageEnds
  /\ \A s \in Subs \ Consumers :
       s \in tracked /\ tstate = "RECONNECTING" ~> s \in Alive \/ s \notin tracked \/ closing

-----------------------------------------------------------------------------
\* What docs of the repository say and the code does not do.

\* subscription-handle.ts: rebind() "removes old listeners before attaching to a new
\* stream".  A subscription made between the new client and resubscribeAll() has a
\* stream that is alive: cancelling it without a listener ends the process.
RebindIsClean == ~unheard

\* ERROR-HANDLING.md: "When a gRPC stream breaks, the SDK ... Re-subscribes
\* transparently once reconnected".  Nothing does when the transport stays READY.
BrokenStreamReturns ==
  \A s \in Subs \ Consumers : s \in tracked ~> s \in Alive \/ s \notin tracked \/ closing

\* The same page: nor does a queue consumer whose stream broke in an outage, although
\* the tracker knows it.
ConsumersReturn ==
  \A s \in Consumers :
    s \in tracked /\ tstate = "RECONNECTING" ~> s \in Alive \/ s \notin tracked \/ closing
=============================================================================

--------------------------- MODULE PublishStreams ---------------------------
(***************************************************************************)
(* One publishing stream over a Connection: the handle createEventStream,  *)
(* createEventStoreStream or createQueueUpstream returns.                  *)
(*                                                                         *)
(* All three keep one bidi stream that resubscribeAll() replaces.  Those   *)
(* of events also heal themselves: when the stream fails, selfHeal() waits *)
(* for READY, then half a second, and replaces the stream unless somebody  *)
(* did so or closed the handle in the meantime.                            *)
(*                                                                         *)
(* A stream is pending, open or orphaned as in Subscriptions.              *)
(***************************************************************************)
EXTENDS Connection, FiniteSets

CONSTANTS
  Kinds,          \* the kinds of handle to check: "event", "store", "upstream"
  Requests        \* requests the application may send, each one once

ASSUME PublishConstants == Kinds \subseteq {"event", "store", "upstream"}

VARIABLES
  kind,           \* the kind of the handle
  handle,         \* "none" before it is created, "active", "closed"
  tracked,        \* the handle is registered with the SubscriptionTracker
  stream,         \* "none", "pending", "open", "orphan" or "dead"
  opened,         \* history: how many streams were opened
  streamReady,    \* streamReady, TRUE for an upstream handle, which has none
  healing,        \* healingInProgress
  healers,        \* how many selfHeal() calls wait at each of its awaits
  waiting,        \* requests in pending, in drainQueue for events
  outcome,        \* history: the promise of each request
  deaf            \* history: the end of the stream was ignored

handleVars ==
  <<kind, handle, tracked, stream, opened, streamReady, healing, healers, waiting, outcome,
    deaf>>
vars == <<connVars, handleVars>>

Awaits == {"polling", "settling", "retrying"}
Alive == stream \in {"pending", "open", "orphan"}

PubInit ==
  /\ Init
  /\ kind \in Kinds /\ handle = "none" /\ tracked = FALSE
  /\ stream = "none" /\ opened = 0 /\ streamReady = TRUE
  /\ healing = FALSE /\ healers = [a \in Awaits |-> 0]
  /\ waiting = {} /\ outcome = [r \in Requests |-> "none"] /\ deaf = FALSE

\* Mutant: the entry of a settled request stays in the map.
SettleMutant(R, how) ==
  /\ waiting' = waiting
  /\ outcome' = [r \in Requests |-> IF r \in R THEN how ELSE outcome[r]]

\* The promises of the requests in R are settled.
Settle(R, how) ==
  /\ waiting' = waiting \ R
  /\ outcome' = [r \in Requests |-> IF r \in R THEN how ELSE outcome[r]]

-----------------------------------------------------------------------------
\* selfHeal().

\* Moves of one call between its awaits; "" is its begin and its end.
Moves(from, to) ==
  healers' = [a \in Awaits |-> healers[a] - (IF a = from THEN 1 ELSE 0) + (IF a = to THEN 1 ELSE 0)]

\* selfHeal() is called on a stream that is not ready.
HealBegins ==
  IF handle # "active" \/ healing THEN UNCHANGED <<healing, healers>>
  ELSE healing' = TRUE /\ Moves("", IF tstate = "READY" THEN "settling" ELSE "polling")

\* Mutant: the flag stays, nothing heals after the first time.
HealEndsMutant(from) == UNCHANGED healing /\ Moves(from, "")

\* A call returns: its finally clears the flag, whoever set it.
HealEnds(from) == healing' = FALSE /\ Moves(from, "")

\* The transport is polled.
HealPoll ==
  /\ healers["polling"] > 0 /\ Idle
  /\ IF handle = "active" /\ ~streamReady
     THEN tstate = "READY" /\ Moves("polling", "settling") /\ UNCHANGED healing
     ELSE HealEnds("polling")
  /\ UNCHANGED <<connVars, kind, handle, tracked, stream, opened, streamReady, waiting, outcome,
                 deaf>>

\* duplexStream() throws when the transport is closing or has no client.
CanStream == ~closing /\ client # "none"

OpenStream ==
  /\ stream' = IF client = "ready" THEN "open" ELSE "pending"
  /\ opened' = opened + 1
  /\ deaf' = FALSE

\* Mutant: the stream is replaced whatever happened during the delay.
StillBrokenMutant == handle = "active"

\* What is looked at again after each await.
StillBroken == handle = "active" /\ ~streamReady

\* The half second is over: recreateStream(), or another try if it throws.
HealSettle ==
  /\ healers["settling"] > 0 /\ Idle
  /\ CASE ~StillBroken -> HealEnds("settling") /\ UNCHANGED <<stream, streamReady, opened, deaf>>
       [] StillBroken /\ CanStream ->
            OpenStream /\ streamReady' = TRUE /\ HealEnds("settling")
       [] StillBroken /\ ~CanStream ->
            /\ healing' = FALSE /\ Moves("settling", "retrying")
            /\ UNCHANGED <<stream, streamReady, opened, deaf>>
  /\ UNCHANGED <<connVars, kind, handle, tracked, waiting, outcome>>

\* The second after a failed try is over: selfHeal() is called, then the finally of
\* the old call runs.
HealRetry ==
  /\ healers["retrying"] > 0 /\ Idle
  /\ healing' = FALSE
  /\ Moves("retrying", IF ~StillBroken \/ healing THEN ""
                       ELSE IF tstate = "READY" THEN "settling" ELSE "polling")
  /\ UNCHANGED <<connVars, kind, handle, tracked, stream, opened, streamReady, waiting, outcome,
                 deaf>>

-----------------------------------------------------------------------------
\* The stream.

\* Mutant: the waiting promises are forgotten.
BreakMutant(ready) == streamReady' = ready /\ waiting' = {} /\ UNCHANGED outcome

\* breakStream(): what waits is rejected.
Break(ready) == streamReady' = ready /\ Settle(waiting, "rejected")

\* onError: the handle breaks, and heals what it can heal.
Fails ==
  /\ stream' = "dead" /\ UNCHANGED deaf
  /\ CASE handle # "active" -> UNCHANGED <<streamReady, healing, healers, waiting, outcome>>
       [] handle = "active" /\ kind = "upstream" ->
            Break(TRUE) /\ UNCHANGED <<healing, healers>>
       [] handle = "active" /\ kind # "upstream" -> Break(FALSE) /\ HealBegins

\* onEnd: like an error, but for an event handle a call of selfHeal() is under way.
Ends ==
  IF handle = "active" /\ kind # "upstream" /\ healing
  THEN /\ stream' = "dead" /\ deaf' = TRUE
       /\ UNCHANGED <<streamReady, healing, healers, waiting, outcome>>
  ELSE Fails

\* What the channel's move from client to client' does to the stream on it.
StreamFollows ==
  LET Becomes(how) ==
        stream' = how /\ UNCHANGED <<streamReady, healing, healers, waiting, outcome, deaf>>
  IN CASE client' # client /\ "failure" \in {client, client'} /\ stream = "pending" -> Fails
       [] client = "ready" /\ client' = "idle" /\ stream = "open" -> Fails \/ Becomes("orphan")
       [] client = "connecting" /\ client' = "ready" /\ stream = "pending" -> Becomes("open")
       [] client # "none" /\ client' = "none" /\ stream = "open" -> Becomes("orphan")
       [] client # "none" /\ client' = "none" /\ stream = "pending" -> Fails
       [] OTHER -> Becomes(stream)

\* A proxy resets the stream, the broker ends it.
StreamDies ==
  /\ Idle /\ Alive /\ outages < MaxOutages
  /\ outages' = outages + 1
  /\ Fails \/ Ends
  /\ UNCHANGED <<machine, closeVars, channel, manager, created, heard, kind, handle, tracked,
                 opened>>

\* onData: the broker answers a request.
Answer(r) ==
  /\ kind # "event" /\ r \in waiting /\ stream \in {"open", "orphan"}
  /\ \E how \in {"resolved", "rejected"} : Settle({r}, how)
  /\ UNCHANGED <<connVars, kind, handle, tracked, stream, opened, streamReady, healing, healers,
                 deaf>>

\* onDrain: the write buffer has room again.
Drain ==
  /\ kind = "event" /\ handle = "active" /\ waiting # {} /\ stream \in {"open", "orphan"}
  /\ Settle(waiting, "resolved")
  /\ UNCHANGED <<connVars, kind, handle, tracked, stream, opened, streamReady, healing, healers,
                 deaf>>

-----------------------------------------------------------------------------
\* The application.

CreateStream ==
  /\ created = "yes" /\ handle = "none" /\ CanStream
  /\ handle' = "active" /\ tracked' = TRUE /\ OpenStream
  /\ UNCHANGED <<connVars, kind, streamReady, healing, healers, waiting, outcome>>

OutcomeIs(r, how) == outcome' = [outcome EXCEPT ![r] = how]

\* send() of an event: no answer comes, it waits only for room in the write buffer.
\* On a handle that was closed it resolves.
SendEvent(r) ==
  CASE handle = "active" /\ streamReady ->
         \/ OutcomeIs(r, "resolved") /\ UNCHANGED waiting
         \/ OutcomeIs(r, "open") /\ waiting' = waiting \cup {r}
    [] handle = "active" /\ ~streamReady -> OutcomeIs(r, "rejected") /\ UNCHANGED waiting
    [] handle = "closed" -> OutcomeIs(r, "resolved") /\ UNCHANGED waiting

\* send() of a store event or of queue messages: it waits for its answer.  An upstream
\* handle takes its stream for ready at all times.
SendTracked(r) ==
  IF handle = "active" /\ streamReady
  THEN OutcomeIs(r, "open") /\ waiting' = waiting \cup {r}
  ELSE OutcomeIs(r, "rejected") /\ UNCHANGED waiting

Send(r) ==
  /\ handle # "none" /\ outcome[r] = "none"
  /\ IF kind = "event" THEN SendEvent(r) ELSE SendTracked(r)
  /\ UNCHANGED <<connVars, kind, handle, tracked, stream, opened, streamReady, healing, healers,
                 deaf>>

\* What close() tells those who wait: the drain waiters of an event stream nothing.
TellWaiting == IF kind = "event" THEN UNCHANGED <<waiting, outcome>> ELSE Settle(waiting, "rejected")

\* close().
CloseHandle ==
  /\ handle = "active"
  /\ handle' = "closed" /\ tracked' = FALSE /\ stream' = "dead"
  /\ TellWaiting
  /\ UNCHANGED <<connVars, kind, opened, streamReady, healing, healers, deaf>>

-----------------------------------------------------------------------------
\* Steps of the connection, and what they do to the stream.

\* resubscribe(): the listeners of the stream are removed and it is replaced.  When
\* that throws, the old one stays, unheard.
ResubscribeStream ==
  IF tracked /\ handle = "active"
  THEN /\ Break(kind = "upstream" \/ CanStream)
       /\ IF CanStream THEN OpenStream ELSE stream' = "dead" /\ UNCHANGED <<opened, deaf>>
  ELSE UNCHANGED <<stream, opened, streamReady, waiting, outcome, deaf>>

Resubscribe ==
  /\ microtasks # <<>> /\ Head(microtasks) = Resubscription
  /\ RunMicrotask /\ ResubscribeStream
  /\ UNCHANGED <<kind, handle, tracked, healing, healers>>

Emit == microtasks # <<>> /\ Head(microtasks) # Resubscription /\ RunMicrotask

\* A step of the connection, composed with what happens to the stream.
With(step) == step /\ StreamFollows /\ UNCHANGED <<kind, handle, tracked, opened>>

\* transport.close() clears the tracker, except in RECONNECTING.
CloseAndClear == CloseEnd /\ StreamFollows /\ tracked' = FALSE /\ UNCHANGED <<kind, handle, opened>>

PubNext ==
  \/ With(Emit) \/ Resubscribe
  \/ With(ConnectBegin) \/ With(ConnectEnd) \/ With(ConnectFails) \/ With(Create)
  \/ With(ChannelConnects) \/ With(ChannelReady) \/ With(ChannelLost)
  \/ With(SleepOver) \/ With(SleepAborted) \/ With(Build) \/ With(BuildFails)
  \/ With(ProbeFails) \/ With(AttemptSucceeds)
  \/ With(CloseReconnecting) \/ With(CloseBegin) \/ CloseAndClear
  \/ CreateStream \/ CloseHandle \/ StreamDies \/ Drain
  \/ HealPoll \/ HealSettle \/ HealRetry
  \/ \E r \in Requests : Send(r) \/ Answer(r)

PubSpec == PubInit /\ [][PubNext]_vars

\* The fairness of Connection, for the steps composed here, and the timers of
\* selfHeal().  Neither the broker nor the application owe anything.
PubFairness ==
  /\ WF_vars(With(Emit)) /\ WF_vars(Resubscribe)
  /\ WF_vars(With(SleepOver)) /\ WF_vars(With(SleepAborted)) /\ WF_vars(With(Build))
  /\ WF_vars(With(AttemptSucceeds)) /\ WF_vars(CloseAndClear)
  /\ SF_vars(With(loop = "probing" /\ ChannelConnects))
  /\ SF_vars(With(loop = "probing" /\ ChannelReady))
  /\ WF_vars(HealPoll) /\ WF_vars(HealSettle) /\ WF_vars(HealRetry)

FairPubSpec == PubSpec /\ PubFairness

-----------------------------------------------------------------------------
\* Every variable stays in its type; what waits has not been settled yet.
TypeOK ==
  /\ ConnTypeOK
  /\ kind \in Kinds /\ handle \in {"none", "active", "closed"} /\ tracked \in BOOLEAN
  /\ stream \in {"none", "pending", "open", "orphan", "dead"}
  /\ opened \in Nat /\ streamReady \in BOOLEAN /\ healing \in BOOLEAN
  /\ healers \in [Awaits -> Nat]
  /\ waiting \subseteq {r \in Requests : outcome[r] = "open"}
  /\ outcome \in [Requests -> {"none", "open", "resolved", "rejected"}] /\ deaf \in BOOLEAN

\* An active handle of events never loses a promise: one that is open waits on a
\* stream that is alive, whose answer, drain or end will settle it.  The exception is a
\* stream whose end nobody acted on, which EndsAreHeard is about.
OpenIsHeard ==
  /\ TypeOK
  /\ kind # "upstream" /\ handle = "active" =>
       \A r \in Requests : outcome[r] = "open" => r \in waiting /\ (Alive \/ deaf)

\* A stream is opened for a new handle, for an active one whose stream is broken, or by
\* resubscribeAll(): never beside a stream that works, nor for a handle that was closed,
\* whatever calls of selfHeal() still wait for their timers.
OpensForAReason ==
  [][opened' # opened =>
       /\ handle' = "active"
       /\ \/ handle = "none" \/ ~streamReady
          \/ (microtasks # <<>> /\ Head(microtasks) = Resubscription)]_vars

\* A broken stream of events is replaced, or the handle or the client closed.
Heals == handle = "active" /\ ~streamReady ~> streamReady \/ handle = "closed" \/ closing

-----------------------------------------------------------------------------
\* What comments of the repository say and the code does not do.

\* client.ts: "if the stream ends unexpectedly, treat it like an error".  An end during a
\* selfHeal() that a resubscription has overtaken is ignored, and nothing heals the handle.
EndsAreHeard ==
  kind # "upstream" /\ handle = "active" /\ streamReady => Alive

\* client.ts: in-flight promises of an upstream handle are rejected "so they don't
\* dangle forever".  What is sent after the stream failed waits for a resubscription
\* that does not come while the transport stays READY.
NothingDangles ==
  kind = "upstream" /\ waiting # {} /\ stream = "dead" /\ ~closing
    ~> waiting = {} \/ Alive \/ closing
=============================================================================

-------------------------- MODULE StreamingSender --------------------------
(***************************************************************************)
(* The shared bidi sender behind sendEvent, sendEventStore and             *)
(* sendQueueMessage: BaseStreamingSender with its subclasses               *)
(* AsyncEventSender (fire-and-forget and tracked store events) and         *)
(* AsyncUpstreamSender (tracked queue sends).                              *)
(*                                                                         *)
(* One sender owns a bounded queue, at most one current gRPC stream and a  *)
(* map of requests that were written and wait for their acknowledgement.   *)
(* Everything happens on one JavaScript event loop, so an action is one    *)
(* callback run to completion.  A transport transition queues its          *)
(* 'stateChange' event as a microtask (events, a FIFO).  Timers,           *)
(* setImmediate and what needs network I/O run when no microtask is left   *)
(* (Idle); calls of the application may come from a microtask as well, and *)
(* grpc-js emits its stream events from promise continuations, so neither  *)
(* of these waits.                                                         *)
(*                                                                         *)
(* The gRPC streams and the transport are the environment.  A stream the   *)
(* sender no longer points to keeps its handlers: the code never removes   *)
(* them.  Time is abstracted to "the deadline of m has passed".            *)
(***************************************************************************)
EXTENDS Integers, Sequences, FiniteSets

CONSTANTS
  Msgs,           \* requests the application may send, each one once
  Tracked,        \* those sent with a promise (store events, queue messages)
  Signalled,      \* tracked requests that carry an AbortSignal
  Keys,           \* pending-map keys (EventID, RequestID)
  KeyOf,          \* the key extractRequestKey reads from a tracked request
  MaxQueueSize,   \* opts.maxQueueSize, 10 000 in client.ts
  DrainBatch,     \* DRAIN_BATCH_SIZE, 64 in the code
  MaxOutages,     \* bound: how often the transport loses its channel
  NoMsg           \* a key that is not in the pending map

ASSUME SenderConstants ==
  /\ Tracked \subseteq Msgs /\ Signalled \subseteq Tracked
  /\ KeyOf \in [Tracked -> Keys]
  /\ NoMsg \notin Msgs
  /\ MaxQueueSize \in Nat \ {0} /\ DrainBatch \in Nat \ {0} /\ MaxOutages \in Nat

\* Stream 0 is `stream = null`; streams are numbered in the order they open: by
\* start() or by the first READY after it, then one for each READY event.
StreamIds == 1..(MaxOutages + 1)
NoStream == 0

VARIABLES
  queue,        \* this.queue
  pendingMap,   \* this.pendingMap: key -> the request whose promise it holds
  stream,       \* this.stream
  paused,       \* this._drainPaused
  scheduled,    \* this._drainScheduled: a setImmediate(_drain) is outstanding
  closed,       \* this._closed
  streamState,  \* this._streamState
  closing,      \* progress of _doClose: "no", "waiting" for acks, "done"
  started,      \* start() has run: the stateChange listener is registered
  outcome,      \* what the caller of each request has been told
  expired,      \* requests whose deadline has passed
  aborted,      \* requests whose AbortSignal has fired
  opened,       \* how many streams were opened
  alive,        \* gRPC streams that have not terminated
  needDrain,    \* streams whose write() returned false and owe a 'drain' event
  sent,         \* history: every write, as <<stream, request>>
  accepted,     \* history: requests in the order enqueue() took them
  tstate,       \* state of the transport's ConnectionStateMachine
  tclosing,     \* transport._closing
  events,       \* stateChange microtasks not yet delivered
  outages       \* how often the channel was lost

sender == <<queue, pendingMap, stream, paused, scheduled, closed, streamState,
            closing, started>>
calls == <<outcome, expired, aborted, accepted>>
grpc == <<opened, alive, needDrain, sent>>
transport == <<tstate, tclosing, events, outages>>
vars == <<sender, calls, grpc, transport>>

-----------------------------------------------------------------------------
\* Promises.  A promise that is settled already ignores a second settlement.

\* Mutant: reject is never called.
SettleMutant(out, S, how) == out

Settle(out, S, how) ==
  [m \in Msgs |-> IF m \in S /\ out[m] = "open" THEN how ELSE out[m]]

Pending == {pendingMap[k] : k \in Keys} \ {NoMsg}
NoPending == [k \in Keys |-> NoMsg]

\* Mutant: the map is cleared and nobody is told.
RejectAllPendingMutant(how) == pendingMap' = NoPending /\ outcome' = outcome

\* _rejectAllPending: reject what is in the map, then clear it.
RejectAllPending(how) ==
  /\ outcome' = Settle(outcome, Pending, how)
  /\ pendingMap' = NoPending

-----------------------------------------------------------------------------
\* Draining the queue to the stream.

Queued == {queue[i] : i \in 1..Len(queue)}

\* Mutant: the deadline is not looked at.
DeadMutant(m) == m \in aborted

Dead(m) == m \in expired \/ m \in aborted

DeadOutcome(m) == IF m \in expired THEN "timeout" ELSE "cancelled"

\* The loop of _drain over the first n items of q: those whose deadline passed
\* or whose signal fired are rejected, the others are recorded in pendingMap
\* (when they carry a promise) and written to stream s, one after the other: at[i]
\* is where the i-th of them was in the queue.
DrainPrefix(q, n, out, s) ==
  LET W == {i \in 1..n : ~Dead(q[i])}
      Last(k) == {i \in W : /\ q[i] \in Tracked /\ KeyOf[q[i]] = k
                            /\ \A j \in W : q[j] \in Tracked /\ KeyOf[q[j]] = k => j <= i}
  IN \E at \in [1..Cardinality(W) -> W] :
     /\ \A i, j \in 1..Cardinality(W) : i < j => at[i] < at[j]
     /\ queue' = SubSeq(q, n + 1, Len(q))
     /\ pendingMap' = [k \in Keys |->
          IF Last(k) = {} THEN pendingMap[k] ELSE q[CHOOSE i \in Last(k) : TRUE]]
     /\ outcome' = [m \in Msgs |->
          IF out[m] = "open" /\ \E i \in (1..n) \ W : q[i] = m
          THEN DeadOutcome(m) ELSE out[m]]
     /\ sent' = sent \o [i \in 1..Cardinality(W) |-> <<s, q[at[i]]>>]

\* _drain on a queue q and an open stream s.  p and sch are the values of
\* _drainPaused and _drainScheduled when it is entered, need the streams that
\* owe a 'drain' event.  It ends when the queue is empty, when write() returns
\* false (the environment chooses), or after DrainBatch writes.
Drain(q, out, s, need, p, sch) ==
  \E n \in 0..Len(q) :
    LET written == Cardinality({i \in 1..n : ~Dead(q[i])})
        lastWritten == n > 0 /\ ~Dead(q[n])
    IN /\ DrainPrefix(q, n, out, s)
       /\ \/ /\ n = Len(q)
             /\ written < DrainBatch \/ (written = DrainBatch /\ lastWritten)
             /\ paused' = p /\ scheduled' = sch /\ needDrain' = need
          \/ /\ lastWritten /\ written <= DrainBatch
             /\ paused' = TRUE /\ needDrain' = need \cup {s} /\ scheduled' = sch
          \/ /\ n < Len(q) /\ lastWritten /\ written = DrainBatch
             /\ scheduled' = (sch \/ ~p)
             /\ paused' = p /\ needDrain' = need

\* Nothing is drained: the queue keeps q, the callers keep out.
NoDrain(q, out, need, p, sch) ==
  /\ queue' = q /\ outcome' = out /\ needDrain' = need
  /\ paused' = p /\ scheduled' = sch
  /\ UNCHANGED <<pendingMap, sent>>

-----------------------------------------------------------------------------
\* Every microtask has run.
Idle == events = <<>>

Init ==
  /\ queue = <<>> /\ pendingMap = NoPending /\ stream = NoStream
  /\ paused = FALSE /\ scheduled = FALSE /\ closed = FALSE
  /\ streamState = "initializing" /\ closing = "no" /\ started = FALSE
  /\ outcome = [m \in Msgs |-> "unsent"] /\ expired = {} /\ aborted = {}
  /\ accepted = <<>>
  /\ opened = 0 /\ alive = {} /\ needDrain = {} /\ sent = <<>>
  /\ tstate \in {"READY", "RECONNECTING"} /\ events = <<>>
  /\ tclosing = FALSE /\ outages = 0

\* _openStream.  duplexStream() throws once the transport is closing; then the
\* stream the sender had, if any, is kept and only the label changes.
OpenStream ==
  \/ /\ tclosing
     /\ streamState' = "reconnecting"
     /\ UNCHANGED <<stream, opened, alive>>
     /\ NoDrain(queue, outcome, needDrain, paused, scheduled)
  \/ /\ ~tclosing
     /\ opened' = opened + 1
     /\ stream' = opened + 1
     /\ alive' = alive \cup {opened + 1}
     /\ streamState' = "connected"
     /\ Drain(queue, outcome, opened + 1, needDrain, FALSE, scheduled)

\* start(): register the listener and open the stream if the transport is READY.
\* client.ts creates its senders on the first send of an open client.
Start ==
  /\ Idle /\ ~started /\ ~tclosing
  /\ started' = TRUE
  /\ IF tstate = "READY"
     THEN OpenStream
     ELSE /\ UNCHANGED <<streamState, stream, opened, alive>>
          /\ NoDrain(queue, outcome, needDrain, paused, scheduled)
  /\ UNCHANGED <<closed, closing, expired, aborted, accepted, transport>>

\* Mutant: the bound is checked one too late.
QueueFullMutant == Len(queue) > MaxQueueSize

QueueFull == Len(queue) >= MaxQueueSize

\* Mutant: unshift for push.
PushMutant(q, m) == <<m>> \o q

Push(q, m) == Append(q, m)

\* enqueue(): a closed sender and an aborted signal throw, a full queue rejects,
\* otherwise the request is queued and the queue drained at once when that is possible.
Enqueue(m) ==
  /\ started /\ outcome[m] = "unsent"
  /\ \/ /\ closed
        /\ outcome' = [outcome EXCEPT ![m] = "closed"]
        /\ UNCHANGED <<sender, grpc, expired, aborted, accepted, transport>>
     \/ /\ ~closed /\ m \in aborted
        /\ outcome' = [outcome EXCEPT ![m] = "cancelled"]
        /\ UNCHANGED <<sender, grpc, expired, aborted, accepted, transport>>
     \/ /\ ~closed /\ m \notin aborted /\ QueueFull
        /\ outcome' = [outcome EXCEPT ![m] = "full"]
        /\ UNCHANGED <<sender, grpc, expired, aborted, accepted, transport>>
     \/ /\ ~closed /\ m \notin aborted /\ ~QueueFull
        /\ accepted' = Append(accepted, m)
        /\ LET q == Push(queue, m)
               out == [outcome EXCEPT ![m] = IF m \in Tracked THEN "open" ELSE "void"]
           IN IF paused \/ stream = NoStream
              THEN NoDrain(q, out, needDrain, paused, scheduled)
              ELSE Drain(q, out, stream, needDrain, paused, scheduled)
        /\ UNCHANGED <<stream, closed, streamState, closing, started, expired, aborted,
                       opened, alive, transport>>

\* The signal of m fires.  The abortHandler enqueue() registered takes a queued
\* request out; one that was written is not affected (_cleanupItemSignal).
Abort(m) ==
  /\ m \in Signalled /\ outcome[m] \in {"unsent", "open"} /\ m \notin aborted
  /\ aborted' = aborted \cup {m}
  /\ \/ \E i \in 1..Len(queue) :
          /\ queue[i] = m
          /\ queue' = SubSeq(queue, 1, i - 1) \o SubSeq(queue, i + 1, Len(queue))
          /\ outcome' = [outcome EXCEPT ![m] = "cancelled"]
     \/ m \notin Queued /\ UNCHANGED <<queue, outcome>>
  /\ UNCHANGED <<pendingMap, stream, paused, scheduled, closed, streamState, closing,
                 started, expired, accepted, grpc, transport>>

\* The deadline of a request passes.  Nothing reacts to it by itself.
Expire(m) ==
  /\ m \in Tracked /\ outcome[m] = "open" /\ m \notin expired
  /\ expired' = expired \cup {m}
  /\ UNCHANGED <<sender, outcome, aborted, accepted, grpc, transport>>

-----------------------------------------------------------------------------
\* Microtasks: one stateChange event is delivered to _handleStateChange.

DropStream == stream' = NoStream /\ paused' = FALSE

HandleStateChange(state) ==
  \/ /\ state = "RECONNECTING"
     /\ RejectAllPending("disconnected") /\ DropStream
     /\ streamState' = "reconnecting" /\ closed' = closed
     /\ UNCHANGED <<queue, scheduled, grpc>>
  \/ /\ state = "READY"
     /\ OpenStream
     /\ closed' = closed
  \/ /\ state = "CLOSED"
     /\ RejectAllPending("closed") /\ stream' = NoStream
     /\ streamState' = "closed" /\ closed' = TRUE
     /\ UNCHANGED <<queue, paused, scheduled, grpc>>

\* Mutant: a sender closed by a permanent error still listens.
ListeningMutant == started /\ closing = "no"

Listening == started /\ closing = "no" /\ ~closed

DeliverStateChange ==
  /\ events # <<>>
  /\ events' = Tail(events)
  /\ IF Listening
     THEN HandleStateChange(Head(events))
     ELSE UNCHANGED <<queue, pendingMap, stream, paused, scheduled, closed, streamState,
                      outcome, grpc>>
  /\ UNCHANGED <<closing, started, expired, aborted, accepted, tstate, tclosing, outages>>

-----------------------------------------------------------------------------
\* I/O callbacks and timers.

\* setImmediate fires.  _drain checks the stream and _closed, not _drainPaused.
DrainImmediate ==
  /\ Idle /\ scheduled
  /\ IF stream = NoStream \/ closed
     THEN NoDrain(queue, outcome, needDrain, paused, FALSE)
     ELSE Drain(queue, outcome, stream, needDrain, paused, FALSE)
  /\ UNCHANGED <<stream, closed, streamState, closing, started, expired, aborted, accepted,
                 opened, alive, transport>>

\* Mutant: backpressure ends and no drain is scheduled.
DrainDeferredMutant == scheduled' = scheduled

\* _scheduleDrainDeferred, once _drainPaused is cleared.
DrainDeferred == scheduled' = (scheduled \/ ~closed)

\* 'drain' of stream s, current or not: clear _drainPaused, drain deferred.
StreamDrain(s) ==
  /\ s \in needDrain \cap alive
  /\ needDrain' = needDrain \ {s}
  /\ paused' = FALSE /\ DrainDeferred
  /\ UNCHANGED <<queue, pendingMap, stream, closed, streamState, closing, started, calls,
                 opened, alive, sent, transport>>

\* 'data' on stream s: the server answers the request written under key k.
StreamData(s, k, how) ==
  /\ s \in alive
  /\ \E i \in 1..Len(sent) : /\ sent[i][1] = s /\ sent[i][2] \in Tracked
                             /\ KeyOf[sent[i][2]] = k
  /\ pendingMap[k] # NoMsg
  /\ pendingMap' = [pendingMap EXCEPT ![k] = NoMsg]
  /\ outcome' = Settle(outcome, {pendingMap[k]}, how)
  /\ UNCHANGED <<queue, stream, paused, scheduled, closed, streamState, closing, started,
                 expired, aborted, accepted, grpc, transport>>

\* Stream s terminates.  grpc-js reports a status other than OK as 'error' and
\* then 'end' with nothing in between.  _handleStreamError ignores CANCELLED,
\* treats PERMISSION_DENIED and UNAUTHENTICATED as permanent and every other
\* code like an end; _handleStreamEnd then finds nothing left to do.
StreamEnd(s, code) ==
  /\ s \in alive
  /\ alive' = alive \ {s}
  /\ IF closed
     THEN UNCHANGED <<pendingMap, stream, paused, closed, streamState, outcome>>
     ELSE /\ RejectAllPending("disconnected")
          /\ DropStream
          /\ closed' = (code = "permanent")
          /\ streamState' = IF code = "permanent" THEN "closed" ELSE "reconnecting"
  /\ UNCHANGED <<queue, scheduled, closing, started, expired, aborted, accepted, opened,
                 needDrain, sent, transport>>

\* The one-second interval of start(), cleared by _doClose.
SweepExpiredPending ==
  /\ Idle /\ started /\ closing = "no"
  /\ Pending \cap expired # {}
  /\ outcome' = Settle(outcome, Pending \cap expired, "timeout")
  /\ pendingMap' = [k \in Keys |-> IF pendingMap[k] \in expired THEN NoMsg ELSE pendingMap[k]]
  /\ UNCHANGED <<queue, stream, paused, scheduled, closed, streamState, closing, started,
                 expired, aborted, accepted, grpc, transport>>

-----------------------------------------------------------------------------
\* close().  Further calls return the same promise.

Close ==
  /\ started /\ closing = "no"
  /\ closed' = TRUE /\ streamState' = "closed" /\ paused' = FALSE /\ queue' = <<>>
  /\ \/ /\ Pending # {}                       \* wait for the acks
        /\ closing' = "waiting"
        /\ outcome' = Settle(outcome, Queued, "closed")
        /\ UNCHANGED <<pendingMap, stream>>
     \/ /\ closing' = "done"                  \* nothing to wait for, or timeout 0
        /\ outcome' = Settle(outcome, Queued \cup Pending, "closed")
        /\ pendingMap' = NoPending /\ stream' = NoStream
  /\ UNCHANGED <<scheduled, started, expired, aborted, accepted, grpc, transport>>

\* Mutant: no timer, only the last ack ends the wait.
CloseFinishNoTimerMutant ==
  /\ closing = "waiting" /\ Pending = {}
  /\ closing' = "done"
  /\ RejectAllPending("closed")
  /\ stream' = NoStream
  /\ UNCHANGED <<queue, paused, scheduled, closed, streamState, started, expired, aborted,
                 accepted, grpc, transport>>

\* The close timer fires, or the last ack came: reject the rest, end the stream.
CloseFinish ==
  /\ closing = "waiting"
  /\ closing' = "done"
  /\ RejectAllPending("closed")
  /\ stream' = NoStream
  /\ UNCHANGED <<queue, paused, scheduled, closed, streamState, started, expired, aborted,
                 accepted, grpc, transport>>

-----------------------------------------------------------------------------
\* The transport, as the sender sees it (module Connection has the whole of it).
\* A lost channel is announced twice, by handleTransientFailure and by the first
\* attempt of the loop, and every further attempt announces it again.

TransportLost ==
  /\ tstate = "READY" /\ ~tclosing /\ outages < MaxOutages
  /\ tstate' = "RECONNECTING" /\ events' = events \o <<"RECONNECTING", "RECONNECTING">>
  /\ outages' = outages + 1
  /\ UNCHANGED <<sender, calls, grpc, tclosing>>

TransportRetry ==
  /\ tstate = "RECONNECTING" /\ ~tclosing /\ Idle
  /\ events' = Append(events, "RECONNECTING")
  /\ UNCHANGED <<sender, calls, grpc, tstate, tclosing, outages>>

TransportReady ==
  /\ tstate = "RECONNECTING" /\ ~tclosing
  /\ Idle                              \* connecting takes I/O
  /\ tstate' = "READY" /\ events' = Append(events, "READY")
  /\ UNCHANGED <<sender, calls, grpc, tclosing, outages>>

TransportClosing ==
  /\ ~tclosing
  /\ tclosing' = TRUE
  /\ UNCHANGED <<sender, calls, grpc, tstate, events, outages>>

TransportClosed ==
  /\ tclosing /\ tstate # "CLOSED"
  /\ tstate' = "CLOSED" /\ events' = Append(events, "CLOSED")
  /\ UNCHANGED <<sender, calls, grpc, tclosing, outages>>

Next ==
  \/ Start
  \/ \E m \in Msgs : Enqueue(m) \/ Abort(m) \/ Expire(m)
  \/ DeliverStateChange
  \/ DrainImmediate
  \/ \E s \in StreamIds : StreamDrain(s)
  \/ \E s \in StreamIds, k \in Keys, how \in {"ok", "error"} : StreamData(s, k, how)
  \/ \E s \in StreamIds, code \in {"ok", "cancelled", "transient", "permanent"} :
       StreamEnd(s, code)
  \/ SweepExpiredPending
  \/ Close \/ CloseFinish
  \/ TransportLost \/ TransportRetry \/ TransportReady \/ TransportClosing \/ TransportClosed

Spec == Init /\ [][Next]_vars

\* setImmediate, timers and microtasks run as long as the event loop does, time
\* passes, and the transport reconnects.  Nothing is assumed of the server.
Fairness ==
  /\ WF_vars(Start) /\ WF_vars(DeliverStateChange) /\ WF_vars(DrainImmediate)
  /\ WF_vars(SweepExpiredPending) /\ WF_vars(CloseFinish)
  /\ \A m \in Msgs : WF_vars(Expire(m))
  /\ WF_vars(TransportReady)

FairSpec == Spec /\ Fairness

-----------------------------------------------------------------------------
Outcomes == {"unsent", "open", "void", "full", "ok", "error", "timeout", "cancelled",
             "disconnected", "closed"}

\* Every variable stays in its type; the queue never outgrows maxQueueSize.
TypeOK ==
  /\ queue \in Seq(Msgs) /\ pendingMap \in [Keys -> Tracked \cup {NoMsg}]
  /\ stream \in 0..opened /\ paused \in BOOLEAN /\ scheduled \in BOOLEAN
  /\ closed \in BOOLEAN /\ closing \in {"no", "waiting", "done"} /\ started \in BOOLEAN
  /\ streamState \in {"initializing", "connected", "reconnecting", "closed"}
  /\ outcome \in [Msgs -> Outcomes] /\ expired \subseteq Tracked /\ aborted \subseteq Signalled
  /\ opened \in Nat /\ alive \subseteq 1..opened /\ needDrain \subseteq 1..opened
  /\ sent \in Seq((1..opened) \X Msgs) /\ accepted \in Seq(Msgs)
  /\ tstate \in {"READY", "RECONNECTING", "CLOSED"} /\ tclosing \in BOOLEAN
  /\ events \in Seq({"READY", "RECONNECTING", "CLOSED"}) /\ outages \in 0..MaxOutages
  /\ Len(queue) <= MaxQueueSize

\* A promise that is still open is the sender's to settle: its request is in the
\* queue or in the pending map, unless a later request took over its key there.
OpenIsHeld ==
  \A m \in Tracked : outcome[m] = "open" =>
    \/ m \in Queued
    \/ pendingMap[KeyOf[m]] = m
    \/ \E other \in Tracked \ {m} : KeyOf[other] = KeyOf[m] /\ outcome[other] # "unsent"

\* Requests reach the wire in the order enqueue() accepted them and no request is
\* written twice, across reconnections, backpressure, deadlines and aborts.  Nothing
\* follows once the sender is closed.
Position(m) == CHOOSE i \in 1..Len(accepted) : accepted[i] = m

WritesInOrder ==
  \A i, j \in 1..Len(sent) : i < j => Position(sent[i][2]) < Position(sent[j][2])

\* A closed sender writes nothing and opens no stream, and what a step leaves written is
\* in order.
WireInOrder == [][WritesInOrder' /\ (closed => sent' = sent /\ opened' = opened)]_vars

\* The sender as its callers see it: the wire without the streams.
Wire == [i \in 1..Len(sent) |-> sent[i][2]]

Abstract == INSTANCE RequestLine
              WITH taken <- accepted, written <- Wire, late <- expired, over <- closed

\* What the sender promises, whatever its streams do: a request is refused or taken; it is
\* written at most once, in order, before its deadline and only while its caller has been
\* told nothing; an answer is the answer to something written; who was told that its
\* request is cancelled finds it never written; and no caller is told twice.
ImplementsRequestLine == Abstract!Spec

\* Nothing waits in the queue of a connected sender without something that will
\* drain it: a setImmediate, or the 'drain' event of the current stream.
QueueHasWaker ==
  ~closed /\ stream # NoStream /\ queue # <<>> =>
    scheduled \/ (paused /\ stream \in needDrain \cap alive)

\* After close() has finished every tracked promise is settled (distinct keys).
DistinctKeys == \A m, n \in Tracked : KeyOf[m] = KeyOf[n] => m = n

CloseSettlesAll ==
  closing = "done" /\ DistinctKeys => \A m \in Tracked : outcome[m] # "open"

\* No caller is forgotten: as long as its promise is open the sender holds its request,
\* something will drain the queue it may wait in, and when close() is done no promise is
\* open.
NothingForgotten == TypeOK /\ OpenIsHeld /\ QueueHasWaker /\ CloseSettlesAll

\* A request that was written and is not answered is settled by its deadline.
PendingSettles == \A m \in Tracked : m \in Pending ~> outcome[m] # "open"

\* close() terminates although the server may never answer.
CloseTerminates == closing = "waiting" ~> closing = "done"

-----------------------------------------------------------------------------
\* What comments, tests and docs of the repository say and the code does not do.

\* client.ts: "@throws KubeMQTimeoutError If the operation exceeds the configured
\* timeout".  A request that stays queued is never looked at: no stream, no drain.
SendTimesOut == \A m \in Tracked : m \in expired ~> outcome[m] # "open"

\* base-streaming-sender.ts: "Transport's ReconnectionManager will emit READY when
\* reconnected".  A stream that fails under a READY transport is never replaced.
StreamReopens ==
  started /\ stream = NoStream ~> stream # NoStream \/ closed \/ tclosing \/ tstate # "READY"

\* errors.ts: SenderDisconnectedError means that "the shared streaming sender's
\* gRPC stream disconnected".  The end of a stream already replaced rejects
\* the requests of its successor as well.
DisconnectedMeansOwnStream ==
  [][\A m \in Tracked :
       outcome[m] = "open" /\ outcome'[m] = "disconnected" /\ tstate = "READY" /\ Idle =>
         \A i \in 1..Len(sent) : sent[i][2] = m => sent[i][1] \notin alive']_vars
=============================================================================

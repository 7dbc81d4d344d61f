----------------------------- MODULE Connection -----------------------------
(***************************************************************************)
(* One client's connection: GrpcTransport (connect, close, the channel     *)
(* watch and handleTransientFailure), ConnectionStateMachine and           *)
(* ReconnectionManager, over one grpc-js channel at a time.                *)
(*                                                                         *)
(* An action is one callback or continuation on the JavaScript event loop. *)
(* Microtasks that others can observe are in the FIFO `microtasks`: the    *)
(* emission a transition queues, and the resubscription that follows the   *)
(* reconnection loop.  What needs I/O or a timer waits until microtasks    *)
(* and promise continuations have run (Idle).                              *)
(*                                                                         *)
(* The channel is grpc-js's: idle until somebody needs it, connecting,     *)
(* ready, or in TRANSIENT_FAILURE, from where it tries again by itself.  A *)
(* channel that loses its connection becomes idle, not failed.             *)
(***************************************************************************)
EXTENDS Integers, Sequences

CONSTANTS
  MaxAttempts,    \* reconnect.maxAttempts, -1 for unlimited
  MaxOutages      \* bound: how often the broker drops or refuses the connection

ASSUME ConnectionConstants ==
  MaxAttempts \in Nat \cup {-1} /\ MaxOutages \in Nat

VARIABLES
  tstate,       \* ConnectionStateMachine._state
  microtasks,   \* queued emissions <<old, new>>, and <<"resubscribe">>
  closing,      \* transport._closing
  closePc,      \* transport.close(): "no", "awaiting" buffer and calls, "done"
  client,       \* this.grpcClient: "none" or the connectivity of its channel
  watching,     \* a watchConnectivityState callback is registered on it
  loop,         \* reconnect(): "none", "sleeping", "building", "probing"
  attempt,      \* ReconnectionManager.attempt, 0 when MaxAttempts = -1
  aborted,      \* its abortController is aborted
  created,      \* KubeMQClient.create(): "no", "yes", "failed"
  heard,        \* history: lifecycle events the application's listeners got
  outages       \* how often the connection was dropped or refused

machine == <<tstate, microtasks>>
closeVars == <<closing, closePc>>
channel == <<client, watching>>
manager == <<loop, attempt, aborted>>
connVars == <<machine, closeVars, channel, manager, created, heard, outages>>

-----------------------------------------------------------------------------
\* The state machine.

States == {"IDLE", "CONNECTING", "READY", "RECONNECTING", "CLOSED"}

\* VALID_TRANSITIONS.
ValidTransitions ==
  {<<"IDLE", "CONNECTING">>, <<"IDLE", "CLOSED">>,
   <<"CONNECTING", "READY">>, <<"CONNECTING", "RECONNECTING">>, <<"CONNECTING", "CLOSED">>,
   <<"READY", "RECONNECTING">>, <<"READY", "CLOSED">>,
   <<"RECONNECTING", "RECONNECTING">>, <<"RECONNECTING", "READY">>, <<"RECONNECTING", "CLOSED">>}

\* Mutant: every transition is taken.
AllowedMutant(old, new) == TRUE

Allowed(old, new) == <<old, new>> \in ValidTransitions

Resubscription == <<"resubscribe">>

\* transitionTo(news[1]), transitionTo(news[2]), ... and then more microtasks.
\* A transition that is not valid is logged and ignored.
Transitions(news, more) ==
  LET from(i) == IF i = 1 THEN tstate ELSE news[i - 1]
      ok(i) == Allowed(from(i), news[i])
  IN IF news # <<>> /\ ok(1)
     THEN /\ tstate' = news[Len(news)]
          /\ microtasks' = microtasks \o [i \in 1..Len(news) |-> <<from(i), news[i]>>] \o more
     ELSE tstate' = tstate /\ microtasks' = microtasks \o more

\* Mutant: every RECONNECTING is announced as a disconnection.
EmittedMutant(old, new) ==
  CASE new = "READY" /\ old = "RECONNECTING" -> <<"reconnected">>
    [] new = "RECONNECTING" -> <<"disconnected">>
    [] new = "CLOSED" -> <<"closed">>
    [] OTHER -> <<>>

\* The lifecycle event a transition emits ('reconnecting' and 'stateChange' aside).
Emitted(old, new) ==
  CASE new = "READY" /\ old = "RECONNECTING" -> <<"reconnected">>
    [] new = "RECONNECTING" /\ old # "RECONNECTING" -> <<"disconnected">>
    [] new = "CLOSED" -> <<"closed">>
    [] OTHER -> <<>>

\* Every microtask and promise continuation has run: timers and I/O may.
Idle == microtasks = <<>> /\ closePc # "awaiting" /\ ~(loop = "probing" /\ client = "ready")

Init ==
  /\ tstate = "IDLE" /\ microtasks = <<>> /\ closing = FALSE /\ closePc = "no"
  /\ client = "none" /\ watching = FALSE
  /\ loop = "none" /\ attempt = 0 /\ aborted = FALSE
  /\ created = "no" /\ heard = <<>> /\ outages = 0

\* One microtask: the listeners of an emission; Subscriptions models the other kind.
RunMicrotask ==
  /\ microtasks # <<>>
  /\ microtasks' = Tail(microtasks)
  /\ heard' = IF Head(microtasks) = Resubscription \/ created # "yes" THEN heard
              ELSE heard \o Emitted(Head(microtasks)[1], Head(microtasks)[2])
  /\ UNCHANGED <<tstate, closeVars, channel, manager, created, outages>>

-----------------------------------------------------------------------------
\* connect() and create().

\* validateAuth() has passed.
ConnectBegin ==
  /\ tstate = "IDLE" /\ created = "no"
  /\ Transitions(<<"CONNECTING">>, <<>>)
  /\ UNCHANGED <<closeVars, channel, manager, created, heard, outages>>

\* The client is built and READY declared; the channel is still idle.
ConnectEnd ==
  /\ tstate = "CONNECTING" /\ created = "no" /\ Idle
  /\ client' = "idle" /\ watching' = TRUE
  /\ Transitions(<<"READY">>, <<>>)
  /\ UNCHANGED <<closeVars, manager, created, heard, outages>>

\* Certificates, key files or the first token are refused: create() throws.
ConnectFails ==
  /\ tstate \in {"IDLE", "CONNECTING"} /\ created = "no" /\ Idle
  /\ created' = "failed"
  /\ UNCHANGED <<machine, closeVars, channel, manager, heard, outages>>

\* create() returns the client, the application registers its listeners.
Create ==
  /\ tstate = "READY" /\ created = "no" /\ Idle
  /\ created' = "yes"
  /\ UNCHANGED <<machine, closeVars, channel, manager, heard, outages>>

-----------------------------------------------------------------------------
\* The reconnection loop.

\* Mutant: -1 is taken for a limit.
ExhaustedMutant(n) == n >= MaxAttempts

Exhausted(n) == MaxAttempts # -1 /\ n >= MaxAttempts

Count(n) == IF MaxAttempts = -1 THEN 0 ELSE n + 1

\* The head of the while loop after n attempts: another attempt, preceded by the
\* transitions in `first`, or the end of the loop, after which the .then runs.
LoopHead(n, first) ==
  IF Exhausted(n) \/ (first = <<>> /\ aborted)
  THEN /\ loop' = "none" /\ attempt' = n
       /\ Transitions(first, <<Resubscription>>)
  ELSE /\ loop' = "sleeping" /\ attempt' = Count(n)
       /\ Transitions(Append(first, "RECONNECTING"), <<>>)

\* The connectivity of the channel changes to c.  A watch callback runs at once:
\* it goes back to watching, or hands a TRANSIENT_FAILURE to handleTransientFailure.
ChannelBecomes(c) ==
  /\ client' = c
  /\ IF watching /\ ~closing /\ c = "failure"
     THEN /\ watching' = FALSE /\ aborted' = FALSE
          /\ LoopHead(0, <<"RECONNECTING">>)
     ELSE /\ watching' = (watching /\ ~closing)
          /\ UNCHANGED <<machine, manager>>
  /\ UNCHANGED <<closeVars, created, heard>>

\* A call of the application, or waitForReady(), wakes an idle channel; a failed
\* one tries again after its backoff.
ChannelConnects ==
  /\ Idle /\ client \in {"idle", "failure"} /\ (created = "yes" \/ loop = "probing")
  /\ ChannelBecomes("connecting") /\ UNCHANGED outages

ChannelReady ==
  /\ Idle /\ client = "connecting"
  /\ ChannelBecomes("ready") /\ UNCHANGED outages

\* The broker refuses, or drops the connection.
ChannelLost ==
  /\ Idle /\ outages < MaxOutages
  /\ outages' = outages + 1
  /\ \/ client = "connecting" /\ ChannelBecomes("failure")
     \/ client = "ready" /\ ChannelBecomes("idle")

\* sleep(delayMs) is over: connectFn closes the old client first.
SleepOver ==
  /\ loop = "sleeping" /\ ~aborted /\ Idle
  /\ loop' = "building" /\ client' = "none"
  /\ UNCHANGED <<machine, closeVars, watching, attempt, aborted, created, heard, outages>>

\* Mutant: the timer is cleared and the promise of sleep() never resolved.
SleepAbortedMutant ==
  /\ loop = "sleeping" /\ aborted
  /\ UNCHANGED connVars

\* cancel() ends the sleep, and with it the loop.
SleepAborted ==
  /\ loop = "sleeping" /\ aborted
  /\ loop' = "none"
  /\ Transitions(<<>>, <<Resubscription>>)
  /\ UNCHANGED <<closeVars, channel, attempt, aborted, created, heard, outages>>

\* The credentials are resolved again and a new client is built, closing or not.
Build ==
  /\ loop = "building"
  /\ loop' = "probing" /\ client' = "idle"
  /\ UNCHANGED <<machine, closeVars, watching, attempt, aborted, created, heard, outages>>

\* The attempt fails: key files cannot be read,
BuildFails ==
  /\ loop = "building" /\ Idle /\ outages < MaxOutages
  /\ outages' = outages + 1
  /\ LoopHead(attempt, <<>>)
  /\ UNCHANGED <<closeVars, channel, aborted, created, heard>>

\* or waitForReady() gives up after five seconds.
ProbeFails ==
  /\ loop = "probing" /\ client # "ready" /\ Idle
  /\ LoopHead(attempt, <<>>)
  /\ UNCHANGED <<closeVars, channel, aborted, created, heard, outages>>

\* Mutant: connectFn forgets to watch the new channel.
WatchMutant == FALSE

\* watchChannelState() at the end of connectFn.
Watch == ~closing

\* waitForReady() answers: watch the new channel, declare READY, resubscribe.
AttemptSucceeds ==
  /\ loop = "probing" /\ client = "ready"
  /\ loop' = "none" /\ attempt' = 0 /\ aborted' = FALSE
  /\ watching' = Watch
  /\ Transitions(<<"READY">>, <<Resubscription>>)
  /\ UNCHANGED <<closeVars, client, created, heard, outages>>

-----------------------------------------------------------------------------
\* transport.close(), called once by KubeMQClient.#doClose.

\* A reconnecting transport cancels the loop and is closed at once; the client
\* that is there, if any, stays.
CloseReconnecting ==
  /\ created = "yes" /\ ~closing /\ tstate = "RECONNECTING"
  /\ closing' = TRUE /\ closePc' = "done"
  /\ aborted' = TRUE
  /\ Transitions(<<"CLOSED">>, <<>>)
  /\ UNCHANGED <<channel, loop, attempt, created, heard, outages>>

\* Otherwise it flushes the (empty) buffer and awaits the (empty) in-flight set,
CloseBegin ==
  /\ created = "yes" /\ ~closing /\ tstate = "READY"
  /\ closing' = TRUE /\ closePc' = "awaiting"
  /\ UNCHANGED <<machine, channel, manager, created, heard, outages>>

\* and closes the client.
CloseEnd ==
  /\ closePc = "awaiting"
  /\ closePc' = "done" /\ client' = "none" /\ watching' = FALSE
  /\ Transitions(<<"CLOSED">>, <<>>)
  /\ UNCHANGED <<closing, manager, created, heard, outages>>

-----------------------------------------------------------------------------
Next ==
  \/ RunMicrotask
  \/ ConnectBegin \/ ConnectEnd \/ ConnectFails \/ Create
  \/ ChannelConnects \/ ChannelReady \/ ChannelLost
  \/ SleepOver \/ SleepAborted \/ Build \/ BuildFails \/ ProbeFails \/ AttemptSucceeds
  \/ CloseReconnecting \/ CloseBegin \/ CloseEnd

Spec == Init /\ [][Next]_connVars

\* The event loop runs its tasks.  The broker comes back after finitely many
\* outages: then an attempt that is repeated succeeds at last (SF, because each
\* attempt may give up before it does).
Fairness ==
  /\ WF_connVars(RunMicrotask)
  /\ WF_connVars(SleepOver) /\ WF_connVars(SleepAborted) /\ WF_connVars(Build)
  /\ WF_connVars(AttemptSucceeds) /\ WF_connVars(CloseEnd)
  /\ SF_connVars(loop = "probing" /\ ChannelConnects)
  /\ SF_connVars(loop = "probing" /\ ChannelReady)

FairSpec == Spec /\ Fairness

-----------------------------------------------------------------------------
\* Every variable stays in its type.
ConnTypeOK ==
  /\ tstate \in States
  /\ microtasks \in Seq((States \X States) \cup {Resubscription})
  /\ closing \in BOOLEAN /\ closePc \in {"no", "awaiting", "done"}
  /\ client \in {"none", "idle", "connecting", "ready", "failure"} /\ watching \in BOOLEAN
  /\ loop \in {"none", "sleeping", "building", "probing"}
  /\ attempt \in 0..MaxAttempts \cup {0} /\ aborted \in BOOLEAN
  /\ created \in {"no", "yes", "failed"}
  /\ heard \in Seq({"disconnected", "reconnected", "closed"}) /\ outages \in 0..MaxOutages

\* Until it is closed a connection is looked after: READY means that the channel
\* is watched, RECONNECTING that a reconnection loop runs, never both.
LookedAfter ==
  created = "yes" /\ ~closing =>
    /\ tstate = "READY" => watching /\ client # "none" /\ loop = "none"
    /\ tstate = "RECONNECTING" /\ MaxAttempts = -1 => ~watching /\ loop # "none"

\* A transport that was closed never announces another state, although the loop
\* it cancelled may still succeed afterwards.
ClosedIsFinal == [][tstate = "CLOSED" => tstate' = "CLOSED"]_connVars

\* The application hears disconnections and reconnections in turn, 'closed' last
\* and once: the connection implements ConnectionLifecycle.
Lifecycle == INSTANCE ConnectionLifecycle
LifecycleHeard == Lifecycle!Spec

\* A cancelled loop ends, and with unlimited attempts an outage ends in READY or
\* in close().
LoopEnds == closing /\ loop # "none" ~> loop = "none"

OutageEnds ==
  MaxAttempts = -1 => (tstate = "RECONNECTING" ~> tstate \in {"READY", "CLOSED"})

-----------------------------------------------------------------------------
\* What docs of the repository say and the code does not do.

\* CONCEPTS.md: "Always close clients - Release gRPC connections and deregister
\* subscriptions cleanly when shutting down".  close() during a reconnection returns
\* without closing the client, and the cancelled attempt may build one more.
CloseReleasesChannel == closePc = "done" /\ loop = "none" /\ Idle => client = "none"
=============================================================================

----------------------------- MODULE UnaryCalls -----------------------------
(***************************************************************************)
(* The request-and-answer operations of KubeMQClient: each is one or more  *)
(* attempts of GrpcTransport.unaryCall(), most of them made by withRetry() *)
(* under a retry throttle that all the operations of a client share.       *)
(*                                                                         *)
(* A failure is the gRPC status it came with, and whether a KubeMQError    *)
(* was made of it: withRetry() looks at nothing else.  The server, the     *)
(* network and the application's signals are the environment; a backoff    *)
(* may end at any time.                                                    *)
(***************************************************************************)
EXTENDS Integers, FiniteSets

CONSTANTS
  Calls,                  \* calls the application may make, each one once
  Operations,             \* the operations to check, among AllOperations
  Statuses,               \* gRPC statuses a call may fail with
  MaxRetries,             \* RetryPolicy.maxRetries
  MaxConcurrentRetries    \* maxConcurrentRetries, 0 for no limit

-----------------------------------------------------------------------------
\* The operations.

\* type is the OperationType; signal says whether a signal is always resolved, only when
\* asked for, only when the caller gives one, or never; deadline is TRUE when the request
\* carries one; retried when withRetry() makes the attempts; mapped when what it throws
\* is mapped in the end; own are the KubeMQErrors an answer may become, by status.
Operation(type, signal, deadline, retried, mapped, own) ==
  [type |-> type, signal |-> signal, deadline |-> deadline, retried |-> retried,
   mapped |-> mapped, own |-> own]

sendQueueMessagesBatch == Operation("queueSend", "always", FALSE, TRUE, FALSE, {})
receiveQueueMessages == Operation("queueReceive", "always", FALSE, TRUE, FALSE, {"INTERNAL"})
peekQueueMessages == Operation("queueSend", "always", FALSE, TRUE, FALSE, {"INTERNAL"})
sendCommand == Operation("command", "asked", TRUE, TRUE, TRUE, {})
sendQuery == Operation("query", "asked", TRUE, TRUE, TRUE, {})
sendCommandResponse == Operation("command", "asked", TRUE, TRUE, FALSE, {})
sendQueryResponse == Operation("query", "asked", TRUE, TRUE, FALSE, {})
sendResponseDirect == Operation("direct", "given", TRUE, FALSE, FALSE, {})
createChannel == Operation("direct", "never", FALSE, FALSE, FALSE, {})
deleteChannel == createChannel
listChannels == Operation("send", "always", FALSE, TRUE, FALSE, {"ABORTED"})
ping == Operation("events", "always", FALSE, TRUE, FALSE, {})
ackAllQueueMessages == Operation("queueSend", "always", FALSE, TRUE, FALSE, {"INTERNAL"})

\* withRetry() around a function that makes KubeMQErrors of its failures, as its
\* unit tests use it, for an operation that is idempotent and for one that is not.
idempotent == Operation("subscribe", "asked", TRUE, TRUE, FALSE, Statuses)
notIdempotent == Operation("command", "always", TRUE, TRUE, FALSE, Statuses)

\* createEventsChannel(), deleteQueuesChannel(), listCommandsChannels() and the other
\* aliases for one type of channel are the three channel operations.
AllOperations ==
  {sendQueueMessagesBatch, receiveQueueMessages, peekQueueMessages, sendCommand, sendQuery,
   sendCommandResponse, sendQueryResponse, sendResponseDirect, createChannel, deleteChannel,
   listChannels, ping, ackAllQueueMessages, idempotent, notIdempotent}

ASSUME CallsConstants ==
  /\ IsFiniteSet(Calls) /\ Operations \subseteq AllOperations
  /\ MaxRetries \in Nat /\ MaxConcurrentRetries \in Nat

IdempotentOperations == {"events", "eventsStore", "subscribe"}

\* mapGrpcError(): the class of error a status becomes.  CANCELLED is mapped without
\* localSignalAborted, which no caller sets.
MapGrpcError(status) ==
  CASE status \in {"CANCELLED", "UNKNOWN", "ABORTED"} -> "TransientError"
    [] status \in {"INVALID_ARGUMENT", "ALREADY_EXISTS", "FAILED_PRECONDITION",
                   "OUT_OF_RANGE"} -> "ValidationError"
    [] status \in {"DEADLINE_EXCEEDED", "INTERNAL: timeout"} -> "KubeMQTimeoutError"
    [] status = "NOT_FOUND" -> "NotFoundError"
    [] status = "PERMISSION_DENIED" -> "AuthorizationError"
    [] status = "RESOURCE_EXHAUSTED" -> "ThrottlingError"
    [] status = "UNAVAILABLE" -> "ConnectionError"
    [] status = "UNAUTHENTICATED" -> "AuthenticationError"
    [] OTHER -> "FatalError"

Outcomes ==
  {"open", "ok", "raw", "KubeMQError", "RetryExhaustedError", "CancellationError",
   "ClientClosedError", "TransientError", "ValidationError", "KubeMQTimeoutError",
   "NotFoundError", "AuthorizationError", "ThrottlingError", "ConnectionError",
   "AuthenticationError", "FatalError"}

Retryable(status) ==
  MapGrpcError(status) \in
    {"TransientError", "KubeMQTimeoutError", "ThrottlingError", "ConnectionError"}

-----------------------------------------------------------------------------
VARIABLES
  op,         \* the operation of each call
  pc,         \* "idle", "calling", "sleeping" or "done"
  attempt,    \* how many attempts were made
  signal,     \* "none", "timer", "user", and once it has fired "timedout", "cancelled"
  heard,      \* the request in flight is cancelled when the signal fires
  failure,    \* the last failure: its status and whether it is a KubeMQError
  outcome,    \* how the promise was settled: a member of Outcomes
  active,     \* retries the throttle has admitted
  closed      \* the transport is closing or closed

vars == <<op, pc, attempt, signal, heard, failure, outcome, active, closed>>

NoFailure == [status |-> "OK", typed |-> FALSE]
Aborted(c) == signal[c] \in {"timedout", "cancelled"}

Init ==
  /\ op \in [Calls -> Operations]
  /\ pc = [c \in Calls |-> "idle"]
  /\ attempt = [c \in Calls |-> 0]
  /\ signal = [c \in Calls |-> "none"]
  /\ heard = [c \in Calls |-> FALSE]
  /\ failure = [c \in Calls |-> NoFailure]
  /\ outcome = [c \in Calls |-> "open"]
  /\ active = 0 /\ closed = FALSE

\* The promise is settled.
Ends(c, how) ==
  /\ pc' = [pc EXCEPT ![c] = "done"]
  /\ outcome' = [outcome EXCEPT ![c] = how]
  /\ UNCHANGED <<attempt, heard>>

\* What a failure becomes on its way out of the operation.
Thrown(c, status, typed) ==
  IF typed \/ op[c].mapped THEN MapGrpcError(status) ELSE "raw"

\* What withRetry() makes of an aborted signal.
AbortError(c) ==
  IF signal[c] = "timedout" THEN "KubeMQTimeoutError" ELSE "CancellationError"

\* The loop looks at the signal before and after each attempt; the fast path for
\* maxRetries = 0 does not.
LooksAtSignal(c) == op[c].retried /\ MaxRetries > 0

\* Mutant: no listener is added to the signal.
HearsMutant(c) == FALSE

\* A signal that has fired already is not heard by the request.
Hears(c) == signal'[c] \in {"timer", "user"}

\* One attempt: unaryCall() refuses when the transport is closed.
Attempt(c) ==
  IF closed THEN Ends(c, "ClientClosedError")
  ELSE /\ pc' = [pc EXCEPT ![c] = "calling"]
       /\ attempt' = [attempt EXCEPT ![c] = @ + 1]
       /\ heard' = [heard EXCEPT ![c] = Hears(c)]
       /\ UNCHANGED outcome

\* Which signal a call gets: that of its caller, perhaps aborted already, or that of
\* its timeout.
Signals(c) ==
  CASE op[c].signal = "always" -> {"timer", "user", "cancelled"}
    [] op[c].signal = "asked" -> {"none", "timer", "user", "cancelled"}
    [] op[c].signal = "given" -> {"none", "user", "cancelled"}
    [] op[c].signal = "never" -> {"none"}

\* The operation is called: it is refused, or it makes its first attempt, unless
\* withRetry() finds the signal aborted.
Begin(c) ==
  /\ pc[c] = "idle"
  /\ signal' \in {[signal EXCEPT ![c] = s] : s \in Signals(c)}
  /\ \/ op[c] \notin {ping, listChannels} /\ ~closed /\ Ends(c, "ValidationError")
     \/ IF LooksAtSignal(c) /\ signal'[c] = "cancelled" /\ ~closed
        THEN Ends(c, "CancellationError")
        ELSE Attempt(c)
  /\ UNCHANGED <<op, failure, active, closed>>

Succeeds(c) ==
  /\ pc[c] = "calling"
  /\ Ends(c, "ok")
  /\ UNCHANGED <<op, signal, failure, active, closed>>

-----------------------------------------------------------------------------
\* withRetry().

\* Mutant: a timeout of any operation is worth another attempt.
WorthRetryingMutant(c, status, typed) ==
  typed /\ Retryable(status) /\ ~(status = "UNKNOWN" /\ attempt[c] >= 2)

\* What the loop asks of a failure before it retries.
WorthRetrying(c, status, typed) ==
  /\ typed /\ Retryable(status)
  /\ MapGrpcError(status) = "KubeMQTimeoutError" => op[c].type \in IdempotentOperations
  /\ ~(status = "UNKNOWN" /\ attempt[c] >= 2)

\* Mutant: one attempt too many.
RetriesLeftMutant(c) == attempt[c] - 1 <= MaxRetries

RetriesLeft(c) == attempt[c] <= MaxRetries

\* tryAcquire().
Admits == MaxConcurrentRetries = 0 \/ active < MaxConcurrentRetries

\* The attempt fails: the catch of the loop, the fast path, or no engine at all.
Fails(c, status, typed) ==
  /\ pc[c] = "calling"
  /\ failure' = [failure EXCEPT ![c] = [status |-> status, typed |-> typed]]
  /\ LET worth == op[c].retried /\ WorthRetrying(c, status, typed)
         exhausted == op[c].retried /\ typed /\ Retryable(status)
                        /\ (MaxRetries = 0 \/ (worth /\ ~RetriesLeft(c)))
         gone == LooksAtSignal(c) /\ Aborted(c)
     IN CASE gone -> Ends(c, AbortError(c)) /\ UNCHANGED active
          [] ~gone /\ exhausted -> Ends(c, "RetryExhaustedError") /\ UNCHANGED active
          [] ~gone /\ ~exhausted /\ worth /\ Admits ->
               /\ pc' = [pc EXCEPT ![c] = "sleeping"]
               /\ active' = IF MaxConcurrentRetries = 0 THEN active ELSE active + 1
               /\ UNCHANGED <<attempt, heard, outcome>>
          [] OTHER -> Ends(c, Thrown(c, status, typed)) /\ UNCHANGED active
  /\ UNCHANGED <<op, signal, closed>>

\* The server answers with an error, or the transport fails; an answer of the server
\* may be turned into an error of the operation's own.
Answered(c) ==
  \/ Succeeds(c)
  \/ \E status \in Statuses : Fails(c, status, FALSE)
  \/ \E status \in op[c].own : Fails(c, status, TRUE)

Release == active' = IF active > 0 THEN active - 1 ELSE active

\* The backoff is over: the next attempt, of a call that is not aborted.
BackoffOver(c) ==
  /\ pc[c] = "sleeping"
  /\ Release
  /\ UNCHANGED signal /\ Attempt(c)
  /\ UNCHANGED <<op, failure, closed>>

\* Mutant: the permit is given back only by a backoff that runs to its end.
WakesMutant(c) == Ends(c, "raw") /\ UNCHANGED active

\* The sleep rejects, in the catch block: its reason leaves withRetry() as it is.
Wakes(c) == Ends(c, IF op[c].mapped THEN "KubeMQError" ELSE "raw") /\ Release

-----------------------------------------------------------------------------
\* The signal of a call fires.
Abort(c) ==
  /\ pc[c] \in {"calling", "sleeping"}
  /\ \E how \in {"timedout", "cancelled"} :
       /\ signal[c] = "timer" \/ (signal[c] = "user" /\ how = "cancelled")
       /\ signal' = [signal EXCEPT ![c] = how]
  /\ IF pc[c] = "sleeping" THEN Wakes(c) ELSE UNCHANGED <<pc, attempt, heard, outcome, active>>
  /\ UNCHANGED <<op, failure, closed>>

CloseTransport ==
  /\ ~closed /\ closed' = TRUE
  /\ UNCHANGED <<op, pc, attempt, signal, heard, failure, outcome, active>>

Next ==
  \/ CloseTransport
  \/ \E c \in Calls : Begin(c) \/ Answered(c) \/ BackoffOver(c) \/ Abort(c)

Spec == Init /\ [][Next]_vars

\* A deadline ends a request, and so does a signal that is heard; timers fire.
MustEnd(c) == op[c].deadline \/ (heard[c] /\ Aborted(c))
Fairness ==
  \A c \in Calls :
    /\ WF_vars(MustEnd(c) /\ Answered(c))
    /\ WF_vars(BackoffOver(c))
    /\ WF_vars(signal[c] = "timer" /\ Abort(c))

FairSpec == Spec /\ Fairness

-----------------------------------------------------------------------------
\* Every variable stays in its type.
TypeOK ==
  /\ op \in [Calls -> Operations]
  /\ pc \in [Calls -> {"idle", "calling", "sleeping", "done"}]
  /\ attempt \in [Calls -> 0..MaxRetries + 1]
  /\ signal \in [Calls -> {"none", "timer", "user", "timedout", "cancelled"}]
  /\ heard \in [Calls -> BOOLEAN]
  /\ failure \in [Calls -> [status : Statuses \cup {"OK", "INTERNAL", "ABORTED"},
                            typed : BOOLEAN]]
  /\ outcome \in [Calls -> Outcomes]
  /\ active \in 0..MaxConcurrentRetries /\ closed \in BOOLEAN

\* The throttle counts the backoffs under way, no more and no fewer, however each
\* of them ends: a permit that is lost refuses the retries of all later calls.
ThrottleCounts ==
  MaxConcurrentRetries > 0 => active = Cardinality({c \in Calls : pc[c] = "sleeping"})

\* A request is repeated only when that is safe: never after a failure that is not
\* transient, never after a timeout of an operation that is not idempotent, never
\* when its caller has given up, and UNKNOWN is trusted once.
RepeatsSafely ==
  [][\A c \in Calls : attempt[c] > 0 /\ attempt'[c] > attempt[c] =>
       /\ attempt'[c] <= MaxRetries + 1 /\ ~Aborted(c) /\ ~closed
       /\ failure[c].typed /\ Retryable(failure[c].status)
       /\ MapGrpcError(failure[c].status) = "KubeMQTimeoutError"
            => op[c].type \in IdempotentOperations
       /\ failure[c].status = "UNKNOWN" => attempt[c] = 1]_vars

\* A call that has a deadline or the signal of a timeout, or whose caller has given up,
\* is settled, even if the server never answers.
CallsSettle ==
  \A c \in Calls :
    pc[c] = "calling" /\ (op[c].deadline \/ signal[c] \in {"timer", "timedout", "cancelled"})
      ~> pc[c] = "done"

-----------------------------------------------------------------------------
\* What the documentation says and the code does not do.

\* docs/ERROR-HANDLING.md: transient errors are retried automatically.  A status that
\* maps to a retryable class ends a call only after the last retry, unless it was
\* aborted, throttled or closed, or timed out without being idempotent.
TransientsAreRetried ==
  \A c \in Calls :
    op[c].retried /\ pc[c] = "done" /\ outcome[c] = "raw" /\ ~Aborted(c)
      /\ Retryable(failure[c].status) /\ MapGrpcError(failure[c].status) # "KubeMQTimeoutError"
      => attempt[c] > MaxRetries
=============================================================================

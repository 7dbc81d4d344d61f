--------------------------- MODULE ReconnectBuffer ---------------------------
(***************************************************************************)
(* MessageBuffer: the messages a transport holds while it is not           *)
(* connected, a limited number of bytes.  Whoever finds it full is refused *)
(* or, in mode "block", waits for the next flush and tries again.          *)
(*                                                                         *)
(* A transport has such a buffer, flushes it in close() and discards it    *)
(* when it is closed while it reconnects; nothing in the library enqueues  *)
(* a message yet, so that callers, flushes and discards come in any order  *)
(* here, one flush at a time.  A caller that was woken goes on in a        *)
(* microtask, those woken together one after the other.                    *)
(***************************************************************************)
EXTENDS Integers, Sequences, SequencesExt

CONSTANTS
  Buffered,       \* the messages, each one enqueued once
  SizeOf,         \* data.byteLength of each
  MaxSizeBytes    \* reconnectBufferSize

ASSUME BufferConstants ==
  SizeOf \in [Buffered -> Nat] /\ MaxSizeBytes \in Nat /\ "idle" \notin Buffered

VARIABLES
  mode,              \* reconnectBufferMode
  bufferQueue,       \* MessageBuffer.queue
  currentSizeBytes,
  drainWaiters,      \* the messages whose callers wait
  resumed,           \* those whose callers were woken, in turn
  flushing,          \* the message a flush awaits, or "idle"
  came,              \* history: the messages the buffer took, in order
  went,              \* history: those it gave up, in order
  answers            \* how each caller's promise was settled, or where it is

bufferVars ==
  <<mode, bufferQueue, currentSizeBytes, drainWaiters, resumed, flushing, came, went, answers>>

BufferInit ==
  /\ mode \in {"error", "block"}
  /\ bufferQueue = <<>> /\ currentSizeBytes = 0 /\ drainWaiters = <<>> /\ resumed = <<>>
  /\ flushing = "idle" /\ came = <<>> /\ went = <<>>
  /\ answers = [m \in Buffered |-> "new"]

Answer(S, how) == answers' = [m \in Buffered |-> IF m \in S THEN how ELSE answers[m]]

\* The head of the loop in enqueue().
Tries(m) ==
  IF currentSizeBytes + SizeOf[m] <= MaxSizeBytes
  THEN /\ bufferQueue' = Append(bufferQueue, m) /\ came' = Append(came, m)
       /\ currentSizeBytes' = currentSizeBytes + SizeOf[m]
       /\ Answer({m}, "buffered") /\ UNCHANGED drainWaiters
  ELSE /\ IF mode = "error" THEN Answer({m}, "refused") /\ UNCHANGED drainWaiters
          ELSE Answer({m}, "waiting") /\ drainWaiters' = Append(drainWaiters, m)
       /\ UNCHANGED <<bufferQueue, currentSizeBytes, came>>

BufferEnqueue(m) ==
  /\ answers[m] = "new"
  /\ Tries(m)
  /\ UNCHANGED <<mode, resumed, flushing, went>>

Resumes ==
  /\ resumed # <<>> /\ resumed' = Tail(resumed)
  /\ Tries(Head(resumed))
  /\ UNCHANGED <<mode, flushing, went>>

\* Mutant: the callers that wait are not woken by an empty buffer.
WakesAllMutant(empty) == UNCHANGED <<resumed, drainWaiters>>

WakesAll(empty) == resumed' = resumed \o drainWaiters /\ drainWaiters' = <<>>

\* flush(): the next message, or the end, at which everybody who waits is woken.
FlushGoesOn ==
  IF bufferQueue = <<>>
  THEN /\ flushing' = "idle" /\ WakesAll(bufferQueue)
       /\ UNCHANGED <<bufferQueue, currentSizeBytes, went>>
  ELSE /\ flushing' = Head(bufferQueue) /\ bufferQueue' = Tail(bufferQueue)
       /\ currentSizeBytes' = currentSizeBytes - SizeOf[Head(bufferQueue)]
       /\ went' = Append(went, Head(bufferQueue))
       /\ UNCHANGED <<resumed, drainWaiters>>

Flush ==
  /\ flushing = "idle" /\ resumed = <<>>
  /\ FlushGoesOn
  /\ UNCHANGED <<mode, came, answers>>

\* sendFn() has sent the message, or fails.
FlushContinues ==
  /\ flushing # "idle"
  /\ \E how \in {"resolved", "rejected"} : Answer({flushing}, how)
  /\ FlushGoesOn
  /\ UNCHANGED <<mode, came>>

\* Mutant: discarding forgets the bytes.
EmptiedMutant(size) == currentSizeBytes' = size

Emptied(size) == currentSizeBytes' = 0

\* discard() and the rejectAll() it ends with, also in the middle of a flush.
Discard ==
  /\ resumed = <<>>
  /\ Answer(ToSet(bufferQueue) \cup ToSet(drainWaiters), "rejected")
  /\ went' = went \o bufferQueue /\ bufferQueue' = <<>>
  /\ Emptied(currentSizeBytes) /\ drainWaiters' = <<>>
  /\ UNCHANGED <<mode, resumed, flushing, came>>

BufferNext ==
  \/ \E m \in Buffered : BufferEnqueue(m)
  \/ Resumes \/ Flush \/ FlushContinues \/ Discard

BufferSpec == BufferInit /\ [][BufferNext]_bufferVars

-----------------------------------------------------------------------------
\* The bytes of the messages in q.
BytesOf(q) ==
  LET total[n \in 0..Len(q)] == IF n = 0 THEN 0 ELSE total[n - 1] + SizeOf[q[n]]
  IN total[Len(q)]

\* The bytes are those of the messages held, within the limit; messages leave in the
\* order they came, sent, failed or discarded; and no caller is left waiting by a buffer
\* that is empty, unless its message will never fit.
BufferIsSound ==
  /\ currentSizeBytes = BytesOf(bufferQueue)
  /\ currentSizeBytes <= MaxSizeBytes
  /\ came = went \o bufferQueue
  /\ flushing = "idle" /\ bufferQueue = <<>> =>
       \A m \in ToSet(drainWaiters) : SizeOf[m] > MaxSizeBytes
  /\ \A m \in Buffered :
       /\ answers[m] = "waiting" <=> m \in ToSet(drainWaiters) \cup ToSet(resumed)
       /\ answers[m] = "buffered" <=> m \in ToSet(bufferQueue) \cup {flushing}

-----------------------------------------------------------------------------
\* What the code does not do.

\* A message larger than the buffer is refused, as it is in mode "error".
OversizedIsRefused ==
  \A m \in Buffered : SizeOf[m] > MaxSizeBytes => answers[m] # "waiting"
=============================================================================

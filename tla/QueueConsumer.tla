--------------------------- MODULE QueueConsumer ---------------------------
(***************************************************************************)
(* consumeQueue(): the async generator that turns the callbacks of a       *)
(* QueueStreamHandle into batches of a `for await' loop, on top of         *)
(* QueueDownstream.  The generator keeps one slot for the promise it       *)
(* awaits (batchResolve and batchReject, state "waiting").  A batch that   *)
(* finds the slot empty is lost, an error that does so is remembered as    *)
(* `closed' only.                                                          *)
(*                                                                         *)
(* The application is an arbitrary loop body: it settles messages of the   *)
(* batch it was given or the batch as a whole, at any pace, and asks for   *)
(* the next batch or leaves the loop.  In half of the behaviours           *)
(* (iterating = FALSE) it uses the handle itself, as in QueueDownstream.   *)
(***************************************************************************)
EXTENDS QueueDownstream

VARIABLES
  iterating,  \* the handle belongs to a consumeQueue()
  loop,       \* "waiting" in the slot, "working" on a batch, "leaving", "ended"
  held,       \* the batch the application works on, 0 before the first
  ended,      \* `closed' of consumeQueue
  outcome,    \* how the loop ends: "none" yet, "done", "error"
  dropped,    \* history: batches that found the slot empty
  early       \* history: the next Get was let loose before the next batch was asked for

generator == <<loop, held, ended, outcome>>
consumerVars == <<vars, iterating, generator, dropped, early>>

ConsumerInit ==
  /\ Init
  /\ iterating \in BOOLEAN
  /\ loop = "waiting" /\ held = 0 /\ ended = FALSE /\ outcome = "none"
  /\ dropped = {} /\ early = FALSE

\* The handle is used directly.
Direct == ~iterating /\ Next /\ UNCHANGED <<iterating, generator, dropped, early>>

-----------------------------------------------------------------------------
\* The three callbacks consumeQueue registers.

\* Mutant: the slot is not cleared when it was used.
SlotAfterMutant == "waiting"

SlotAfter == "working"

\* onMessages.  An empty batch is not reported.
OnMessages(n) ==
  \/ /\ n > 0 /\ loop = "waiting"
     /\ loop' = SlotAfter /\ held' = txs + 1
     /\ UNCHANGED <<ended, outcome, dropped>>
  \/ /\ n > 0 /\ loop # "waiting"
     /\ dropped' = dropped \cup {txs + 1}
     /\ UNCHANGED generator
  \/ n = 0 /\ UNCHANGED <<generator, dropped>>

\* Mutant: `closed' is set for a loop that waits only.
OnErrorMutant ==
  /\ IF loop = "waiting"
     THEN loop' = "leaving" /\ outcome' = "error" /\ ended' = TRUE
     ELSE UNCHANGED <<loop, outcome, ended>>
  /\ UNCHANGED <<held, dropped>>

\* onError.
OnError ==
  /\ ended' = TRUE
  /\ IF loop = "waiting"
     THEN loop' = "leaving" /\ outcome' = "error"
     ELSE UNCHANGED <<loop, outcome>>
  /\ UNCHANGED <<held, dropped>>

\* Mutant: `closed' is looked at before each wait only.
OnCloseMutant == ended' = TRUE /\ UNCHANGED <<loop, held, outcome, dropped>>

\* onClose.
OnClose ==
  /\ ended' = TRUE
  /\ IF loop = "waiting"
     THEN loop' = "leaving" /\ outcome' = "done"
     ELSE UNCHANGED <<loop, outcome>>
  /\ UNCHANGED <<held, dropped>>

-----------------------------------------------------------------------------
\* The stream, seen by a generator.

StreamStep ==
  /\ iterating /\ UNCHANGED <<iterating, early>>
  /\ \/ \E n \in 0..BatchSize : Batch(n) /\ OnMessages(n)
     \/ (ErrorResponse \/ Refusal) /\ OnError
     \/ StreamEnds /\ OnError      \* 'error' of the stream
     \/ StreamEnds /\ OnClose      \* 'end' of the stream
     \/ ClosedByServer /\ OnClose
     \/ (LateBatch \/ Confirmation \/ Resubscribe) /\ UNCHANGED <<generator, dropped>>
     \/ RePollTimer /\ loop # "leaving" /\ UNCHANGED <<generator, dropped>>

-----------------------------------------------------------------------------
\* The application.

\* A call that lets the next Get loose while the application still works.
NoteEarly == early' = (early \/ rePolls' > rePolls)

\* ack(), nack() or reQueue() of a message of the batch in hand.
SettleHeld(i) ==
  /\ iterating /\ loop = "working"
  /\ SettleOne(held, i)
  /\ NoteEarly /\ UNCHANGED <<iterating, generator, dropped>>

\* batch.ackAll(), batch.reQueueAll() and batch.nackAll().
SettleBatch ==
  /\ iterating /\ loop = "working"
  /\ SettleAll \/ NAckAll
  /\ NoteEarly /\ UNCHANGED <<iterating, generator, dropped>>

\* next(): the loop is over when `closed' is set, and waits otherwise.
Waits == IF ended THEN loop' = "leaving" /\ outcome' = "done" ELSE loop' = "waiting" /\ UNCHANGED outcome

AskForNext ==
  /\ iterating /\ loop = "working"
  /\ Waits
  /\ UNCHANGED <<vars, iterating, held, ended, dropped, early>>

\* The usual loop body: what settles the last of a batch is followed by next() before
\* anything else can happen.
SettleAndAsk ==
  /\ iterating /\ loop = "working"
  /\ SettleAll \/ \E i \in 1..BatchSize : SettleOne(held, i) /\ LastOf(held, i)
  /\ Waits
  /\ UNCHANGED <<iterating, held, ended, dropped, early>>

\* break, return or throw in the loop body.
LeaveLoop ==
  /\ iterating /\ loop = "working"
  /\ loop' = "leaving" /\ outcome' = "done"
  /\ UNCHANGED <<vars, iterating, held, ended, dropped, early>>

\* The finally block: handle.close().  It runs in a microtask after the loop has left
\* the slot: no timer fires before, but the stream may emit what it has read already.
Finally ==
  /\ iterating /\ loop = "leaving" /\ loop' = "ended"
  /\ IF active THEN Close ELSE UNCHANGED vars
  /\ UNCHANGED <<iterating, held, ended, outcome, dropped, early>>

ConsumerNext ==
  \/ Direct
  \/ StreamStep
  \/ \E i \in 1..BatchSize : SettleHeld(i)
  \/ SettleBatch \/ AskForNext \/ SettleAndAsk \/ LeaveLoop \/ Finally

ConsumerSpec == ConsumerInit /\ [][ConsumerNext]_consumerVars

-----------------------------------------------------------------------------
\* Every variable of this module stays in its type.
ConsumerTypeOK ==
  /\ iterating \in BOOLEAN /\ ended \in BOOLEAN /\ early \in BOOLEAN
  /\ loop \in {"waiting", "working", "leaving", "ended"}
  /\ held \in 0..txs /\ outcome \in {"none", "done", "error"} /\ dropped \subseteq 1..txs

\* A generator waits in its slot only while its handle can still fill it: whichever
\* way a stream ends, the loop is woken.
WaitsOnlyWhileActive == iterating /\ loop = "waiting" => active /\ ~ended

\* A loop that asks for the next batch in the same turn in which it has settled the
\* last of the present one gets every batch that comes before it is told of an error or
\* of the end; a settlement that is refused is such an error.  (On one stream: the Get
\* of a resubscription does not wait for the application.)
PromptLoopsMissNothing == ~AutoAck /\ ~early /\ ~ended /\ stream = 1 => dropped = {}

\* A loop over the batches is neither left waiting nor passed over.
LoopsAreServed == WaitsOnlyWhileActive /\ PromptLoopsMissNothing

-----------------------------------------------------------------------------
\* What docs of the repository say and the code does not do.

\* client.ts, consumeQueue(): "Each yielded QueueBatch must be settled via ackAll(),
\* nackAll(), or reQueueAll() before the next batch is fetched."  After nackAll() no
\* batch is fetched any more.
SettledIsFollowed ==
  iterating /\ loop = "waiting" /\ stream = 1 => OpenTxs # {} \/ rePolls > 0 \/ gets > 0

\* The same doc: every batch is yielded.
EveryBatchIsYielded == dropped = {}
=============================================================================

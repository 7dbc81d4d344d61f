---------------------------- MODULE BurninWarmup ----------------------------
(***************************************************************************)
(* runWarmup(): before the producers start, each channel of the run is     *)
(* tried, MaxParallel of them at a time, up to three times each, and an    *)
(* attempt that takes too long is given up.  Giving up stops the waiting,  *)
(* not the attempt: it goes on beside the next one, and beside the run.    *)
(*                                                                         *)
(* An attempt subscribes, sends a few messages or requests, and succeeds   *)
(* when one came back.  Nobody aborts a warm-up; when the run's clients    *)
(* are gone, there is nothing left to try and it "succeeds".               *)
(***************************************************************************)
EXTENDS Integers, Sequences, FiniteSets

CONSTANTS
  TaskLists,    \* runs: the pattern of each channel, in order
  MaxParallel,  \* warmup.max_parallel_channels; 0 also stands for no number
  Count,        \* WARMUP_COUNT, 3
  MaxRetries    \* maxRetries, 3

ASSUME WarmupConstants ==
  /\ TaskLists \subseteq Seq({"events", "events_store", "queue", "rpc"})
  /\ MaxParallel \in Nat /\ Count \in Nat \ {0} /\ MaxRetries \in Nat \ {0}

VARIABLES
  tasks,       \* warmupTasks: the pattern of each channel
  warming,     \* what runWarmup() does: "idle", "running", "complete" or "failed"
  idx,         \* how many tasks have been taken
  batches,     \* each runBatch(): its task and attempt, 0 when it has none, "over"
  attempts,    \* what became of attempt k of task i: stage, messages sent and heard
  failures,    \* errors: the tasks that failed MaxRetries times
  clientsGone  \* the engine has no clients any more

pool == <<warming, idx, batches, failures, tasks>>
warmupVars == <<pool, attempts, clientsGone>>

Channels == 1..Len(tasks)
\* With fewer channels than that, the others have nothing to do.
Batches == 1..MaxParallel

NoAttempt == [stage |-> "none", sent |-> 0, heard |-> 0]
FreeBatch == [task |-> 0, attempt |-> 0, over |-> FALSE]

UnusedWarmup ==
  /\ tasks \in TaskLists /\ idx = 0 /\ failures = {} /\ clientsGone = FALSE
  /\ batches = [b \in Batches |-> FreeBatch]
  /\ attempts = [i \in Channels |-> [k \in 1..MaxRetries |-> NoAttempt]]

WarmupInit == warming = "running" /\ UnusedWarmup

-----------------------------------------------------------------------------
\* doWarmupChannel(): how an attempt at a channel begins.  Queues are not tried.
Attempted(i) ==
  IF clientsGone \/ tasks[i] = "queue" THEN [NoAttempt EXCEPT !.stage = "ok"]
  ELSE [NoAttempt EXCEPT !.stage = "sending"]

Try(b, i, k) ==
  /\ batches' = [batches EXCEPT ![b] = [task |-> i, attempt |-> k, over |-> FALSE]]
  /\ attempts' = [attempts EXCEPT ![i][k] = Attempted(i)]

\* A batch takes the next task as long as no task has failed.
More == idx < Len(tasks) /\ failures = {}

TakeTask(b) ==
  /\ batches[b] = FreeBatch /\ warming = "running" /\ More
  /\ idx' = idx + 1
  /\ Try(b, idx + 1, 1)
  /\ UNCHANGED <<tasks, warming, failures, clientsGone>>

BatchOver(b) ==
  /\ batches[b] = FreeBatch /\ warming = "running" /\ ~More
  /\ batches' = [batches EXCEPT ![b].over = TRUE]
  /\ UNCHANGED <<tasks, warming, idx, failures, attempts, clientsGone>>

\* The attempt that batch b waits for is over, or the wait for it is.
Waits(b) == batches[b].task # 0
Tried(b) == attempts[batches[b].task][batches[b].attempt].stage

WarmedUp(b) ==
  /\ Waits(b) /\ Tried(b) = "ok"
  /\ batches' = [batches EXCEPT ![b] = FreeBatch]
  /\ UNCHANGED <<tasks, warming, idx, failures, attempts, clientsGone>>

\* Mutant: a channel that failed its last attempt is passed over.
FailureMutant(i) == failures

Failure(i) == failures \cup {i}

\* Mutant: the attempt is awaited without a timeout.
GivenUpMutant(stage) == stage = "thrown"

\* The attempt threw, or took longer than timeout_per_channel_ms.
GivenUp(stage) == stage \in {"thrown", "sending"}

BatchFails(b) ==
  /\ Waits(b) /\ GivenUp(Tried(b))
  /\ LET i == batches[b].task
         k == batches[b].attempt
     IN IF k < MaxRetries
        THEN Try(b, i, k + 1) /\ UNCHANGED failures
        ELSE /\ batches' = [batches EXCEPT ![b] = FreeBatch]
             /\ failures' = Failure(i)
             /\ UNCHANGED attempts
  /\ UNCHANGED <<tasks, warming, idx, clientsGone>>

\* All batches are over: runWarmup() returns, or throws.
WarmupReturns ==
  /\ warming = "running" /\ \A b \in Batches : batches[b].over
  /\ warming' = IF failures = {} THEN "complete" ELSE "failed"
  /\ UNCHANGED <<tasks, idx, batches, failures, attempts, clientsGone>>

-----------------------------------------------------------------------------
\* The attempts, also those nobody waits for.

Becomes(i, k, attempt) ==
  /\ attempts' = [attempts EXCEPT ![i][k] = attempt]
  /\ UNCHANGED <<pool, clientsGone>>

Sending(i, k) == attempts[i][k].stage = "sending" /\ attempts[i][k].sent < Count

\* An event is sent, and nobody waits for it.
WarmupEvents(i, k) ==
  /\ tasks[i] = "events" /\ Sending(i, k)
  /\ Becomes(i, k, [attempts[i][k] EXCEPT !.sent = @ + 1])

\* A stored event is sent and confirmed, or fails; the next one is sent in either case.
WarmupEventsStore(i, k) ==
  /\ tasks[i] = "events_store" /\ Sending(i, k)
  /\ Becomes(i, k, [attempts[i][k] EXCEPT !.sent = @ + 1])

\* A message of any attempt at the channel reaches the subscription of this one.
Arrives(i, k) ==
  /\ tasks[i] \in {"events", "events_store"} /\ ~clientsGone
  /\ attempts[i][k].stage = "sending" /\ attempts[i][k].heard = 0
  /\ \E l \in 1..MaxRetries : attempts[i][l].sent > 0
  /\ Becomes(i, k, [attempts[i][k] EXCEPT !.heard = 1])

\* A request is answered, by this attempt's responder or another, or fails.
WarmupRpc(i, k) ==
  /\ tasks[i] = "rpc" /\ Sending(i, k)
  /\ \E answered \in IF clientsGone THEN {0} ELSE {0, 1} :
       Becomes(i, k, [attempts[i][k] EXCEPT !.sent = @ + 1,
                                           !.heard = IF answered = 1 THEN 1 ELSE @])

\* All is sent, and something came back or the wait for it is over; or a call threw.
Concludes(i, k) ==
  /\ attempts[i][k].stage = "sending"
  /\ attempts[i][k].sent = Count \/ clientsGone
  /\ Becomes(i, k, [attempts[i][k] EXCEPT !.stage = IF attempts[i][k].heard > 0 THEN "ok" ELSE "thrown"])

Attempting(i, k) ==
  WarmupEvents(i, k) \/ WarmupEventsStore(i, k) \/ Arrives(i, k) \/ WarmupRpc(i, k) \/ Concludes(i, k)

\* The run is over, for a timeout of its start or a stop, and so are its clients.
ClientsLeave ==
  /\ ~clientsGone /\ clientsGone' = TRUE
  /\ UNCHANGED <<pool, attempts>>

Batch(b) == TakeTask(b) \/ BatchOver(b) \/ WarmedUp(b) \/ BatchFails(b)

WarmupNext ==
  \/ \E b \in Batches : Batch(b)
  \/ WarmupReturns
  \/ \E i \in Channels, k \in 1..MaxRetries : Attempting(i, k)
  \/ ClientsLeave

\* A batch goes on by itself or by its timer.
WarmupFairness == WF_warmupVars(WarmupReturns) /\ \A b \in Batches : WF_warmupVars(Batch(b))

WarmupSpec == WarmupInit /\ [][WarmupNext]_warmupVars /\ WarmupFairness

-----------------------------------------------------------------------------
\* When runWarmup() returns, something came back on each channel that is tried at all,
\* unless the clients were gone, or there is no batch to try one: nobody refuses a
\* max_parallel_channels of 0.  When it throws, there is a channel for which every
\* attempt was made.  No two batches try one channel.
WarmupDone ==
  /\ warming = "complete" /\ ~clientsGone /\ MaxParallel # 0 =>
       \A i \in Channels : \E k \in 1..MaxRetries :
         attempts[i][k].stage = "ok" /\ (tasks[i] # "queue" => attempts[i][k].heard > 0)
  /\ warming = "failed" =>
       \E i \in Channels : \A k \in 1..MaxRetries : attempts[i][k].stage # "none"
  /\ \A b, c \in Batches : Waits(b) /\ batches[b].task = batches[c].task => b = c

\* A warm-up ends, also when the broker is silent.
WarmupEnds == warming = "running" ~> warming # "running"

-----------------------------------------------------------------------------
\* What does not hold.

\* A warm-up that is over has left nothing behind.
NoAttemptIsLeft ==
  warming \in {"complete", "failed"} =>
    \A i \in Channels, k \in 1..MaxRetries : attempts[i][k].stage # "sending"
=============================================================================

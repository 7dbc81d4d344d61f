---------------------------- MODULE BurninReport ----------------------------
(***************************************************************************)
(* A channel and the report of its run.  performShutdown() captures the    *)
(* counters, stops the producers in the same turn, lets the channel drain, *)
(* and judges what it captured, not what came in while it drained.         *)
(***************************************************************************)
EXTENDS BurninWorker, BurninVerdict

CONSTANTS
  NoSnapshot,
  Config        \* mode, thresholds and patterns

\* The numbers validateRunConfig() lets pass; null counts as 0, and texts, of which no
\* comparison holds, are left out.  Percentages and factors are numbers of hundredths.
Limits == Nat \cup {"none"}

ASSUME ReportConstants ==
  /\ Patterns \subseteq PubSubQueue
  /\ \A f \in {"loss", "eventsLoss", "duplication", "p99", "p999", "errors", "downtime"} :
       Config.thresholds[f] \in Nat
  /\ Config.thresholds.throughput \in 1..100
  /\ Config.thresholds.memory \in Nat /\ Config.thresholds.memory >= 100
  /\ \A p \in Patterns : LET of == Config.patterns[p] IN
       /\ of.enabled \in BOOLEAN /\ of.group \in BOOLEAN
       /\ of.rate \in Nat /\ of.consumers \in Nat \ {0}
       /\ \A f \in {"loss", "p99", "p999"} : of.thresholds[f] \in Limits

VARIABLE snapshot  \* producerStopSnapshot, with what was wrong when it was taken

ReportInit == Init /\ snapshot = NoSnapshot

\* A counter of the worker's tracker: the sum over the producers.
SumOf(field) == MapThenSumSet(LAMBDA p : trackers[p][field], Producers)

\* Mutant: what has not arrived counts as lost.
ChannelDetailsMutant ==
  [sent |-> sent, received |-> received, lost |-> Max({sent - received, 0}),
   duplicated |-> SumOf("duplicates"), corrupted |-> corrupted,
   errors |-> errors]

\* What is captured of the channel.
ChannelDetails ==
  [sent |-> sent, received |-> received, lost |-> SumOf("lost"),
   duplicated |-> SumOf("duplicates"), corrupted |-> corrupted,
   errors |-> errors]

\* History: numbers from the first the tracker knows up to highContiguous that the
\* worker was never given, or was given without the tracker's taking them.
Missing ==
  \E p \in Producers :
    \E n \in trackers[p].base .. trackers[p].hc : n > 0 /\ n \notin trackers[p].accepted

\* History: the warm-up of some tracker had numbers beyond its window.
Overrun == \E p \in Producers : trackers[p].overrun

Take ==
  [counts |-> SnapshotOf([i \in {1} |-> ChannelDetails]), missing |-> Missing,
   overrun |-> Overrun, troubled |-> faults > 0 \/ astray]

CaptureAndStop == StopProducers /\ snapshot' = Take

ReportNext == (Works /\ UNCHANGED snapshot) \/ CaptureAndStop

ReportSpec == ReportInit /\ [][ReportNext]_<<vars, snapshot>> /\ Fairness

-----------------------------------------------------------------------------
\* The summary of a run of a second whose latency and connection were in order.
Measured == [p99 |-> 0, p999 |-> 0, downtime |-> 0, rpcSuccess |-> 0]

Summary(growth) ==
  [patterns |-> [p \in {pattern} |->
                   PatternSummary(p, Config.patterns[p], snapshot.counts, Measured, 1)],
   duration |-> 1, growth |-> growth]

\* Memory that did not grow, that grew by half of what it may, and by too much.
Growths == {100, Config.thresholds.memory, Config.thresholds.memory + 1}

\* How long a run was to take, and when its memory was last sampled.
Moments == {OneMinute, FiveMinutes}

\* Every consumer gets every message, and the report knows it.
FannedOut ==
  LET of == Config.patterns[pattern] IN pattern \in EventPatterns /\ ~of.group /\ of.consumers > 1

\* A soak test with a rate to keep and thresholds of nothing, whose verdict counts.
ToleratesNothing ==
  LET of == Config.patterns[pattern] IN
  /\ Config.mode = "soak" /\ of.enabled /\ of.rate > 0
  /\ LossThreshold(Config, pattern) = 0
  /\ Config.thresholds.duplication = 0 /\ Config.thresholds.errors = 0

\* When nothing is tolerated, a run that passes has sent, and got, each message its
\* trackers know of exactly once (or once for each consumer), whole, and without an
\* error; its memory has not grown beyond its limit unless the run was to take, or did
\* take, less than five minutes; and without a warning it has not grown.
VerdictIsEarned ==
  snapshot # NoSnapshot /\ ToleratesNothing =>
    \A growth \in Growths, intended, sampled \in Moments :
      LET verdict == Verdict(Config, Summary(growth), Advisory(intended, sampled))
          counts == snapshot.counts
      IN
      /\ verdict # "FAILED" =>
           /\ ~snapshot.missing /\ counts.corrupted = 0 /\ counts.errors = 0
           /\ IF FannedOut THEN counts.received = counts.sent * Config.patterns[pattern].consumers
                           ELSE counts.duplicated = 0
           /\ growth > Config.thresholds.memory => intended < FiveMinutes \/ sampled < FiveMinutes
      /\ verdict = "PASSED" => growth = 100

\* A run whose messages go to one consumer each fails only when something went wrong
\* before it was told to stop, a message was overtaken by more than the window or by the
\* tracker's warm-up, the warm-up is longer than the window, or less was sent than the
\* rate asks for: not for what was on its way.
FailureHasCause ==
  snapshot # NoSnapshot /\ Copies = 1 /\ ~FannedOut
  /\ Verdict(Config, Summary(100), FALSE) = "FAILED"
    => \/ snapshot.troubled \/ snapshot.missing \/ snapshot.overrun
       \/ snapshot.counts.sent < Config.patterns[pattern].rate
=============================================================================

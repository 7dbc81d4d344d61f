---------------------------- MODULE BurninVerdict ----------------------------
(***************************************************************************)
(* The verdict of a burn-in run: the totals of a pattern over its          *)
(* channels, the thresholds, and the checks generateVerdict() makes of     *)
(* them.                                                                   *)
(*                                                                         *)
(* A summary has the patterns that ran, a function from their names, and   *)
(* the resources.  Percentages and factors are numbers of hundredths; a    *)
(* percentage of nothing is 0, as in the code.                             *)
(***************************************************************************)
EXTENDS Integers, FiniteSets, FiniteSetsExt, TLC

EventPatterns == {"events", "events_store"}
PubSubQueue == EventPatterns \cup {"queue_stream", "queue_simple"}
RpcPatterns == {"commands", "queries"}
AllPatterns == PubSubQueue \cup RpcPatterns

-----------------------------------------------------------------------------
\* Totals of a pattern group.

Total(channels, field) == MapThenSumSet(LAMBDA i : channels[i][field], DOMAIN channels)

\* What capturePatternSnapshots() takes of a group that runs in a channel or more.
\* A channel has sent, received, lost, duplicated, corrupted and errors.
SnapshotOf(channels) ==
  [channelDetails |-> channels,
   sent |-> Total(channels, "sent"),
   received |-> Total(channels, "received"),
   lost |-> Total(channels, "lost"),
   duplicated |-> Total(channels, "duplicated"),
   corrupted |-> Total(channels, "corrupted"),
   errors |-> Total(channels, "errors")]

\* The downtime of a pattern: the channels share the connection.
MaxDowntime(channels) == Max({0} \cup {channels[i].downtime : i \in DOMAIN channels})

\* The part of buildSummary() about a pattern; what the run measured of its latency and
\* its downtime is in `measured'.
PatternSummary(name, config, snapshot, measured, elapsed) ==
  [pattern |-> name,
   consumers |-> config.consumers,
   avgRate |-> IF elapsed > 0 THEN snapshot.sent \div elapsed ELSE 0,
   targetRate |-> config.rate * Cardinality(DOMAIN snapshot.channelDetails),
   group |-> name \in EventPatterns /\ config.group,
   responses |-> IF name \in RpcPatterns THEN measured.rpcSuccess ELSE snapshot.received,
   channelDetails |-> snapshot.channelDetails,
   sent |-> snapshot.sent, received |-> snapshot.received, lost |-> snapshot.lost,
   duplicated |-> snapshot.duplicated, corrupted |-> snapshot.corrupted,
   errors |-> snapshot.errors,
   p99 |-> measured.p99, p999 |-> measured.p999, downtime |-> measured.downtime]

\* The growth of the memory from the baseline, or from the peak without one.
Growth(baselineRss, peakRss) ==
  LET baseline == IF baselineRss # 0 THEN baselineRss ELSE Max({peakRss, 1})
  IN (100 * peakRss) \div baseline

OneMinute == 60
FiveMinutes == 300

\* Mutant: every run takes its baseline after a minute.
BaselineSetAtMutant(intended, sampled) == IF sampled >= OneMinute THEN "1min" ELSE "running-start"

\* The baseline of a run that is to take `intended' seconds and was last sampled
\* after `sampled': what performShutdown() finds without one is taken then.
BaselineSetAt(intended, sampled) ==
  IF intended < OneMinute THEN "running-start"
  ELSE IF intended < FiveMinutes /\ sampled >= OneMinute THEN "1min"
  ELSE IF sampled >= FiveMinutes THEN "5min" ELSE "running-start"

Advisory(intended, sampled) == BaselineSetAt(intended, sampled) # "5min"

-----------------------------------------------------------------------------
\* Thresholds.

\* A threshold of the pattern itself goes before that of the run; "none" is undefined.
Own(config, pattern, field, default) ==
  LET own == config.patterns[pattern].thresholds[field]
  IN IF own # "none" THEN own ELSE default

LossThreshold(config, p) ==
  Own(config, p, "loss", IF p = "events" THEN config.thresholds.eventsLoss
                                         ELSE config.thresholds.loss)

P99Threshold(config, p) == Own(config, p, "p99", config.thresholds.p99)

P999Threshold(config, p) == Own(config, p, "p999", config.thresholds.p999)

-----------------------------------------------------------------------------
\* The checks.  Each says that the pattern is within its limit.

\* (part / whole) * 100 > percent, and 0 of nothing.
Exceeds(part, whole, percent) == whole > 0 /\ 100 * part > percent * whole

Channels(ps) == {ps.channelDetails[i] : i \in DOMAIN ps.channelDetails}

\* More than one channel: each by itself.
Several(ps) == Cardinality(DOMAIN ps.channelDetails) > 1

LossOk(config, ps) ==
  LET limit == LossThreshold(config, ps.pattern)
  IN IF Several(ps) THEN \A c \in Channels(ps) : ~Exceeds(c.lost, c.sent, limit)
                    ELSE ~Exceeds(ps.lost, ps.sent, limit)

\* Every consumer of a pattern of events without a group gets every message.
Broadcasts(ps) == ps.pattern \in EventPatterns /\ ~ps.group /\ ps.consumers > 1

BroadcastOk(ps) ==
  IF DOMAIN ps.channelDetails # {}
  THEN \A c \in Channels(ps) : c.received = c.sent * ps.consumers
  ELSE ps.received = ps.sent * ps.consumers

\* None for a group, up to the threshold for the others.
DuplicationLimit(config, ps) ==
  IF ps.pattern \in EventPatterns /\ ps.group THEN 0 ELSE config.thresholds.duplication

DuplicationOk(config, ps) ==
  LET limit == DuplicationLimit(config, ps)
  IN IF Several(ps) THEN \A c \in Channels(ps) : ~Exceeds(c.duplicated, c.sent, limit)
                    ELSE ~Exceeds(ps.duplicated, ps.sent, limit)

DeliveryOk(config, ps) == IF Broadcasts(ps) THEN BroadcastOk(ps) ELSE DuplicationOk(config, ps)

LatencyOk(config, ps) ==
  /\ ps.p99 <= P99Threshold(config, ps.pattern)
  /\ ps.p999 <= P999Threshold(config, ps.pattern)

\* Only a soak test has a throughput to keep; a target of 0 is no target.
ThroughputOk(config, ps) ==
  config.mode = "soak" /\ ps.targetRate > 0
    => 100 * Min({ps.avgRate, ps.targetRate}) >= config.thresholds.throughput * ps.targetRate

\* Of the whole pattern: the errors of a channel are spread over the operations of all.
ErrorsOk(config, ps) == ~Exceeds(ps.errors, ps.sent + ps.responses, config.thresholds.errors)

DowntimeOk(config, ps, seconds) == ~Exceeds(ps.downtime, seconds, config.thresholds.downtime)

NoCorruption(summary, enabled) ==
  \A p \in enabled : \A c \in Channels(summary.patterns[p]) : c.corrupted = 0

\* Half of what the memory may grow is a warning.
TrendLimit(config) == 100 + (config.thresholds.memory - 100) \div 2

-----------------------------------------------------------------------------
\* generateVerdict().

\* The patterns that count: those that are not disabled, and that ran.
Judged(config, summary) ==
  {p \in DOMAIN summary.patterns : config.patterns[p].enabled}

\* Mutant: a pattern that lost too much is only reported.
PatternOkMutant(config, summary, p) ==
  LET ps == summary.patterns[p] IN
  /\ p \in PubSubQueue => DeliveryOk(config, ps)
  /\ LatencyOk(config, ps) /\ ErrorsOk(config, ps)
  /\ summary.duration > 0 => ThroughputOk(config, ps) /\ DowntimeOk(config, ps, summary.duration)

PatternOk(config, summary, p) ==
  LET ps == summary.patterns[p] IN
  /\ p \in PubSubQueue => LossOk(config, ps) /\ DeliveryOk(config, ps)
  /\ LatencyOk(config, ps) /\ ErrorsOk(config, ps)
  /\ summary.duration > 0 => ThroughputOk(config, ps) /\ DowntimeOk(config, ps, summary.duration)

\* The memory check is advisory when the baseline is not that of five minutes.
MemoryOk(config, summary) == summary.growth <= config.thresholds.memory

Fails(config, summary, advisory) ==
  \/ \E p \in Judged(config, summary) : ~PatternOk(config, summary, p)
  \/ ~NoCorruption(summary, Judged(config, summary))
  \/ ~advisory /\ ~MemoryOk(config, summary)

Verdict(config, summary, advisory) ==
  IF Fails(config, summary, advisory) THEN "FAILED"
  ELSE IF summary.growth > TrendLimit(config) \/ ~MemoryOk(config, summary)
       THEN "PASSED_WITH_WARNINGS" ELSE "PASSED"

\* A run that does not start.
StartupErrorVerdict == "FAILED"
=============================================================================

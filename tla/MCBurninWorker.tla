--------------------------- MODULE MCBurninWorker ---------------------------
(***************************************************************************)
(* Instances of the burn-in's workers for TLC: a behaviour is about a      *)
(* channel of messages and its report, or about a channel of requests.     *)
(*                                                                         *)
(* Two producers share the limiter; the first sends enough to slide its    *)
(* window, the second is content to wait for its turn.  The report         *)
(* tolerates nothing.                                                      *)
(***************************************************************************)
EXTENDS BurninReport, BurninRpc

CONSTANTS p1, p2, s1

ProducersValue == {p1, p2}
QuotaValue == p1 :> 3 @@ p2 :> 0

ConfigValue ==
  [mode |-> "soak",
   thresholds |-> [loss |-> 0, eventsLoss |-> 0, duplication |-> 0, p99 |-> 0, p999 |-> 0,
                   throughput |-> 100, errors |-> 0, memory |-> 200, downtime |-> 0],
   patterns |-> [p \in AllPatterns |->
                   [enabled |-> TRUE, rate |-> 1, consumers |-> 1, group |-> FALSE,
                    thresholds |-> [loss |-> "none", p99 |-> "none", p999 |-> "none"]]]]

\* The senders of a channel of messages, and the producers of a channel of requests.
NoRpc ==
  /\ place = [s \in Senders |-> "none"]
  /\ inflight = [s \in Senders |-> <<>>] /\ issued = [s \in Senders |-> 0]
  /\ stopped = FALSE /\ responding = FALSE /\ tally = NoTally /\ forgotten = 0

NoChannel ==
  /\ pc = [p \in Producers |-> "none"]
  /\ aborted = FALSE /\ consuming = FALSE /\ snapshot = NoSnapshot
  /\ UnusedChannel /\ pattern = "events"

WorkersSpec ==
  /\ (ReportInit /\ NoRpc) \/ (NoChannel /\ RpcInit)
  /\ [][\/ NoRpc /\ ReportNext /\ UNCHANGED rpc
        \/ ~NoRpc /\ RpcNext /\ UNCHANGED <<vars, snapshot>>]_<<vars, snapshot, rpc>>
  /\ Fairness /\ RpcFairness

\* Producers go on while they run, and after stopProducers() every producer and every
\* sender ends.
ProducersGoOnAndEnd == ProducersGoOn /\ WorkersEnd /\ SendersEnd
=============================================================================

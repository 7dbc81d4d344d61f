--------------------------- MODULE MCBurninEngine ---------------------------
(***************************************************************************)
(* Instances of BurninEngine, BurninConfig, BurninWarmup and BurninCleanup *)
(* for TLC: a behaviour is about the runs of an engine, about how they get *)
(* their configurations, about the warm-up of a run, or about the channels *)
(* that are cleaned up.                                                    *)
(***************************************************************************)
EXTENDS BurninEngine, BurninConfig, BurninWarmup, BurninCleanup, TLC

PatternsValue == {"events", "commands"}

\* One setting of each section and conversion, with values on both sides of its limits;
\* and bodies of two settings for the mode and its warm-up.
Singles ==
  LET values(key) ==
        CASE key[2] = "mode" -> {"soak", "benchmark", "other"}
          [] key[2] = "duration" -> {"0", "60s", "-5s"}
          [] key[2] \in {"run_id", "address"} -> {"", "given"}
          [] key[2] = "warmup" -> {"", "1h"}
          [] key[2] \in Flags -> {"yes", "no", "text"}
          [] key[2] \in {"loss", "throughput", "own.loss"} -> {101, NaN, Null, Text}
          [] key[2] = "rate" -> {0, NaN, Null}
          [] OTHER -> {1, NaN, Infinity, Null, Text}
      keys == ({"run"} \X {"mode", "duration", "run_id", "address", "warmup", "timeout", "port"})
              \cup ({"thresholds"} \X {"loss", "throughput"})
              \cup ({"events"} \X {"enabled", "group", "producers", "rate", "own.loss"})
              \cup ({"commands"} \X {"enabled", "senders"}) \cup {<<"v1", "rates">>}
  IN UNION {{key :> value : value \in values(key)} : key \in keys}

LayersValue ==
  {<<>>} \cup Singles \cup
  {<<"run", "mode">> :> mode @@ <<"run", "warmup">> :> warmup :
     mode \in {"soak", "benchmark"}, warmup \in {"", "1h"}}

NoSettings ==
  startup = <<>> /\ file = <<>> /\ environment = FALSE /\ started = <<>>

NoWarmup == warming = "idle" /\ tasks = <<"events_store", "queue">> /\ UnusedWarmup

\* The first two channels are tried beside each other; the third waits for one of them.
TaskListsValue == {<<"events", "queue", "rpc">>, <<"events_store", "queue">>}

NoCleanup == phase = "none" /\ UnusedCleanup

EngineOrSettings ==
  /\ \/ Init /\ NoSettings /\ NoWarmup /\ NoCleanup
     \/ Init /\ ConfigInit /\ NoWarmup /\ NoCleanup
     \/ Init /\ NoSettings /\ WarmupInit /\ NoCleanup
     \/ Init /\ NoSettings /\ NoWarmup /\ CleanupInit
  /\ [][\/ /\ startup = <<>> /\ warming = "idle" /\ phase = "none"
           /\ Next /\ UNCHANGED <<settings, warmupVars, cleanup>>
        \/ startup # <<>> /\ ConfigNext /\ UNCHANGED <<vars, warmupVars, cleanup>>
        \/ warming # "idle" /\ WarmupNext /\ UNCHANGED <<vars, settings, cleanup>>
        \/ phase # "none" /\ CleanupNext /\ UNCHANGED <<vars, settings, warmupVars>>
       ]_<<vars, settings, warmupVars, cleanup>>
  /\ Fairness /\ WarmupFairness

\* A stop request and a signal are obeyed, and a warm-up ends.
StopsAndWarmupsEnd == StopEnds /\ WarmupEnds
=============================================================================

---------------------------- MODULE BurninConfig ----------------------------
(***************************************************************************)
(* How a burn-in run gets its configuration: from the defaults, the YAML   *)
(* file and the environment when the program starts, and from the body of  *)
(* POST /run/start, which a run lays over a copy of the former.            *)
(*                                                                         *)
(* A configuration is a function from settings to values; a layer, the     *)
(* file or a body, has some of them.  A setting is a section and a name,   *)
(* "own.*" being the thresholds of a pattern.  Durations are texts.  In    *)
(* the place of a number there may be NaN or a text, which no comparison   *)
(* holds of, Infinity, or null, which compares as 0.  YAML has all of      *)
(* these; JSON has no NaN, and Infinity only as a number that is too long, *)
(* and writes both as null.  A flag is "yes", "no", or a text that is      *)
(* neither, which counts as true; flags and texts are never null here.     *)
(***************************************************************************)
EXTENDS Integers, Sequences, FiniteSets

CONSTANTS
  Patterns,   \* the patterns looked at, of "events", ..., "queries"
  Layers,     \* bound: the files and bodies that are written
  NaN, Infinity, Null,
  Text,       \* a text where a number is expected
  MaxStarted  \* bound: runs that start

\* None of them is a text a warm-up or a mode is compared with.
ASSUME NumbersAreNoTexts ==
  \A value \in {NaN, Infinity, Null, Text} : value \notin {"", "0s", "60s", "benchmark"}

VARIABLES
  startup,    \* startupCfg
  file,       \* history: the layer the program was started with
  environment,  \* KUBEMQ_BROKER_ADDRESS is set
  started     \* history: [body, cfg] of the runs that started

settings == <<startup, file, environment, started>>

-----------------------------------------------------------------------------
\* The settings.

Rpc == {"commands", "queries"}
Events == {"events", "events_store"}

\* "other" stands for what nobody validates: message.reorder_window, queue.max_depth,
\* forced_disconnect, recovery, output...
RunKeys == {"run"} \X {"address", "mode", "duration", "run_id", "starting", "sizeMode",
                       "size", "timeout", "pollWait", "drain", "warmup", "port", "other"}

OwnLimits == {"own.loss", "own.duplication", "own.p99", "own.p999"}

Percentages == {"loss", "eventsLoss", "duplication", "errors", "downtime"}

ThresholdKeys == {"thresholds"} \X (Percentages \cup {"throughput", "p99", "p999", "memory"})

Flags == {"enabled", "group"}

PatternKeys ==
  Patterns \X (Flags \cup {"channels", "producers", "consumers", "senders", "responders",
                           "rate"} \cup OwnLimits)

Keys == RunKeys \cup ThresholdKeys \cup PatternKeys

\* A threshold a pattern does not have.
Absent == 1000000

Default(key) ==
  CASE key[2] = "address" -> "localhost"  [] key[2] = "mode" -> "soak"
    [] key[2] = "duration" -> "1h"        [] key[2] \in {"run_id", "warmup"} -> ""
    [] key[2] = "starting" -> 60          [] key[2] = "sizeMode" -> "fixed"
    [] key[2] = "size" -> 1024            [] key[2] = "timeout" -> 5000
    [] key[2] = "pollWait" -> 5           [] key[2] = "drain" -> 10
    [] key[2] = "port" -> 8888            [] key[2] = "other" -> 10000
    [] key[2] = "loss" -> 0               [] key[2] = "eventsLoss" -> 5
    [] key[2] \in {"errors", "duplication"} -> 1   [] key[2] = "downtime" -> 10
    [] key[2] = "throughput" -> 90        [] key[2] = "p99" -> 1000
    [] key[2] = "p999" -> 5000            [] key[2] = "memory" -> 2
    [] key[2] = "enabled" -> "yes"        [] key[2] = "group" -> "no"
    [] key[2] = "rate" -> IF key[1] = "queue_stream" THEN 50 ELSE 100
    [] key[2] \in OwnLimits -> Absent
    [] OTHER -> 1

\* parseDuration(): what cannot be read is 0.
Seconds(text) ==
  CASE text = "1h" -> 3600 [] text = "60s" -> 60 [] text = "-5s" -> -5 [] OTHER -> 0

-----------------------------------------------------------------------------
\* The layers.

\* What the file can say: everything.  A flag becomes a boolean and a number a number,
\* but thresholds are taken as they come.
YamlValue(key, raw) ==
  CASE key[2] \in Flags -> IF raw = "no" THEN "no" ELSE "yes"
    [] key[1] = "thresholds" \/ key[2] \in OwnLimits -> raw
    [] raw = Null -> 0
    [] raw = Text -> NaN
    [] OTHER -> raw

\* mergeYamlConfig() and mergePatternConfig().
MergeYaml(cfg, raw) ==
  [key \in Keys |-> IF key \in DOMAIN raw THEN YamlValue(key, raw[key]) ELSE cfg[key]]

\* What a body can say: not the port.
ApiKeys == Keys \ {<<"run", "port">>}

\* A value that was written as JSON and read again.
JsonValue(value) == IF value \in {NaN, Infinity} THEN Null ELSE value

\* Mutant: a copy that keeps what JSON has no word for.
JsonCopyMutant(cfg) == cfg

\* JSON.parse(JSON.stringify(cfg)).
JsonCopy(cfg) == [key \in Keys |-> JsonValue(cfg[key])]

\* Given in a body; "" is not taken for an address or an identifier.
Says(body, key) ==
  key \in DOMAIN body \cap ApiKeys /\ (key[2] \in {"address", "run_id"} => body[key] # "")

MergeApi(cfg, body) == [key \in Keys |-> IF Says(body, key) THEN body[key] ELSE cfg[key]]

\* An identifier is generated for a configuration that has none.
Identified(cfg, id) ==
  IF cfg[<<"run", "run_id">>] = "" THEN [cfg EXCEPT ![<<"run", "run_id">>] = id] ELSE cfg

\* A benchmark has a warm-up of a minute unless something else is asked for.
WithWarmup(cfg, otherwise) ==
  IF cfg[<<"run", "warmup">>] # "" THEN cfg
  ELSE [cfg EXCEPT ![<<"run", "warmup">>] =
          IF cfg[<<"run", "mode">>] = "benchmark" THEN "60s" ELSE otherwise]

Addressed(cfg) ==
  IF environment THEN [cfg EXCEPT ![<<"run", "address">>] = "environment"] ELSE cfg

-----------------------------------------------------------------------------
\* Validation.

\* `value < low': null is 0.
Below(value, low) ==
  value \notin {NaN, Text, Infinity} /\ (IF value = Null THEN 0 ELSE value) < low

\* `value < low || value > high'.
Outside(value, low, high) ==
  Below(value, low) \/ value = Infinity \/ (value \notin {NaN, Text, Null} /\ value > high)

Enabled(cfg) == {p \in Patterns : cfg[<<p, "enabled">>] # "no"}

\* validateConfig(), when the program starts.
StartupErrors(cfg) ==
  LET run(name) == cfg[<<"run", name>>] IN
  \/ run("address") = "" \/ run("mode") \notin {"soak", "benchmark"}
  \/ Seconds(run("duration")) <= 0
  \/ run("sizeMode") \notin {"fixed", "distribution"}
  \/ run("sizeMode") = "fixed" /\ Below(run("size"), 64)
  \/ Outside(run("port"), 1, 65535)
  \/ \E name \in {"timeout", "pollWait", "drain"} : Below(run(name), 1)
  \/ Enabled(cfg) = {}

PatternErrors(cfg, p) ==
  LET of(name) == cfg[<<p, name>>]
      own(name) == of(name) # Absent
  IN \/ of("channels") \in {NaN, Text, Null} \/ Outside(of("channels"), 1, 1000)
     \/ Below(of("rate"), 0) \/ (cfg[<<"run", "mode">>] = "soak" /\ of("rate") = Null)
     \/ \E name \in IF p \in Rpc THEN {"senders", "responders"} ELSE {"producers", "consumers"} :
          Below(of(name), 1)
     \/ p \in Events /\ of("group") \notin {"yes", "no"}
     \/ \E name \in {"own.loss", "own.duplication"} : own(name) /\ Outside(of(name), 0, 100)
     \/ \E name \in {"own.p99", "own.p999"} : own(name) /\ Below(of(name), 1)

ThresholdErrors(cfg) ==
  LET limit(name) == cfg[<<"thresholds", name>>] IN
  \/ \E name \in Percentages : Outside(limit(name), 0, 100)
  \/ Outside(limit("throughput"), 1, 100)
  \/ \E name \in {"p99", "p999", "memory"} : Below(limit(name), 1)

\* validateRunConfig(), for a body.
RunErrors(cfg) ==
  LET run(name) == cfg[<<"run", name>>] IN
  \/ run("mode") \notin {"soak", "benchmark"}
  \/ run("mode") = "soak" /\ run("duration") # "0" /\ Seconds(run("duration")) <= 0
  \/ Enabled(cfg) = {} \/ \E p \in Enabled(cfg) : PatternErrors(cfg, p)
  \/ ThresholdErrors(cfg)
  \/ Below(run("size"), 64)
  \/ \E name \in {"starting", "drain"} : Below(run(name), 1)

\* detectV1Format(): a body with fields of the first version.
DetectV1Format(body) == \E key \in DOMAIN body : key[1] = "v1"

-----------------------------------------------------------------------------
\* loadConfig(): the defaults, the file, the environment.
LoadConfig(yaml) ==
  WithWarmup(Identified(Addressed(MergeYaml([key \in Keys |-> Default(key)], yaml)), "program"), "")

\* translateApiConfig(): the body over a copy of what the program started with.
TranslateApiConfig(body) == WithWarmup(Identified(MergeApi(JsonCopy(startup), body), "run"), "0s")

\* main(): a configuration with errors ends the program.
ConfigInit ==
  /\ file \in Layers /\ environment \in BOOLEAN
  /\ startup = LoadConfig(file) /\ ~StartupErrors(startup)
  /\ started = <<>>

\* Mutant: the run works on the program's own configuration.
StartupAfterMutant(cfg) == cfg

\* What a run with a configuration leaves of the program's.
StartupAfter(cfg) == startup

\* A body is JSON, in which there is no NaN.
IsJson(body) == \A key \in DOMAIN body : body[key] # NaN

\* POST /run/start, when no run is active; a body with an error is answered with it.  The
\* engine makes a copy of its own of the configuration.
PostRunStart(body) ==
  /\ Len(started) < MaxStarted /\ IsJson(body) /\ ~DetectV1Format(body)
  /\ LET cfg == TranslateApiConfig(body) IN
       /\ ~RunErrors(cfg)
       /\ started' = Append(started, [body |-> body, cfg |-> JsonCopy(cfg)])
       /\ startup' = StartupAfter(cfg)
  /\ UNCHANGED <<file, environment>>

ConfigNext == \E body \in Layers : PostRunStart(body)

ConfigSpec == ConfigInit /\ [][ConfigNext]_settings

-----------------------------------------------------------------------------
\* What the program was told when it started, by the environment, the file, or nobody.
Told(key) ==
  IF key = <<"run", "address">> /\ environment THEN "environment"
  ELSE IF key \in DOMAIN file THEN YamlValue(key, file[key]) ELSE Default(key)

\* The warm-up of a run nobody has asked one for is that of its mode, or of the program's.
WarmupOf(run) ==
  LET modes == {run.cfg[<<"run", "mode">>]} \cup
               (IF Told(<<"run", "warmup">>) = "" /\ <<"run", "warmup">> \notin DOMAIN run.body
                THEN {Told(<<"run", "mode">>)} ELSE {})
  IN IF "benchmark" \in modes THEN "60s" ELSE "0s"

\* A run is configured by its own body, then by what the program was told, whatever other
\* runs have asked for before, setting by setting and pattern by pattern: with the value
\* given, or null where that is none JSON can hold.
RunIsAsAsked ==
  \A i \in DOMAIN started : \A key \in Keys :
    LET run == started[i]
        asked == IF Says(run.body, key) THEN run.body[key] ELSE Told(key)
    IN CASE key = <<"run", "run_id">> -> asked # "" => run.cfg[key] = JsonValue(asked)
         [] key = <<"run", "warmup">> ->
              run.cfg[key] = (IF asked # "" THEN JsonValue(asked) ELSE WarmupOf(run))
         [] OTHER -> run.cfg[key] = JsonValue(asked)

-----------------------------------------------------------------------------
\* What a doc, or the validation of the file, says and the code does not do.

\* GAP-REPORT.md, C8: "run_id auto-generation (8-char hex) when empty".  The program's own
\* identifier goes into every run that has none, and with it the names of its channels.
RunsAreApart ==
  \A i, j \in DOMAIN started :
    i # j /\ started[i].cfg[<<"run", "run_id">>] = started[j].cfg[<<"run", "run_id">>]
      => Says(started[i].body, <<"run", "run_id">>) \/ <<"run", "run_id">> \in DOMAIN file

\* What is refused in the file is refused in a body: not rpc.timeout_ms and
\* queue.poll_wait_timeout_seconds, with which every request of the run is refused.
RunsHaveTimeouts ==
  \A i \in DOMAIN started : ~Below(started[i].cfg[<<"run", "timeout">>], 1)
=============================================================================

---------------------------- MODULE BurninEngine ----------------------------
(***************************************************************************)
(* The burn-in engine: runs started and stopped over HTTP, the phases of a *)
(* run, the timeout of its start, forced disconnects, and the end of the   *)
(* process on a signal.                                                    *)
(*                                                                         *)
(* A run is the coroutine executeRun(); between two of its awaits it is at *)
(* one of the places below.  All runs share the fields of one Engine: a    *)
(* run that wakes up late, and a timer or a disconnect that outlives its   *)
(* run, act on whatever run the engine has by then.  mixed records the     *)
(* runs this happened to.                                                  *)
(*                                                                         *)
(* One pattern group with one channel stands for all of them.  Left out:   *)
(* what is reported while a run goes on, and the deletion of channels.     *)
(***************************************************************************)
EXTENDS Integers, FiniteSets

CONSTANTS
  MaxRuns,         \* bound: runs the operator starts
  MaxFaults,       \* bound: awaits of a run that throw
  MaxDisconnects   \* bound: forced disconnects, over all runs

ASSUME EngineConstants == MaxRuns \in Nat /\ MaxFaults \in Nat /\ MaxDisconnects \in Nat

Runs == 1..MaxRuns
None == 0

\* The clients: <<run, kind>>.  The "main" one is for pings and clean-up, the "channel"
\* one for the workers; the other two are their successors after a forced disconnect.
Clients == Runs \X {"main", "channel", "newMain", "newChannel"}
NoClient == <<0, "none">>

States == {"idle", "starting", "running", "stopping", "stopped", "error"}
Startable == {"idle", "stopped", "error"}
Stoppable == {"starting", "running"}

VARIABLES
  state,       \* Engine._state
  runId,       \* the latest run: _runId, _runCfg, runAbort, runPromise
  report,      \* _report: the run whose coroutine made it, or None
  client,      \* Engine.client
  channels,    \* Engine.channelClients
  groups,      \* Engine.patternGroups: the run they were made for, or None
  pc,          \* where the coroutine of each run is
  detached,    \* finishIfStopping() goes on by itself, the run's promise is resolved
  aborted,     \* the abort signal of each run
  timer,       \* the start timer of each run is set
  producers,   \* of the group made for each run: "none", "on" or "off"
  consumers,
  open,        \* the clients nobody has called close() of
  manager,     \* where the DisconnectManager of each run is
  managing,    \* it has not been stopped
  exit,        \* index.ts: "no", "waiting" for a run, "exited"
  exitRun,     \* the run it waits for
  faults, disconnects,  \* bounds
  mixed        \* history: runs that were not over when the next began, the next, and
               \* runs the timer or the manager of an earlier one acted upon

engine == <<state, runId, report>>
objects == <<client, channels, groups, open>>
workers == <<producers, consumers>>
coroutines == <<pc, detached, aborted, timer>>
disconnecting == <<manager, managing, disconnects>>
process == <<exit, exitRun>>
vars == <<engine, objects, workers, coroutines, disconnecting, process, faults, mixed>>

Init ==
  /\ state = "idle" /\ runId = None /\ report = None
  /\ client = NoClient /\ channels = {} /\ groups = None /\ open = {}
  /\ producers = [r \in Runs |-> "none"] /\ consumers = [r \in Runs |-> "none"]
  /\ pc = [r \in Runs |-> "none"] /\ detached = [r \in Runs |-> FALSE]
  /\ aborted = [r \in Runs |-> FALSE] /\ timer = [r \in Runs |-> FALSE]
  /\ manager = [r \in Runs |-> "off"] /\ managing = [r \in Runs |-> FALSE]
  /\ exit = "no" /\ exitRun = None
  /\ faults = 0 /\ disconnects = 0 /\ mixed = {}

Goto(r, place) == pc' = [pc EXCEPT ![r] = place]

Over == {"none", "done", "left"}

\* What is left of run r acts on the latest run.
Outlives(r) == mixed' = mixed \cup ({runId} \ {r})

\* The workers of the engine's groups are stopped, or started if they were not.
Stopped(w) == IF groups = None THEN w ELSE [w EXCEPT ![groups] = "off"]
Started(w) ==
  IF groups = None THEN w ELSE [w EXCEPT ![groups] = IF @ = "none" THEN "on" ELSE @]

HasChannel(cs) == groups = None \/ \E c \in cs : c[1] = groups

-----------------------------------------------------------------------------
\* The HTTP API.

\* POST /run/start and startRun(), up to the first await of executeRun().
StartRun ==
  /\ exit # "exited" /\ state \in Startable /\ runId < MaxRuns
  /\ state' = "starting" /\ runId' = runId + 1 /\ report' = None
  /\ groups' = None /\ channels' = {}
  /\ Goto(runId + 1, "creating") /\ timer' = [timer EXCEPT ![runId + 1] = TRUE]
  /\ LET others == {r \in Runs : pc[r] \notin Over}
     IN mixed' = IF others = {} THEN mixed ELSE mixed \cup others \cup {runId'}
  /\ UNCHANGED <<client, open, workers, detached, aborted, disconnecting, process, faults>>

\* requestStop().
RequestStop ==
  /\ state' = "stopping"
  /\ aborted' = [aborted EXCEPT ![runId] = TRUE]

\* POST /run/stop.
StopRun ==
  /\ exit # "exited" /\ state \in Stoppable
  /\ RequestStop
  /\ UNCHANGED <<runId, report, objects, workers, pc, detached, timer, disconnecting, process,
                 faults, mixed>>

-----------------------------------------------------------------------------
\* The end of a run.

\* Mutant: the consumers are stopped first.
PhaseOneMutant == consumers' = Stopped(consumers) /\ UNCHANGED producers

\* The first phase of performShutdown(), to the end of the synchronous part.
PhaseOne == producers' = Stopped(producers) /\ UNCHANGED consumers

Shutdown(r) == PhaseOne /\ Goto(r, "draining")

\* Mutant: it does nothing once a stop was requested.
FinishedMutant == state # "starting"

\* The error was dealt with where it came up.
Finished == state = "error"

\* finishIfStopping(), which nobody awaits: run r was aborted while it started.
FinishIfStopping(r) ==
  \/ /\ Finished /\ Goto(r, "left")
     /\ UNCHANGED <<workers, detached>>
  \/ /\ ~Finished /\ Shutdown(r)
     /\ detached' = [detached EXCEPT ![r] = TRUE]

\* The drain time is over: the second phase.
Drained(r) ==
  /\ pc[r] = "draining" /\ Goto(r, "reporting")
  /\ consumers' = Stopped(consumers)
  /\ UNCHANGED <<engine, objects, producers, detached, aborted, timer, disconnecting, process, faults>>

\* The channels are deleted or not, the report is made; the clients are closed.
Report(r) ==
  /\ pc[r] = "reporting" /\ Goto(r, "closing")
  /\ report' = r
  /\ open' = open \ (channels \cup {client})
  /\ UNCHANGED <<state, runId, client, channels, groups, workers, detached, aborted, timer,
                 disconnecting, process, faults>>

\* The clients are closed, or that took too long.
Closed(r) ==
  /\ pc[r] = "closing" /\ Goto(r, "done")
  /\ client' = NoClient /\ channels' = {}
  /\ state' = IF state = "stopping" THEN "stopped" ELSE state
  /\ UNCHANGED <<runId, report, groups, open, workers, detached, aborted, timer, disconnecting,
                 process, faults>>

\* Mutant: the workers of a run that failed are left alone.
CleanWorkersMutant == UNCHANGED workers

CleanWorkers == producers' = Stopped(producers) /\ consumers' = Stopped(consumers)

\* Mutant: a run that fails makes no report.
ErrorReportMutant(r) == report

\* buildErrorReport(), once.
ErrorReport(r) == IF state = "error" THEN report ELSE r

\* The catch of executeRun() and the first part of safeCleanup().
Catch(r) ==
  /\ timer' = [timer EXCEPT ![r] = FALSE]
  /\ state' = "error" /\ report' = ErrorReport(r)
  /\ CleanWorkers
  /\ open' = open \ channels
  /\ Goto(r, "cleaning")
  /\ UNCHANGED <<runId, client, channels, groups, detached, aborted, disconnecting, process>>

\* The rest of safeCleanup().
Cleaned(r) ==
  /\ pc[r] = "cleaning" /\ Goto(r, "done")
  /\ client' = NoClient /\ channels' = {} /\ open' = open \ {client}
  /\ UNCHANGED <<engine, groups, workers, detached, aborted, timer, disconnecting, process, faults>>

Starting == {"creating", "pinging", "connecting", "warming"}

\* An await throws while the run starts.
Throw(r) ==
  /\ pc[r] \in Starting /\ faults < MaxFaults /\ faults' = faults + 1
  /\ Catch(r)

\* The report cannot be written.  Nobody hears of it if nobody awaits the shutdown.
WriteFails(r) ==
  /\ pc[r] = "reporting" /\ faults < MaxFaults /\ faults' = faults + 1
  /\ \/ /\ ~detached[r] /\ Catch(r)
     \/ /\ detached[r] /\ Goto(r, "done")
        /\ state' = IF state = "stopping" THEN "stopped" ELSE state
        /\ report' = r
        /\ UNCHANGED <<runId, objects, workers, detached, aborted, timer, disconnecting, process>>

-----------------------------------------------------------------------------
\* The start of a run.

\* Mutant: the timeout does not look at the state.
TooLateMutant == TRUE

\* The state the start timer looks for.  It is the engine's, not the run's.
TooLate == state = "starting"

\* The start timer fires.
StartTimeout(r) ==
  /\ timer[r] /\ timer' = [timer EXCEPT ![r] = FALSE]
  /\ \/ /\ ~TooLate /\ UNCHANGED <<state, report, aborted, mixed>>
     \/ /\ TooLate
        /\ state' = "error" /\ report' = r
        /\ aborted' = [aborted EXCEPT ![runId] = TRUE]
        /\ Outlives(r)
  /\ UNCHANGED <<runId, objects, workers, pc, detached, disconnecting, process, faults>>

\* Where the run is aborted it ends, and otherwise it goes on.
GoesOn(r, place) ==
  \/ aborted[r] /\ FinishIfStopping(r)
  \/ ~aborted[r] /\ Goto(r, place) /\ UNCHANGED <<workers, detached>>

\* createClient() is over.
Created(r) ==
  /\ pc[r] = "creating"
  /\ client' = <<r, "main">> /\ open' = open \cup {client'}
  /\ GoesOn(r, "pinging")
  /\ UNCHANGED <<engine, channels, groups, aborted, timer, disconnecting, process, faults>>

\* ping() is over: createPatternGroups(), and the clients of the channels are asked for.
Pinged(r) ==
  /\ pc[r] = "pinging"
  /\ GoesOn(r, "connecting")
  /\ groups' = IF aborted[r] THEN groups ELSE r
  /\ channels' = IF aborted[r] THEN channels ELSE {}
  /\ UNCHANGED <<engine, client, open, aborted, timer, disconnecting, process, faults>>

\* They are there: startConsumers(), and the warm-up begins.
Connected(r) ==
  /\ pc[r] = "connecting"
  /\ LET made == <<r, "channel">>
         found == channels \cup {made}
     IN \/ /\ aborted[r] /\ FinishIfStopping(r)
           /\ channels' = found /\ open' = open \cup {made}
           /\ UNCHANGED <<engine, client, groups, aborted, timer, disconnecting, process>>
        \/ /\ ~aborted[r] /\ HasChannel(found)
           /\ consumers' = Started(consumers) /\ Goto(r, "warming")
           /\ channels' = found /\ open' = open \cup {made}
           /\ UNCHANGED <<engine, client, groups, producers, detached, aborted, timer,
                          disconnecting, process>>
  /\ UNCHANGED faults

\* The warm-up is over: startProducers(), and the warm-up period begins.
Warmed(r) ==
  /\ pc[r] = "warming"
  /\ \/ /\ aborted[r] /\ FinishIfStopping(r)
     \/ /\ ~aborted[r] /\ HasChannel(channels)
        /\ producers' = Started(producers) /\ Goto(r, "period")
        /\ UNCHANGED <<consumers, detached>>
  /\ UNCHANGED <<engine, objects, aborted, timer, disconnecting, process, faults>>

\* The period, of which the abort makes an end, is over: the run is running.
Begin(r) ==
  /\ pc[r] = "period"
  /\ \/ /\ aborted[r] /\ FinishIfStopping(r)
        /\ UNCHANGED <<engine, timer, disconnecting>>
     \/ /\ ~aborted[r] /\ Goto(r, "running")
        /\ timer' = [timer EXCEPT ![r] = FALSE]
        /\ state' = IF state = "starting" THEN "running" ELSE state
        /\ manager' = [manager EXCEPT ![r] = "armed"] /\ managing' = [managing EXCEPT ![r] = TRUE]
        /\ UNCHANGED <<runId, report, disconnects, workers, detached>>
  /\ UNCHANGED <<objects, aborted, process, faults>>

\* The time of the run is up, or it is stopped.
RunOver(r) ==
  /\ pc[r] = "running"
  /\ managing' = [managing EXCEPT ![r] = FALSE]
  /\ state' = IF state = "running" THEN "stopping" ELSE state
  /\ Shutdown(r)
  /\ UNCHANGED <<runId, report, objects, detached, aborted, timer, manager, disconnects, process,
                 faults>>

-----------------------------------------------------------------------------
\* DisconnectManager: disconnect() as a coroutine of its own.  stop() clears the timer,
\* and is seen after the pause, but not once recreateClient() has begun.

\* closeClient(), and the pause.
Disconnect(r) ==
  /\ manager[r] = "armed" /\ managing[r]
  /\ disconnects < MaxDisconnects /\ disconnects' = disconnects + 1
  /\ open' = open \ (channels \cup {client})
  /\ manager' = [manager EXCEPT ![r] = "down"]
  /\ Outlives(r)
  /\ UNCHANGED <<engine, client, channels, groups, workers, coroutines, managing, process, faults>>

Recreate(r) ==
  /\ manager[r] = "down"
  /\ manager' = [manager EXCEPT ![r] = IF managing[r] THEN "recreating" ELSE "off"]
  /\ UNCHANGED <<engine, objects, workers, coroutines, managing, disconnects, process, faults, mixed>>

\* recreateClient() up to the new clients of the channels ...
MainRecreated(r) ==
  /\ manager[r] = "recreating"
  /\ manager' = [manager EXCEPT ![r] = "reconnecting"]
  /\ client' = <<runId, "newMain">> /\ channels' = {} /\ open' = open \cup {client'}
  /\ Outlives(r)
  /\ UNCHANGED <<engine, groups, workers, coroutines, managing, disconnects, process, faults>>

\* ... and their arrival.  The workers keep the clients they have.
ChannelsRecreated(r) ==
  /\ manager[r] = "reconnecting"
  /\ manager' = [manager EXCEPT ![r] = "armed"]
  /\ LET new == {<<g, "newChannel">> : g \in {groups} \ {None}}
     IN channels' = channels \cup new /\ open' = open \cup new
  /\ Outlives(r)
  /\ UNCHANGED <<engine, client, groups, workers, coroutines, managing, disconnects, process, faults>>

\* recreateClient() throws: the next disconnect is scheduled.
RecreateFails(r) ==
  /\ manager[r] \in {"recreating", "reconnecting"}
  /\ faults < MaxFaults /\ faults' = faults + 1
  /\ manager' = [manager EXCEPT ![r] = "armed"]
  /\ UNCHANGED <<engine, objects, workers, coroutines, managing, disconnects, process, mixed>>

-----------------------------------------------------------------------------
\* index.ts: SIGTERM and SIGINT.

OnSignal ==
  /\ exit = "no"
  /\ \/ /\ state \in Stoppable /\ RequestStop
        /\ exit' = "waiting" /\ exitRun' = runId
     \/ /\ state = "stopping" /\ UNCHANGED <<state, aborted>>
        /\ exit' = "waiting" /\ exitRun' = runId
     \/ /\ state \in Startable /\ UNCHANGED <<state, aborted>>
        /\ exit' = "exited" /\ UNCHANGED exitRun
  /\ UNCHANGED <<runId, report, objects, workers, pc, detached, timer, disconnecting, faults, mixed>>

\* The promise of run r is resolved.
Resolved(r) == pc[r] \in {"done", "left"} \/ detached[r]

Exit ==
  /\ exit = "waiting" /\ Resolved(exitRun) /\ exit' = "exited"
  /\ UNCHANGED <<engine, objects, workers, coroutines, disconnecting, exitRun, faults, mixed>>

-----------------------------------------------------------------------------
\* The group of another run is there, but the channel is not: startConsumers() throws.
NoChannel(r) ==
  /\ pc[r] \in {"connecting", "warming"} /\ ~aborted[r]
  /\ ~HasChannel(channels \cup IF pc[r] = "connecting" THEN {<<r, "channel">>} ELSE {})
  /\ UNCHANGED faults
  /\ Catch(r)

\* What run r and its manager do once their awaits are over.
RunStep(r) ==
  /\ \/ Created(r) \/ Pinged(r) \/ Connected(r) \/ Warmed(r) \/ Begin(r) \/ RunOver(r)
     \/ Drained(r) \/ Report(r) \/ Closed(r) \/ Cleaned(r) \/ NoChannel(r)
  /\ UNCHANGED mixed

ManagerStep(r) == Recreate(r) \/ MainRecreated(r) \/ ChannelsRecreated(r)

Fails(r) == (UNCHANGED mixed /\ (Throw(r) \/ WriteFails(r))) \/ RecreateFails(r)

Next ==
  \/ StartRun \/ StopRun \/ OnSignal \/ Exit
  \/ /\ exit # "exited"
     /\ \E r \in Runs : RunStep(r) \/ ManagerStep(r) \/ Fails(r) \/ StartTimeout(r) \/ Disconnect(r)

Spec == Init /\ [][Next]_vars

\* Every await of a run is over some time: a client is made or throws, delays end.
Fairness ==
  /\ \A r \in Runs : WF_vars(exit # "exited" /\ RunStep(r))
  /\ WF_vars(Exit)

FairSpec == Spec /\ Fairness

-----------------------------------------------------------------------------
\* Every variable stays in its type.
TypeOK ==
  /\ state \in States /\ runId \in 0..MaxRuns /\ report \in 0..MaxRuns
  /\ client \in Clients \cup {NoClient} /\ channels \subseteq Clients /\ open \subseteq Clients
  /\ groups \in 0..MaxRuns
  /\ producers \in [Runs -> {"none", "on", "off"}] /\ consumers \in [Runs -> {"none", "on", "off"}]
  /\ pc \in [Runs -> Starting \cup {"none", "period", "running", "draining", "reporting", "closing",
                                    "cleaning", "done", "left"}]
  /\ detached \in [Runs -> BOOLEAN] /\ aborted \in [Runs -> BOOLEAN] /\ timer \in [Runs -> BOOLEAN]
  /\ manager \in [Runs -> {"off", "armed", "down", "recreating", "reconnecting"}]
  /\ managing \in [Runs -> BOOLEAN]
  /\ exit \in {"no", "waiting", "exited"} /\ exitRun \in 0..MaxRuns
  /\ mixed \subseteq Runs

\* A run that is over, and was not mixed with another, has left no producer and no
\* consumer behind.  If it awaited its shutdown it has closed its own clients too.  (Not
\* those of a forced disconnect that was under way; and not when the start timed out: the
\* state is "error" then, finishIfStopping() does nothing, and the run is "left".)
CleanEnd ==
  \A r \in Runs \ mixed : pc[r] = "done" =>
    /\ producers[r] # "on" /\ consumers[r] # "on"
    /\ ~detached[r] => open \cap {<<r, "main">>, <<r, "channel">>} = {}

\* Whoever finds the engine at rest finds the report of the latest run, unless that was
\* mixed with another.  (With three runs there may be none at all then: the last one is
\* being stopped, its report not made, when the first gets to the end of its shutdown.)
EndedHasReport ==
  state \in {"stopped", "error"} => (report = runId /\ report # None) \/ runId \in mixed

\* The two phases of the shutdown: no run sends while nobody consumes, unless the
\* run got mixed with another.
ProducersStopFirst ==
  \A r \in Runs \ mixed : producers[r] = "on" => consumers[r] = "on"

\* A run that is over has cleaned up after itself and has reported, whatever threw, and
\* whenever it was stopped; its producers stop first.
RunsEndProperly == TypeOK /\ CleanEnd /\ EndedHasReport /\ ProducersStopFirst

\* The states follow one another as they should, unless runs got mixed; in particular the
\* start timer ends no run but one that starts.
Follows ==
  [idle |-> {"starting"}, starting |-> {"running", "stopping", "error"},
   running |-> {"stopping"}, stopping |-> {"stopped", "error"},
   stopped |-> {"starting"}, error |-> {"starting"}]

StateMachine == [][state' # state => state' \in Follows[state] \/ runId \in mixed]_vars

\* A stop request is obeyed, and a signal ends the process.
StopEnds ==
  /\ state = "stopping" ~> state # "stopping" \/ exit = "exited"
  /\ exit = "waiting" ~> exit = "exited"

-----------------------------------------------------------------------------
\* What a doc of the repository says and the code does not do.

\* GAP-REPORT.md L11: "stop active run gracefully, generate report, cleanup, exit".
SignalLeavesAReport ==
  exit = "exited" /\ exitRun # None => report = exitRun /\ producers[exitRun] # "on"

\* L10: "Stop during `starting` - cancel startup, cleanup", of one run only.
OneRunAtATime == mixed = {}

\* A start that timed out leaves nothing behind.
TimeoutCleansUp == \A r \in Runs : pc[r] = "left" => consumers[r] # "on"
=============================================================================

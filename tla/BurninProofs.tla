---------------------------- MODULE BurninProofs ----------------------------
(***************************************************************************)
(* Proofs about what the burn-in does with runs, for every size of each    *)
(* part.  The engine's runs end properly and its state follows the rules,  *)
(* unless runs got mixed.  A clean-up spares the run that is active.  A    *)
(* warm-up that returns has tried each channel.  A run is configured by its *)
(* own body and what the program was told.                                 *)
(***************************************************************************)
EXTENDS BurninEngine, BurninCleanup, BurninWarmup, BurninConfig, FiniteSetTheorems, TLAPS

-----------------------------------------------------------------------------
\* The engine.

Modes == {"none", "on", "off"}
Beginning == Starting \cup {"period"}

\* Nothing is there of a run that has not started.
NotYet ==
  \A r \in Runs : r > runId =>
    /\ pc[r] = "none" /\ producers[r] = "none" /\ consumers[r] = "none"
    /\ ~aborted[r] /\ ~timer[r] /\ manager[r] = "off" /\ ~managing[r]
    /\ {<<r, "main">>, <<r, "channel">>} \cap open = {} /\ r \notin mixed

\* Whatever is on its way beside the latest run is mixed with it, and so are the groups of
\* another run.
OthersAreMixed ==
  /\ \A r \in Runs : pc[r] \notin Over /\ r # runId => r \in mixed /\ runId \in mixed
  /\ groups \in {None, runId} \/ (runId \in mixed /\ groups \in mixed)

\* What the latest run is to the engine as long as it is not mixed: the state, ...
StateOf(r) ==
  /\ pc[r] # "none"
  /\ pc[r] \in Beginning => state \in (IF aborted[r] THEN {"stopping", "error"} ELSE {"starting"})
  /\ pc[r] = "running" => state \in {"running", "stopping"}
  /\ pc[r] \in {"draining", "reporting", "closing"} => state = "stopping"
  /\ pc[r] \in {"cleaning", "left"} => state = "error"
  /\ pc[r] = "done" => state \in {"stopped", "error"}

\* ... the workers of its group, ...
WorkersOf(r) ==
  /\ groups \in {None, r}
  /\ pc[r] \in {"connecting", "warming", "period", "running"} => groups = r
  /\ pc[r] \in {"creating", "pinging", "connecting"} => consumers[r] = "none"
  /\ pc[r] \in Starting => producers[r] = "none"
  /\ pc[r] \in {"warming", "period", "running"} => consumers[r] = "on"
  /\ pc[r] \in {"draining", "reporting", "closing", "cleaning", "done"} => producers[r] # "on"
  /\ pc[r] \in {"reporting", "closing", "cleaning", "done"} => consumers[r] # "on"
  /\ producers[r] = "on" \/ consumers[r] = "on" => groups = r

\* ... its clients, which the engine knows and a forced disconnect has closed, ...
ClientsOf(r) ==
  /\ pc[r] \in Beginning => manager[r] = "off"
  /\ <<r, "main">> \in open =>
       client = <<r, "main">> /\ manager[r] \in {"off", "armed"} /\ pc[r] # "closing"
  /\ <<r, "channel">> \in open =>
       /\ <<r, "channel">> \in channels /\ manager[r] \in {"off", "armed"}
       /\ pc[r] \notin {"creating", "pinging", "connecting", "closing", "cleaning"}

\* ... and its report.
ReportOf(r) ==
  /\ report \in {None, r}
  /\ pc[r] = "closing" => report = r

LatestIs(r) == StateOf(r) /\ WorkersOf(r) /\ ClientsOf(r) /\ ReportOf(r)

Latest == runId # None /\ runId \notin mixed => LatestIs(runId)

EngineInv ==
  TypeOK /\ NotYet /\ OthersAreMixed /\ Latest /\ CleanEnd /\ EndedHasReport /\ ProducersStopFirst

USE EngineConstants DEF engine, objects, workers, coroutines, disconnecting, process, Goto,
                        Over, Runs, None, Starting

LEMMA ClientsAre ==
  ASSUME NEW r \in Runs
  PROVE  {<<r, "main">>, <<r, "channel">>, <<r, "newMain">>, <<r, "newChannel">>} \subseteq Clients
BY DEF Clients

LEMMA StoppedWorkers ==
  ASSUME groups \in 0..MaxRuns, NEW w \in [Runs -> Modes]
  PROVE  /\ Stopped(w) \in [Runs -> Modes]
         /\ \A q \in Runs : Stopped(w)[q] = IF q = groups THEN "off" ELSE w[q]
BY EngineConstants DEF Stopped, Modes, Runs, None

LEMMA StartedWorkers ==
  ASSUME groups \in 0..MaxRuns, NEW w \in [Runs -> Modes]
  PROVE  /\ Started(w) \in [Runs -> Modes]
         /\ \A q \in Runs : Started(w)[q] = IF q = groups /\ w[q] = "none" THEN "on" ELSE w[q]
BY EngineConstants DEF Started, Modes, Runs, None

\* A run on its way has started; if it is not mixed it is the latest.
LEMMA OnItsWay ==
  ASSUME EngineInv, NEW r \in Runs, pc[r] \notin Over \/ timer[r] \/ manager[r] # "off"
  PROVE  /\ runId \in Runs /\ r <= runId /\ runId # None
         /\ pc[r] \notin Over => r = runId \/ (r \in mixed /\ runId \in mixed)
BY EngineConstants DEF EngineInv, TypeOK, NotYet, OthersAreMixed, Runs, None, Over

LEMMA CreatedKeeps ==
  ASSUME EngineInv, NEW r \in Runs, Created(r), UNCHANGED mixed
  PROVE  EngineInv'
<1> USE DEF EngineInv
<1>a. /\ runId \in Runs /\ r <= runId /\ runId # None
      /\ pc[r] \notin Over => r = runId \/ (r \in mixed /\ runId \in mixed)
  BY OnItsWay DEF Created
<1>b. {<<r, "main">>, <<r, "channel">>, <<runId, "newMain">>} \subseteq Clients
  BY <1>a, ClientsAre
<1>c. /\ Stopped(producers) \in [Runs -> Modes]
      /\ \A q \in Runs : Stopped(producers)[q] = IF q = groups THEN "off" ELSE producers[q]
  BY StoppedWorkers, StartedWorkers DEF TypeOK, Modes
<1>1. CASE aborted[r]
  <2>1. TypeOK'
    BY <1>a, <1>b, <1>1, <1>c DEF Created, TypeOK, Modes, States, FinishIfStopping, Shutdown,
       PhaseOne, GoesOn, Finished
  <2>2. NotYet' /\ OthersAreMixed'
    BY <1>a, <1>b, <1>1, <1>c DEF Created, TypeOK, NotYet, OthersAreMixed, FinishIfStopping,
       Shutdown, PhaseOne, GoesOn, Finished
  <2>3. ASSUME runId' # None, runId' \notin mixed' PROVE LatestIs(runId)'
    BY <1>a, <1>b, <1>1, <1>c, <2>3 DEF Created, TypeOK, NotYet, OthersAreMixed, Latest, LatestIs,
       StateOf, WorkersOf, ClientsOf, ReportOf, EndedHasReport, Beginning, FinishIfStopping,
       Shutdown, PhaseOne, GoesOn, Finished
  <2>4. CleanEnd' /\ EndedHasReport' /\ ProducersStopFirst'
    BY <1>a, <1>b, <1>1, <1>c DEF Created, TypeOK, NotYet, OthersAreMixed, Latest, LatestIs,
       StateOf, WorkersOf, ClientsOf, ReportOf, CleanEnd, EndedHasReport, ProducersStopFirst,
       FinishIfStopping, Shutdown, PhaseOne, GoesOn, Finished
  <2> QED BY <2>1, <2>2, <2>3, <2>4 DEF Latest
<1>2. CASE ~aborted[r]
  <2>1. TypeOK'
    BY <1>a, <1>b, <1>2, <1>c DEF Created, TypeOK, Modes, States, FinishIfStopping, Shutdown,
       PhaseOne, GoesOn, Finished
  <2>2. NotYet' /\ OthersAreMixed'
    BY <1>a, <1>b, <1>2, <1>c DEF Created, TypeOK, NotYet, OthersAreMixed, FinishIfStopping,
       Shutdown, PhaseOne, GoesOn, Finished
  <2>3. ASSUME runId' # None, runId' \notin mixed' PROVE LatestIs(runId)'
    BY <1>a, <1>b, <1>2, <1>c, <2>3 DEF Created, TypeOK, NotYet, OthersAreMixed, Latest, LatestIs,
       StateOf, WorkersOf, ClientsOf, ReportOf, EndedHasReport, Beginning, FinishIfStopping,
       Shutdown, PhaseOne, GoesOn, Finished
  <2>4. CleanEnd' /\ EndedHasReport' /\ ProducersStopFirst'
    BY <1>a, <1>b, <1>2, <1>c DEF Created, TypeOK, NotYet, OthersAreMixed, Latest, LatestIs,
       StateOf, WorkersOf, ClientsOf, ReportOf, CleanEnd, EndedHasReport, ProducersStopFirst,
       FinishIfStopping, Shutdown, PhaseOne, GoesOn, Finished
  <2> QED BY <2>1, <2>2, <2>3, <2>4 DEF Latest
<1> QED BY <1>1, <1>2

LEMMA PingedKeeps ==
  ASSUME EngineInv, NEW r \in Runs, Pinged(r), UNCHANGED mixed
  PROVE  EngineInv'
<1> USE DEF EngineInv
<1>a. /\ runId \in Runs /\ r <= runId /\ runId # None
      /\ pc[r] \notin Over => r = runId \/ (r \in mixed /\ runId \in mixed)
  BY OnItsWay DEF Pinged
<1>c. /\ Stopped(producers) \in [Runs -> Modes]
      /\ \A q \in Runs : Stopped(producers)[q] = IF q = groups THEN "off" ELSE producers[q]
  BY StoppedWorkers, StartedWorkers DEF TypeOK, Modes
<1>1. CASE aborted[r]
  <2>1. TypeOK'
    BY <1>a, <1>1, <1>c DEF Pinged, TypeOK, Modes, States, FinishIfStopping, Shutdown, PhaseOne,
       GoesOn, Finished
  <2>2. NotYet' /\ OthersAreMixed'
    BY <1>a, <1>1, <1>c DEF Pinged, TypeOK, NotYet, OthersAreMixed, FinishIfStopping, Shutdown,
       PhaseOne, GoesOn, Finished
  <2>3. ASSUME runId' # None, runId' \notin mixed' PROVE LatestIs(runId)'
    BY <1>a, <1>1, <1>c, <2>3 DEF Pinged, TypeOK, NotYet, OthersAreMixed, Latest, LatestIs, StateOf,
       WorkersOf, ClientsOf, ReportOf, EndedHasReport, Beginning, FinishIfStopping, Shutdown,
       PhaseOne, GoesOn, Finished
  <2>4. CleanEnd' /\ EndedHasReport' /\ ProducersStopFirst'
    BY <1>a, <1>1, <1>c DEF Pinged, TypeOK, NotYet, OthersAreMixed, Latest, LatestIs, StateOf,
       WorkersOf, ClientsOf, ReportOf, CleanEnd, EndedHasReport, ProducersStopFirst,
       FinishIfStopping, Shutdown, PhaseOne, GoesOn, Finished
  <2> QED BY <2>1, <2>2, <2>3, <2>4 DEF Latest
<1>2. CASE ~aborted[r]
  <2>1. TypeOK'
    BY <1>a, <1>2, <1>c DEF Pinged, TypeOK, Modes, States, FinishIfStopping, Shutdown, PhaseOne,
       GoesOn, Finished
  <2>2. NotYet' /\ OthersAreMixed'
    BY <1>a, <1>2, <1>c DEF Pinged, TypeOK, NotYet, OthersAreMixed, FinishIfStopping, Shutdown,
       PhaseOne, GoesOn, Finished
  <2>3. ASSUME runId' # None, runId' \notin mixed' PROVE LatestIs(runId)'
    BY <1>a, <1>2, <1>c, <2>3 DEF Pinged, TypeOK, NotYet, OthersAreMixed, Latest, LatestIs, StateOf,
       WorkersOf, ClientsOf, ReportOf, EndedHasReport, Beginning, FinishIfStopping, Shutdown,
       PhaseOne, GoesOn, Finished
  <2>4. CleanEnd' /\ EndedHasReport' /\ ProducersStopFirst'
    BY <1>a, <1>2, <1>c DEF Pinged, TypeOK, NotYet, OthersAreMixed, Latest, LatestIs, StateOf,
       WorkersOf, ClientsOf, ReportOf, CleanEnd, EndedHasReport, ProducersStopFirst,
       FinishIfStopping, Shutdown, PhaseOne, GoesOn, Finished
  <2> QED BY <2>1, <2>2, <2>3, <2>4 DEF Latest
<1> QED BY <1>1, <1>2

LEMMA ConnectedKeeps ==
  ASSUME EngineInv, NEW r \in Runs, Connected(r), UNCHANGED mixed
  PROVE  EngineInv'
<1> USE DEF EngineInv
<1>a. /\ runId \in Runs /\ r <= runId /\ runId # None
      /\ pc[r] \notin Over => r = runId \/ (r \in mixed /\ runId \in mixed)
  BY OnItsWay DEF Connected
<1>b. {<<r, "main">>, <<r, "channel">>, <<runId, "newMain">>} \subseteq Clients
  BY <1>a, ClientsAre
<1>c. /\ Stopped(producers) \in [Runs -> Modes]
      /\ \A q \in Runs : Stopped(producers)[q] = IF q = groups THEN "off" ELSE producers[q]
      /\ Started(consumers) \in [Runs -> Modes]
      /\ \A q \in Runs : Started(consumers)[q] = IF q = groups /\ consumers[q] = "none" THEN "on" ELSE consumers[q]
  BY StoppedWorkers, StartedWorkers DEF TypeOK, Modes
<1>d. /\ pc[r] = "connecting" /\ channels' = channels \cup {<<r, "channel">>} /\ open' = open \cup {<<r, "channel">>}
      /\ UNCHANGED <<engine, client, groups, aborted, timer, disconnecting, process, mixed>>
  BY DEF Connected, FinishIfStopping, Shutdown, PhaseOne
<1>1. CASE aborted[r] /\ state = "error"
  <2>a. pc' = [pc EXCEPT ![r] = "left"] /\ UNCHANGED <<producers, consumers, detached>>
    BY <1>1 DEF Connected, FinishIfStopping, Shutdown, PhaseOne, Finished
  <2>1. TypeOK'
    BY <1>a, <1>b, <1>d, <1>1, <2>a DEF TypeOK, Modes, States
  <2>2. NotYet' /\ OthersAreMixed'
    BY <1>a, <1>b, <1>d, <1>1, <2>a DEF TypeOK, NotYet, OthersAreMixed
  <2>3. ASSUME runId' # None, runId' \notin mixed' PROVE LatestIs(runId)'
    BY <1>a, <1>b, <1>d, <1>1, <2>a, <2>3 DEF TypeOK, NotYet, OthersAreMixed, Latest, LatestIs,
       StateOf, WorkersOf, ClientsOf, ReportOf, EndedHasReport, Beginning
  <2>4. CleanEnd' /\ EndedHasReport' /\ ProducersStopFirst'
    BY <1>a, <1>b, <1>d, <1>1, <2>a DEF TypeOK, NotYet, OthersAreMixed, Latest, LatestIs, StateOf,
       WorkersOf, ClientsOf, ReportOf, CleanEnd, EndedHasReport, ProducersStopFirst
  <2> QED BY <2>1, <2>2, <2>3, <2>4 DEF Latest
<1>2. CASE aborted[r] /\ state # "error"
  <2>a. /\ pc' = [pc EXCEPT ![r] = "draining"] /\ producers' = Stopped(producers)
        /\ detached' = [detached EXCEPT ![r] = TRUE] /\ UNCHANGED <<consumers>>
    BY <1>2 DEF Connected, FinishIfStopping, Shutdown, PhaseOne, Finished
  <2>1. TypeOK'
    BY <1>a, <1>b, <1>d, <1>2, <2>a, <1>c DEF TypeOK, Modes, States
  <2>2. NotYet' /\ OthersAreMixed'
    BY <1>a, <1>b, <1>d, <1>2, <2>a, <1>c DEF TypeOK, NotYet, OthersAreMixed
  <2>3. ASSUME runId' # None, runId' \notin mixed' PROVE LatestIs(runId)'
    BY <1>a, <1>b, <1>d, <1>2, <2>a, <1>c, <2>3 DEF TypeOK, NotYet, OthersAreMixed, Latest,
       LatestIs, StateOf, WorkersOf, ClientsOf, ReportOf, EndedHasReport, Beginning
  <2>4. CleanEnd' /\ EndedHasReport' /\ ProducersStopFirst'
    BY <1>a, <1>b, <1>d, <1>2, <2>a, <1>c DEF TypeOK, NotYet, OthersAreMixed, Latest, LatestIs,
       StateOf, WorkersOf, ClientsOf, ReportOf, CleanEnd, EndedHasReport, ProducersStopFirst
  <2> QED BY <2>1, <2>2, <2>3, <2>4 DEF Latest
<1>3. CASE ~aborted[r]
  <2>a. /\ consumers' = Started(consumers) /\ pc' = [pc EXCEPT ![r] = "warming"]
        /\ UNCHANGED <<producers, detached>>
    BY <1>3 DEF Connected, FinishIfStopping, Shutdown, PhaseOne, Finished
  <2>1. TypeOK'
    BY <1>a, <1>b, <1>d, <1>3, <2>a, <1>c DEF TypeOK, Modes, States
  <2>2. NotYet' /\ OthersAreMixed'
    BY <1>a, <1>b, <1>d, <1>3, <2>a, <1>c DEF TypeOK, NotYet, OthersAreMixed
  <2>3. ASSUME runId' # None, runId' \notin mixed' PROVE LatestIs(runId)'
    BY <1>a, <1>b, <1>d, <1>3, <2>a, <1>c, <2>3 DEF TypeOK, NotYet, OthersAreMixed, Latest,
       LatestIs, StateOf, WorkersOf, ClientsOf, ReportOf, EndedHasReport, Beginning
  <2>4. CleanEnd' /\ EndedHasReport' /\ ProducersStopFirst'
    BY <1>a, <1>b, <1>d, <1>3, <2>a, <1>c DEF TypeOK, NotYet, OthersAreMixed, Latest, LatestIs,
       StateOf, WorkersOf, ClientsOf, ReportOf, CleanEnd, EndedHasReport, ProducersStopFirst
  <2> QED BY <2>1, <2>2, <2>3, <2>4 DEF Latest
<1> QED BY <1>1, <1>2, <1>3

LEMMA WarmedKeeps ==
  ASSUME EngineInv, NEW r \in Runs, Warmed(r), UNCHANGED mixed
  PROVE  EngineInv'
<1> USE DEF EngineInv
<1>a. /\ runId \in Runs /\ r <= runId /\ runId # None
      /\ pc[r] \notin Over => r = runId \/ (r \in mixed /\ runId \in mixed)
  BY OnItsWay DEF Warmed
<1>c. /\ Stopped(producers) \in [Runs -> Modes]
      /\ \A q \in Runs : Stopped(producers)[q] = IF q = groups THEN "off" ELSE producers[q]
      /\ Started(producers) \in [Runs -> Modes]
      /\ \A q \in Runs : Started(producers)[q] = IF q = groups /\ producers[q] = "none" THEN "on" ELSE producers[q]
  BY StoppedWorkers, StartedWorkers DEF TypeOK, Modes
<1>1. CASE aborted[r]
  <2>1. TypeOK'
    BY <1>a, <1>1, <1>c DEF Warmed, TypeOK, Modes, States, FinishIfStopping, Shutdown, PhaseOne,
       Finished
  <2>2. NotYet' /\ OthersAreMixed'
    BY <1>a, <1>1, <1>c DEF Warmed, TypeOK, NotYet, OthersAreMixed, FinishIfStopping, Shutdown,
       PhaseOne, Finished
  <2>3. ASSUME runId' # None, runId' \notin mixed' PROVE LatestIs(runId)'
    BY <1>a, <1>1, <1>c, <2>3 DEF Warmed, TypeOK, NotYet, OthersAreMixed, Latest, LatestIs, StateOf,
       WorkersOf, ClientsOf, ReportOf, EndedHasReport, Beginning, FinishIfStopping, Shutdown,
       PhaseOne, Finished
  <2>4. CleanEnd' /\ EndedHasReport' /\ ProducersStopFirst'
    BY <1>a, <1>1, <1>c DEF Warmed, TypeOK, NotYet, OthersAreMixed, Latest, LatestIs, StateOf,
       WorkersOf, ClientsOf, ReportOf, CleanEnd, EndedHasReport, ProducersStopFirst,
       FinishIfStopping, Shutdown, PhaseOne, Finished
  <2> QED BY <2>1, <2>2, <2>3, <2>4 DEF Latest
<1>2. CASE ~aborted[r]
  <2>1. TypeOK'
    BY <1>a, <1>2, <1>c DEF Warmed, TypeOK, Modes, States, FinishIfStopping, Shutdown, PhaseOne,
       Finished
  <2>2. NotYet' /\ OthersAreMixed'
    BY <1>a, <1>2, <1>c DEF Warmed, TypeOK, NotYet, OthersAreMixed, FinishIfStopping, Shutdown,
       PhaseOne, Finished
  <2>3. ASSUME runId' # None, runId' \notin mixed' PROVE LatestIs(runId)'
    BY <1>a, <1>2, <1>c, <2>3 DEF Warmed, TypeOK, NotYet, OthersAreMixed, Latest, LatestIs, StateOf,
       WorkersOf, ClientsOf, ReportOf, EndedHasReport, Beginning, FinishIfStopping, Shutdown,
       PhaseOne, Finished
  <2>4. CleanEnd' /\ EndedHasReport' /\ ProducersStopFirst'
    BY <1>a, <1>2, <1>c DEF Warmed, TypeOK, NotYet, OthersAreMixed, Latest, LatestIs, StateOf,
       WorkersOf, ClientsOf, ReportOf, CleanEnd, EndedHasReport, ProducersStopFirst,
       FinishIfStopping, Shutdown, PhaseOne, Finished
  <2> QED BY <2>1, <2>2, <2>3, <2>4 DEF Latest
<1> QED BY <1>1, <1>2

LEMMA BeginKeeps ==
  ASSUME EngineInv, NEW r \in Runs, Begin(r), UNCHANGED mixed
  PROVE  EngineInv'
<1> USE DEF EngineInv
<1>a. /\ runId \in Runs /\ r <= runId /\ runId # None
      /\ pc[r] \notin Over => r = runId \/ (r \in mixed /\ runId \in mixed)
  BY OnItsWay DEF Begin
<1>c. /\ Stopped(producers) \in [Runs -> Modes]
      /\ \A q \in Runs : Stopped(producers)[q] = IF q = groups THEN "off" ELSE producers[q]
  BY StoppedWorkers, StartedWorkers DEF TypeOK, Modes
<1>d. pc[r] = "period" /\ UNCHANGED <<objects, aborted, process, mixed, runId, report, disconnects>>
  BY DEF Begin, FinishIfStopping, Shutdown, PhaseOne
<1>1. CASE aborted[r] /\ state = "error"
  <2>a. pc' = [pc EXCEPT ![r] = "left"] /\ UNCHANGED <<producers, consumers, detached, state, timer, manager, managing>>
    BY <1>1 DEF Begin, FinishIfStopping, Shutdown, PhaseOne, Finished
  <2>1. TypeOK'
    BY <1>a, <1>d, <1>1, <2>a DEF TypeOK, Modes, States
  <2>2. NotYet' /\ OthersAreMixed'
    BY <1>a, <1>d, <1>1, <2>a DEF TypeOK, NotYet, OthersAreMixed
  <2>3. ASSUME runId' # None, runId' \notin mixed' PROVE LatestIs(runId)'
    BY <1>a, <1>d, <1>1, <2>a, <2>3 DEF TypeOK, NotYet, OthersAreMixed, Latest, LatestIs, StateOf,
       WorkersOf, ClientsOf, ReportOf, EndedHasReport, Beginning
  <2>4. CleanEnd' /\ EndedHasReport' /\ ProducersStopFirst'
    BY <1>a, <1>d, <1>1, <2>a DEF TypeOK, NotYet, OthersAreMixed, Latest, LatestIs, StateOf,
       WorkersOf, ClientsOf, ReportOf, CleanEnd, EndedHasReport, ProducersStopFirst
  <2> QED BY <2>1, <2>2, <2>3, <2>4 DEF Latest
<1>2. CASE aborted[r] /\ state # "error"
  <2>a. /\ pc' = [pc EXCEPT ![r] = "draining"] /\ producers' = Stopped(producers)
        /\ detached' = [detached EXCEPT ![r] = TRUE] /\ UNCHANGED <<consumers, state, timer, manager, managing>>
    BY <1>2 DEF Begin, FinishIfStopping, Shutdown, PhaseOne, Finished
  <2>1. TypeOK'
    BY <1>a, <1>d, <1>2, <2>a, <1>c DEF TypeOK, Modes, States
  <2>2. NotYet' /\ OthersAreMixed'
    BY <1>a, <1>d, <1>2, <2>a, <1>c DEF TypeOK, NotYet, OthersAreMixed
  <2>3. ASSUME runId' # None, runId' \notin mixed' PROVE LatestIs(runId)'
    BY <1>a, <1>d, <1>2, <2>a, <1>c, <2>3 DEF TypeOK, NotYet, OthersAreMixed, Latest, LatestIs,
       StateOf, WorkersOf, ClientsOf, ReportOf, EndedHasReport, Beginning
  <2>4. CleanEnd' /\ EndedHasReport' /\ ProducersStopFirst'
    BY <1>a, <1>d, <1>2, <2>a, <1>c DEF TypeOK, NotYet, OthersAreMixed, Latest, LatestIs, StateOf,
       WorkersOf, ClientsOf, ReportOf, CleanEnd, EndedHasReport, ProducersStopFirst
  <2> QED BY <2>1, <2>2, <2>3, <2>4 DEF Latest
<1>3. CASE ~aborted[r]
  <2>a. /\ pc' = [pc EXCEPT ![r] = "running"] /\ timer' = [timer EXCEPT ![r] = FALSE]
        /\ state' = IF state = "starting" THEN "running" ELSE state
        /\ manager' = [manager EXCEPT ![r] = "armed"] /\ managing' = [managing EXCEPT ![r] = TRUE]
        /\ UNCHANGED <<producers, consumers, detached>>
    BY <1>3 DEF Begin, FinishIfStopping, Shutdown, PhaseOne, Finished
  <2>1. TypeOK'
    BY <1>a, <1>d, <1>3, <2>a DEF TypeOK, Modes, States
  <2>2. NotYet' /\ OthersAreMixed'
    BY <1>a, <1>d, <1>3, <2>a DEF TypeOK, NotYet, OthersAreMixed
  <2>3. ASSUME runId' # None, runId' \notin mixed' PROVE LatestIs(runId)'
    BY <1>a, <1>d, <1>3, <2>a, <2>3 DEF TypeOK, NotYet, OthersAreMixed, Latest, LatestIs, StateOf,
       WorkersOf, ClientsOf, ReportOf, EndedHasReport, Beginning
  <2>4. CleanEnd' /\ EndedHasReport' /\ ProducersStopFirst'
    BY <1>a, <1>d, <1>3, <2>a DEF TypeOK, NotYet, OthersAreMixed, Latest, LatestIs, StateOf,
       WorkersOf, ClientsOf, ReportOf, CleanEnd, EndedHasReport, ProducersStopFirst
  <2> QED BY <2>1, <2>2, <2>3, <2>4 DEF Latest
<1> QED BY <1>1, <1>2, <1>3

LEMMA RunOverKeeps ==
  ASSUME EngineInv, NEW r \in Runs, RunOver(r), UNCHANGED mixed
  PROVE  EngineInv'
<1> USE DEF EngineInv
<1>a. /\ runId \in Runs /\ r <= runId /\ runId # None
      /\ pc[r] \notin Over => r = runId \/ (r \in mixed /\ runId \in mixed)
  BY OnItsWay DEF RunOver
<1>c. /\ Stopped(producers) \in [Runs -> Modes]
      /\ \A q \in Runs : Stopped(producers)[q] = IF q = groups THEN "off" ELSE producers[q]
  BY StoppedWorkers, StartedWorkers DEF TypeOK, Modes
<1>1. TypeOK'
  BY <1>a, <1>c DEF RunOver, TypeOK, Modes, States, Shutdown, PhaseOne
<1>2. NotYet' /\ OthersAreMixed'
  BY <1>a, <1>c DEF RunOver, TypeOK, NotYet, OthersAreMixed, Shutdown, PhaseOne
<1>3. ASSUME runId' # None, runId' \notin mixed' PROVE LatestIs(runId)'
  BY <1>a, <1>c, <1>3 DEF RunOver, TypeOK, NotYet, OthersAreMixed, Latest, LatestIs, StateOf,
     WorkersOf, ClientsOf, ReportOf, EndedHasReport, Beginning, Shutdown, PhaseOne
<1>4. CleanEnd' /\ EndedHasReport' /\ ProducersStopFirst'
  BY <1>a, <1>c DEF RunOver, TypeOK, NotYet, OthersAreMixed, Latest, LatestIs, StateOf, WorkersOf,
     ClientsOf, ReportOf, CleanEnd, EndedHasReport, ProducersStopFirst, Shutdown, PhaseOne
<1> QED BY <1>1, <1>2, <1>3, <1>4 DEF Latest

LEMMA DrainedKeeps ==
  ASSUME EngineInv, NEW r \in Runs, Drained(r), UNCHANGED mixed
  PROVE  EngineInv'
<1> USE DEF EngineInv
<1>a. /\ runId \in Runs /\ r <= runId /\ runId # None
      /\ pc[r] \notin Over => r = runId \/ (r \in mixed /\ runId \in mixed)
  BY OnItsWay DEF Drained
<1>c. /\ Stopped(consumers) \in [Runs -> Modes]
      /\ \A q \in Runs : Stopped(consumers)[q] = IF q = groups THEN "off" ELSE consumers[q]
  BY StoppedWorkers, StartedWorkers DEF TypeOK, Modes
<1>1. TypeOK'
  BY <1>a, <1>c DEF Drained, TypeOK, Modes, States
<1>2. NotYet' /\ OthersAreMixed'
  BY <1>a, <1>c DEF Drained, TypeOK, NotYet, OthersAreMixed
<1>3. ASSUME runId' # None, runId' \notin mixed' PROVE LatestIs(runId)'
  BY <1>a, <1>c, <1>3 DEF Drained, TypeOK, NotYet, OthersAreMixed, Latest, LatestIs, StateOf,
     WorkersOf, ClientsOf, ReportOf, EndedHasReport, Beginning
<1>4. CleanEnd' /\ EndedHasReport' /\ ProducersStopFirst'
  BY <1>a, <1>c DEF Drained, TypeOK, NotYet, OthersAreMixed, Latest, LatestIs, StateOf, WorkersOf,
     ClientsOf, ReportOf, CleanEnd, EndedHasReport, ProducersStopFirst
<1> QED BY <1>1, <1>2, <1>3, <1>4 DEF Latest

LEMMA ReportKeeps ==
  ASSUME EngineInv, NEW r \in Runs, Report(r), UNCHANGED mixed
  PROVE  EngineInv'
<1> USE DEF EngineInv
<1>a. /\ runId \in Runs /\ r <= runId /\ runId # None
      /\ pc[r] \notin Over => r = runId \/ (r \in mixed /\ runId \in mixed)
  BY OnItsWay DEF Report
<1>1. TypeOK'
  BY <1>a DEF Report, TypeOK, Modes, States
<1>2. NotYet' /\ OthersAreMixed'
  BY <1>a DEF Report, TypeOK, NotYet, OthersAreMixed
<1>3. ASSUME runId' # None, runId' \notin mixed' PROVE LatestIs(runId)'
  BY <1>a, <1>3 DEF Report, TypeOK, NotYet, OthersAreMixed, Latest, LatestIs, StateOf, WorkersOf,
     ClientsOf, ReportOf, EndedHasReport, Beginning
<1>4. CleanEnd' /\ EndedHasReport' /\ ProducersStopFirst'
  BY <1>a DEF Report, TypeOK, NotYet, OthersAreMixed, Latest, LatestIs, StateOf, WorkersOf,
     ClientsOf, ReportOf, CleanEnd, EndedHasReport, ProducersStopFirst
<1> QED BY <1>1, <1>2, <1>3, <1>4 DEF Latest

LEMMA ClosedKeeps ==
  ASSUME EngineInv, NEW r \in Runs, Closed(r), UNCHANGED mixed
  PROVE  EngineInv'
<1> USE DEF EngineInv
<1>a. /\ runId \in Runs /\ r <= runId /\ runId # None
      /\ pc[r] \notin Over => r = runId \/ (r \in mixed /\ runId \in mixed)
  BY OnItsWay DEF Closed
<1>1. TypeOK'
  BY <1>a DEF Closed, TypeOK, Modes, States, NoClient
<1>2. NotYet' /\ OthersAreMixed'
  BY <1>a DEF Closed, TypeOK, NotYet, OthersAreMixed
<1>3. ASSUME runId' # None, runId' \notin mixed' PROVE LatestIs(runId)'
  BY <1>a, <1>3 DEF Closed, TypeOK, NotYet, OthersAreMixed, Latest, LatestIs, StateOf, WorkersOf,
     ClientsOf, ReportOf, EndedHasReport, Beginning, NoClient
<1>4. CleanEnd'
  <2>1. r \notin mixed => /\ <<r, "main">> \notin open /\ <<r, "channel">> \notin open
                          /\ producers[r] # "on" /\ consumers[r] # "on"
    BY <1>a DEF Closed, Latest, LatestIs, WorkersOf, ClientsOf
  <2>2. pc' = [pc EXCEPT ![r] = "done"]
    BY DEF Closed
  <2>3. UNCHANGED <<open, producers, consumers, detached, mixed>>
    BY DEF Closed
  <2>4. ASSUME NEW q \in Runs \ mixed, pc'[q] = "done"
        PROVE  /\ producers[q] # "on" /\ consumers[q] # "on"
               /\ ~detached[q] => open \cap {<<q, "main">>, <<q, "channel">>} = {}
    <3>1. CASE q = r
      BY <2>1, <3>1
    <3>2. CASE q # r
      BY <2>2, <2>4, <3>2 DEF TypeOK, CleanEnd
    <3> QED BY <3>1, <3>2
  <2> QED BY <2>3, <2>4 DEF CleanEnd
<1>5. EndedHasReport'
  BY <1>a DEF Closed, TypeOK, OthersAreMixed, Latest, LatestIs, StateOf, ReportOf, EndedHasReport
<1>6. ProducersStopFirst'
  BY <1>a DEF Closed, TypeOK, NotYet, OthersAreMixed, Latest, LatestIs, WorkersOf,
     ProducersStopFirst
<1> QED BY <1>1, <1>2, <1>3, <1>4, <1>5, <1>6 DEF Latest

LEMMA CleanedKeeps ==
  ASSUME EngineInv, NEW r \in Runs, Cleaned(r), UNCHANGED mixed
  PROVE  EngineInv'
<1> USE DEF EngineInv
<1>a. /\ runId \in Runs /\ r <= runId /\ runId # None
      /\ pc[r] \notin Over => r = runId \/ (r \in mixed /\ runId \in mixed)
  BY OnItsWay DEF Cleaned
<1>1. TypeOK'
  BY <1>a DEF Cleaned, TypeOK, Modes, States, NoClient
<1>2. NotYet' /\ OthersAreMixed'
  BY <1>a DEF Cleaned, TypeOK, NotYet, OthersAreMixed
<1>3. ASSUME runId' # None, runId' \notin mixed' PROVE LatestIs(runId)'
  BY <1>a, <1>3 DEF Cleaned, TypeOK, NotYet, OthersAreMixed, Latest, LatestIs, StateOf, WorkersOf,
     ClientsOf, ReportOf, EndedHasReport, Beginning, NoClient
<1>4. CleanEnd'
  BY <1>a DEF Cleaned, TypeOK, NotYet, OthersAreMixed, Latest, LatestIs, WorkersOf, ClientsOf,
     CleanEnd
<1>5. EndedHasReport'
  BY <1>a DEF Cleaned, TypeOK, OthersAreMixed, Latest, LatestIs, StateOf, ReportOf, EndedHasReport
<1>6. ProducersStopFirst'
  BY <1>a DEF Cleaned, TypeOK, NotYet, OthersAreMixed, Latest, LatestIs, WorkersOf,
     ProducersStopFirst
<1> QED BY <1>1, <1>2, <1>3, <1>4, <1>5, <1>6 DEF Latest


\* The catch of executeRun(), wherever it comes from.
LEMMA CatchKeeps ==
  ASSUME EngineInv, NEW r \in Runs, Catch(r), UNCHANGED mixed, pc[r] \in Starting \cup {"reporting"}
  PROVE  EngineInv'
<1> USE DEF EngineInv
<1>a. /\ runId \in Runs /\ r <= runId /\ runId # None
      /\ pc[r] \notin Over => r = runId \/ (r \in mixed /\ runId \in mixed)
  BY OnItsWay DEF Catch
<1>c. /\ Stopped(producers) \in [Runs -> Modes]
      /\ \A q \in Runs : Stopped(producers)[q] = IF q = groups THEN "off" ELSE producers[q]
      /\ Stopped(consumers) \in [Runs -> Modes]
      /\ \A q \in Runs : Stopped(consumers)[q] = IF q = groups THEN "off" ELSE consumers[q]
  BY StoppedWorkers, StartedWorkers DEF TypeOK, Modes
<1>1. TypeOK'
  BY <1>a, <1>c DEF Catch, TypeOK, Modes, States, CleanWorkers, ErrorReport
<1>2. NotYet' /\ OthersAreMixed'
  BY <1>a, <1>c DEF Catch, TypeOK, NotYet, OthersAreMixed, CleanWorkers, ErrorReport
<1>3. ASSUME runId' # None, runId' \notin mixed' PROVE LatestIs(runId)'
  BY <1>a, <1>c, <1>3 DEF Catch, TypeOK, NotYet, OthersAreMixed, Latest, LatestIs, StateOf,
     WorkersOf, ClientsOf, ReportOf, EndedHasReport, Beginning, CleanWorkers, ErrorReport
<1>4. CleanEnd' /\ EndedHasReport' /\ ProducersStopFirst'
  BY <1>a, <1>c DEF Catch, TypeOK, NotYet, OthersAreMixed, Latest, LatestIs, StateOf, WorkersOf,
     ClientsOf, ReportOf, CleanEnd, EndedHasReport, ProducersStopFirst, CleanWorkers, ErrorReport
<1> QED BY <1>1, <1>2, <1>3, <1>4 DEF Latest


\* The report cannot be written, and nobody hears of it.
Unheard(r) ==
  /\ pc[r] = "reporting" /\ Goto(r, "done")
  /\ state' = IF state = "stopping" THEN "stopped" ELSE state
  /\ report' = r
  /\ UNCHANGED <<runId, objects, workers, detached, aborted, timer, disconnecting, process>>

LEMMA UnheardKeeps ==
  ASSUME EngineInv, NEW r \in Runs, Unheard(r), UNCHANGED mixed, detached[r]
  PROVE  EngineInv'
<1> USE DEF EngineInv
<1>a. /\ runId \in Runs /\ r <= runId /\ runId # None
      /\ pc[r] \notin Over => r = runId \/ (r \in mixed /\ runId \in mixed)
  BY OnItsWay DEF Unheard
<1>1. TypeOK'
  BY <1>a DEF Unheard, TypeOK, Modes, States
<1>2. NotYet' /\ OthersAreMixed'
  BY <1>a DEF Unheard, TypeOK, NotYet, OthersAreMixed
<1>3. ASSUME runId' # None, runId' \notin mixed' PROVE LatestIs(runId)'
  BY <1>a, <1>3 DEF Unheard, TypeOK, NotYet, OthersAreMixed, Latest, LatestIs, StateOf, WorkersOf,
     ClientsOf, ReportOf, EndedHasReport, Beginning
<1>4. CleanEnd' /\ EndedHasReport' /\ ProducersStopFirst'
  BY <1>a DEF Unheard, TypeOK, NotYet, OthersAreMixed, Latest, LatestIs, StateOf, WorkersOf,
     ClientsOf, ReportOf, CleanEnd, EndedHasReport, ProducersStopFirst
<1> QED BY <1>1, <1>2, <1>3, <1>4 DEF Latest

LEMMA RecreateKeeps ==
  ASSUME EngineInv, NEW r \in Runs, Recreate(r)
  PROVE  EngineInv'
<1> USE DEF EngineInv
<1>a. /\ runId \in Runs /\ r <= runId /\ runId # None
      /\ pc[r] \notin Over => r = runId \/ (r \in mixed /\ runId \in mixed)
  BY OnItsWay DEF Recreate
<1>1. TypeOK'
  BY <1>a DEF Recreate, TypeOK, Modes, States
<1>2. NotYet' /\ OthersAreMixed'
  BY <1>a DEF Recreate, TypeOK, NotYet, OthersAreMixed
<1>3. ASSUME runId' # None, runId' \notin mixed' PROVE LatestIs(runId)'
  BY <1>a, <1>3 DEF Recreate, TypeOK, NotYet, OthersAreMixed, Latest, LatestIs, StateOf, WorkersOf,
     ClientsOf, ReportOf, EndedHasReport, Beginning
<1>4. CleanEnd' /\ EndedHasReport' /\ ProducersStopFirst'
  BY <1>a DEF Recreate, TypeOK, NotYet, OthersAreMixed, Latest, LatestIs, StateOf, WorkersOf,
     ClientsOf, ReportOf, CleanEnd, EndedHasReport, ProducersStopFirst
<1> QED BY <1>1, <1>2, <1>3, <1>4 DEF Latest

LEMMA MainRecreatedKeeps ==
  ASSUME EngineInv, NEW r \in Runs, MainRecreated(r)
  PROVE  EngineInv'
<1> USE DEF EngineInv
<1>a. /\ runId \in Runs /\ r <= runId /\ runId # None
      /\ pc[r] \notin Over => r = runId \/ (r \in mixed /\ runId \in mixed)
  BY OnItsWay DEF MainRecreated
<1>b. {<<r, "main">>, <<r, "channel">>, <<runId, "newMain">>} \subseteq Clients
  BY <1>a, ClientsAre
<1>1. TypeOK'
  BY <1>a, <1>b DEF MainRecreated, TypeOK, Modes, States, Outlives
<1>2. NotYet' /\ OthersAreMixed'
  BY <1>a, <1>b DEF MainRecreated, TypeOK, NotYet, OthersAreMixed, Outlives
<1>3. ASSUME runId' # None, runId' \notin mixed' PROVE LatestIs(runId)'
  BY <1>a, <1>b, <1>3 DEF MainRecreated, TypeOK, NotYet, OthersAreMixed, Latest, LatestIs, StateOf,
     WorkersOf, ClientsOf, ReportOf, EndedHasReport, Beginning, Outlives
<1>4. CleanEnd' /\ EndedHasReport' /\ ProducersStopFirst'
  BY <1>a, <1>b DEF MainRecreated, TypeOK, NotYet, OthersAreMixed, Latest, LatestIs, StateOf,
     WorkersOf, ClientsOf, ReportOf, CleanEnd, EndedHasReport, ProducersStopFirst, Outlives
<1> QED BY <1>1, <1>2, <1>3, <1>4 DEF Latest

LEMMA ChannelsRecreatedKeeps ==
  ASSUME EngineInv, NEW r \in Runs, ChannelsRecreated(r)
  PROVE  EngineInv'
<1> USE DEF EngineInv
<1>a. /\ runId \in Runs /\ r <= runId /\ runId # None
      /\ pc[r] \notin Over => r = runId \/ (r \in mixed /\ runId \in mixed)
  BY OnItsWay DEF ChannelsRecreated
<1>1. TypeOK'
  <2>1. {<<g, "newChannel">> : g \in {groups} \ {None}} \subseteq Clients
    <3>1. \A g \in {groups} \ {None} : g \in Runs
      BY DEF TypeOK
    <3> QED BY <3>1, ClientsAre
  <2> QED BY <1>a, <2>1 DEF ChannelsRecreated, TypeOK, Outlives
<1>2. NotYet' /\ OthersAreMixed'
  BY <1>a DEF ChannelsRecreated, TypeOK, NotYet, OthersAreMixed, Outlives
<1>3. ASSUME runId' # None, runId' \notin mixed' PROVE LatestIs(runId)'
  BY <1>a, <1>3 DEF ChannelsRecreated, TypeOK, NotYet, OthersAreMixed, Latest, LatestIs, StateOf,
     WorkersOf, ClientsOf, ReportOf, EndedHasReport, Beginning, Outlives
<1>4. CleanEnd' /\ EndedHasReport' /\ ProducersStopFirst'
  BY <1>a DEF ChannelsRecreated, TypeOK, NotYet, OthersAreMixed, Latest, LatestIs, StateOf,
     WorkersOf, ClientsOf, ReportOf, CleanEnd, EndedHasReport, ProducersStopFirst, Outlives
<1> QED BY <1>1, <1>2, <1>3, <1>4 DEF Latest

LEMMA RecreateFailsKeeps ==
  ASSUME EngineInv, NEW r \in Runs, RecreateFails(r)
  PROVE  EngineInv'
<1> USE DEF EngineInv
<1>a. /\ runId \in Runs /\ r <= runId /\ runId # None
      /\ pc[r] \notin Over => r = runId \/ (r \in mixed /\ runId \in mixed)
  BY OnItsWay DEF RecreateFails
<1>1. TypeOK'
  BY <1>a DEF RecreateFails, TypeOK, Modes, States
<1>2. NotYet' /\ OthersAreMixed'
  BY <1>a DEF RecreateFails, TypeOK, NotYet, OthersAreMixed
<1>3. ASSUME runId' # None, runId' \notin mixed' PROVE LatestIs(runId)'
  BY <1>a, <1>3 DEF RecreateFails, TypeOK, NotYet, OthersAreMixed, Latest, LatestIs, StateOf,
     WorkersOf, ClientsOf, ReportOf, EndedHasReport, Beginning
<1>4. CleanEnd' /\ EndedHasReport' /\ ProducersStopFirst'
  BY <1>a DEF RecreateFails, TypeOK, NotYet, OthersAreMixed, Latest, LatestIs, StateOf, WorkersOf,
     ClientsOf, ReportOf, CleanEnd, EndedHasReport, ProducersStopFirst
<1> QED BY <1>1, <1>2, <1>3, <1>4 DEF Latest

LEMMA StartTimeoutKeeps ==
  ASSUME EngineInv, NEW r \in Runs, StartTimeout(r)
  PROVE  EngineInv'
<1> USE DEF EngineInv
<1>a. /\ runId \in Runs /\ r <= runId /\ runId # None
      /\ pc[r] \notin Over => r = runId \/ (r \in mixed /\ runId \in mixed)
  BY OnItsWay DEF StartTimeout
<1>1. CASE TooLate
  <2>1. TypeOK'
    <3>1. mixed' = mixed \cup ({runId} \ {r})
      BY <1>1 DEF StartTimeout, Outlives
    <3>2. mixed \subseteq Runs
      BY DEF TypeOK
    <3>3. mixed' \subseteq Runs
      BY <1>a, <3>1, <3>2
    <3>4. /\ state' = "error" /\ report' = r
          /\ timer' = [timer EXCEPT ![r] = FALSE] /\ aborted' = [aborted EXCEPT ![runId] = TRUE]
      BY <1>1 DEF StartTimeout
    <3>5. UNCHANGED <<runId, objects, workers, pc, detached, disconnecting, process>>
      BY <1>1 DEF StartTimeout
    <3> QED BY <1>a, <3>3, <3>4, <3>5 DEF TypeOK, States
  <2>2. NotYet' /\ OthersAreMixed'
    BY <1>a, <1>1 DEF StartTimeout, TypeOK, NotYet, OthersAreMixed, Outlives
  <2>3. ASSUME runId' # None, runId' \notin mixed' PROVE LatestIs(runId)'
    BY <1>a, <1>1, <2>3 DEF StartTimeout, TypeOK, NotYet, OthersAreMixed, Latest, LatestIs, StateOf,
       WorkersOf, ClientsOf, ReportOf, EndedHasReport, Beginning, Outlives, TooLate
  <2>4. CleanEnd' /\ EndedHasReport' /\ ProducersStopFirst'
    BY <1>a, <1>1 DEF StartTimeout, TypeOK, NotYet, OthersAreMixed, Latest, LatestIs, StateOf,
       WorkersOf, ClientsOf, ReportOf, CleanEnd, EndedHasReport, ProducersStopFirst, Outlives
  <2> QED BY <2>1, <2>2, <2>3, <2>4 DEF Latest
<1>2. CASE ~TooLate
  <2>1. TypeOK'
    BY <1>2 DEF StartTimeout, TypeOK
  <2>2. NotYet' /\ OthersAreMixed'
    BY <1>a, <1>2 DEF StartTimeout, TypeOK, NotYet, OthersAreMixed, Outlives
  <2>3. ASSUME runId' # None, runId' \notin mixed' PROVE LatestIs(runId)'
    BY <1>a, <1>2, <2>3 DEF StartTimeout, TypeOK, NotYet, OthersAreMixed, Latest, LatestIs, StateOf,
       WorkersOf, ClientsOf, ReportOf, EndedHasReport, Beginning, Outlives
  <2>4. CleanEnd' /\ EndedHasReport' /\ ProducersStopFirst'
    BY <1>a, <1>2 DEF StartTimeout, TypeOK, NotYet, OthersAreMixed, Latest, LatestIs, StateOf,
       WorkersOf, ClientsOf, ReportOf, CleanEnd, EndedHasReport, ProducersStopFirst, Outlives
  <2> QED BY <2>1, <2>2, <2>3, <2>4 DEF Latest
<1> QED BY <1>1, <1>2 DEF StartTimeout, Outlives

LEMMA DisconnectKeeps ==
  ASSUME EngineInv, NEW r \in Runs, Disconnect(r)
  PROVE  EngineInv'
<1> USE DEF EngineInv
<1>a. /\ runId \in Runs /\ r <= runId /\ runId # None
      /\ pc[r] \notin Over => r = runId \/ (r \in mixed /\ runId \in mixed)
  BY OnItsWay DEF Disconnect
<1>1. TypeOK'
  BY <1>a DEF Disconnect, TypeOK, Modes, States, Outlives
<1>2. NotYet' /\ OthersAreMixed'
  BY <1>a DEF Disconnect, TypeOK, NotYet, OthersAreMixed, Outlives
<1>3. ASSUME runId' # None, runId' \notin mixed' PROVE LatestIs(runId)'
  BY <1>a, <1>3 DEF Disconnect, TypeOK, NotYet, OthersAreMixed, Latest, LatestIs, StateOf,
     WorkersOf, ClientsOf, ReportOf, EndedHasReport, Beginning, Outlives
<1>4. CleanEnd' /\ EndedHasReport' /\ ProducersStopFirst'
  BY <1>a DEF Disconnect, TypeOK, NotYet, OthersAreMixed, Latest, LatestIs, StateOf, WorkersOf,
     ClientsOf, ReportOf, CleanEnd, EndedHasReport, ProducersStopFirst, Outlives
<1> QED BY <1>1, <1>2, <1>3, <1>4 DEF Latest

\* The next run, and which runs are mixed then.
LEMMA NextRun ==
  ASSUME TypeOK, StartRun
  PROVE  /\ runId' = runId + 1 /\ runId + 1 \in Runs /\ mixed \subseteq mixed' /\ mixed' \subseteq Runs
         /\ \A q \in Runs : pc[q] \notin Over => q \in mixed' /\ runId' \in mixed'
         /\ \A q \in mixed' : q \in mixed \/ pc[q] \notin Over \/ q = runId'
<1> DEFINE others == {r \in Runs : pc[r] \notin Over}
<1>1. runId' = runId + 1 /\ runId + 1 \in Runs
  BY DEF StartRun, TypeOK
<1>2. mixed' = IF others = {} THEN mixed ELSE mixed \cup others \cup {runId'}
  BY DEF StartRun
<1>3. mixed \subseteq Runs /\ others \subseteq Runs
  BY DEF TypeOK
<1>4. \A q \in Runs : pc[q] \notin Over <=> q \in others
  OBVIOUS
<1> HIDE DEF others
<1> QED BY <1>1, <1>2, <1>3, <1>4

LEMMA StartRunKeeps ==
  ASSUME EngineInv, StartRun
  PROVE  EngineInv'
<1> USE DEF EngineInv
<1>a. /\ runId' = runId + 1 /\ runId + 1 \in Runs /\ mixed \subseteq mixed' /\ mixed' \subseteq Runs
      /\ \A q \in Runs : pc[q] \notin Over => q \in mixed' /\ runId' \in mixed'
      /\ \A q \in mixed' : q \in mixed \/ pc[q] \notin Over \/ q = runId'
  BY NextRun
<1>b. /\ state' = "starting" /\ report' = None /\ groups' = None /\ channels' = {}
      /\ pc' = [pc EXCEPT ![runId + 1] = "creating"] /\ timer' = [timer EXCEPT ![runId + 1] = TRUE]
      /\ UNCHANGED <<client, open, workers, detached, aborted, disconnecting, process>>
  BY DEF StartRun
<1>1. TypeOK'
  BY <1>a, <1>b DEF TypeOK, States
<1>2. NotYet'
  BY <1>a, <1>b DEF TypeOK, NotYet
<1>3. OthersAreMixed'
  BY <1>a, <1>b DEF TypeOK, OthersAreMixed
<1>4. ASSUME runId' # None, runId' \notin mixed' PROVE LatestIs(runId)'
  BY <1>a, <1>b, <1>4 DEF TypeOK, NotYet, LatestIs, StateOf, WorkersOf, ClientsOf, ReportOf,
     Beginning
<1>5. CleanEnd' /\ EndedHasReport' /\ ProducersStopFirst'
  BY <1>a, <1>b DEF TypeOK, NotYet, CleanEnd, EndedHasReport, ProducersStopFirst
<1> QED BY <1>1, <1>2, <1>3, <1>4, <1>5 DEF Latest

LEMMA StopRunKeeps ==
  ASSUME EngineInv, StopRun
  PROVE  EngineInv'
<1> USE DEF EngineInv
<1>1. TypeOK'
  BY DEF StopRun, TypeOK, Modes, States, RequestStop, Stoppable
<1>2. NotYet' /\ OthersAreMixed'
  BY DEF StopRun, TypeOK, NotYet, OthersAreMixed, RequestStop, Stoppable
<1>3. ASSUME runId' # None, runId' \notin mixed' PROVE LatestIs(runId)'
  BY <1>3 DEF StopRun, TypeOK, NotYet, OthersAreMixed, Latest, LatestIs, StateOf, WorkersOf,
     ClientsOf, ReportOf, EndedHasReport, Beginning, RequestStop, Stoppable
<1>4. CleanEnd' /\ EndedHasReport' /\ ProducersStopFirst'
  BY DEF StopRun, TypeOK, NotYet, OthersAreMixed, Latest, LatestIs, StateOf, WorkersOf, ClientsOf,
     ReportOf, CleanEnd, EndedHasReport, ProducersStopFirst, RequestStop, Stoppable
<1> QED BY <1>1, <1>2, <1>3, <1>4 DEF Latest

LEMMA OnSignalKeeps ==
  ASSUME EngineInv, OnSignal
  PROVE  EngineInv'
<1> USE DEF EngineInv
<1>1. TypeOK'
  BY DEF OnSignal, TypeOK, Modes, States, RequestStop, Stoppable, Startable
<1>2. NotYet' /\ OthersAreMixed'
  BY DEF OnSignal, TypeOK, NotYet, OthersAreMixed, RequestStop, Stoppable, Startable
<1>3. ASSUME runId' # None, runId' \notin mixed' PROVE LatestIs(runId)'
  BY <1>3 DEF OnSignal, TypeOK, NotYet, OthersAreMixed, Latest, LatestIs, StateOf, WorkersOf,
     ClientsOf, ReportOf, EndedHasReport, Beginning, RequestStop, Stoppable, Startable
<1>4. CleanEnd' /\ EndedHasReport' /\ ProducersStopFirst'
  BY DEF OnSignal, TypeOK, NotYet, OthersAreMixed, Latest, LatestIs, StateOf, WorkersOf, ClientsOf,
     ReportOf, CleanEnd, EndedHasReport, ProducersStopFirst, RequestStop, Stoppable, Startable
<1> QED BY <1>1, <1>2, <1>3, <1>4 DEF Latest

LEMMA IdleKeeps ==
  ASSUME EngineInv, UNCHANGED <<engine, objects, workers, coroutines, disconnecting, mixed>>,
         exit' \in {"no", "waiting", "exited"}, exitRun' \in 0..MaxRuns
  PROVE  EngineInv'
<1> USE DEF EngineInv
<1>1. TypeOK'
  BY DEF TypeOK
<1>2. NotYet' /\ OthersAreMixed'
  BY DEF NotYet, OthersAreMixed
<1>3. Latest'
  BY DEF Latest, LatestIs, StateOf, WorkersOf, ClientsOf, ReportOf
<1>4. CleanEnd' /\ EndedHasReport' /\ ProducersStopFirst'
  BY DEF CleanEnd, EndedHasReport, ProducersStopFirst
<1> QED BY <1>1, <1>2, <1>3, <1>4


LEMMA EngineInitInv == Init => EngineInv
<1> SUFFICES ASSUME Init PROVE EngineInv
  OBVIOUS
<1>1. TypeOK
  BY DEF Init, TypeOK, States
<1>2. NotYet /\ OthersAreMixed /\ Latest /\ CleanEnd /\ EndedHasReport /\ ProducersStopFirst
  BY DEF Init, NotYet, OthersAreMixed, Latest, CleanEnd, EndedHasReport, ProducersStopFirst
<1> QED BY <1>1, <1>2 DEF EngineInv

LEMMA EngineNextInv == EngineInv /\ [Next]_vars => EngineInv'
<1> SUFFICES ASSUME EngineInv, [Next]_vars PROVE EngineInv'
  OBVIOUS
<1>0. exit \in {"no", "waiting", "exited"} /\ exitRun \in 0..MaxRuns
  BY DEF EngineInv, TypeOK
<1>1. CASE StartRun \/ StopRun \/ OnSignal
  BY <1>1, StartRunKeeps, StopRunKeeps, OnSignalKeeps
<1>2. CASE Exit \/ UNCHANGED vars
  BY <1>0, <1>2, IdleKeeps DEF Exit, vars
<1>3. ASSUME NEW r \in Runs, RunStep(r) PROVE EngineInv'
  <2>1. CASE NoChannel(r)
    BY <1>3, <2>1, CatchKeeps DEF NoChannel, RunStep
  <2> QED BY <1>3, <2>1, CreatedKeeps, PingedKeeps, ConnectedKeeps, WarmedKeeps, BeginKeeps,
             RunOverKeeps,
             DrainedKeeps, ReportKeeps, ClosedKeeps, CleanedKeeps DEF RunStep
<1>4. ASSUME NEW r \in Runs, Fails(r) PROVE EngineInv'
  <2>1. CASE UNCHANGED mixed /\ Throw(r)
    BY <2>1, CatchKeeps DEF Throw
  <2>2. CASE UNCHANGED mixed /\ WriteFails(r)
    BY <2>2, CatchKeeps, UnheardKeeps DEF WriteFails, Unheard
  <2> QED BY <1>4, <2>1, <2>2, RecreateFailsKeeps DEF Fails
<1>5. ASSUME NEW r \in Runs, ManagerStep(r) \/ StartTimeout(r) \/ Disconnect(r) PROVE EngineInv'
  BY <1>5, RecreateKeeps, MainRecreatedKeeps, ChannelsRecreatedKeeps, StartTimeoutKeeps,
     DisconnectKeeps
     DEF ManagerStep
<1> QED BY <1>1, <1>2, <1>3, <1>4, <1>5 DEF Next

\* A run that is over and was not mixed with another has cleaned up after itself and has
\* reported; its producers stopped first (performShutdown and safeCleanup of engine.ts,
\* from whatever await they are reached).
THEOREM EveryRunEndsProperly == Spec => []RunsEndProperly
<1>1. EngineInv => RunsEndProperly
  BY DEF EngineInv, RunsEndProperly
<1> QED BY <1>1, EngineInitInv, EngineNextInv, PTL DEF Spec

\* Where the state of the engine comes from and goes to.
LEMMA StateFollows ==
  ASSUME EngineInv, Next, state' # state, runId \notin mixed
  PROVE  state' \in Follows[state]
<1> USE DEF EngineInv
<1>1. CASE StartRun \/ StopRun \/ OnSignal \/ Exit
  BY <1>1 DEF StartRun, StopRun, OnSignal, Exit, RequestStop, Startable, Stoppable, Follows
<1>2. ASSUME NEW r \in Runs, Catch(r), pc[r] \in Starting \cup {"reporting"} PROVE state' \in Follows[state]
  <2>1. r = runId /\ runId # None
    BY <1>2, OnItsWay
  <2>2. state \in {"starting", "stopping", "error"} /\ state' = "error"
    BY <1>2, <2>1 DEF Catch, Latest, LatestIs, StateOf, Beginning
  <2> QED BY <2>2 DEF Follows
<1>3. ASSUME NEW r \in Runs, Fails(r) PROVE state' \in Follows[state]
  <2>1. CASE Throw(r)
    BY <1>2, <2>1 DEF Throw
  <2>2. CASE WriteFails(r)
    BY <1>2, <2>2 DEF WriteFails, Follows
  <2> QED BY <1>3, <2>1, <2>2 DEF Fails, RecreateFails
<1>4. ASSUME NEW r \in Runs, NoChannel(r) PROVE state' \in Follows[state]
  BY <1>2, <1>4 DEF NoChannel
<1>5. ASSUME NEW r \in Runs, Begin(r) \/ RunOver(r) \/ Closed(r) \/ StartTimeout(r)
      PROVE  state' \in Follows[state]
  BY <1>5 DEF Begin, RunOver, Closed, StartTimeout, TooLate, Follows
<1>6. ASSUME NEW r \in Runs,
             \/ Created(r) \/ Pinged(r) \/ Connected(r) \/ Warmed(r) \/ Drained(r) \/ Report(r) \/ Cleaned(r)
             \/ ManagerStep(r) \/ Disconnect(r)
      PROVE  FALSE
  BY <1>6 DEF Created, Pinged, Connected, Warmed, Drained, Report, Cleaned, ManagerStep, Recreate,
     MainRecreated,
     ChannelsRecreated, Disconnect
<1> QED BY <1>1, <1>3, <1>4, <1>5, <1>6 DEF Next, RunStep

\* The engine goes from state to state as it should, whatever timers, signals and faults
\* come when: only a start times out, only what was asked to stop is stopped.
THEOREM StatesFollow == Spec => StateMachine
<1>1. EngineInv /\ [Next]_vars => [state' # state => state' \in Follows[state] \/ runId \in mixed]_vars
  BY StateFollows
<1> QED BY <1>1, EngineInitInv, EngineNextInv, PTL DEF Spec, StateMachine

HIDE EngineConstants DEF engine, objects, workers, coroutines, disconnecting, process, Goto,
                        Over, Runs, None, Starting

-----------------------------------------------------------------------------
\* Clean-ups.

JobRecords == [kind : 1..KindCount + 1, prefix : Nat, found : SUBSET Nat, since : Nat]

CleanupTypes ==
  /\ phase \in {"none", "idle", "active", "draining", "cleaning", "closing", "stopped"}
  /\ latest \in Nat
  /\ jobs \in [Jobs -> JobRecords]

\* A clean-up has found nothing but what it looks for, and is older than the run that is
\* active: what it looks for is all, or the run there was when it began.
OlderThanTheRun ==
  \A j \in Jobs :
    /\ jobs[j].prefix \in {All, jobs[j].since}
    /\ jobs[j].prefix # All => jobs[j].found \subseteq {jobs[j].prefix}
    /\ phase = "active" => jobs[j].since < latest
    /\ jobs[j].since <= latest

CleanupInv == CleanupTypes /\ OlderThanTheRun

LEMMA CleanupInitInv == CleanupInit => CleanupInv
BY CleanupConstants DEF CleanupInit, UnusedCleanup, CleanupInv, CleanupTypes, OlderThanTheRun,
   NoJob, All, Jobs, JobRecords

\* The records of clean-ups.
LEMMA JobIs ==
  ASSUME CleanupInv, NEW j \in Jobs
  PROVE  /\ jobs[j] \in JobRecords /\ jobs \in [Jobs -> JobRecords]
         /\ jobs[j].found \in SUBSET Nat /\ jobs[j].since \in Nat /\ jobs[j].kind \in 1..KindCount + 1
         /\ jobs[j].prefix # All => jobs[j].found \subseteq {jobs[j].prefix}
BY DEF CleanupInv, CleanupTypes, OlderThanTheRun, JobRecords

LEMMA ChangedRecord ==
  ASSUME NEW x \in JobRecords
  PROVE  /\ \A found : [x EXCEPT !.found = found] =
                       [kind |-> x.kind, prefix |-> x.prefix, found |-> found, since |-> x.since]
         /\ \A kind : [x EXCEPT !.kind = kind] =
                      [kind |-> kind, prefix |-> x.prefix, found |-> x.found, since |-> x.since]
         /\ \A found \in SUBSET Nat, kind \in 1..KindCount + 1 :
                    [x EXCEPT !.found = found, !.kind = kind] =
                      [kind |-> kind, prefix |-> x.prefix, found |-> found, since |-> x.since]
<1>1. \A found : [x EXCEPT !.found = found] =
                       [kind |-> x.kind, prefix |-> x.prefix, found |-> found, since |-> x.since]
  BY DEF JobRecords
<1>2. \A kind : [x EXCEPT !.kind = kind] =
                      [kind |-> kind, prefix |-> x.prefix, found |-> x.found, since |-> x.since]
  BY DEF JobRecords
<1>3. \A found \in SUBSET Nat, kind \in 1..KindCount + 1 :
        [x EXCEPT !.found = found, !.kind = kind] =
          [kind |-> kind, prefix |-> x.prefix, found |-> found, since |-> x.since]
  <2> TAKE found \in SUBSET Nat, kind \in 1..KindCount + 1
  <2>1. [x EXCEPT !.found = found] =
          [kind |-> x.kind, prefix |-> x.prefix, found |-> found, since |-> x.since]
    BY <1>1
  <2>2. [[kind |-> x.kind, prefix |-> x.prefix, found |-> found, since |-> x.since]
           EXCEPT !.kind = kind] =
          [kind |-> kind, prefix |-> x.prefix, found |-> found, since |-> x.since]
    BY DEF JobRecords
  <2> QED BY <2>1, <2>2, Zenon
<1> QED BY <1>1, <1>2, <1>3

\* A clean-up that keeps what it looks for, and has found nothing else.
LEMMA JobGoesOn ==
  ASSUME CleanupInv, NEW j \in Jobs, UNCHANGED <<phase, latest>>,
         NEW kind \in 1..KindCount + 1, NEW found \in SUBSET Nat,
         jobs[j].prefix # All => found \subseteq {jobs[j].prefix},
         jobs' = [jobs EXCEPT ![j] =
                    [kind |-> kind, prefix |-> jobs[j].prefix, found |-> found, since |-> jobs[j].since]]
  PROVE  CleanupInv'
BY JobIs DEF CleanupInv, CleanupTypes, OlderThanTheRun, JobRecords

LEMMA ListsKeeps == ASSUME CleanupInv, NEW j \in Jobs, Lists(j) PROVE CleanupInv'
<1>1. UNCHANGED <<phase, latest>> /\ jobs[j].kind <= KindCount
  BY DEF Lists, Works
<1>2. jobs[j] \in JobRecords
  BY DEF CleanupInv, CleanupTypes
<1>3. CASE jobs' = [jobs EXCEPT ![j].found = Matching(j)]
  <2>1. Matching(j) \in SUBSET Nat /\ (jobs[j].prefix # All => Matching(j) \subseteq {jobs[j].prefix})
    BY DEF Matching, CleanupInv, CleanupTypes
  <2>2. jobs' = [jobs EXCEPT ![j] = [jobs[j] EXCEPT !.found = Matching(j)]]
    BY <1>3
  <2>3. jobs' = [jobs EXCEPT ![j] = [kind |-> jobs[j].kind, prefix |-> jobs[j].prefix,
                                     found |-> Matching(j), since |-> jobs[j].since]]
    BY <1>2, <2>2, ChangedRecord, Zenon
  <2>4. jobs[j].kind \in 1..KindCount + 1
    BY JobIs
  <2> QED BY <1>1, <2>1, <2>3, <2>4, JobGoesOn
<1>4. CASE jobs' = [jobs EXCEPT ![j].kind = @ + 1]
  <2>1. /\ jobs[j].kind + 1 \in 1..KindCount + 1
        /\ jobs[j].found \in SUBSET Nat
        /\ jobs[j].prefix # All => jobs[j].found \subseteq {jobs[j].prefix}
    BY <1>1, JobIs, CleanupConstants
  <2>2. jobs' = [jobs EXCEPT ![j] = [jobs[j] EXCEPT !.kind = jobs[j].kind + 1]]
    BY <1>4
  <2>3. jobs' = [jobs EXCEPT ![j] = [kind |-> jobs[j].kind + 1, prefix |-> jobs[j].prefix,
                                     found |-> jobs[j].found, since |-> jobs[j].since]]
    BY <1>2, <2>2, ChangedRecord, Zenon
  <2> QED BY <1>1, <2>1, <2>3, JobGoesOn
<1> QED BY <1>3, <1>4 DEF Lists

LEMMA DeletesKeeps == ASSUME CleanupInv, NEW j \in Jobs, Deletes(j) PROVE CleanupInv'
<1>1. PICK r \in jobs[j].found :
        jobs' = [jobs EXCEPT ![j].found = @ \ {r},
                             ![j].kind = IF jobs[j].found = {r} THEN @ + 1 ELSE @]
  BY DEF Deletes
<1>2. UNCHANGED <<phase, latest>> /\ jobs[j].kind <= KindCount
  BY DEF Deletes, Works
<1>3. PICK kind \in 1..KindCount + 1 : kind = IF jobs[j].found = {r} THEN jobs[j].kind + 1 ELSE jobs[j].kind
  BY <1>2, JobIs, CleanupConstants
<1>4. jobs' = [jobs EXCEPT ![j] = [jobs[j] EXCEPT !.found = jobs[j].found \ {r}, !.kind = kind]]
  BY <1>1, <1>3, JobIs
<1>5. jobs[j] \in JobRecords
  BY DEF CleanupInv, CleanupTypes
<1>6. /\ jobs[j].found \ {r} \in SUBSET Nat
      /\ jobs[j].prefix # All => jobs[j].found \ {r} \subseteq {jobs[j].prefix}
  BY JobIs
<1>7. jobs' = [jobs EXCEPT ![j] = [kind |-> kind, prefix |-> jobs[j].prefix,
                                   found |-> jobs[j].found \ {r}, since |-> jobs[j].since]]
  BY <1>4, <1>5, <1>6, ChangedRecord, Zenon
<1> QED BY <1>2, <1>6, <1>7, JobGoesOn

LEMMA BegunIs ==
  ASSUME CleanupInv, NEW prefix \in Nat
  PROVE  /\ Begun(prefix) \in JobRecords
         /\ Begun(prefix).prefix = prefix /\ Begun(prefix).found = {} /\ Begun(prefix).since = latest
BY CleanupConstants DEF Begun, JobRecords, CleanupInv, CleanupTypes

LEMMA CleanupNextInv == CleanupInv /\ [CleanupNext]_cleanup => CleanupInv'
<1> SUFFICES ASSUME CleanupInv, [CleanupNext]_cleanup PROVE CleanupInv'
  OBVIOUS
<1>1. CASE RunStarts
  <2>1. latest' = latest + 1 /\ phase' = "active" /\ jobs' = jobs /\ latest \in Nat
    BY <1>1 DEF RunStarts, CleanupInv, CleanupTypes
  <2>2. \A j \in Jobs : jobs[j].since \in Nat /\ jobs[j].since <= latest
    BY JobIs DEF CleanupInv, OlderThanTheRun
  <2>3. CleanupTypes'
    BY <2>1 DEF CleanupInv, CleanupTypes
  <2>4. \A j \in Jobs : jobs[j].since < latest' /\ jobs[j].since <= latest'
    BY <2>1, <2>2
  <2> QED BY <2>1, <2>3, <2>4 DEF CleanupInv, OlderThanTheRun
<1>2. CASE RunStops \/ ShutdownGoesOn \/ RunCloses \/ UNCHANGED cleanup
  <2>1. /\ latest' = latest /\ jobs' = jobs
        /\ phase' = phase \/ phase' \in {"draining", "closing", "stopped"}
    BY <1>2 DEF RunStops, ShutdownGoesOn, RunCloses, cleanup
  <2> QED BY <2>1 DEF CleanupInv, CleanupTypes, OlderThanTheRun
<1>3. CASE ShutdownCleans
  <2>1. /\ latest' = latest /\ phase' \in {"cleaning", "closing"}
        /\ jobs' = jobs \/ jobs' = [jobs EXCEPT !["shutdown"] = Begun(All)]
    BY <1>3 DEF ShutdownCleans
  <2> QED BY <2>1, BegunIs DEF CleanupInv, CleanupTypes, OlderThanTheRun, Jobs, All
<1>4. CASE HandleCleanup
  <2>1. /\ latest' = latest /\ phase' = phase /\ phase # "active"
        /\ jobs' = [jobs EXCEPT !["api"] = Begun(latest)]
    BY <1>4 DEF HandleCleanup, MayClean
  <2>2. latest \in Nat
    BY DEF CleanupInv, CleanupTypes
  <2> QED BY <2>1, <2>2, BegunIs DEF CleanupInv, CleanupTypes, OlderThanTheRun, Jobs
<1> QED BY <1>1, <1>2, <1>3, <1>4, ListsKeeps, DeletesKeeps DEF CleanupNext

\* Deletes is the only step that takes channels away.
LEMMA DeletesSpare ==
  ASSUME CleanupInv, CleanupNext, NEW channel \in existing \ existing'
  PROVE  \E j \in Jobs :
           /\ jobs[j] # jobs'[j] /\ channel[2] \in jobs[j].found
           /\ Uses(channel) => jobs[j].since < latest /\ jobs[j].prefix = All
<1>1. PICK j \in Jobs : Deletes(j)
  BY DEF CleanupNext, RunStarts, RunStops, ShutdownCleans, ShutdownGoesOn, RunCloses,
     HandleCleanup, Lists
<1>2. PICK r \in jobs[j].found :
        /\ jobs' = [jobs EXCEPT ![j].found = @ \ {r},
                                ![j].kind = IF jobs[j].found = {r} THEN @ + 1 ELSE @]
        /\ existing' = existing \ {<<jobs[j].kind, r>>} \/ UNCHANGED existing
  BY <1>1 DEF Deletes
<1>3. channel = <<jobs[j].kind, r>>
  BY <1>2
<1>4. jobs'[j].found = jobs[j].found \ {r}
  BY <1>2, JobIs DEF JobRecords
<1>5. Uses(channel) => jobs[j].since < latest /\ r = latest
  BY <1>3 DEF Uses, CleanupInv, OlderThanTheRun
<1>6. jobs[j].prefix # All => r = jobs[j].since
  BY <1>2 DEF CleanupInv, OlderThanTheRun
<1>7. jobs[j].since \in Nat /\ latest \in Nat
  BY JobIs DEF CleanupInv, CleanupTypes
<1>8. jobs[j] # jobs'[j]
  BY <1>2, <1>4
<1>9. Uses(channel) => jobs[j].since < latest /\ jobs[j].prefix = All
  BY <1>5, <1>6, <1>7
<1> QED BY <1>2, <1>3, <1>8, <1>9

\* Only a clean-up that is older than the run that is active deletes a channel of it, and a
\* clean-up of one run's channels deletes no other's (handleCleanup of httpServer.ts and
\* cleanupChannels of engine.ts).
THEOREM RunsAreSpared == CleanupSpec => CleanupSparesRuns
<1>1. CleanupInv /\ [CleanupNext]_cleanup =>
        [\A channel \in existing \ existing' :
           \E j \in Jobs :
             /\ jobs[j] # jobs'[j] /\ channel[2] \in jobs[j].found
             /\ Uses(channel) => jobs[j].since < latest /\ jobs[j].prefix = All]_cleanup
  BY DeletesSpare
<1> QED BY <1>1, CleanupInitInv, CleanupNextInv, PTL DEF CleanupSpec, CleanupSparesRuns

-----------------------------------------------------------------------------
\* The warm-up.

Attempts == 1..MaxRetries
AttemptRecords == [stage : {"none", "sending", "ok", "thrown"}, sent : Nat, heard : {0, 1}]
BatchRecords == [task : Nat, attempt : Nat, over : BOOLEAN]

WarmupTypes ==
  /\ tasks \in TaskLists /\ idx \in 0..Len(tasks) /\ failures \subseteq 1..idx
  /\ warming \in {"running", "complete", "failed"} /\ clientsGone \in BOOLEAN
  /\ batches \in [Batches -> BatchRecords]
  /\ attempts \in [Channels -> [Attempts -> AttemptRecords]]

\* A batch waits for an attempt at a task it took, and has made the attempts before.
BatchesAreReal ==
  \A b \in Batches :
    /\ Waits(b) => /\ batches[b].task \in 1..idx /\ batches[b].attempt \in Attempts
                   /\ ~batches[b].over
                   /\ \A k \in 1..batches[b].attempt : attempts[batches[b].task][k].stage # "none"
    /\ batches[b].over => ~More

\* A task is one batch's, and once it was taken it is tried, was tried, or has failed.
TasksAreTried ==
  /\ \A b, c \in Batches : Waits(b) /\ batches[b].task = batches[c].task => b = c
  /\ \A i \in 1..idx : \/ i \in failures
                       \/ \E b \in Batches : batches[b].task = i
                       \/ \E k \in Attempts : attempts[i][k].stage = "ok"
  /\ \A i \in failures, k \in Attempts : attempts[i][k].stage # "none"

\* An attempt is a success because something came back, or for one of the exceptions.
SuccessIsEarned ==
  \A i \in Channels, k \in Attempts :
    attempts[i][k].stage = "ok" => clientsGone \/ tasks[i] = "queue" \/ attempts[i][k].heard > 0

\* The pool has ended because nothing was left to try, or for a failure.
PoolEnds ==
  /\ warming = "complete" /\ MaxParallel # 0 =>
       /\ failures = {} /\ idx = Len(tasks) /\ \A b \in Batches : ~Waits(b)
  /\ warming = "failed" => failures # {}

WarmupInv ==
  WarmupTypes /\ BatchesAreReal /\ TasksAreTried /\ SuccessIsEarned /\ PoolEnds

LEMMA LengthOfTasks == ASSUME tasks \in TaskLists PROVE Len(tasks) \in Nat
BY WarmupConstants

LEMMA WarmupInvDone == WarmupInv => WarmupDone
<1> SUFFICES ASSUME WarmupInv PROVE WarmupDone
  OBVIOUS
<1> USE LengthOfTasks DEF WarmupInv, WarmupTypes
<1>1. ASSUME warming = "complete", ~clientsGone, MaxParallel # 0, NEW i \in Channels
      PROVE  \E k \in 1..MaxRetries :
               attempts[i][k].stage = "ok" /\ (tasks[i] # "queue" => attempts[i][k].heard > 0)
  <2>1. i \in 1..idx /\ failures = {} /\ \A b \in Batches : batches[b].task # i
    BY <1>1 DEF PoolEnds, Waits, Channels
  <2>2. PICK k \in Attempts : attempts[i][k].stage = "ok"
    BY <2>1 DEF TasksAreTried
  <2> QED BY <1>1, <2>2 DEF SuccessIsEarned, Attempts
<1>2. ASSUME warming = "failed"
      PROVE  \E i \in Channels : \A k \in 1..MaxRetries : attempts[i][k].stage # "none"
  <2>1. PICK i \in failures : TRUE
    BY <1>2 DEF PoolEnds
  <2>2. i \in Channels
    BY <2>1 DEF Channels
  <2> QED BY <2>1, <2>2 DEF TasksAreTried, Attempts
<1>3. \A b, c \in Batches : Waits(b) /\ batches[b].task = batches[c].task => b = c
  BY DEF TasksAreTried
<1> QED BY <1>1, <1>2, <1>3 DEF WarmupDone

LEMMA WarmupInitInv == WarmupInit => WarmupInv
<1> SUFFICES ASSUME WarmupInit PROVE WarmupInv
  OBVIOUS
<1>1. Len(tasks) \in Nat
  BY LengthOfTasks DEF WarmupInit, UnusedWarmup
<1>2. WarmupTypes
  <2>1. FreeBatch \in BatchRecords
    BY DEF FreeBatch, BatchRecords
  <2>2. NoAttempt \in AttemptRecords
    BY DEF NoAttempt, AttemptRecords
  <2>3. /\ batches \in [Batches -> BatchRecords]
        /\ attempts \in [Channels -> [Attempts -> AttemptRecords]]
    BY <2>1, <2>2, Zenon DEF WarmupInit, UnusedWarmup, Attempts
  <2>4. idx \in 0..Len(tasks) /\ failures \subseteq 1..idx
    BY <1>1 DEF WarmupInit, UnusedWarmup
  <2>5. tasks \in TaskLists /\ warming = "running" /\ clientsGone = FALSE
    BY DEF WarmupInit, UnusedWarmup
  <2> QED BY <2>3, <2>4, <2>5, Zenon DEF WarmupTypes
<1>3. \A b \in Batches : batches[b].task = 0 /\ batches[b].over = FALSE
  BY DEF WarmupInit, UnusedWarmup, FreeBatch
<1>4. \A i \in Channels, k \in Attempts : attempts[i][k].stage = "none"
  BY DEF WarmupInit, UnusedWarmup, NoAttempt, Attempts
<1>5. idx = 0 /\ failures = {} /\ warming = "running"
  BY DEF WarmupInit, UnusedWarmup
<1> QED BY <1>2, <1>3, <1>4, <1>5
        DEF WarmupInv, BatchesAreReal, TasksAreTried, SuccessIsEarned, PoolEnds, Waits

\* What the steps of the attempts, and of a batch that tries again, have in common.
LEMMA AttemptChanges ==
  ASSUME attempts \in [Channels -> [Attempts -> AttemptRecords]],
         NEW i \in Channels, NEW k \in Attempts, NEW attempt \in AttemptRecords,
         attempts' = [attempts EXCEPT ![i][k] = attempt]
  PROVE  /\ attempts' \in [Channels -> [Attempts -> AttemptRecords]]
         /\ attempts'[i][k] = attempt
         /\ \A j \in Channels, l \in Attempts : j # i \/ l # k => attempts'[j][l] = attempts[j][l]
BY Zenon

\* An attempt that goes on, or that a later part of the pool has nothing to do with.
LEMMA AttemptsGoOn ==
  ASSUME WarmupInv, UNCHANGED pool, clientsGone' \in BOOLEAN, clientsGone => clientsGone',
         attempts' \in [Channels -> [Attempts -> AttemptRecords]],
         \A i \in Channels, k \in Attempts :
           /\ attempts[i][k].stage # "none" => attempts'[i][k].stage # "none"
           /\ attempts[i][k].stage = "ok" => attempts'[i][k].stage = "ok"
           /\ attempts'[i][k].stage = "ok" =>
                clientsGone \/ tasks[i] = "queue" \/ attempts'[i][k].heard > 0
  PROVE  WarmupInv'
<1> USE LengthOfTasks DEF WarmupInv
<1>1. tasks' = tasks /\ idx' = idx /\ warming' = warming /\ batches' = batches /\ failures' = failures
  BY DEF pool
<1>2. WarmupTypes'
  BY <1>1 DEF WarmupTypes, Channels
<1>3. /\ \A b \in Batches : Waits(b)' <=> Waits(b)
      /\ More' <=> More /\ Channels' = Channels
      /\ 1..idx \subseteq Channels /\ failures \subseteq Channels
      /\ Channels' = Channels
  BY <1>1 DEF Waits, More, Channels, WarmupTypes
<1>4. BatchesAreReal'
  <2> SUFFICES ASSUME NEW b \in Batches, Waits(b)
               PROVE  \A k \in 1..batches[b].attempt : attempts'[batches[b].task][k].stage # "none"
    BY <1>1, <1>3 DEF BatchesAreReal
  <2>1. batches[b].task \in Channels /\ 1..batches[b].attempt \subseteq Attempts
    BY <1>3, WarmupConstants DEF BatchesAreReal, Attempts
  <2>2. \A k \in 1..batches[b].attempt : attempts[batches[b].task][k].stage # "none"
    BY DEF BatchesAreReal
  <2> QED BY <2>1, <2>2
<1>5. TasksAreTried'
  BY <1>1, <1>3 DEF TasksAreTried
<1>6. SuccessIsEarned'
  BY <1>1, <1>3 DEF SuccessIsEarned
<1>7. PoolEnds'
  BY <1>1, <1>3 DEF PoolEnds
<1> QED BY <1>2, <1>4, <1>5, <1>6, <1>7

LEMMA HeardIs ==
  ASSUME NEW x \in AttemptRecords, NEW heard \in {0, 1}
  PROVE  /\ [x EXCEPT !.heard = heard] \in AttemptRecords
         /\ [x EXCEPT !.heard = heard].stage = x.stage
BY DEF AttemptRecords

LEMMA AttemptingKeeps ==
  ASSUME WarmupInv, NEW i \in Channels, NEW k \in Attempts, Attempting(i, k)
  PROVE  WarmupInv'
<1> USE DEF WarmupInv
<1>1. attempts[i][k] \in AttemptRecords /\ attempts \in [Channels -> [Attempts -> AttemptRecords]]
  BY DEF WarmupTypes
<1>2. PICK attempt \in AttemptRecords :
        /\ Becomes(i, k, attempt) /\ attempts[i][k].stage = "sending" /\ attempt.stage # "none"
        /\ attempt.stage = "ok" => attempt.heard > 0
  <2> DEFINE x == attempts[i][k]
  <2>1. x \in AttemptRecords
    BY <1>1
  <2>2. CASE WarmupEvents(i, k)
    <3>1. Becomes(i, k, [x EXCEPT !.sent = @ + 1]) /\ x.stage = "sending"
      BY <2>2 DEF WarmupEvents, Sending
    <3> HIDE DEF x
    <3>2. [x EXCEPT !.sent = @ + 1] \in AttemptRecords /\ [x EXCEPT !.sent = @ + 1].stage = "sending"
      BY <2>1, <3>1 DEF AttemptRecords
    <3> QED BY <3>1, <3>2 DEF x
  <2>3. CASE WarmupEventsStore(i, k)
    <3>1. Becomes(i, k, [x EXCEPT !.sent = @ + 1]) /\ x.stage = "sending"
      BY <2>3 DEF WarmupEventsStore, Sending
    <3> HIDE DEF x
    <3>2. [x EXCEPT !.sent = @ + 1] \in AttemptRecords /\ [x EXCEPT !.sent = @ + 1].stage = "sending"
      BY <2>1, <3>1 DEF AttemptRecords
    <3> QED BY <3>1, <3>2 DEF x
  <2>4. CASE Arrives(i, k)
    <3>1. Becomes(i, k, [x EXCEPT !.heard = 1]) /\ x.stage = "sending"
      BY <2>4 DEF Arrives
    <3> HIDE DEF x
    <3>2. [x EXCEPT !.heard = 1] \in AttemptRecords /\ [x EXCEPT !.heard = 1].stage = "sending"
      BY <2>1, <3>1 DEF AttemptRecords
    <3> QED BY <3>1, <3>2 DEF x
  <2>5. CASE WarmupRpc(i, k)
    <3>1. PICK heard \in {x.heard, 1} :
            Becomes(i, k, [x EXCEPT !.sent = @ + 1, !.heard = heard]) /\ x.stage = "sending"
      BY <2>5 DEF WarmupRpc, Sending
    <3> HIDE DEF x
    <3>2. /\ [x EXCEPT !.sent = @ + 1, !.heard = heard] \in AttemptRecords
          /\ [x EXCEPT !.sent = @ + 1, !.heard = heard].stage = "sending"
      <4>1. [x EXCEPT !.sent = @ + 1] \in AttemptRecords /\ [x EXCEPT !.sent = @ + 1].stage = "sending"
        BY <2>1, <3>1 DEF AttemptRecords
      <4>2. heard \in {0, 1}
        BY <2>1 DEF AttemptRecords
      <4> QED BY <4>1, <4>2, HeardIs, <3>1
    <3> QED BY <3>1, <3>2 DEF x
  <2>6. CASE Concludes(i, k)
    <3>1. PICK stage \in {"ok", "thrown"} :
            /\ stage = IF x.heard > 0 THEN "ok" ELSE "thrown"
            /\ Becomes(i, k, [x EXCEPT !.stage = stage]) /\ x.stage = "sending"
      BY <2>6 DEF Concludes
    <3> HIDE DEF x
    <3>2. /\ [x EXCEPT !.stage = stage] \in AttemptRecords
          /\ [x EXCEPT !.stage = stage].stage = stage
          /\ [x EXCEPT !.stage = stage].heard = x.heard
      BY <2>1, <3>1 DEF AttemptRecords
    <3> QED BY <3>1, <3>2 DEF x
  <2> QED BY <2>2, <2>3, <2>4, <2>5, <2>6 DEF Attempting
<1>3. attempts' = [attempts EXCEPT ![i][k] = attempt] /\ UNCHANGED pool /\ clientsGone' = clientsGone
  BY <1>2 DEF Becomes
<1>4. /\ attempts' \in [Channels -> [Attempts -> AttemptRecords]]
      /\ attempts'[i][k] = attempt
      /\ \A j \in Channels, l \in Attempts : j # i \/ l # k => attempts'[j][l] = attempts[j][l]
  BY <1>1, <1>2, <1>3, AttemptChanges
<1>5. clientsGone \in BOOLEAN
  BY DEF WarmupTypes
<1>6. \A j \in Channels, l \in Attempts :
        /\ attempts[j][l].stage # "none" => attempts'[j][l].stage # "none"
        /\ attempts[j][l].stage = "ok" => attempts'[j][l].stage = "ok"
        /\ attempts'[j][l].stage = "ok" =>
             clientsGone \/ tasks[j] = "queue" \/ attempts'[j][l].heard > 0
  BY <1>2, <1>4 DEF SuccessIsEarned
<1> QED BY <1>3, <1>4, <1>5, <1>6, AttemptsGoOn

LEMMA ClientsLeaveKeeps == ASSUME WarmupInv, ClientsLeave PROVE WarmupInv'
<1>1. /\ clientsGone' = TRUE /\ UNCHANGED pool /\ attempts' = attempts
      /\ attempts \in [Channels -> [Attempts -> AttemptRecords]]
  BY DEF ClientsLeave, WarmupInv, WarmupTypes
<1> QED BY <1>1, AttemptsGoOn DEF WarmupInv, SuccessIsEarned

\* A first attempt, or the next one.
LEMMA AttemptedIs ==
  ASSUME NEW i \in Channels
  PROVE  /\ Attempted(i) \in AttemptRecords /\ Attempted(i).stage # "none"
         /\ Attempted(i).stage = "ok" => clientsGone \/ tasks[i] = "queue"
<1>1. [NoAttempt EXCEPT !.stage = "ok"] = [stage |-> "ok", sent |-> 0, heard |-> 0]
  BY DEF NoAttempt
<1>2. [NoAttempt EXCEPT !.stage = "sending"] = [stage |-> "sending", sent |-> 0, heard |-> 0]
  BY DEF NoAttempt
<1>3. CASE clientsGone \/ tasks[i] = "queue"
  BY <1>1, <1>3 DEF Attempted, AttemptRecords
<1>4. CASE ~(clientsGone \/ tasks[i] = "queue")
  BY <1>2, <1>4 DEF Attempted, AttemptRecords
<1> QED BY <1>3, <1>4

\* What TakeTask and the next attempt do to the attempts.
LEMMA TryDoes ==
  ASSUME WarmupTypes, NEW b \in Batches, NEW i \in Channels, NEW k \in Attempts, Try(b, i, k),
         tasks' = tasks
  PROVE  /\ batches' = [batches EXCEPT ![b] = [task |-> i, attempt |-> k, over |-> FALSE]]
         /\ batches' \in [Batches -> BatchRecords]
         /\ attempts' \in [Channels -> [Attempts -> AttemptRecords]]
         /\ attempts'[i][k].stage # "none"
         /\ attempts'[i][k].stage = "ok" => clientsGone \/ tasks[i] = "queue"
         /\ \A j \in Channels, l \in Attempts :
              /\ j # i \/ l # k => attempts'[j][l] = attempts[j][l]
              /\ attempts[j][l].stage # "none" => attempts'[j][l].stage # "none"
<1>1. /\ batches' = [batches EXCEPT ![b] = [task |-> i, attempt |-> k, over |-> FALSE]]
      /\ attempts' = [attempts EXCEPT ![i][k] = Attempted(i)]
  BY DEF Try
<1>2. batches \in [Batches -> BatchRecords] /\ attempts \in [Channels -> [Attempts -> AttemptRecords]]
  BY DEF WarmupTypes
<1>3. [task |-> i, attempt |-> k, over |-> FALSE] \in BatchRecords
  BY DEF BatchRecords, Channels, Attempts
<1>4. batches' \in [Batches -> BatchRecords]
  BY <1>1, <1>2, <1>3, Zenon
<1>5. /\ attempts' \in [Channels -> [Attempts -> AttemptRecords]]
      /\ attempts'[i][k] = Attempted(i)
      /\ \A j \in Channels, l \in Attempts : j # i \/ l # k => attempts'[j][l] = attempts[j][l]
  BY <1>1, <1>2, AttemptedIs, AttemptChanges
<1>6. \A j \in Channels, l \in Attempts :
        attempts[j][l].stage # "none" => attempts'[j][l].stage # "none"
  BY <1>5, AttemptedIs
<1> QED BY <1>1, <1>4, <1>5, <1>6, AttemptedIs

LEMMA WaitsDef == \A b : Waits(b) <=> batches[b].task # 0
BY DEF Waits

LEMMA BatchesAre ==
  ASSUME WarmupTypes, NEW b \in Batches
  PROVE  batches[b].task \in Nat /\ batches[b].attempt \in Nat /\ batches[b].over \in BOOLEAN
BY DEF WarmupTypes, BatchRecords

LEMMA TakeTaskKeeps == ASSUME WarmupInv, NEW b \in Batches, TakeTask(b) PROVE WarmupInv'
<1> DEFINE n == idx + 1
<1>1. /\ batches[b] = FreeBatch /\ warming = "running" /\ More
      /\ idx' = n /\ Try(b, n, 1) /\ failures = {}
      /\ UNCHANGED <<tasks, warming, failures, clientsGone>>
  BY DEF TakeTask, More
<1>2. Len(tasks) \in Nat /\ idx \in 0..Len(tasks) /\ idx < Len(tasks) /\ idx \in Nat
  BY <1>1, LengthOfTasks DEF WarmupInv, WarmupTypes, More
<1>3. n \in Channels /\ n \in Nat \ {0} /\ n \notin 1..idx /\ 1..n = (1..idx) \cup {n} /\ 1 \in Attempts
  BY <1>2, WarmupConstants DEF Channels, Attempts
<1>4. /\ batches' = [batches EXCEPT ![b] = [task |-> n, attempt |-> 1, over |-> FALSE]]
      /\ batches' \in [Batches -> BatchRecords]
      /\ attempts' \in [Channels -> [Attempts -> AttemptRecords]]
      /\ attempts'[n][1].stage # "none"
      /\ attempts'[n][1].stage = "ok" => clientsGone \/ tasks[n] = "queue"
      /\ \A j \in Channels, l \in Attempts :
           /\ j # n \/ l # 1 => attempts'[j][l] = attempts[j][l]
           /\ attempts[j][l].stage # "none" => attempts'[j][l].stage # "none"
  BY <1>1, <1>3, TryDoes DEF WarmupInv
<1>5. Channels' = Channels
  BY <1>1 DEF Channels
<1>6. WarmupTypes'
  <2>1. /\ tasks \in TaskLists /\ warming \in {"running", "complete", "failed"}
        /\ clientsGone \in BOOLEAN
    BY DEF WarmupInv, WarmupTypes
  <2>2. n \in 0..Len(tasks)
    BY <1>2
  <2> QED BY <1>1, <1>4, <1>5, <2>1, <2>2 DEF WarmupTypes
<1>7. /\ batches'[b].task = n /\ batches'[b].attempt = 1 /\ batches'[b].over = FALSE
      /\ batches[b].task = 0 /\ batches[b].over = FALSE
      /\ \A c \in Batches : c # b => batches'[c] = batches[c]
  BY <1>1, <1>4 DEF WarmupInv, WarmupTypes, FreeBatch
<1>8. \A c \in Batches : batches[c].task # 0 => batches[c].task \in 1..idx
  BY DEF WarmupInv, BatchesAreReal, Waits
<1> HIDE DEF n
<1>9. BatchesAreReal'
  <2>1. ASSUME NEW c \in Batches, batches'[c].task # 0
        PROVE  /\ batches'[c].task \in 1..n /\ batches'[c].attempt \in Attempts /\ ~batches'[c].over
               /\ \A k \in 1..batches'[c].attempt : attempts'[batches'[c].task][k].stage # "none"
    <3>1. CASE c = b
      <4>1. n \in 1..n
        BY <1>3
      <4> QED BY <1>3, <1>4, <1>7, <3>1, <4>1
    <3>2. CASE c # b
      <4>1. /\ batches[c].task \in 1..idx /\ batches[c].attempt \in Attempts /\ ~batches[c].over
            /\ \A k \in 1..batches[c].attempt : attempts[batches[c].task][k].stage # "none"
        BY <1>7, <2>1, <3>2 DEF WarmupInv, BatchesAreReal, Waits
      <4>2. /\ batches[c].task \in Channels /\ batches[c].task \in 1..n
              /\ 1..batches[c].attempt \subseteq Attempts
        BY <1>2, <1>3, <4>1, WarmupConstants DEF Channels, Attempts
      <4> QED BY <1>4, <1>7, <3>2, <4>1, <4>2
    <3> QED BY <3>1, <3>2
  <2>2. ASSUME NEW c \in Batches, batches'[c].over PROVE ~More'
    <3>1. c # b
      BY <1>7, <2>2
    <3>2. ~More
      BY <1>7, <2>2, <3>1 DEF WarmupInv, BatchesAreReal
    <3> QED BY <1>1, <3>2
  <2> QED BY <1>1, <2>1, <2>2 DEF BatchesAreReal, Waits
<1>10. TasksAreTried'
  <2>1. \A c, d \in Batches : batches'[c].task # 0 /\ batches'[c].task = batches'[d].task => c = d
    <3>1. \A c \in Batches : batches[c].task # n
      BY <1>3, <1>8, BatchesAre DEF WarmupInv
    <3>2. \A c, d \in Batches : batches[c].task # 0 /\ batches[c].task = batches[d].task => c = d
      BY DEF WarmupInv, TasksAreTried, Waits
    <3> QED BY <1>7, <3>1, <3>2
  <2>2. ASSUME NEW i \in 1..n
        PROVE  \/ i \in failures'
               \/ \E c \in Batches : batches'[c].task = i
               \/ \E k \in Attempts : attempts'[i][k].stage = "ok"
    <3>1. CASE i = n
      BY <1>7, <3>1
    <3>2. CASE i \in 1..idx
      <4>1. \/ \E c \in Batches : batches[c].task = i
            \/ \E k \in Attempts : attempts[i][k].stage = "ok"
        BY <1>1, <3>2 DEF WarmupInv, TasksAreTried
      <4>2. i # 0 /\ i # n /\ i \in Channels
        BY <1>2, <1>3, <3>2 DEF Channels
      <4> QED BY <1>4, <1>7, <4>1, <4>2
    <3> QED BY <1>3, <3>1, <3>2
  <2> QED BY <1>1, <2>1, <2>2 DEF TasksAreTried, Waits
<1>11. SuccessIsEarned'
  BY <1>1, <1>4, <1>5 DEF WarmupInv, SuccessIsEarned
<1>12. PoolEnds'
  BY <1>1 DEF PoolEnds
<1> QED BY <1>6, <1>9, <1>10, <1>11, <1>12 DEF WarmupInv

LEMMA OverIs ==
  ASSUME NEW x \in BatchRecords
  PROVE  /\ [x EXCEPT !.over = TRUE] \in BatchRecords
         /\ [x EXCEPT !.over = TRUE].task = x.task /\ [x EXCEPT !.over = TRUE].attempt = x.attempt
BY DEF BatchRecords

LEMMA BatchOverKeeps == ASSUME WarmupInv, NEW b \in Batches, BatchOver(b) PROVE WarmupInv'
<1>1. /\ batches[b] = FreeBatch /\ ~More /\ batches' = [batches EXCEPT ![b].over = TRUE]
      /\ UNCHANGED <<tasks, warming, idx, failures, attempts, clientsGone>>
  BY DEF BatchOver
<1>2. /\ batches' \in [Batches -> BatchRecords]
      /\ batches'[b].task = batches[b].task /\ batches'[b].attempt = batches[b].attempt
      /\ batches[b].task = 0
      /\ \A c \in Batches : c # b => batches'[c] = batches[c]
  <2>1. batches \in [Batches -> BatchRecords] /\ batches[b].task = 0
    BY <1>1 DEF WarmupInv, WarmupTypes, FreeBatch
  <2>2. batches' = [batches EXCEPT ![b] = [batches[b] EXCEPT !.over = TRUE]]
    BY <1>1
  <2> QED BY <2>1, <2>2, OverIs
<1>3. (More' <=> More) /\ Channels' = Channels
  BY <1>1 DEF More, Channels
<1>4. \A c \in Batches : batches'[c].task = batches[c].task /\ batches'[c].attempt = batches[c].attempt
  BY <1>2
<1>5. \A c \in Batches : batches'[c].over => batches[c].over \/ c = b
  BY <1>2
<1>6. \A c \in Batches : c # b => batches'[c].over = batches[c].over
  BY <1>2
<1>7. WarmupTypes'
  BY <1>1, <1>2, <1>3 DEF WarmupInv, WarmupTypes
<1>8. BatchesAreReal'
  BY <1>1, <1>2, <1>3, <1>4, <1>5, <1>6 DEF WarmupInv, BatchesAreReal, Waits
<1>9. TasksAreTried'
  BY <1>1, <1>4 DEF WarmupInv, TasksAreTried, Waits
<1>10. SuccessIsEarned' /\ PoolEnds'
  BY <1>1, <1>3, <1>4 DEF WarmupInv, SuccessIsEarned, PoolEnds, Waits
<1> QED BY <1>7, <1>8, <1>9, <1>10 DEF WarmupInv

\* A batch lets its task go, because an attempt succeeded or the last one failed.
LEMMA TaskLetGo ==
  ASSUME WarmupInv, NEW b \in Batches, Waits(b), batches' = [batches EXCEPT ![b] = FreeBatch],
         UNCHANGED <<tasks, warming, idx, attempts, clientsGone>>,
         \/ UNCHANGED failures /\ \E k \in Attempts : attempts[batches[b].task][k].stage = "ok"
         \/ failures' = failures \cup {batches[b].task} /\ batches[b].attempt = MaxRetries
  PROVE  WarmupInv'
<1> DEFINE i == batches[b].task
<1>1. /\ batches' \in [Batches -> BatchRecords]
      /\ batches'[b].task = 0 /\ batches'[b].over = FALSE /\ batches[b].task = i
      /\ \A c \in Batches : c # b => batches'[c] = batches[c]
  BY DEF WarmupInv, WarmupTypes, BatchRecords, FreeBatch
<1>2. i \in 1..idx /\ Channels' = Channels
  BY DEF WarmupInv, BatchesAreReal, Channels
<1>3. failures \subseteq failures' /\ failures' \subseteq 1..idx
  BY <1>2 DEF WarmupInv, WarmupTypes
<1>4. ASSUME i \in failures', i \notin failures PROVE \A k \in Attempts : attempts[i][k].stage # "none"
  <2>1. batches[b].attempt = MaxRetries
    BY <1>4
  <2> QED BY <2>1 DEF WarmupInv, BatchesAreReal, Attempts
<1>5. i \in failures' \/ \E k \in Attempts : attempts[i][k].stage = "ok"
  OBVIOUS
<1>6. failures' \subseteq failures \cup {i}
  OBVIOUS
<1>7. ~More => ~More'
  BY <1>3 DEF More
<1> HIDE DEF i
<1>8. WarmupTypes'
  BY <1>1, <1>2, <1>3 DEF WarmupInv, WarmupTypes
<1>9. BatchesAreReal'
  BY <1>1, <1>7 DEF WarmupInv, BatchesAreReal, Waits
<1>10. TasksAreTried'
  <2>1. \A c, d \in Batches : batches'[c].task # 0 /\ batches'[c].task = batches'[d].task => c = d
    BY <1>1 DEF WarmupInv, TasksAreTried, Waits
  <2>2. ASSUME NEW j \in 1..idx
        PROVE  \/ j \in failures'
               \/ \E c \in Batches : batches'[c].task = j
               \/ \E k \in Attempts : attempts[j][k].stage = "ok"
    <3>1. CASE j = i
      BY <1>5, <3>1
    <3>2. CASE j # i
      BY <1>1, <1>3, <3>2 DEF WarmupInv, TasksAreTried
    <3> QED BY <3>1, <3>2
  <2>3. ASSUME NEW j \in failures', NEW k \in Attempts PROVE attempts[j][k].stage # "none"
    BY <1>4, <1>6 DEF WarmupInv, TasksAreTried
  <2> QED BY <2>1, <2>2, <2>3 DEF TasksAreTried, Waits
<1>11. SuccessIsEarned'
  BY <1>2 DEF WarmupInv, SuccessIsEarned
<1>12. PoolEnds'
  <2>1. warming = "failed" => failures' # {}
    BY <1>3 DEF WarmupInv, PoolEnds
  <2>2. warming = "complete" => MaxParallel = 0
    BY DEF WarmupInv, PoolEnds
  <2> QED BY <2>1, <2>2 DEF PoolEnds
<1> QED BY <1>8, <1>9, <1>10, <1>11, <1>12 DEF WarmupInv

LEMMA BatchFailsKeeps == ASSUME WarmupInv, NEW b \in Batches, BatchFails(b) PROVE WarmupInv'
<1> DEFINE i == batches[b].task
           k == batches[b].attempt
<1>1. /\ Waits(b) /\ UNCHANGED <<tasks, warming, idx, clientsGone>>
      /\ \/ k < MaxRetries /\ Try(b, i, k + 1) /\ UNCHANGED failures
         \/ /\ ~(k < MaxRetries) /\ batches' = [batches EXCEPT ![b] = FreeBatch]
            /\ failures' = failures \cup {i} /\ UNCHANGED attempts
  BY DEF BatchFails, Failure
<1>2. /\ i \in 1..idx /\ k \in Attempts /\ i # 0 /\ ~batches[b].over
      /\ \A l \in 1..k : attempts[i][l].stage # "none"
  BY <1>1 DEF WarmupInv, BatchesAreReal, Waits
<1>3. Len(tasks) \in Nat /\ idx \in 0..Len(tasks)
  BY LengthOfTasks DEF WarmupInv, WarmupTypes
<1>4. i \in Channels /\ Channels' = Channels
  BY <1>1, <1>2, <1>3 DEF Channels
<1>5. CASE k < MaxRetries /\ Try(b, i, k + 1) /\ UNCHANGED failures
  <2>1. /\ k + 1 \in Attempts /\ 1..k+1 = (1..k) \cup {k + 1}
        /\ 1..k \subseteq Attempts /\ 1..k+1 \subseteq Attempts
    BY <1>2, <1>5, WarmupConstants DEF Attempts
  <2>2. /\ batches' = [batches EXCEPT ![b] = [task |-> i, attempt |-> k + 1, over |-> FALSE]]
        /\ batches' \in [Batches -> BatchRecords]
        /\ attempts' \in [Channels -> [Attempts -> AttemptRecords]]
        /\ attempts'[i][k + 1].stage # "none"
        /\ attempts'[i][k + 1].stage = "ok" => clientsGone \/ tasks[i] = "queue"
        /\ \A j \in Channels, l \in Attempts :
             /\ j # i \/ l # k + 1 => attempts'[j][l] = attempts[j][l]
             /\ attempts[j][l].stage # "none" => attempts'[j][l].stage # "none"
    BY <1>1, <1>4, <1>5, <2>1, TryDoes DEF WarmupInv
  <2>3. /\ batches'[b].task = i /\ batches'[b].attempt = k + 1 /\ batches'[b].over = FALSE
        /\ batches[b].task = i
        /\ \A c \in Batches : c # b => batches'[c] = batches[c]
    BY <2>2 DEF WarmupInv, WarmupTypes
  <2>4. (More' <=> More) /\ UNCHANGED <<tasks, warming, idx, clientsGone, failures>>
    BY <1>1, <1>5 DEF More
  <2> HIDE DEF i, k
  <2>5. \A c \in Batches : batches'[c].task = batches[c].task
    BY <2>3
  <2>6. WarmupTypes'
    BY <1>4, <2>2, <2>4 DEF WarmupInv, WarmupTypes
  <2>7. BatchesAreReal'
    <3>1. ASSUME NEW c \in Batches, batches'[c].task # 0
          PROVE  /\ batches'[c].task \in 1..idx /\ batches'[c].attempt \in Attempts /\ ~batches'[c].over
                 /\ \A l \in 1..batches'[c].attempt : attempts'[batches'[c].task][l].stage # "none"
      <4>1. CASE c = b
        <5>1. \A l \in 1..k+1 : attempts'[i][l].stage # "none"
          BY <1>2, <1>4, <2>1, <2>2
        <5> QED BY <1>2, <2>1, <2>3, <4>1, <5>1
      <4>2. CASE c # b
        <5>1. /\ batches[c].task \in 1..idx /\ batches[c].attempt \in Attempts /\ ~batches[c].over
              /\ \A l \in 1..batches[c].attempt : attempts[batches[c].task][l].stage # "none"
          BY <2>3, <3>1, <4>2 DEF WarmupInv, BatchesAreReal, Waits
        <5>2. batches[c].task \in Channels /\ 1..batches[c].attempt \subseteq Attempts
          BY <1>3, <5>1, WarmupConstants DEF Channels, Attempts
        <5> QED BY <2>2, <2>3, <4>2, <5>1, <5>2
      <4> QED BY <4>1, <4>2
    <3>2. ASSUME NEW c \in Batches, batches'[c].over PROVE ~More'
      BY <2>3, <2>4, <3>2 DEF WarmupInv, BatchesAreReal
    <3> QED BY <2>4, <3>1, <3>2 DEF BatchesAreReal, Waits
  <2>8. TasksAreTried'
    <3>1. \A c, d \in Batches : batches'[c].task # 0 /\ batches'[c].task = batches'[d].task => c = d
      BY <2>5 DEF WarmupInv, TasksAreTried, Waits
    <3>2. ASSUME NEW j \in 1..idx
          PROVE  \/ j \in failures'
                 \/ \E c \in Batches : batches'[c].task = j
                 \/ \E l \in Attempts : attempts'[j][l].stage = "ok"
      <4>1. CASE j = i
        BY <2>3, <4>1
      <4>2. CASE j # i
        <5>1. j \in Channels
          BY <1>3 DEF Channels
        <5> QED BY <2>2, <2>4, <2>5, <4>2, <5>1 DEF WarmupInv, TasksAreTried
      <4> QED BY <4>1, <4>2
    <3>3. ASSUME NEW j \in failures', NEW l \in Attempts PROVE attempts'[j][l].stage # "none"
      <4>1. j \in Channels /\ j \in failures
        BY <1>3, <2>4 DEF WarmupInv, WarmupTypes, Channels
      <4> QED BY <2>2, <4>1 DEF WarmupInv, TasksAreTried
    <3> QED BY <2>4, <3>1, <3>2, <3>3 DEF TasksAreTried, Waits
  <2>9. SuccessIsEarned'
    BY <1>4, <2>2, <2>4 DEF WarmupInv, SuccessIsEarned
  <2>10. PoolEnds'
    BY <2>4, <2>5 DEF WarmupInv, PoolEnds, Waits
  <2> QED BY <2>6, <2>7, <2>8, <2>9, <2>10 DEF WarmupInv
<1>6. CASE /\ ~(k < MaxRetries) /\ batches' = [batches EXCEPT ![b] = FreeBatch]
           /\ failures' = failures \cup {i} /\ UNCHANGED attempts
  <2>1. k = MaxRetries
    BY <1>2, <1>6, WarmupConstants DEF Attempts
  <2> QED BY <1>1, <1>6, <2>1, TaskLetGo
<1> QED BY <1>1, <1>5, <1>6

LEMMA WarmedUpKeeps == ASSUME WarmupInv, NEW b \in Batches, WarmedUp(b) PROVE WarmupInv'
<1>1. /\ Waits(b) /\ Tried(b) = "ok" /\ batches' = [batches EXCEPT ![b] = FreeBatch]
      /\ UNCHANGED <<tasks, warming, idx, failures, attempts, clientsGone>>
  BY DEF WarmedUp
<1>2. batches[b].attempt \in Attempts
  BY <1>1 DEF WarmupInv, BatchesAreReal
<1>3. \E k \in Attempts : attempts[batches[b].task][k].stage = "ok"
  BY <1>1, <1>2 DEF Tried
<1> QED BY <1>1, <1>3, TaskLetGo

LEMMA WarmupReturnsKeeps == ASSUME WarmupInv, WarmupReturns PROVE WarmupInv'
<1>1. /\ warming' = IF failures = {} THEN "complete" ELSE "failed"
      /\ \A b \in Batches : batches[b].over
      /\ UNCHANGED <<tasks, idx, batches, failures, attempts, clientsGone>>
  BY DEF WarmupReturns
<1>2. /\ WarmupTypes' /\ BatchesAreReal' /\ TasksAreTried' /\ SuccessIsEarned'
  BY <1>1 DEF WarmupInv, WarmupTypes, BatchesAreReal, TasksAreTried, SuccessIsEarned, Channels,
     Waits, More
<1>3. ASSUME failures = {}, MaxParallel # 0 PROVE idx = Len(tasks) /\ \A b \in Batches : ~Waits(b)
  <2>1. 1 \in Batches
    BY <1>3, WarmupConstants DEF Batches
  <2>2. ~More /\ \A b \in Batches : ~Waits(b)
    BY <1>1, <2>1 DEF WarmupInv, BatchesAreReal
  <2>3. Len(tasks) \in Nat /\ idx \in 0..Len(tasks)
    BY LengthOfTasks DEF WarmupInv, WarmupTypes
  <2> QED BY <1>3, <2>2, <2>3 DEF More
<1>4. PoolEnds'
  BY <1>1, <1>3 DEF PoolEnds, Waits
<1> QED BY <1>2, <1>4 DEF WarmupInv

LEMMA WarmupNextInv == WarmupInv /\ [WarmupNext]_warmupVars => WarmupInv'
<1> SUFFICES ASSUME WarmupInv, [WarmupNext]_warmupVars PROVE WarmupInv'
  OBVIOUS
<1>1. CASE UNCHANGED warmupVars
  BY <1>1 DEF warmupVars, pool, WarmupInv, WarmupTypes, BatchesAreReal, TasksAreTried,
     SuccessIsEarned,
              PoolEnds, Channels, Waits, More
<1> QED BY <1>1, TakeTaskKeeps, BatchOverKeeps, WarmedUpKeeps, BatchFailsKeeps, WarmupReturnsKeeps,
           AttemptingKeeps, ClientsLeaveKeeps DEF WarmupNext, Batch, Attempts

\* When runWarmup() returns, something came back on each channel that is tried, unless the
\* clients were gone or there was no batch; when it throws, every attempt at some channel
\* was made; and no two batches try one channel.
THEOREM WarmupsAreDone == WarmupSpec => []WarmupDone
BY WarmupInitInv, WarmupNextInv, WarmupInvDone, PTL DEF WarmupSpec

-----------------------------------------------------------------------------
\* The configuration.

AddressKey == <<"run", "address">>
IdKey == <<"run", "run_id">>
WarmupKey == <<"run", "warmup">>
ModeKey == <<"run", "mode">>

LEMMA KeysDiffer ==
  /\ AddressKey \in Keys /\ IdKey \in Keys /\ WarmupKey \in Keys /\ ModeKey \in Keys
  /\ AddressKey # IdKey /\ AddressKey # WarmupKey /\ AddressKey # ModeKey
  /\ IdKey # WarmupKey /\ IdKey # ModeKey /\ WarmupKey # ModeKey
  /\ WarmupKey \in ApiKeys /\ WarmupKey[2] \notin {"address", "run_id"}
<1>1. \A name \in {"address", "run_id", "warmup", "mode"} : <<"run", name>> \in Keys
  BY DEF Keys, RunKeys
<1>2. WarmupKey # <<"run", "port">>
  BY DEF WarmupKey
<1> QED BY <1>1, <1>2 DEF AddressKey, IdKey, WarmupKey, ModeKey, ApiKeys

\* A configuration has a value for each setting.
Complete(cfg) == cfg = [key \in Keys |-> cfg[key]]

LEMMA OneSetting ==
  ASSUME NEW cfg, Complete(cfg), NEW k \in Keys, NEW v,
         NEW c, c = [cfg EXCEPT ![k] = v]
  PROVE  Complete(c) /\ c[k] = v /\ \A key \in Keys : key # k => c[key] = cfg[key]
BY DEF Complete

LEMMA AddressedIs ==
  ASSUME NEW cfg, Complete(cfg)
  PROVE  /\ Complete(Addressed(cfg))
         /\ \A key \in Keys :
              Addressed(cfg)[key] = IF key = AddressKey /\ environment THEN "environment"
                                    ELSE cfg[key]
<1>1. CASE environment
  <2> DEFINE c == [cfg EXCEPT ![AddressKey] = "environment"]
  <2>1. Addressed(cfg) = c
    BY <1>1 DEF Addressed, AddressKey
  <2>2. /\ Complete(c) /\ c[AddressKey] = "environment"
        /\ \A key \in Keys : key # AddressKey => c[key] = cfg[key]
    BY KeysDiffer, OneSetting
  <2> HIDE DEF c
  <2> QED BY <1>1, <2>1, <2>2, Zenon
<1>2. CASE ~environment
  BY <1>2, Zenon DEF Addressed
<1> QED BY <1>1, <1>2

LEMMA IdentifiedIs ==
  ASSUME NEW cfg, Complete(cfg), NEW id
  PROVE  /\ Complete(Identified(cfg, id))
         /\ cfg[IdKey] # "" => Identified(cfg, id)[IdKey] = cfg[IdKey]
         /\ \A key \in Keys : key # IdKey => Identified(cfg, id)[key] = cfg[key]
<1>1. CASE cfg[IdKey] = ""
  <2> DEFINE c == [cfg EXCEPT ![IdKey] = id]
  <2>1. Identified(cfg, id) = c
    BY <1>1, Zenon DEF Identified, IdKey
  <2>2. Complete(c) /\ \A key \in Keys : key # IdKey => c[key] = cfg[key]
    BY KeysDiffer, OneSetting
  <2> HIDE DEF c
  <2> QED BY <1>1, <2>1, <2>2, Zenon
<1>2. CASE cfg[IdKey] # ""
  BY <1>2, Zenon DEF Identified, IdKey
<1> QED BY <1>1, <1>2, Zenon

LEMMA WithWarmupIs ==
  ASSUME NEW cfg, Complete(cfg), NEW otherwise
  PROVE  /\ Complete(WithWarmup(cfg, otherwise))
         /\ WithWarmup(cfg, otherwise)[WarmupKey] =
              IF cfg[WarmupKey] # "" THEN cfg[WarmupKey]
              ELSE IF cfg[ModeKey] = "benchmark" THEN "60s" ELSE otherwise
         /\ \A key \in Keys : key # WarmupKey => WithWarmup(cfg, otherwise)[key] = cfg[key]
<1> DEFINE v == IF cfg[ModeKey] = "benchmark" THEN "60s" ELSE otherwise
           c == [cfg EXCEPT ![WarmupKey] = v]
<1>1. CASE cfg[WarmupKey] = ""
  <2>1. WithWarmup(cfg, otherwise) = c
    BY <1>1, Zenon DEF WithWarmup, WarmupKey, ModeKey
  <2>2. Complete(c) /\ c[WarmupKey] = v /\ \A key \in Keys : key # WarmupKey => c[key] = cfg[key]
    <3> HIDE DEF v
    <3> QED BY KeysDiffer, OneSetting
  <2> HIDE DEF c
  <2> QED BY <1>1, <2>1, <2>2, Zenon
<1>2. CASE cfg[WarmupKey] # ""
  BY <1>2, Zenon DEF WithWarmup, WarmupKey
<1> QED BY <1>1, <1>2, Zenon

\* What the program has is what it was told.
LEMMA ProgramIsAsTold ==
  /\ Complete(LoadConfig(file))
  /\ \A key \in Keys : key # IdKey /\ key # WarmupKey => LoadConfig(file)[key] = Told(key)
  /\ Told(IdKey) # "" => LoadConfig(file)[IdKey] = Told(IdKey)
  /\ LoadConfig(file)[WarmupKey] =
       IF Told(WarmupKey) # "" THEN Told(WarmupKey)
       ELSE IF Told(ModeKey) = "benchmark" THEN "60s" ELSE ""
<1> DEFINE m == MergeYaml([key \in Keys |-> Default(key)], file)
           a == Addressed(m)
           i == Identified(a, "program")
           w == WithWarmup(i, "")
<1>1. /\ Complete(m)
      /\ \A key \in Keys :
           m[key] = IF key \in DOMAIN file THEN YamlValue(key, file[key]) ELSE Default(key)
  BY Zenon DEF MergeYaml, Complete
<1> HIDE DEF m
<1>2. Complete(a) /\ \A key \in Keys : a[key] = Told(key)
  <2>1. /\ Complete(a)
        /\ \A key \in Keys :
             a[key] = IF key = AddressKey /\ environment THEN "environment" ELSE m[key]
    BY <1>1, AddressedIs, Zenon
  <2> HIDE DEF a
  <2> QED BY <1>1, <2>1, Zenon DEF Told, AddressKey
<1> HIDE DEF a
<1>3. /\ Complete(i) /\ (a[IdKey] # "" => i[IdKey] = a[IdKey])
      /\ \A key \in Keys : key # IdKey => i[key] = a[key]
  BY <1>2, IdentifiedIs, Zenon
<1> HIDE DEF i
<1>4. /\ Complete(w) /\ \A key \in Keys : key # WarmupKey => w[key] = i[key]
      /\ w[WarmupKey] = IF i[WarmupKey] # "" THEN i[WarmupKey]
                        ELSE IF i[ModeKey] = "benchmark" THEN "60s" ELSE ""
  BY <1>3, WithWarmupIs, Zenon
<1> HIDE DEF w
<1>5. LoadConfig(file) = w
  BY Zenon DEF LoadConfig, w, i, a, m
<1>6. i[WarmupKey] = Told(WarmupKey) /\ i[ModeKey] = Told(ModeKey)
  BY <1>2, <1>3, KeysDiffer
<1>7. Told(IdKey) # "" => w[IdKey] = Told(IdKey)
  BY <1>2, <1>3, <1>4, KeysDiffer, Zenon
<1>8. \A key \in Keys : key # IdKey /\ key # WarmupKey => w[key] = Told(key)
  BY <1>2, <1>3, <1>4
<1>9. w[WarmupKey] = IF Told(WarmupKey) # "" THEN Told(WarmupKey)
                     ELSE IF Told(ModeKey) = "benchmark" THEN "60s" ELSE ""
  BY <1>4, <1>6, Zenon
<1> QED BY <1>4, <1>5, <1>7, <1>8, <1>9, Zenon

\* Writing a value as JSON a second time changes nothing, and no text is mistaken for another.
LEMMA JsonValueTwice == \A v : JsonValue(JsonValue(v)) = JsonValue(v)
BY Zenon DEF JsonValue

LEMMA JsonTexts ==
  \A text \in {"", "0s", "60s", "benchmark"} : \A v : JsonValue(v) = text <=> v = text
BY NumbersAreNoTexts, Zenon DEF JsonValue

LEMMA JsonCopyIs ==
  ASSUME NEW cfg
  PROVE  Complete(JsonCopy(cfg)) /\ \A key \in Keys : JsonCopy(cfg)[key] = JsonValue(cfg[key])
BY Zenon DEF JsonCopy, Complete

\* What a run has is what its body says, and otherwise what the program has.
LEMMA RunIsAsTranslated ==
  ASSUME NEW body, NEW cfg, cfg = JsonCopy(TranslateApiConfig(body))
  PROVE  /\ \A key \in Keys : key # IdKey /\ key # WarmupKey =>
              cfg[key] = JsonValue(IF Says(body, key) THEN body[key] ELSE startup[key])
         /\ \A id : id # "" /\ id = (IF Says(body, IdKey) THEN body[IdKey] ELSE startup[IdKey])
              => cfg[IdKey] = JsonValue(id)
         /\ \A warmup : warmup = (IF Says(body, WarmupKey) THEN body[WarmupKey] ELSE startup[WarmupKey])
              => cfg[WarmupKey] = IF warmup # "" THEN JsonValue(warmup)
                                  ELSE IF cfg[ModeKey] = "benchmark" THEN "60s" ELSE "0s"
<1> DEFINE own(key) == IF Says(body, key) THEN body[key] ELSE startup[key]
           m == MergeApi(JsonCopy(startup), body)
           i == Identified(m, "run")
           w == WithWarmup(i, "0s")
<1>1. Complete(m)
  BY Zenon DEF MergeApi, Complete
<1>2. \A key \in Keys : JsonValue(m[key]) = JsonValue(own(key))
  <2>1. \A key \in Keys :
          m[key] = IF Says(body, key) THEN body[key] ELSE JsonValue(startup[key])
    BY JsonCopyIs, Zenon DEF MergeApi
  <2> HIDE DEF m
  <2> QED BY <2>1, JsonValueTwice, Zenon
<1> HIDE DEF m
<1>3. /\ Complete(i) /\ (m[IdKey] # "" => i[IdKey] = m[IdKey])
      /\ \A key \in Keys : key # IdKey => i[key] = m[key]
  BY <1>1, IdentifiedIs, Zenon
<1> HIDE DEF i
<1>4. /\ \A key \in Keys : key # WarmupKey => w[key] = i[key]
      /\ w[WarmupKey] = IF i[WarmupKey] # "" THEN i[WarmupKey]
                        ELSE IF i[ModeKey] = "benchmark" THEN "60s" ELSE "0s"
  <2>1. \A o : /\ \A key \in Keys : key # WarmupKey => WithWarmup(i, o)[key] = i[key]
              /\ WithWarmup(i, o)[WarmupKey] =
                   IF i[WarmupKey] # "" THEN i[WarmupKey]
                   ELSE IF i[ModeKey] = "benchmark" THEN "60s" ELSE o
    <3>1. Complete(i)
      BY <1>3, Zenon
    <3> QED BY <3>1, WithWarmupIs, Zenon
  <2> QED BY <2>1, Zenon
<1> HIDE DEF w
<1>5. \A key \in Keys : cfg[key] = JsonValue(w[key])
  <2>1. TranslateApiConfig(body) = w
    BY Zenon DEF TranslateApiConfig, w, i, m
  <2> QED BY <2>1, JsonCopyIs, Zenon
<1>6. i[WarmupKey] = m[WarmupKey] /\ w[ModeKey] = i[ModeKey] /\ w[IdKey] = i[IdKey]
  BY <1>3, <1>4, KeysDiffer
<1> HIDE DEF own
<1>7. \A key \in Keys : key # IdKey /\ key # WarmupKey => cfg[key] = JsonValue(own(key))
  BY <1>2, <1>3, <1>4, <1>5, Zenon
<1>8. ASSUME NEW key \in Keys PROVE m[key] = "" <=> own(key) = ""
  <2>1. \A v : JsonValue(v) = "" <=> v = ""
    BY JsonTexts, Zenon
  <2> QED BY <1>2, <2>1, Zenon
<1>9. own(IdKey) # "" => cfg[IdKey] = JsonValue(own(IdKey))
  <2>1. own(IdKey) # "" => w[IdKey] = m[IdKey]
    BY <1>3, <1>6, <1>8, KeysDiffer, Zenon
  <2> QED BY <1>2, <1>5, <2>1, KeysDiffer, Zenon
<1>10. cfg[WarmupKey] = IF own(WarmupKey) # "" THEN JsonValue(own(WarmupKey))
                        ELSE IF cfg[ModeKey] = "benchmark" THEN "60s" ELSE "0s"
  <2>1. cfg[ModeKey] = "benchmark" <=> w[ModeKey] = "benchmark"
    BY <1>5, JsonTexts, KeysDiffer, Zenon
  <2>2. JsonValue("60s") = "60s" /\ JsonValue("0s") = "0s"
    BY JsonTexts, Zenon
  <2>3. cfg[WarmupKey] = JsonValue(w[WarmupKey])
    BY <1>5, KeysDiffer, Zenon
  <2>4. CASE own(WarmupKey) # ""
    <3>1. w[WarmupKey] = m[WarmupKey]
      BY <1>4, <1>6, <1>8, <2>4, KeysDiffer, Zenon
    <3> QED BY <1>2, <2>3, <2>4, <3>1, KeysDiffer, Zenon
  <2>5. CASE own(WarmupKey) = ""
    <3>1. w[WarmupKey] = IF w[ModeKey] = "benchmark" THEN "60s" ELSE "0s"
      BY <1>4, <1>6, <1>8, <2>5, KeysDiffer, Zenon
    <3> QED BY <2>1, <2>2, <2>3, <2>5, <3>1, Zenon
  <2> QED BY <2>4, <2>5
<1> QED BY <1>7, <1>9, <1>10, Zenon DEF own

\* The program's configuration stays as it was loaded, and each run's is laid over it.
Configured == {[body |-> body, cfg |-> JsonCopy(TranslateApiConfig(body))] : body \in Layers}
ConfigInv == startup = LoadConfig(file) /\ started \in Seq(Configured)

LEMMA ConfigInitInv == ConfigInit => ConfigInv
BY DEF ConfigInit, ConfigInv

LEMMA ConfigNextInv == ConfigInv /\ [ConfigNext]_settings => ConfigInv'
<1> SUFFICES ASSUME ConfigInv, [ConfigNext]_settings PROVE ConfigInv'
  OBVIOUS
<1>1. UNCHANGED <<startup, file, environment>>
  BY DEF ConfigNext, PostRunStart, StartupAfter, settings
<1>2. \A body : TranslateApiConfig(body)' = TranslateApiConfig(body)
  BY <1>1 DEF TranslateApiConfig, JsonCopy
<1>3. LoadConfig(file)' = LoadConfig(file)
  BY <1>1 DEF LoadConfig, Addressed
<1>4. Configured' = Configured
  BY <1>2 DEF Configured
<1>5. started' \in Seq(Configured)
  <2>1. CASE started' = started
    BY <2>1 DEF ConfigInv
  <2>2. ASSUME NEW body \in Layers, PostRunStart(body) PROVE started' \in Seq(Configured)
    <3> DEFINE run == [body |-> body, cfg |-> JsonCopy(TranslateApiConfig(body))]
    <3>1. run \in Configured
      BY Zenon DEF Configured
    <3>2. started' = Append(started, run)
      BY <2>2, Zenon DEF PostRunStart
    <3> HIDE DEF run
    <3> QED BY <3>1, <3>2 DEF ConfigInv
  <2> QED BY <2>1, <2>2 DEF ConfigNext, settings
<1> QED BY <1>1, <1>3, <1>4, <1>5 DEF ConfigInv

\* What RunIsAsAsked says of a run and a setting.
Asked(run, key) == IF Says(run.body, key) THEN run.body[key] ELSE Told(key)
IdAsAsked(run, key) == Asked(run, key) # "" => run.cfg[key] = JsonValue(Asked(run, key))
WarmupAsAsked(run, key) ==
  run.cfg[key] = (IF Asked(run, key) # "" THEN JsonValue(Asked(run, key)) ELSE WarmupOf(run))
OtherAsAsked(run, key) == run.cfg[key] = JsonValue(Asked(run, key))
AsAsked(run, key) ==
  CASE key = IdKey -> IdAsAsked(run, key)
    [] key = WarmupKey -> WarmupAsAsked(run, key)
    [] OTHER -> OtherAsAsked(run, key)

LEMMA RunIsAsAskedIs ==
  (\A i \in DOMAIN started : \A key \in Keys : AsAsked(started[i], key)) => RunIsAsAsked
BY Zenon DEF RunIsAsAsked, AsAsked, IdAsAsked, WarmupAsAsked, OtherAsAsked, Asked, IdKey, WarmupKey

LEMMA ConfiguredAsAsked == ConfigInv => RunIsAsAsked
<1> SUFFICES ASSUME ConfigInv, NEW i \in DOMAIN started, NEW key \in Keys
             PROVE  AsAsked(started[i], key)
  BY RunIsAsAskedIs
<1>1. PICK run : run = started[i]
  OBVIOUS
<1>2. run.cfg = JsonCopy(TranslateApiConfig(run.body))
  <2>1. run \in Configured
    BY <1>1 DEF ConfigInv
  <2>2. PICK body \in Layers : run = [body |-> body, cfg |-> JsonCopy(TranslateApiConfig(body))]
    BY <2>1, Zenon DEF Configured
  <2>3. run.body = body /\ run.cfg = JsonCopy(TranslateApiConfig(body))
    BY <2>2, Zenon
  <2> QED BY <2>3, Zenon
<1>3. startup = LoadConfig(file) /\ Complete(startup)
  BY ProgramIsAsTold DEF ConfigInv
<1> DEFINE Own(k) == IF Says(run.body, k) THEN run.body[k] ELSE startup[k]
<1>4. /\ \A k \in Keys : k # IdKey /\ k # WarmupKey => run.cfg[k] = JsonValue(Own(k))
      /\ \A id : id # "" /\ id = Own(IdKey) => run.cfg[IdKey] = JsonValue(id)
      /\ \A warmup : warmup = Own(WarmupKey)
           => run.cfg[WarmupKey] = IF warmup # "" THEN JsonValue(warmup)
                                   ELSE IF run.cfg[ModeKey] = "benchmark" THEN "60s" ELSE "0s"
  BY <1>2, RunIsAsTranslated, Zenon
<1>5. /\ \A k \in Keys : k # IdKey /\ k # WarmupKey => startup[k] = Told(k)
      /\ Told(IdKey) # "" => startup[IdKey] = Told(IdKey)
      /\ startup[WarmupKey] = IF Told(WarmupKey) # "" THEN Told(WarmupKey)
                              ELSE IF Told(ModeKey) = "benchmark" THEN "60s" ELSE ""
  BY <1>3, ProgramIsAsTold, Zenon
<1>6. IdAsAsked(run, IdKey)
  BY <1>4, <1>5, Zenon DEF IdAsAsked, Asked
<1>7. WarmupAsAsked(run, WarmupKey)
  <2>1. Says(run.body, WarmupKey) <=> WarmupKey \in DOMAIN run.body
    BY KeysDiffer DEF Says
  <2>2. WarmupOf(run) = IF run.cfg[ModeKey] = "benchmark" \/ (Told(WarmupKey) = ""
                             /\ WarmupKey \notin DOMAIN run.body /\ Told(ModeKey) = "benchmark")
                        THEN "60s" ELSE "0s"
    BY Zenon DEF WarmupOf, WarmupKey, ModeKey
  <2>3. run.cfg[WarmupKey] = IF Own(WarmupKey) # "" THEN JsonValue(Own(WarmupKey))
                             ELSE IF run.cfg[ModeKey] = "benchmark" THEN "60s" ELSE "0s"
    BY <1>4, Zenon
  <2>4. CASE Says(run.body, WarmupKey)
    BY <2>1, <2>2, <2>3, <2>4, Zenon DEF WarmupAsAsked, Asked
  <2>5. CASE ~Says(run.body, WarmupKey)
    <3>1. CASE Told(WarmupKey) # ""
      <4>1. Asked(run, WarmupKey) = Told(WarmupKey) /\ Own(WarmupKey) = Told(WarmupKey)
        BY <1>5, <2>5, <3>1, Zenon DEF Asked
      <4> HIDE DEF Own
      <4> QED BY <2>3, <3>1, <4>1, Zenon DEF WarmupAsAsked
    <3>2. CASE Told(WarmupKey) = ""
      <4>1. Asked(run, WarmupKey) = "" /\ "60s" # ""
            /\ Own(WarmupKey) = IF Told(ModeKey) = "benchmark" THEN "60s" ELSE ""
        BY <1>5, <2>5, <3>2, Zenon DEF Asked
      <4>3. JsonValue("60s") = "60s"
        BY JsonTexts, Zenon
      <4>2. WarmupKey \notin DOMAIN run.body
        BY <2>1, <2>5
      <4> HIDE DEF Own
      <4> QED BY <2>2, <2>3, <3>2, <4>1, <4>2, <4>3, Zenon DEF WarmupAsAsked
    <3> QED BY <3>1, <3>2, Zenon
  <2> QED BY <2>4, <2>5
<1>8. key # IdKey /\ key # WarmupKey => OtherAsAsked(run, key)
  BY <1>4, <1>5, Zenon DEF OtherAsAsked, Asked
<1>9. IdKey # WarmupKey
  BY KeysDiffer
<1> QED BY <1>1, <1>6, <1>7, <1>8, <1>9 DEF AsAsked

\* Whatever files and bodies there are, and in whatever order runs ask for what: the
\* configuration of a run is its own body's, then the program's, setting by setting.
THEOREM RunsAreAsAsked == ConfigSpec => []RunIsAsAsked
BY ConfigInitInv, ConfigNextInv, ConfiguredAsAsked, PTL DEF ConfigSpec
=============================================================================

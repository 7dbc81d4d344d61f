--------------------------- MODULE BurninCleanup ---------------------------
(***************************************************************************)
(* Who deletes channels of the broker: POST /cleanup, with a client of its *)
(* own, those of the latest run, or all of the burn-in's when there was no *)
(* run; and the shutdown of a run, with the engine's client, all of them.  *)
(*                                                                         *)
(* Both list and delete the channels one kind after the other, and pass    *)
(* over what fails.  The shutdown waits for its clean-up for some time     *)
(* only; and it looks up the engine's client at every call, also when that *)
(* is the client of the next run.                                          *)
(***************************************************************************)
EXTENDS Integers, FiniteSets

CONSTANTS
  KindCount,    \* kinds of channels: 5
  MaxCleaned,   \* bound: runs
  MaxCleanups   \* bound: POST /cleanup

ASSUME CleanupConstants == KindCount \in Nat \ {0} /\ MaxCleaned \in Nat /\ MaxCleanups \in Nat

VARIABLES
  phase,     \* of the engine: "none", "idle", "active", "draining", "cleaning", "closing", "stopped"
  latest,    \* the latest run, 0 before the first
  user,      \* the run whose client is the engine's client, 0 for null
  existing,  \* the channels at the broker: kind and run
  jobs,      \* what each clean-up does
  asked      \* bound: how many POST /cleanup there were

cleanup == <<phase, latest, user, existing, jobs, asked>>

Jobs == {"api", "shutdown"}
Kinds == 1..KindCount
All == 0  \* the prefix of all channels of the burn-in

NoJob == [kind |-> KindCount + 1, prefix |-> All, found |-> {}, since |-> 0]
Begun(prefix) == [kind |-> 1, prefix |-> prefix, found |-> {}, since |-> latest]
Works(j) == jobs[j].kind <= KindCount

UnusedCleanup ==
  /\ latest = 0 /\ user = 0 /\ existing = {} /\ asked = 0
  /\ jobs = [j \in Jobs |-> NoJob]

CleanupInit == phase = "idle" /\ UnusedCleanup

-----------------------------------------------------------------------------
\* A run starts, gets its client, and makes its channels.
RunStarts ==
  /\ phase \in {"idle", "stopped"} /\ latest < MaxCleaned
  /\ phase' = "active" /\ latest' = latest + 1 /\ user' = latest'
  /\ existing' = existing \cup (Kinds \X {latest'})
  /\ UNCHANGED <<jobs, asked>>

RunStops ==
  /\ phase = "active" /\ phase' = "draining"
  /\ UNCHANGED <<latest, user, existing, jobs, asked>>

\* The clean-up of the shutdown begins, if shutdown.cleanup_channels says so.
ShutdownCleans ==
  /\ phase = "draining"
  /\ \/ phase' = "cleaning" /\ jobs' = [jobs EXCEPT !["shutdown"] = Begun(All)]
     \/ phase' = "closing" /\ UNCHANGED jobs
  /\ UNCHANGED <<latest, user, existing, asked>>

\* It is over, or takes too long and is left alone.
ShutdownGoesOn ==
  /\ phase = "cleaning" /\ phase' = "closing"
  /\ UNCHANGED <<latest, user, existing, jobs, asked>>

RunCloses ==
  /\ phase = "closing" /\ phase' = "stopped" /\ user' = 0
  /\ UNCHANGED <<latest, existing, jobs, asked>>

-----------------------------------------------------------------------------
\* Mutant: the state of the engine is not looked at.
MayCleanMutant == TRUE

\* handleCleanup(): not while a run is active.
MayClean == phase \in {"idle", "stopped"}

HandleCleanup ==
  /\ MayClean /\ ~Works("api") /\ asked < MaxCleanups
  /\ asked' = asked + 1
  /\ jobs' = [jobs EXCEPT !["api"] = Begun(latest)]
  /\ UNCHANGED <<phase, latest, user, existing>>

\* The clean-up has a client to list and delete with.
HasClient(j) == j = "api" \/ user # 0

Matching(j) ==
  {r \in 1..latest : <<jobs[j].kind, r>> \in existing /\ jobs[j].prefix \in {All, r}}

\* The next kind of channels is listed; what a list that fails would have found is left.
Lists(j) ==
  /\ Works(j) /\ jobs[j].found = {}
  /\ \/ /\ HasClient(j) /\ Matching(j) # {}
        /\ jobs' = [jobs EXCEPT ![j].found = Matching(j)]
     \/ jobs' = [jobs EXCEPT ![j].kind = @ + 1]
  /\ UNCHANGED <<phase, latest, user, existing, asked>>

\* A channel that was listed is deleted, unless that fails.
Deletes(j) ==
  /\ Works(j)
  /\ \E r \in jobs[j].found :
       /\ jobs' = [jobs EXCEPT ![j].found = @ \ {r},
                               ![j].kind = IF jobs[j].found = {r} THEN @ + 1 ELSE @]
       /\ \/ HasClient(j) /\ existing' = existing \ {<<jobs[j].kind, r>>}
          \/ UNCHANGED existing
  /\ UNCHANGED <<phase, latest, user, asked>>

CleanupNext ==
  \/ RunStarts \/ RunStops \/ ShutdownCleans \/ ShutdownGoesOn \/ RunCloses \/ HandleCleanup
  \/ \E j \in Jobs : Lists(j) \/ Deletes(j)

CleanupSpec == CleanupInit /\ [][CleanupNext]_cleanup

-----------------------------------------------------------------------------
Uses(channel) == phase = "active" /\ channel[2] = latest

\* Only a clean-up that is older than the run that is active deletes a channel of it; and
\* a clean-up of one run's channels deletes no other's.
CleanupSparesRuns ==
  [][\A channel \in existing \ existing' :
       \E j \in Jobs :
         /\ jobs[j] # jobs'[j] /\ channel[2] \in jobs[j].found
         /\ Uses(channel) => jobs[j].since < latest /\ jobs[j].prefix = All]_cleanup

-----------------------------------------------------------------------------
\* What does not hold.

\* engine.ts, cleanupChannels(): "Use run-scoped prefix if we have a run_id": no clean-up
\* deletes channels of a run that is active.
RunsKeepTheirChannels == phase = "active" => Kinds \X {latest} \subseteq existing

\* GAP-REPORT.md E9: "POST /cleanup - delete all js_burnin_* channels".
CleanupTakesAll ==
  asked > 0 /\ MayClean /\ ~Works("api") /\ ~Works("shutdown") => existing = {}
=============================================================================

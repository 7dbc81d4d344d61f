----------------------------- MODULE TokenCache -----------------------------
(***************************************************************************)
(* The token cache of a transport and those who ask it: the credentials of *)
(* every call when TLS is on, and connect() alone when it is off, after    *)
(* which calls take what lastKnownToken finds in the cache.                *)
(*                                                                         *)
(* A fetch runs while the provider works and is settled until the finally  *)
(* of fetchToken() has run.  Fetches and callers are numbered only to tell *)
(* them apart and used again, so that behaviours have no bound.            *)
(***************************************************************************)
EXTENDS Naturals, FiniteSets

CONSTANTS
  Callers,          \* callers of getToken() at any one time
  MaxOutstanding    \* bound on fetches outstanding at once

ASSUME TokenConstants == MaxOutstanding \in Nat \ {0}

VARIABLES
  tls,         \* TLS is enabled
  connected,   \* connect() has got its token
  cached,      \* "none", "forever", "long" for a token that expires, "expired"
  pending,     \* the fetch others join, or None
  running,     \* fetches that await the provider
  settled,     \* fetches that are over, and whether they brought a token
  timer,       \* the refresh timer is armed
  awaits,      \* the fetch each caller awaits, or None
  disposed     \* history: dispose() was called

tokenVars == <<tls, connected, cached, pending, running, settled, timer, awaits, disposed>>

None == 0
Fetches == 1..MaxOutstanding
Outstanding == running \cup {s[1] : s \in settled}
Usable == cached \in {"forever", "long"}

TokenInit ==
  /\ tls \in BOOLEAN /\ connected = tls
  /\ cached = "none" /\ pending = None /\ running = {} /\ settled = {}
  /\ timer = FALSE /\ awaits = [c \in Callers |-> None] /\ disposed = FALSE

-----------------------------------------------------------------------------
\* Mutant: whoever needs a token fetches one.
JoinedMutant == None

\* The fetch that others join.
Joined == pending

\* fetchToken(), while the fetches in rest await the provider: f is the fetch awaited,
\* the pending one or a new one.
FetchToken(f, rest) ==
  IF Joined # None THEN f = pending /\ pending' = pending /\ running' = rest
  ELSE /\ f \in Fetches \ Outstanding /\ \A g \in Fetches \ Outstanding : f <= g
       /\ pending' = f /\ running' = rest \cup {f}

\* getToken(): answered at once, or by a fetch.  Without TLS only connect() asks.
Ask(c) ==
  /\ awaits[c] = None
  /\ tls \/ (~connected /\ \A d \in Callers : awaits[d] = None)
  /\ \/ Usable /\ connected' = TRUE /\ UNCHANGED <<pending, running, awaits>>
     \/ /\ ~Usable /\ UNCHANGED connected
        /\ \E f \in Fetches : FetchToken(f, running) /\ awaits' = [awaits EXCEPT ![c] = f]
  /\ UNCHANGED <<tls, cached, settled, timer, disposed>>

\* triggerProactiveRefresh(): the cache is emptied, then filled by a fetch.
Refresh(rest) ==
  /\ cached' = "none" /\ timer' = FALSE
  /\ \E f \in Fetches : FetchToken(f, rest)

\* Mutant: the timer of a token that expires is not armed.
RearmMutant(token) == UNCHANGED timer

\* scheduleProactiveRefresh(), for a token that expires after the margin.
Rearm(token) == timer' = (timer \/ token = "long")

\* The provider answers a fetch.  A token that expires within the margin is refreshed
\* at once, which joins the fetch that brought it unless dispose() came in between.
ProviderAnswers(f) ==
  /\ f \in running /\ settled' = settled \cup {<<f, TRUE>>}
  /\ \/ \E token \in {"forever", "long"} :
          cached' = token /\ Rearm(token) /\ running' = running \ {f} /\ UNCHANGED pending
     \/ Refresh(running \ {f})
  /\ UNCHANGED <<tls, connected, awaits, disposed>>

\* The provider fails.
ProviderFails(f) ==
  /\ f \in running
  /\ running' = running \ {f} /\ settled' = settled \cup {<<f, FALSE>>}
  /\ UNCHANGED <<tls, connected, cached, pending, timer, awaits, disposed>>

\* Mutant: fetchToken() has no finally.
ForgetsMutant(f) == UNCHANGED pending

\* The finally of fetchToken(): no fetch is pending, whichever one was.
Forgets(f) == pending' = None

\* The promise of a fetch is settled: its callers go on, connect() if it has a token.
Settles(f) ==
  \E ok \in BOOLEAN :
    /\ <<f, ok>> \in settled /\ settled' = settled \ {<<f, ok>>}
    /\ Forgets(f)
    /\ awaits' = [c \in Callers |-> IF awaits[c] = f THEN None ELSE awaits[c]]
    /\ connected' = (connected \/ (ok /\ \E c \in Callers : awaits[c] = f))
    /\ UNCHANGED <<tls, cached, running, timer, disposed>>

\* The refresh timer fires.
TimerFires ==
  /\ timer
  /\ Refresh(running)
  /\ UNCHANGED <<tls, connected, settled, awaits, disposed>>

\* The token expires before its timer has run.
Expires ==
  /\ cached = "long" /\ cached' = "expired"
  /\ UNCHANGED <<tls, connected, pending, running, settled, timer, awaits, disposed>>

\* invalidate(): nothing in the library calls it, its tests do.
Invalidate ==
  /\ cached' = "none" /\ timer' = FALSE
  /\ UNCHANGED <<tls, connected, pending, running, settled, awaits, disposed>>

\* dispose(), when the transport has closed.
Dispose ==
  /\ connected
  /\ cached' = "none" /\ timer' = FALSE /\ pending' = None /\ disposed' = TRUE
  /\ UNCHANGED <<tls, connected, running, settled, awaits>>

TokenNext ==
  \/ \E c \in Callers : Ask(c)
  \/ \E f \in Fetches : ProviderAnswers(f) \/ ProviderFails(f) \/ Settles(f)
  \/ TimerFires \/ Expires \/ Invalidate \/ Dispose

TokenSpec == TokenInit /\ [][TokenNext]_tokenVars

\* Promises and timers are served, and a provider answers in the end.
TokenFairness ==
  /\ \A f \in Fetches : WF_tokenVars(Settles(f)) /\ WF_tokenVars(ProviderAnswers(f) \/ ProviderFails(f))
  /\ WF_tokenVars(TimerFires)

TokenFairSpec == TokenSpec /\ TokenFairness

-----------------------------------------------------------------------------
\* Every variable stays in its type; the fetch that others join is outstanding.
TokenTypeOK ==
  /\ tls \in BOOLEAN /\ connected \in BOOLEAN /\ disposed \in BOOLEAN /\ timer \in BOOLEAN
  /\ cached \in {"none", "forever", "long", "expired"}
  /\ pending \in Outstanding \cup {None}
  /\ running \subseteq Fetches /\ settled \subseteq Fetches \X BOOLEAN
  /\ awaits \in [Callers -> Fetches \cup {None}]

\* At most one call of the provider is outstanding, however many callers find the
\* cache empty and whatever empties it, until the transport is closed.
OneFetch == ~disposed => Cardinality(running) <= 1

\* A token that will expire has a timer to refresh it, and a timer is armed only while
\* there is a token: neither invalidate(), nor dispose(), nor a late answer leaves a
\* token that nobody renews or a timer that renews nothing.
RefreshArmed == (cached = "long" => timer) /\ (timer => cached # "none")

\* Whoever awaits a token is answered, by the fetch it joined.
CallersAnswered ==
  \A c \in Callers : awaits[c] # None ~> awaits[c] = None

-----------------------------------------------------------------------------
\* What comments of the repository say and the code does not do.

\* credential-provider.ts: the provider is invoked when no cached token exists.
\* Without TLS nobody but the refresh invokes it after connect(): when that fails, or
\* its token expires within the margin, calls go on without a token for good.
TokenReturns ==
  ~tls /\ connected /\ cached = "none" ~> cached # "none" \/ disposed
=============================================================================

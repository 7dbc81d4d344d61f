----------------------------- MODULE BurninRpc -----------------------------
(***************************************************************************)
(* A channel of a burn-in pattern of requests, commands or queries: its    *)
(* senders, the requests each of them has in flight, the responder, and    *)
(* the worker's counters.                                                  *)
(*                                                                         *)
(* A sender waits for the limiter, which lets it go on some time or tells  *)
(* it to stop, issues a request as a task of its own, and goes on until    *)
(* Concurrency of them are in flight.  Told to stop, it awaits the rest.   *)
(***************************************************************************)
EXTENDS Integers, FiniteSets, FiniteSetsExt

CONSTANTS
  Senders,      \* the senders of the channel
  Concurrency,  \* SENDER_CONCURRENCY, 16
  MaxIssued,    \* bound: requests of each sender
  IsQuery       \* the pattern is queries, not commands

ASSUME RpcConstants ==
  /\ IsFiniteSet(Senders) /\ Concurrency \in Nat \ {0} /\ MaxIssued \in Nat /\ IsQuery \in BOOLEAN

VARIABLES
  place,     \* where runSender() of each sender is
  inflight,  \* of each sender: the requests, each "asked" or with the answer it will get
  issued,    \* how many requests each sender has issued
  stopped,   \* the producers' abort signal
  responding,  \* the subscriptions of the responders are there
  tally,     \* success, timeout, error; errors, sent and corrupted
  forgotten  \* history: requests that had been counted when the counters were reset

requests == <<place, inflight, issued>>
rpc == <<requests, stopped, responding, tally, forgotten>>

NoTally == [success |-> 0, timeout |-> 0, error |-> 0, errors |-> 0, sent |-> 0, corrupted |-> 0]

RpcInit ==
  /\ place = [s \in Senders |-> "loop"]
  /\ inflight = [s \in Senders |-> <<>>] /\ issued = [s \in Senders |-> 0]
  /\ stopped = FALSE /\ responding = TRUE
  /\ tally = NoTally /\ forgotten = 0

InFlight(s) == Cardinality(DOMAIN inflight[s])

\* How many requests are over.
Settled == MapThenSumSet(LAMBDA s : issued[s] - InFlight(s), Senders)

With(f, n, value) == [i \in DOMAIN f \cup {n} |-> IF i = n THEN value ELSE f[i]]
Without(f, n) == [i \in DOMAIN f \ {n} |-> f[i]]

-----------------------------------------------------------------------------
\* Mutant: the requests in flight are not counted.
FullMutant(size) == FALSE

\* The sender waits for one of its requests before it issues another.
Full(size) == size >= Concurrency

\* The limiter grants a token; a request is issued.
Issue(s) ==
  /\ place[s] = "loop" /\ ~stopped /\ issued[s] < MaxIssued
  /\ issued' = [issued EXCEPT ![s] = @ + 1]
  /\ inflight' = [inflight EXCEPT ![s] = With(@, issued'[s], "asked")]
  /\ place' = [place EXCEPT ![s] = IF Full(InFlight(s) + 1) THEN "race" ELSE @]
  /\ UNCHANGED <<stopped, responding, tally, forgotten>>

\* The limiter refuses, or the loop sees the signal: the rest is awaited.
Drain(s) ==
  /\ stopped /\ place[s] = "loop"
  /\ place' = [place EXCEPT ![s] = "drain"]
  /\ UNCHANGED <<inflight, issued, stopped, responding, tally, forgotten>>

\* Promise.allSettled().
End(s) ==
  /\ place[s] = "drain" /\ InFlight(s) = 0
  /\ place' = [place EXCEPT ![s] = "ended"]
  /\ UNCHANGED <<inflight, issued, stopped, responding, tally, forgotten>>

-----------------------------------------------------------------------------
\* The responder answers, unless it cannot send its answer.  A query is answered with its
\* body, which may be damaged on the way.
RespondCommand == {"done", "unanswered", "refused"}
RespondQuery == RespondCommand \cup {"damaged"}

Respond(s, n) ==
  /\ responding /\ n \in DOMAIN inflight[s] /\ inflight[s][n] = "asked"
  /\ \E answer \in IF IsQuery THEN RespondQuery ELSE RespondCommand :
       /\ inflight' = [inflight EXCEPT ![s][n] = answer]
       /\ tally' = IF answer = "unanswered" THEN [tally EXCEPT !.errors = @ + 1] ELSE tally
  /\ UNCHANGED <<place, issued, stopped, responding, forgotten>>

\* How a command is counted: answered, refused by an answer with an error, or failed.
CountCommand(t, outcome) ==
  CASE outcome \in {"done", "damaged"} -> [t EXCEPT !.success = @ + 1, !.sent = @ + 1]
    [] outcome = "refused" -> [t EXCEPT !.error = @ + 1]
    [] outcome = "late" -> [t EXCEPT !.timeout = @ + 1]
    [] outcome = "timeout" -> [t EXCEPT !.timeout = @ + 1, !.errors = @ + 1]
    [] OTHER -> [t EXCEPT !.error = @ + 1, !.errors = @ + 1]

\* A query whose answer is damaged is a success, and corrupted.
CountQuery(t, outcome) ==
  LET counted == CountCommand(t, outcome)
  IN IF outcome = "damaged" THEN [counted EXCEPT !.corrupted = @ + 1] ELSE counted

\* Mutant: a request that failed is an error and nothing else.
CountedMutant(t, outcome) ==
  IF outcome = "failed" THEN [t EXCEPT !.errors = @ + 1]
  ELSE IF IsQuery THEN CountQuery(t, outcome) ELSE CountCommand(t, outcome)

Counted(t, outcome) == IF IsQuery THEN CountQuery(t, outcome) ELSE CountCommand(t, outcome)

\* A request settles: with its answer, an error of the broker's that says it was late, a
\* timeout of the call, or another failure.  Its sender goes on if it waited for one.
Settle(s, n) ==
  /\ n \in DOMAIN inflight[s]
  /\ \E outcome \in ({inflight[s][n]} \ {"asked", "unanswered"}) \cup {"late", "timeout", "failed"} :
       tally' = Counted(tally, outcome)
  /\ inflight' = [inflight EXCEPT ![s] = Without(@, n)]
  /\ place' = [place EXCEPT ![s] = IF @ = "race" THEN "loop" ELSE @]
  /\ UNCHANGED <<issued, stopped, responding, forgotten>>

-----------------------------------------------------------------------------
\* resetAfterWarmup(), once, while requests are in flight.
ResetRpc ==
  /\ ~stopped /\ forgotten = 0
  /\ tally' = NoTally
  /\ forgotten' = Settled
  /\ UNCHANGED <<requests, stopped, responding>>

StopSenders ==
  /\ ~stopped /\ stopped' = TRUE
  /\ UNCHANGED <<requests, responding, tally, forgotten>>

StopResponders ==
  /\ stopped /\ responding /\ responding' = FALSE
  /\ UNCHANGED <<requests, stopped, tally, forgotten>>

Settles(s) == \E n \in 1..MaxIssued : Settle(s, n)

RpcNext ==
  \/ \E s \in Senders :
       \/ Issue(s) \/ Drain(s) \/ End(s) \/ Settles(s)
       \/ \E n \in 1..MaxIssued : Respond(s, n)
  \/ ResetRpc \/ StopSenders \/ StopResponders

\* A call settles: it has a deadline.
RpcFairness == \A s \in Senders : WF_rpc(Drain(s) \/ End(s)) /\ WF_rpc(Settles(s))

RpcSpec == RpcInit /\ [][RpcNext]_rpc /\ RpcFairness

-----------------------------------------------------------------------------
\* No sender has more requests in flight than it may, each request that settled is
\* counted once, as a success, a timeout or an error, also when it was issued before the
\* counters were reset, and a sender that is over has none in flight.
RpcAccounted ==
  /\ \A s \in Senders :
       /\ InFlight(s) <= Concurrency /\ (place[s] = "race" <=> InFlight(s) = Concurrency)
       /\ place[s] = "ended" => InFlight(s) = 0
  /\ tally.success + tally.timeout + tally.error + forgotten = Settled

\* After stopProducers() every sender ends.
SendersEnd == stopped ~> \A s \in Senders : place[s] = "ended"
=============================================================================

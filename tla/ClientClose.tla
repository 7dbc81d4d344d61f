---------------------------- MODULE ClientClose ----------------------------
(***************************************************************************)
(* close() of the client, beside the two kinds of subscription it meets:   *)
(* one that was made before ("first", the CallbackDispatcher this module   *)
(* extends) and one that may be made at any time, before close() or while  *)
(* it is at work ("late", of which only DrainableWork is kept; it has the  *)
(* concurrency 1, so that its callbacks end in the order of delivery).     *)
(*                                                                         *)
(* close() goes through its awaits one by one: the drain of the            *)
(* dispatchers known when it was called, raced with a timer, the close of  *)
(* the shared senders, and the close of the transport.  Subscriptions are  *)
(* accepted until the transport is told to close.                          *)
(***************************************************************************)
EXTENDS CallbackDispatcher

CONSTANTS
  Hanging,   \* the messages whose handler never returns
  MaxLate    \* bound: messages of the late subscription

ASSUME CloseConstants == Hanging \subseteq Messages /\ MaxLate \in Nat

VARIABLES
  phase,           \* where #doClose is
  registered,      \* #activeDispatchers
  awaited,         \* the dispatchers whose drain() #doClose awaits
  timedOut,        \* the callback timer fired before the drains
  lateOut, lateClosed, lateDrain,  \* the dispatcher of the late subscription
  lateSent,        \* how many messages it received
  lateMade,        \* history: the phase in which it was made, "never"
  cancelled,       \* history: dispatchers closed by cancel() of their subscription
  owed,            \* history: messages the first had received when close() was called
  lateOwed         \* history: callbacks of the late one outstanding then, and since

lateDispatcher == <<lateOut, lateClosed, lateDrain>>
late == <<lateDispatcher, lateSent, lateMade>>
closing == <<phase, registered, awaited, timedOut, cancelled, owed, lateOwed>>
clientVars == <<vars, late, closing>>

Late == INSTANCE DrainableWork
  WITH outstanding <- lateOut, closed <- lateClosed, drain <- lateDrain

CloseInit ==
  /\ Init
  /\ Late!Init /\ lateSent = 0 /\ lateMade = "never"
  /\ phase = "open" /\ registered = {"first"} /\ awaited = {} /\ timedOut = FALSE
  /\ cancelled = {} /\ owed = 0 /\ lateOwed = 0

\* Messages of the first subscription that wait or whose handler runs.
Unsettled ==
  {m \in Messages : \/ m \in running
                    \/ \E i \in 1..Len(waiters) : waiters[i] = m
                    \/ \E i \in 1..Len(granted) : granted[i] = m}

-----------------------------------------------------------------------------
\* The subscriptions.

\* The steps of the first one, which close() does not take.
FirstSteps ==
  /\ \/ Receive \/ Begin \/ Settle
     \/ \E m \in Messages : End(m)
     \/ phase # "closed" /\ Resubscribe
  /\ UNCHANGED <<late, closing>>

\* cancel() of a subscription closes its dispatcher and forgets it.
Forget(d) ==
  /\ registered' = registered \ {d}
  /\ cancelled' = cancelled \cup {d}
  /\ UNCHANGED <<phase, awaited, timedOut, owed, lateOwed>>

CancelFirst == Close /\ Forget("first") /\ UNCHANGED late

CancelLate ==
  /\ lateMade # "never" /\ Late!Close /\ Forget("late")
  /\ UNCHANGED <<vars, lateSent, lateMade>>

\* subscribeTo...(): refused when the transport is closing.
SubscribeLate ==
  /\ lateMade = "never" /\ phase \notin {"transport", "closed"}
  /\ lateMade' = phase
  /\ registered' = registered \cup {"late"}
  /\ UNCHANGED <<vars, lateDispatcher, lateSent, phase, awaited,
                 timedOut, cancelled, owed, lateOwed>>

LateReceive ==
  /\ lateMade # "never" /\ lateSent < MaxLate
  /\ Late!Take
  /\ lateSent' = lateSent + 1
  /\ UNCHANGED <<vars, lateMade, closing>>

LateFinish ==
  /\ Late!Finish
  /\ lateOwed' = IF lateOwed > 0 THEN lateOwed - 1 ELSE 0
  /\ UNCHANGED <<vars, lateSent, lateMade, phase, registered, awaited, timedOut,
                 cancelled, owed>>

-----------------------------------------------------------------------------
\* #doClose.

\* close() is called: the drain() of every dispatcher there is.
CallClose ==
  /\ phase = "open"
  /\ phase' = IF registered = {} THEN "senders" ELSE "draining"
  /\ awaited' = registered
  /\ IF "first" \in registered THEN CallDrain ELSE UNCHANGED vars
  /\ IF "late" \in registered THEN Late!CallDrain ELSE UNCHANGED lateDispatcher
  /\ owed' = received /\ lateOwed' = lateOut
  /\ UNCHANGED <<lateSent, lateMade, registered, timedOut, cancelled>>

\* Mutant: those close() was waiting for.
ToCloseMutant == awaited

\* #activeDispatchers has those that subscribed in the meantime, too.
ToClose == registered

\* The dispatchers are closed and forgotten.
CloseDispatchers ==
  /\ IF "first" \in ToClose /\ ~closed THEN Close ELSE UNCHANGED vars
  /\ IF "late" \in ToClose /\ ~lateClosed THEN Late!Close ELSE UNCHANGED lateDispatcher
  /\ registered' = {}
  /\ phase' = "senders"
  /\ UNCHANGED <<lateSent, lateMade, awaited, cancelled, owed, lateOwed>>

\* Mutant: the first of them is enough.
DrainedMutant == \E d \in awaited : IF d = "first" THEN drain = "resolved" ELSE lateDrain = "resolved"

\* Promise.all of the drains.
Drained == \A d \in awaited : IF d = "first" THEN drain = "resolved" ELSE lateDrain = "resolved"

DrainOver ==
  /\ phase = "draining" /\ Drained
  /\ CloseDispatchers /\ UNCHANGED timedOut

\* Mutant: close() waits for as long as the callbacks take.
TimerSetMutant == FALSE

\* The race has a timer, of 30 s if the caller names no other time.
TimerSet == TRUE

DrainExpires ==
  /\ phase = "draining" /\ TimerSet
  /\ CloseDispatchers /\ timedOut' = TRUE

\* The shared senders that exist are closed one after the other; the close() of each
\* settles what it holds in at most 5 s.  transport.close() is called next: from
\* here on the transport refuses operations.
SendersClosed ==
  /\ phase = "senders" /\ phase' = "transport"
  /\ UNCHANGED <<vars, late, registered, awaited, timedOut, cancelled, owed, lateOwed>>

\* The transport has waited for the calls in flight, or long enough.
TransportClosed ==
  /\ phase = "transport" /\ phase' = "closed"
  /\ UNCHANGED <<vars, late, registered, awaited, timedOut, cancelled, owed, lateOwed>>

CloseNext ==
  \/ FirstSteps \/ CancelFirst
  \/ SubscribeLate \/ LateReceive \/ LateFinish \/ CancelLate
  \/ CallClose \/ DrainOver \/ DrainExpires
  \/ SendersClosed \/ TransportClosed

CloseSpec == CloseInit /\ [][CloseNext]_clientVars

\* Microtasks and timers run, and the handlers that return return.  (That the close
\* of a sender ends is CloseTerminates of StreamingSender.)
CloseFairness ==
  /\ WF_vars(Begin) /\ WF_vars(Settle)
  /\ \A m \in Messages \ Hanging : WF_vars(End(m))
  /\ WF_clientVars(LateFinish)
  /\ WF_clientVars(DrainOver) /\ WF_clientVars(DrainExpires)
  /\ WF_clientVars(SendersClosed) /\ WF_clientVars(TransportClosed)

FairCloseSpec == CloseSpec /\ CloseFairness

-----------------------------------------------------------------------------
\* Every variable of this module stays in its type.
CloseTypeOK ==
  /\ phase \in {"open", "draining", "senders", "transport", "closed"}
  /\ registered \subseteq {"first", "late"} /\ awaited \subseteq {"first", "late"}
  /\ cancelled \subseteq {"first", "late"} /\ timedOut \in BOOLEAN
  /\ lateOut \in Nat /\ lateClosed \in BOOLEAN /\ lateDrain \in {"none", "waiting", "resolved"}
  /\ lateSent \in 0..MaxLate /\ lateMade \in {"never", "open", "draining", "senders"}
  /\ owed \in 0..MaxMessages /\ lateOwed \in Nat

\* close() goes on only when the callbacks that were outstanding when it was called
\* are over, unless its timer fired or their subscription was cancelled.
OwedAreOver ==
  phase \notin {"open", "draining"} /\ ~timedOut =>
    /\ "first" \in cancelled \/ \A m \in Unsettled : m > owed
    /\ "late" \in cancelled \/ lateOwed = 0

\* No dispatcher takes messages behind a close() that has come to the senders, but
\* those of subscriptions made while close() was waiting for the senders.
NoneTakesBehindClose ==
  phase \notin {"open", "draining"} =>
    /\ closed
    /\ lateClosed \/ lateMade \notin {"open", "draining"}

\* Both: close() leaves neither work it owes nor dispatchers it knows behind.
CloseIsOrderly == CloseTypeOK /\ OwedAreOver /\ NoneTakesBehindClose

\* close() ends, whatever the handlers do.
CloseEnds == phase # "open" ~> phase = "closed"

\* Neither a paused stream nor a close() stands still.
NothingStandsStill == PausedResumes /\ CloseEnds

-----------------------------------------------------------------------------
\* What one would expect of a close() that has resolved, and is not so.

\* No dispatcher of this client takes another message.
NoneTakesAfterClose == phase = "closed" => closed /\ (lateMade = "never" \/ lateClosed)

\* No handler begins any more.
NoneBeginsAfterClose == [][phase = "closed" => began' = began]_clientVars
=============================================================================

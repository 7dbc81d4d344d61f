--------------------------- MODULE DrainableWork ---------------------------
(***************************************************************************)
(* What a CallbackDispatcher promises to the one who shuts it down, without *)
(* its queue, permits and microtasks: work is taken while it is open, and  *)
(* drain() resolves when no work is outstanding, or by close().            *)
(***************************************************************************)
EXTENDS Integers

VARIABLES
  outstanding,  \* CallbackDispatcher.active
  closed,       \* CallbackDispatcher._closed
  drain         \* the promise of drain(): "none", "waiting", "resolved"

dispatcher == <<outstanding, closed, drain>>

Init == outstanding = 0 /\ closed = FALSE /\ drain = "none"

\* dispatch() of a message that is not dropped.
Take ==
  /\ ~closed
  /\ outstanding' = outstanding + 1
  /\ UNCHANGED <<closed, drain>>

\* The end of the bookkeeping of one callback.
Finish ==
  /\ outstanding > 0
  /\ outstanding' = outstanding - 1
  /\ drain' = IF drain = "waiting" /\ outstanding = 1 THEN "resolved" ELSE drain
  /\ UNCHANGED closed

\* drain().
CallDrain ==
  /\ drain = "none"
  /\ drain' = IF outstanding = 0 THEN "resolved" ELSE "waiting"
  /\ UNCHANGED <<outstanding, closed>>

\* close().
Close ==
  /\ ~closed
  /\ closed' = TRUE
  /\ drain' = IF drain = "waiting" THEN "resolved" ELSE drain
  /\ UNCHANGED outstanding

Next == Take \/ Finish \/ CallDrain \/ Close

Spec == Init /\ [][Next]_dispatcher
=============================================================================

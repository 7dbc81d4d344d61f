---------------------------- MODULE RequestLine ----------------------------
(***************************************************************************)
(* What a streaming sender promises to those who call it, without its      *)
(* queue, streams, timers and batches.  A request is refused or taken;     *)
(* what was taken is written at most once, in the order in which it was    *)
(* taken, and only while its caller has been told nothing; a caller is     *)
(* told one thing, an answer only to what was written; a request that was  *)
(* cancelled is never written, nor one whose deadline has passed.  A step  *)
(* may take a request, write some and tell several callers: that is what   *)
(* one callback of the code does.                                          *)
(***************************************************************************)
EXTENDS Integers, Sequences

CONSTANTS
  Msgs,      \* requests
  Tracked    \* those whose caller waits for a promise

VARIABLES
  outcome,   \* what the caller of each request has been told
  taken,     \* requests in the order in which they were taken
  written,   \* requests in the order in which they were written
  late,      \* requests whose deadline has passed
  over       \* the sender takes and writes nothing any more

line == <<outcome, taken, written, late, over>>

Init ==
  /\ outcome = [m \in Msgs |-> "unsent"]
  /\ taken = <<>> /\ written = <<>> /\ late = {} /\ over = FALSE

Has(s, m) == \E i \in 1..Len(s) : s[i] = m

Before(s, a, b) == \E i, j \in 1..Len(s) : i < j /\ s[i] = a /\ s[j] = b

-----------------------------------------------------------------------------
\* What the caller of m may be told.

Take(m) ==
  /\ ~over /\ outcome[m] = "unsent"
  /\ taken' = Append(taken, m)
  /\ outcome'[m] = IF m \in Tracked THEN "open" ELSE "void"

\* enqueue() throws or rejects.
Refuse(m) ==
  /\ outcome[m] = "unsent" /\ taken' = taken
  /\ outcome'[m] \in {"closed", "cancelled", "full"}

\* A cancelled request is not on the wire.
Cancel(m) == outcome[m] = "open" /\ ~Has(written', m) /\ outcome'[m] = "cancelled"

\* The deadline or close(): the request may have been written or not.
GiveUp(m) ==
  /\ outcome[m] = "open"
  /\ outcome'[m] = "closed" \/ (m \in late /\ outcome'[m] = "timeout")

\* The server answers what was written, and what was written may be lost.
Answer(m) ==
  /\ outcome[m] = "open" /\ Has(written, m)
  /\ outcome'[m] \in {"ok", "error", "disconnected"}

Tell(m) ==
  outcome'[m] = outcome[m] \/ Take(m) \/ Refuse(m) \/ Cancel(m) \/ GiveUp(m) \/ Answer(m)

-----------------------------------------------------------------------------
\* More requests are written: each was taken and is not late, its caller has been told
\* nothing, and nothing overtakes on the wire.
Write ==
  /\ Len(written) <= Len(written')
  /\ \A i \in 1..Len(written) : written'[i] = written[i]
  /\ \A j \in (Len(written) + 1)..Len(written') :
       /\ ~over /\ Has(taken', written'[j])
       /\ written'[j] \notin late /\ outcome'[written'[j]] \in {"open", "void"}
       /\ \A i \in 1..(j - 1) : Before(taken', written'[i], written'[j])

Next ==
  /\ taken' = taken \/ \E m \in Msgs : Take(m)
  /\ Write
  /\ \A m \in Msgs : Tell(m)
  /\ over => over'
  /\ late \subseteq late'

Spec == Init /\ [][Next]_line
=============================================================================

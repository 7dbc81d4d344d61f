-------------------------- MODULE SequenceTracker --------------------------
(***************************************************************************)
(* The burn-in's Tracker for one producer: which sequence numbers were     *)
(* received, as the highest number below which every one is accounted for  *)
(* (highContiguous) and a window of bits above it.  A number the window    *)
(* slides past unseen is counted as lost.  The first WarmupCount numbers   *)
(* are buffered to find out where the producer starts.                     *)
(*                                                                         *)
(* The bit set is the set of the numbers whose bit is set; shifting it is  *)
(* forgetting the numbers at or below highContiguous.  A ProducerState is  *)
(* a record, and the methods are operators on it.                          *)
(***************************************************************************)
EXTENDS Integers, FiniteSets, FiniteSetsExt

CONSTANTS
  Window,      \* message.reorder_window, 10 000 by default; any number is accepted
  WarmupCount  \* WARMUP_COUNT, 64

ASSUME TrackerConstants == Window \in Nat /\ WarmupCount \in Nat \ {0}

\* A producer nobody has heard of, and one after reset().  accepted, base, marked and
\* overrun are history: the numbers reported as no duplicates, the lowest of the warm-up,
\* those that had a bit, and that the warm-up had a number beyond the window.
Fresh ==
  [warming |-> TRUE, buffer |-> {}, hc |-> 0, window |-> {}, lastSeen |-> 0,
   received |-> 0, duplicates |-> 0, outOfOrder |-> 0, lost |-> 0, reported |-> 0,
   accepted |-> {}, base |-> 0, marked |-> {}, overrun |-> FALSE]

\* How far highContiguous gets through the bits that are set.
Contiguous(hc, window) == Max({n \in {hc} \cup window : hc + 1 .. n \subseteq window})

Advance(hc, window) ==
  LET top == Contiguous(hc, window) IN [hc |-> top, window |-> {n \in window : n > top}]

\* finalizeWarmup(): numbers beyond the window get no bit.
Finalize(s) ==
  LET base == Min(s.buffer)
      bits == {n \in s.buffer : n - base < Window}
      next == Advance(base - 1, bits)
  IN [s EXCEPT !.warming = FALSE, !.buffer = {}, !.hc = next.hc, !.window = next.window,
               !.lastSeen = Max(s.buffer), !.base = base, !.marked = bits,
               !.overrun = bits # s.buffer]

\* record() during the warm-up.
RecordEarly(s, seq) ==
  IF seq \in s.buffer
  THEN [s EXCEPT !.received = @ + 1, !.duplicates = @ + 1]
  ELSE LET more == [s EXCEPT !.buffer = @ \cup {seq}, !.received = @ + 1, !.accepted = @ \cup {seq}]
       IN IF Cardinality(more.buffer) >= WarmupCount THEN Finalize(more) ELSE more

\* Mutant: numbers the window slides past are not looked at.
SkippedMutant(s, top) == {}

\* The numbers up to top that were never seen.
Skipped(s, top) == (s.hc + 1 .. top) \ s.window

\* slideTo(): the window is moved so that seq is its last number.
Slide(s, seq) ==
  LET top == seq - Window IN
  IF top <= s.hc THEN s
  ELSE [s EXCEPT !.hc = top, !.window = {n \in @ : n > top},
                 !.lost = @ + Cardinality(Skipped(s, top))]

\* Mutant: only what is at or below highContiguous is a duplicate.
SeenMutant(s, seq) == seq <= s.hc

\* A number that is accounted for: seen, or counted as lost.
Seen(s, seq) == seq <= s.hc \/ seq \in s.window

\* record() of a number that is new.
Mark(s, seq) ==
  LET slid == Slide(s, seq)
      bits == slid.window \cup {n \in {seq} : n > slid.hc}
      next == Advance(slid.hc, bits)
  IN [slid EXCEPT !.hc = next.hc, !.window = next.window, !.received = @ + 1,
                  !.outOfOrder = IF seq < s.lastSeen THEN @ + 1 ELSE @,
                  !.lastSeen = IF seq > @ THEN seq ELSE @,
                  !.accepted = @ \cup {seq}, !.marked = @ \cup {n \in {seq} : n > slid.hc}]

\* record().
Record(s, seq) ==
  IF s.warming THEN RecordEarly(s, seq)
  ELSE IF Seen(s, seq) THEN [s EXCEPT !.received = @ + 1, !.duplicates = @ + 1]
  ELSE Mark(s, seq)

IsDuplicate(s, seq) == IF s.warming THEN seq \in s.buffer ELSE Seen(s, seq)

\* detectGaps(): the losses counted since the last call are reported.
DetectGaps(s) == IF s.warming THEN s ELSE [s EXCEPT !.reported = s.lost]

-----------------------------------------------------------------------------
\* A number from the start of the producer up to highContiguous was seen or is counted
\* as lost, once: what is lost plus what had a bit is all there is.
LossIsExact(s) ==
  ~s.warming => s.lost = Cardinality((s.base .. s.hc) \ s.marked)

\* What is not a duplicate was not received before.  (Not when the warm-up overran the
\* window: numbers beyond it are forgotten, and counted as lost later on.)
NoneTwice(s) ==
  ~s.overrun => s.received = Cardinality(s.accepted) + s.duplicates

\* The window holds what was seen above highContiguous, and nothing beyond its size.
WindowIsExact(s) ==
  ~s.warming => s.window = {n \in s.marked : n > s.hc} /\ s.window \subseteq s.hc + 2 .. s.hc + Window

TrackerAddsUp(s) == LossIsExact(s) /\ NoneTwice(s) /\ WindowIsExact(s)
=============================================================================

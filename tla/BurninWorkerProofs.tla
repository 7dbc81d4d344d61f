------------------------- MODULE BurninWorkerProofs -------------------------
(***************************************************************************)
(* Proofs about what the workers of the burn-in count, for every size.     *)
(*                                                                         *)
(* SequenceTracker: each number of a producer is counted as received, as a *)
(* duplicate or as lost exactly as often as it should, in whatever order   *)
(* numbers arrive.                                                         *)
(*                                                                         *)
(* BurninRpc: what senders have issued is counted or in flight, once.      *)
(*                                                                         *)
(* BurninWorker: every tracker of a channel counts exactly, and the worker *)
(* has received what they together took for no duplicates.  Its steps are  *)
(* looked at twice, for the trackers and for the types.                    *)
(*                                                                         *)
(* BurninReport: the verdict on what was captured of a channel follows     *)
(* from what happened in it.                                               *)
(***************************************************************************)
EXTENDS BurninReport, BurninRpc, FiniteSetTheorems, SequenceTheorems, WellFoundedInduction, TLAPS

VARIABLE t  \* a tracker by itself

\* Its producer may use any numbers.
Positive == Nat \ {0}

TrackerInit == t = Fresh

TrackerNext ==
  \/ \E num \in Positive : t' = Record(t, num)
  \/ t' = DetectGaps(t)
  \/ t' = Fresh

TrackerSpec == TrackerInit /\ [][TrackerNext]_t

Correct == TrackerAddsUp(t)

-----------------------------------------------------------------------------
\* The tracker.

\* Least and greatest elements, and what Min and Max choose.

LEMMA HasLeast ==
  ASSUME NEW S \in SUBSET Nat, S # {}
  PROVE  \E x \in S : \A y \in S : x <= y
<1> DEFINE Initial == {0..n : n \in S}
           Smaller == StrictSubsetOrdering(Nat)
<1>1. Initial \subseteq FiniteSubsetsOf(Nat) /\ Initial # {}
  <2>1. \A n \in S : IsFiniteSet(0..n) /\ 0..n \in SUBSET Nat
    BY FS_Interval
  <2> QED BY <2>1 DEF FiniteSubsetsOf
<1>2. IsWellFoundedOn(Smaller, FiniteSubsetsOf(Nat))
  BY FS_StrictSubsetOrderingWellFounded
<1>3. PICK I \in Initial : \A J \in Initial : <<J, I>> \notin Smaller
  BY <1>1, <1>2, WFMin
<1>4. PICK x \in S : I = 0..x
  OBVIOUS
<1>5. ASSUME NEW y \in S, ~(x <= y) PROVE FALSE
  <2>1. 0..y \in SUBSET Nat /\ 0..x \in SUBSET Nat /\ 0..y \subseteq 0..x
    BY <1>5
  <2>2. x \in 0..x /\ x \notin 0..y
    BY <1>5
  <2>3. <<0..y, 0..x>> \in Smaller
    BY <2>1, <2>2 DEF StrictSubsetOrdering
  <2> QED BY <1>3, <1>4, <2>3
<1> QED BY <1>5

LEMMA MinIsLeast ==
  ASSUME NEW S \in SUBSET Nat, S # {}
  PROVE  Min(S) \in S /\ \A y \in S : Min(S) <= y
BY HasLeast DEF Min

\* By the least cardinality of a set without a greatest element.
LEMMA HasGreatest ==
  ASSUME NEW S \in SUBSET Nat, IsFiniteSet(S), S # {}
  PROVE  \E x \in S : \A y \in S : x >= y
<1> DEFINE Bounded(T) == \E x \in T : \A y \in T : x >= y
           Bad == {T \in SUBSET S : T # {} /\ ~Bounded(T)}
           Sizes == {Cardinality(T) : T \in Bad}
<1> SUFFICES ASSUME ~Bounded(S) PROVE FALSE
  OBVIOUS
<1>1. \A T \in SUBSET S : IsFiniteSet(T) /\ Cardinality(T) \in Nat
  BY FS_Subset, FS_CardinalityType
<1>2. Sizes \in SUBSET Nat /\ Sizes # {}
  <2>1. S \in Bad
    OBVIOUS
  <2> QED BY <1>1, <2>1
<1>3. PICK n \in Sizes : \A k \in Sizes : n <= k
  BY <1>2, HasLeast
<1>4. PICK T \in Bad : Cardinality(T) = n
  OBVIOUS
<1>5. PICK x \in T : TRUE
  OBVIOUS
<1>6. T \ {x} # {}
  <2>1. ASSUME T \ {x} = {} PROVE FALSE
    <3>1. T = {x} /\ x \in Nat
      BY <1>5, <2>1
    <3> QED BY <1>4, <3>1
  <2> QED BY <2>1
<1>7. Cardinality(T \ {x}) = Cardinality(T) - 1 /\ Cardinality(T) \in Nat
  BY <1>1, <1>5, FS_RemoveElement
<1>8. T \ {x} \notin Bad
  <2>1. ASSUME T \ {x} \in Bad PROVE FALSE
    <3>1. Cardinality(T \ {x}) \in Sizes
      BY <2>1
    <3>2. n <= Cardinality(T \ {x})
      BY <1>3, <3>1
    <3> QED BY <1>4, <1>7, <3>2
  <2> QED BY <2>1
<1>9. PICK z \in T \ {x} : \A y \in T \ {x} : z >= y
  BY <1>6, <1>8
<1>10. x \in Nat /\ z \in Nat
  BY <1>5, <1>9
<1>11. CASE x >= z
  <2>1. \A y \in T : x >= y
    BY <1>5, <1>9, <1>10, <1>11
  <2> QED BY <1>4, <1>5, <2>1
<1>12. CASE z >= x
  <2>1. \A y \in T : z >= y
    BY <1>9, <1>12
  <2> QED BY <1>4, <1>9, <2>1
<1> QED BY <1>10, <1>11, <1>12

LEMMA MaxIsGreatest ==
  ASSUME NEW S \in SUBSET Nat, IsFiniteSet(S), S # {}
  PROVE  Max(S) \in S /\ \A y \in S : Max(S) >= y
BY HasGreatest DEF Max

-----------------------------------------------------------------------------
\* Advance: highContiguous stands at the last number of an unbroken run of bits.
LEMMA AdvanceStops ==
  ASSUME NEW hc \in Nat, NEW W \in SUBSET Nat, IsFiniteSet(W), \A n \in W : n > hc
  PROVE  LET next == Advance(hc, W)
         IN  /\ next.hc \in Nat /\ next.hc >= hc
             /\ hc + 1 .. next.hc \subseteq W
             /\ next.window = {n \in W : n > next.hc}
             /\ next.hc + 1 \notin W
<1> DEFINE Unbroken == {n \in {hc} \cup W : hc + 1 .. n \subseteq W}
           top == Contiguous(hc, W)
<1>1. Unbroken \in SUBSET Nat /\ IsFiniteSet(Unbroken)
  <2>1. IsFiniteSet(W \cup {hc})
    BY FS_AddElement
  <2>2. Unbroken \in SUBSET (W \cup {hc})
    OBVIOUS
  <2> QED BY <2>1, <2>2, FS_Subset
<1>2. hc \in Unbroken
  OBVIOUS
<1>3. top \in Unbroken /\ \A y \in Unbroken : top >= y
  BY <1>1, <1>2, MaxIsGreatest DEF Contiguous
<1>4. top \in Nat /\ top >= hc
  BY <1>1, <1>2, <1>3
<1>5. top + 1 \notin W
  <2>1. ASSUME top + 1 \in W PROVE FALSE
    <3>1. hc + 1 .. top + 1 \subseteq W
      BY <1>3, <1>4, <2>1
    <3> QED BY <1>3, <1>4, <2>1, <3>1
  <2> QED BY <2>1
<1> QED BY <1>3, <1>4, <1>5 DEF Advance

-----------------------------------------------------------------------------
\* The inductive invariant.
ProducerStates ==
  [warming : BOOLEAN, buffer : SUBSET Positive, hc : Nat, window : SUBSET Positive,
   lastSeen : Nat, received : Nat, duplicates : Nat, outOfOrder : Nat, lost : Nat,
   reported : Nat, accepted : SUBSET Positive, base : Nat, marked : SUBSET Positive,
   overrun : BOOLEAN]

TrackerTypes(s) ==
  /\ s \in ProducerStates
  /\ IsFiniteSet(s.buffer) /\ IsFiniteSet(s.window)
  /\ IsFiniteSet(s.accepted) /\ IsFiniteSet(s.marked)

\* While it warms up, a tracker has accepted what is in its buffer, and lost nothing.
EarlyIsBuffered(s) ==
  s.warming => s.accepted = s.buffer /\ s.lost = 0 /\ ~s.overrun

\* Afterwards it has accepted only what it would take for a duplicate.
AcceptedAreSeen(s) ==
  ~s.warming => /\ s.base <= s.hc + 1
                /\ ~s.overrun => \A n \in s.accepted : Seen(s, n)

TrackerInv(s) == TrackerTypes(s) /\ EarlyIsBuffered(s) /\ AcceptedAreSeen(s) /\ TrackerAddsUp(s)

LEMMA Fields ==
  ASSUME NEW s \in ProducerStates
  PROVE  /\ s.warming \in BOOLEAN /\ s.overrun \in BOOLEAN
         /\ s.hc \in Nat /\ s.lastSeen \in Nat /\ s.base \in Nat
         /\ s.received \in Nat /\ s.duplicates \in Nat /\ s.outOfOrder \in Nat
         /\ s.lost \in Nat /\ s.reported \in Nat
         /\ s.received + 1 \in Nat /\ s.duplicates + 1 \in Nat /\ s.outOfOrder + 1 \in Nat
         /\ s.buffer \in SUBSET Positive /\ s.window \in SUBSET Positive
         /\ s.accepted \in SUBSET Positive /\ s.marked \in SUBSET Positive
<1>1. /\ s.received \in Nat /\ s.duplicates \in Nat /\ s.outOfOrder \in Nat
  BY DEF ProducerStates
<1> QED BY <1>1 DEF ProducerStates

LEMMA FreshInv ==
  ASSUME TrackerConstants
  PROVE  TrackerInv(Fresh)
<1>1. IsFiniteSet({}) /\ Cardinality({}) = 0
  BY FS_EmptySet
<1>2. TrackerTypes(Fresh)
  BY <1>1 DEF TrackerTypes, Fresh, ProducerStates
<1> QED BY <1>1, <1>2 DEF TrackerInv, Fresh, EarlyIsBuffered, AcceptedAreSeen, TrackerAddsUp,
           LossIsExact,
            NoneTwice, WindowIsExact

\* finalizeWarmup(): the numbers from the lowest on become the bits, as far as they fit.
LEMMA FinalizeInv ==
  ASSUME TrackerConstants, NEW s, TrackerInv(s), s.warming, s.buffer # {}
  PROVE  TrackerInv(Finalize(s))
<1> DEFINE base == Min(s.buffer)
           bits == {n \in s.buffer : n - base < Window}
           next == Advance(base - 1, bits)
           r == Finalize(s)
<1> USE DEF TrackerConstants, Positive
<1>1. s \in ProducerStates /\ s.buffer \in SUBSET Nat /\ IsFiniteSet(s.buffer)
  BY DEF TrackerInv, TrackerTypes, ProducerStates
<1>2. base \in s.buffer /\ base \in Nat \ {0} /\ \A y \in s.buffer : base <= y
  BY <1>1, MinIsLeast DEF ProducerStates
<1>3. Max(s.buffer) \in Nat
  BY <1>1, MaxIsGreatest
<1>4. bits \in SUBSET Nat /\ IsFiniteSet(bits) /\ base - 1 \in Nat /\ \A n \in bits : n > base - 1
  <2>1. bits \in SUBSET s.buffer
    OBVIOUS
  <2> QED BY <1>1, <1>2, <2>1, FS_Subset
<1>5. /\ next.hc \in Nat /\ next.hc >= base - 1
      /\ base .. next.hc \subseteq bits
      /\ next.window = {n \in bits : n > next.hc}
      /\ next.hc + 1 \notin bits
  <2> HIDE DEF bits, base
  <2>1. (base - 1) + 1 = base
    BY <1>2
  <2> QED BY <1>4, <2>1, AdvanceStops
<1>6. r = [s EXCEPT !.warming = FALSE, !.buffer = {}, !.hc = next.hc, !.window = next.window,
                    !.lastSeen = Max(s.buffer), !.base = base, !.marked = bits,
                    !.overrun = bits # s.buffer]
  BY DEF Finalize
<1> HIDE DEF next, base, r
<1>7. /\ r.warming = FALSE /\ r.buffer = {} /\ r.hc = next.hc /\ r.window = next.window
      /\ r.base = base /\ r.marked = bits /\ r.overrun = (bits # s.buffer)
      /\ r.accepted = s.accepted /\ r.lost = s.lost /\ r.received = s.received
      /\ r.duplicates = s.duplicates
  BY <1>1, <1>6 DEF ProducerStates
<1>8. TrackerTypes(r)
  <2>1. next.window \in SUBSET bits /\ IsFiniteSet(next.window)
    <3>1. next.window \in SUBSET bits
      BY <1>5
    <3> QED BY <1>4, <3>1, FS_Subset
  <2>2. next.window \in SUBSET Positive /\ bits \in SUBSET Positive
    BY <1>1, <2>1 DEF ProducerStates
  <2>3. (bits # s.buffer) \in BOOLEAN
    OBVIOUS
  <2>4. r \in ProducerStates
    <3> HIDE DEF bits
    <3> QED BY <1>1, <1>2, <1>3, <1>5, <1>6, <2>2, <2>3 DEF ProducerStates
  <2>5. IsFiniteSet(s.accepted) /\ IsFiniteSet({})
    BY FS_EmptySet DEF TrackerInv, TrackerTypes
  <2> QED BY <1>4, <1>7, <2>1, <2>4, <2>5 DEF TrackerTypes
<1>9. LossIsExact(r)
  <2>1. (base .. next.hc) \ bits = {}
    BY <1>5
  <2>2. s.lost = 0
    BY DEF TrackerInv, EarlyIsBuffered
  <2> QED BY <1>7, <2>1, <2>2, FS_EmptySet DEF LossIsExact
<1>10. NoneTwice(r)
  BY <1>7 DEF NoneTwice, TrackerInv, TrackerAddsUp, EarlyIsBuffered
<1>11. WindowIsExact(r)
  <2>1. ASSUME NEW n \in next.window PROVE n \in next.hc + 2 .. next.hc + Window
    <3>1. n \in Nat /\ n > next.hc /\ n # next.hc + 1 /\ n - base < Window
      BY <1>1, <1>5, <2>1
    <3> QED BY <1>2, <1>5, <3>1
  <2> QED BY <1>5, <1>7, <2>1 DEF WindowIsExact
<1>12. AcceptedAreSeen(r)
  <2>1. s.accepted = s.buffer
    BY DEF TrackerInv, EarlyIsBuffered
  <2>2. \A n \in bits : n <= next.hc \/ n \in next.window
    BY <1>1, <1>5
  <2>3. r.base <= r.hc + 1
    BY <1>2, <1>5, <1>7
  <2>4. ASSUME ~r.overrun, NEW n \in r.accepted PROVE Seen(r, n)
    <3>1. n \in bits
      BY <1>7, <2>1, <2>4
    <3> QED BY <1>7, <2>2, <3>1 DEF Seen
  <2> QED BY <2>3, <2>4 DEF AcceptedAreSeen
<1> QED BY <1>7, <1>8, <1>9, <1>10, <1>11, <1>12 DEF TrackerInv, EarlyIsBuffered, TrackerAddsUp, r

\* record() during the warm-up.
LEMMA RecordEarlyInv ==
  ASSUME TrackerConstants, NEW s, TrackerInv(s), s.warming, NEW num \in Positive
  PROVE  TrackerInv(RecordEarly(s, num))
<1> DEFINE again == [s EXCEPT !.received = @ + 1, !.duplicates = @ + 1]
           more == [s EXCEPT !.buffer = @ \cup {num}, !.received = @ + 1,
                             !.accepted = @ \cup {num}]
<1>1. s \in ProducerStates /\ TrackerTypes(s) /\ s.accepted = s.buffer /\ s.lost = 0 /\ ~s.overrun
  BY DEF TrackerInv, TrackerTypes, EarlyIsBuffered
<1>2. s.received = Cardinality(s.accepted) + s.duplicates /\ Cardinality(s.accepted) \in Nat
  BY <1>1, FS_CardinalityType DEF TrackerInv, TrackerAddsUp, NoneTwice, TrackerTypes
<1>3. TrackerInv(again)
  <2>1. again \in ProducerStates
    BY <1>1, Fields DEF ProducerStates
  <2>2. /\ again.warming = s.warming /\ again.buffer = s.buffer /\ again.window = s.window
        /\ again.accepted = s.accepted /\ again.marked = s.marked /\ again.lost = s.lost
        /\ again.overrun = s.overrun /\ again.received = s.received + 1
        /\ again.duplicates = s.duplicates + 1
    BY <1>1 DEF ProducerStates
  <2>3. again.received = Cardinality(again.accepted) + again.duplicates
    BY <1>1, <1>2, <2>2 DEF ProducerStates
  <2> HIDE DEF again
  <2> QED BY <1>1, <2>1, <2>2, <2>3 DEF TrackerInv, TrackerTypes, EarlyIsBuffered, AcceptedAreSeen,
      TrackerAddsUp, LossIsExact, NoneTwice, WindowIsExact
<1>4. ASSUME num \notin s.buffer PROVE TrackerInv(more) /\ more.warming /\ more.buffer # {}
  <2>1. more \in ProducerStates
    <3>1. s.buffer \cup {num} \in SUBSET Positive /\ s.accepted \cup {num} \in SUBSET Positive
      BY <1>1, Fields
    <3> QED BY <1>1, <3>1, Fields DEF ProducerStates
  <2>2. /\ more.warming = s.warming /\ more.buffer = s.buffer \cup {num}
        /\ more.window = s.window /\ more.accepted = s.accepted \cup {num}
        /\ more.marked = s.marked /\ more.lost = s.lost /\ more.overrun = s.overrun
        /\ more.received = s.received + 1 /\ more.duplicates = s.duplicates
    BY <1>1 DEF ProducerStates
  <2>3. /\ IsFiniteSet(more.buffer) /\ IsFiniteSet(more.accepted)
        /\ Cardinality(more.accepted) = Cardinality(s.accepted) + 1
    <3>1. IsFiniteSet(s.buffer) /\ num \notin s.buffer /\ s.accepted = s.buffer
      BY <1>1, <1>4 DEF TrackerTypes
    <3>2. IsFiniteSet(s.buffer \cup {num}) /\ Cardinality(s.buffer \cup {num}) = Cardinality(s.buffer) + 1
      BY <3>1, FS_AddElement
    <3> HIDE DEF more
    <3> QED BY <2>2, <3>1, <3>2
  <2>4. more.received = Cardinality(more.accepted) + more.duplicates
    BY <1>1, <1>2, <2>2, <2>3 DEF ProducerStates
  <2> HIDE DEF more
  <2> QED BY <1>1, <2>1, <2>2, <2>3, <2>4 DEF TrackerInv, TrackerTypes, EarlyIsBuffered,
             AcceptedAreSeen,
      TrackerAddsUp, LossIsExact, NoneTwice, WindowIsExact
<1>5. ASSUME num \notin s.buffer PROVE TrackerInv(Finalize(more))
  <2> HIDE DEF more
  <2> QED BY <1>4, <1>5, FinalizeInv
<1>6. \/ RecordEarly(s, num) = again
      \/ num \notin s.buffer /\ RecordEarly(s, num) \in {more, Finalize(more)}
  BY DEF RecordEarly
<1> HIDE DEF again, more
<1> QED BY <1>3, <1>4, <1>5, <1>6

LEMMA IntervalsAreFinite == \A a, b \in Int : IsFiniteSet(a .. b)
BY FS_Interval

LEMMA DisjointCount ==
  ASSUME NEW A, NEW B, IsFiniteSet(A), IsFiniteSet(B), A \cap B = {}
  PROVE  /\ Cardinality(A) \in Nat /\ Cardinality(B) \in Nat
         /\ Cardinality(A \cup B) = Cardinality(A) + Cardinality(B)
<1>1. Cardinality(A) \in Nat /\ Cardinality(B) \in Nat
  BY FS_CardinalityType
<1>2. Cardinality(A \cup B) = Cardinality(A) + Cardinality(B) - 0
  BY FS_Union, FS_EmptySet
<1> QED BY <1>1, <1>2

\* slideTo(): what the window slides past is lost, unless it has a bit.
Slid(s, num, r) ==
  /\ r \in ProducerStates /\ IsFiniteSet(r.window)
  /\ r.hc >= s.hc /\ r.hc <= num /\ num <= r.hc + Window
  /\ r.window = {n \in s.marked : n > r.hc}
  /\ \A n \in r.window : n <= r.hc + Window
  /\ r.lost = Cardinality((s.base .. r.hc) \ s.marked)
  /\ r.warming = s.warming /\ r.buffer = s.buffer /\ r.marked = s.marked
  /\ r.accepted = s.accepted /\ r.base = s.base /\ r.overrun = s.overrun
  /\ r.received = s.received /\ r.duplicates = s.duplicates

LEMMA SlideCounts ==
  ASSUME TrackerConstants, NEW s, TrackerInv(s), ~s.warming, NEW num \in Positive, ~Seen(s, num)
  PROVE  Slid(s, num, Slide(s, num))
<1> DEFINE top == num - Window
<1>1. /\ s \in ProducerStates /\ IsFiniteSet(s.window)
      /\ num > s.hc /\ num \notin s.window /\ s.base <= s.hc + 1
  BY Fields DEF TrackerInv, TrackerTypes, Seen, AcceptedAreSeen, TrackerConstants, Positive
<1>2. /\ s.window = {n \in s.marked : n > s.hc}
      /\ \A n \in s.window : n \in s.hc + 2 .. s.hc + Window
      /\ s.lost = Cardinality((s.base .. s.hc) \ s.marked)
  BY DEF TrackerInv, TrackerAddsUp, WindowIsExact, LossIsExact
<1>3. /\ s.hc \in Nat /\ s.base \in Nat /\ s.lost \in Nat /\ num \in Nat /\ Window \in Nat
      /\ top \in Int /\ s.marked \in SUBSET Nat /\ s.window \in SUBSET Nat
  <2>1. Positive \subseteq Nat /\ Window \in Nat /\ num \in Nat
    BY DEF TrackerConstants, Positive
  <2>2. /\ s.hc \in Nat /\ s.base \in Nat /\ s.lost \in Nat
        /\ s.window \subseteq Positive /\ s.marked \subseteq Positive
    BY <1>1, Fields
  <2>3. top \in Int
    BY <2>1
  <2> HIDE DEF top
  <2> QED BY <2>1, <2>2, <2>3
<1>4. \A n \in s.window : n \in Nat /\ n > s.hc /\ n <= s.hc + Window
  BY <1>2, <1>3
<1>5. CASE top <= s.hc
  <2>1. Slide(s, num) = s
    BY <1>5 DEF Slide
  <2>2. num <= s.hc + Window /\ s.hc <= num /\ s.hc >= s.hc
    BY <1>1, <1>3, <1>5
  <2> QED BY <1>1, <1>2, <1>4, <2>1, <2>2 DEF Slid
<1>6. CASE ~(top <= s.hc)
  <2> DEFINE slid == {n \in s.window : n > top}
             lost == s.lost + Cardinality(Skipped(s, top))
             r == [s EXCEPT !.hc = top, !.window = slid, !.lost = lost]
  <2>1. top \in Nat /\ top > s.hc /\ top <= num /\ num <= top + Window
    BY <1>3, <1>6
  <2>2. Slide(s, num) = r
    BY <1>1, <1>6, Fields DEF Slide, ProducerStates
  <2>3. lost \in Nat /\ lost = Cardinality((s.base .. top) \ s.marked)
    <3> HIDE DEF top
    <3> DEFINE old == (s.base .. s.hc) \ s.marked
               new == Skipped(s, top)
    <3>1. IsFiniteSet(old) /\ IsFiniteSet(new)
      <4>1. IsFiniteSet(s.base .. s.hc) /\ IsFiniteSet(s.hc + 1 .. top)
        <5>1. s.base \in Int /\ s.hc \in Int /\ s.hc + 1 \in Int /\ top \in Int
          BY <1>3, <2>1
        <5> QED BY <5>1, IntervalsAreFinite
      <4> QED BY <4>1, FS_Difference DEF Skipped
    <3>2. (s.base .. top) \ s.marked = old \cup new
      BY <1>1, <1>2, <1>3, <2>1 DEF Skipped
    <3>3. old \cap new = {}
      BY <1>3, <2>1 DEF Skipped
    <3>4. s.lost = Cardinality(old)
      BY <1>2
    <3> HIDE DEF old, new
    <3>5. Cardinality(new) \in Nat /\ Cardinality(old \cup new) = Cardinality(old) + Cardinality(new)
      BY <3>1, <3>3, DisjointCount
    <3>6. Cardinality((s.base .. top) \ s.marked) = Cardinality(old) + Cardinality(new)
      BY <3>2, <3>5
    <3>7. lost = s.lost + Cardinality(new)
      BY DEF new, lost
    <3> HIDE DEF lost
    <3> QED BY <1>3, <3>4, <3>5, <3>6, <3>7
  <2>4. slid \in SUBSET s.window /\ slid \in SUBSET Positive
    BY <1>1, Fields
  <2>5. IsFiniteSet(slid)
    BY <1>1, <2>4, FS_Subset
  <2>6. slid = {n \in s.marked : n > top}
    <3>1. ASSUME NEW n \in s.marked, n > top PROVE n > s.hc
      BY <1>3, <2>1, <3>1
    <3> QED BY <1>2, <3>1
  <2>7. \A n \in slid : n <= top + Window
    BY <1>3, <1>4, <2>1
  <2> HIDE DEF slid, top, lost
  <2>8. r \in ProducerStates
    BY <1>1, <2>1, <2>3, <2>4 DEF ProducerStates
  <2>9. /\ r.hc = top /\ r.window = slid /\ r.lost = lost
        /\ r.warming = s.warming /\ r.buffer = s.buffer /\ r.marked = s.marked
        /\ r.accepted = s.accepted /\ r.base = s.base /\ r.overrun = s.overrun
        /\ r.received = s.received /\ r.duplicates = s.duplicates
    BY <1>1 DEF ProducerStates
  <2> HIDE DEF r
  <2>10. r.hc >= s.hc
    BY <1>3, <2>1, <2>9
  <2> QED BY <2>1, <2>2, <2>3, <2>5, <2>6, <2>7, <2>8, <2>9, <2>10 DEF Slid
<1> QED BY <1>3, <1>5, <1>6

\* record() of a new number: it gets a bit, unless the window has no room at all, and
\* highContiguous advances.
LEMMA MarkInv ==
  ASSUME TrackerConstants, NEW s, TrackerInv(s), ~s.warming, NEW num \in Positive, ~Seen(s, num)
  PROVE  TrackerInv(Mark(s, num))
<1> DEFINE slid == Slide(s, num)
           mine == {n \in {num} : n > slid.hc}
           bits == slid.window \cup mine
           next == Advance(slid.hc, bits)
           r == Mark(s, num)
<1>1. Slid(s, num, slid)
  BY SlideCounts
<1>2. /\ s \in ProducerStates /\ s.base <= s.hc + 1 /\ ~(num <= s.hc)
      /\ IsFiniteSet(s.accepted) /\ IsFiniteSet(s.marked)
  BY DEF TrackerInv, TrackerTypes, AcceptedAreSeen, Seen
<1>3. /\ s.hc \in Nat /\ s.base \in Nat /\ num \in Nat /\ Window \in Nat
      /\ s.marked \in SUBSET Nat /\ s.window \in SUBSET Nat /\ s.marked \in SUBSET Positive
      /\ s.accepted \in SUBSET Positive
  <2>1. Positive \subseteq Nat /\ Window \in Nat /\ num \in Nat
    BY DEF TrackerConstants, Positive
  <2> QED BY <1>2, <2>1, Fields
<1>4. /\ slid \in ProducerStates /\ IsFiniteSet(slid.window)
      /\ slid.hc >= s.hc /\ slid.hc <= num /\ num <= slid.hc + Window
      /\ slid.window = {n \in s.marked : n > slid.hc}
      /\ \A n \in slid.window : n <= slid.hc + Window
      /\ slid.lost = Cardinality((s.base .. slid.hc) \ s.marked)
      /\ slid.warming = s.warming /\ slid.buffer = s.buffer /\ slid.marked = s.marked
      /\ slid.accepted = s.accepted /\ slid.base = s.base /\ slid.overrun = s.overrun
      /\ slid.received = s.received /\ slid.duplicates = s.duplicates
      /\ slid.hc \in Nat
  BY <1>1, Fields DEF Slid
<1> HIDE DEF slid
<1>5. bits \in SUBSET Nat /\ bits \in SUBSET Positive /\ IsFiniteSet(bits)
      /\ \A n \in bits : n > slid.hc /\ n <= slid.hc + Window
  <2>1. mine \in SUBSET {num} /\ IsFiniteSet({num})
    BY FS_Singleton
  <2>2. IsFiniteSet(mine)
    BY <2>1, FS_Subset
  <2>3. IsFiniteSet(bits)
    BY <1>4, <2>2, FS_Union
  <2> QED BY <1>3, <1>4, <2>3
<1>6. bits = {n \in s.marked \cup mine : n > slid.hc}
  BY <1>3, <1>4
<1>7. /\ next.hc \in Nat /\ next.hc >= slid.hc
      /\ slid.hc + 1 .. next.hc \subseteq bits
      /\ next.window = {n \in bits : n > next.hc}
      /\ next.hc + 1 \notin bits
  <2> HIDE DEF bits
  <2> QED BY <1>4, <1>5, AdvanceStops
<1>8. next.window \in SUBSET bits /\ IsFiniteSet(next.window) /\ next.window \in SUBSET Positive
  <2>1. next.window \in SUBSET bits
    BY <1>7
  <2> QED BY <1>5, <2>1, FS_Subset
<1>9. /\ s.received + 1 \in Nat
      /\ s.accepted \cup {num} \in SUBSET Positive /\ s.marked \cup mine \in SUBSET Positive
  BY <1>2, <1>3, Fields
<1>10. r = [slid EXCEPT !.hc = next.hc, !.window = next.window, !.received = @ + 1,
                        !.outOfOrder = IF num < s.lastSeen THEN @ + 1 ELSE @,
                        !.lastSeen = IF num > @ THEN num ELSE @,
                        !.accepted = @ \cup {num}, !.marked = @ \cup mine]
  BY DEF Mark, slid
<1>11. r \in ProducerStates
  <2> DEFINE o == IF num < s.lastSeen THEN slid.outOfOrder + 1 ELSE slid.outOfOrder
             l == IF num > slid.lastSeen THEN num ELSE slid.lastSeen
  <2>1. o \in Nat /\ l \in Nat /\ slid.received + 1 \in Nat
    BY <1>3, <1>4, Fields
  <2>2. r = [slid EXCEPT !.hc = next.hc, !.window = next.window, !.received = slid.received + 1,
                         !.outOfOrder = o, !.lastSeen = l,
                         !.accepted = s.accepted \cup {num}, !.marked = s.marked \cup mine]
    BY <1>4, <1>10 DEF ProducerStates
  <2> HIDE DEF o, l, next, mine, r
  <2> QED BY <1>4, <1>7, <1>8, <1>9, <2>1, <2>2 DEF ProducerStates
<1>12. /\ r.hc = next.hc /\ r.window = next.window /\ r.received = s.received + 1
       /\ r.accepted = s.accepted \cup {num} /\ r.marked = s.marked \cup mine
       /\ r.warming = s.warming /\ r.buffer = s.buffer /\ r.base = s.base
       /\ r.overrun = s.overrun /\ r.duplicates = s.duplicates /\ r.lost = slid.lost
  <2> HIDE DEF next, mine, r
  <2> QED BY <1>4, <1>10 DEF ProducerStates
<1> HIDE DEF r, next, bits, mine
<1>13. TrackerTypes(r)
  <2>1. IsFiniteSet(s.accepted \cup {num})
    BY <1>2, FS_AddElement
  <2>2. IsFiniteSet(s.marked \cup mine)
    <3>1. mine \subseteq {num} /\ s.marked \cup mine \in {s.marked, s.marked \cup {num}}
      BY DEF mine
    <3> QED BY <1>2, <3>1, FS_AddElement
  <2> QED BY <1>8, <1>11, <1>12, <2>1, <2>2 DEF TrackerTypes, TrackerInv
<1>14. LossIsExact(r)
  <2>1. (s.base .. next.hc) \ (s.marked \cup mine) = (s.base .. slid.hc) \ s.marked
    <3>1. ASSUME NEW n \in s.base .. next.hc, n \notin s.marked \cup mine
          PROVE  n \in (s.base .. slid.hc) \ s.marked
      <4>1. n \notin bits
        BY <3>1, <1>6
      <4>2. ~(n > slid.hc)
        BY <1>3, <1>4, <1>7, <3>1, <4>1
      <4> QED BY <1>3, <1>4, <3>1, <4>2
    <3>2. ASSUME NEW n \in s.base .. slid.hc, n \notin s.marked
          PROVE  n \in (s.base .. next.hc) \ (s.marked \cup mine)
      BY <1>3, <1>4, <1>7, <3>2 DEF mine
    <3> QED BY <3>1, <3>2
  <2> QED BY <1>4, <1>12, <2>1 DEF LossIsExact
<1>15. WindowIsExact(r)
  <2>1. next.window = {n \in s.marked \cup mine : n > next.hc}
    <3>1. ASSUME NEW n \in s.marked \cup mine, n > next.hc PROVE n > slid.hc
      BY <1>3, <1>4, <1>7, <1>9, <3>1 DEF mine
    <3> QED BY <1>6, <1>7, <3>1
  <2>2. ASSUME NEW n \in next.window PROVE n \in next.hc + 2 .. next.hc + Window
    <3>1. n \in Nat /\ n > next.hc /\ n # next.hc + 1 /\ n <= slid.hc + Window
      BY <1>5, <1>7, <2>2
    <3> QED BY <1>3, <1>4, <1>7, <3>1
  <2> QED BY <1>12, <2>1, <2>2 DEF WindowIsExact
<1>16. ASSUME ~s.overrun PROVE num \notin s.accepted
  BY <1>16 DEF TrackerInv, AcceptedAreSeen
<1>17. NoneTwice(r)
  <2> SUFFICES ASSUME ~s.overrun PROVE r.received = Cardinality(r.accepted) + r.duplicates
    BY <1>12 DEF NoneTwice
  <2>1. Cardinality(s.accepted \cup {num}) = Cardinality(s.accepted) + 1
    BY <1>2, <1>16, FS_AddElement
  <2>2. s.received = Cardinality(s.accepted) + s.duplicates
    BY DEF TrackerInv, TrackerAddsUp, NoneTwice
  <2>3. Cardinality(s.accepted) \in Nat /\ s.duplicates \in Nat
    BY <1>2, Fields, FS_CardinalityType
  <2> QED BY <1>12, <2>1, <2>2, <2>3
<1>18. AcceptedAreSeen(r)
  <2>1. r.base <= r.hc + 1
    BY <1>2, <1>3, <1>4, <1>7, <1>12
  <2>2. ASSUME NEW n \in bits PROVE n <= next.hc \/ n \in next.window
    BY <1>5, <1>7, <2>2
  <2>3. ASSUME ~s.overrun, NEW n \in s.accepted \cup {num} PROVE Seen(r, n)
    <3>1. CASE n = num
      <4>1. num <= slid.hc \/ num \in bits
        BY <1>3, <1>4 DEF bits, mine
      <4> QED BY <1>3, <1>4, <1>7, <1>12, <2>2, <3>1, <4>1 DEF Seen
    <3>2. CASE n \in s.accepted
      <4>1. n \in Nat /\ (n <= s.hc \/ n \in s.window)
        BY <1>3, <2>3, <3>2 DEF TrackerInv, AcceptedAreSeen, Seen, TrackerConstants, Positive
      <4>2. n <= slid.hc \/ n \in slid.window
        <5>1. s.window \subseteq s.marked
          BY DEF TrackerInv, TrackerAddsUp, WindowIsExact
        <5> QED BY <1>3, <1>4, <4>1, <5>1
      <4>3. n <= next.hc \/ n \in bits
        BY <1>4, <1>7, <4>1, <4>2 DEF bits
      <4> QED BY <1>12, <2>2, <4>3 DEF Seen
    <3> QED BY <2>3, <3>1, <3>2
  <2> QED BY <1>12, <2>1, <2>3 DEF AcceptedAreSeen
<1> QED BY <1>12, <1>13, <1>14, <1>15, <1>17, <1>18 DEF TrackerInv, EarlyIsBuffered, TrackerAddsUp, r

\* record().
LEMMA RecordInv ==
  ASSUME TrackerConstants, NEW s, TrackerInv(s), NEW num \in Positive
  PROVE  TrackerInv(Record(s, num))
<1> DEFINE again == [s EXCEPT !.received = @ + 1, !.duplicates = @ + 1]
<1>1. CASE s.warming
  BY <1>1, RecordEarlyInv DEF Record
<1>2. CASE ~s.warming /\ ~Seen(s, num)
  BY <1>2, MarkInv DEF Record
<1>3. CASE ~s.warming /\ Seen(s, num)
  <2>1. s \in ProducerStates /\ TrackerTypes(s) /\ IsFiniteSet(s.accepted)
    BY DEF TrackerInv, TrackerTypes
  <2>2. again \in ProducerStates
    BY <2>1, Fields DEF ProducerStates
  <2>3. /\ again.warming = s.warming /\ again.buffer = s.buffer /\ again.window = s.window
        /\ again.accepted = s.accepted /\ again.marked = s.marked /\ again.lost = s.lost
        /\ again.overrun = s.overrun /\ again.received = s.received + 1
        /\ again.duplicates = s.duplicates + 1 /\ again.hc = s.hc /\ again.base = s.base
    BY <2>1 DEF ProducerStates
  <2>4. ~s.overrun => again.received = Cardinality(again.accepted) + again.duplicates
    <3>1. Cardinality(s.accepted) \in Nat /\ s.duplicates \in Nat
      BY <2>1, Fields, FS_CardinalityType
    <3> HIDE DEF again
    <3> QED BY <2>3, <3>1 DEF TrackerInv, TrackerAddsUp, NoneTwice
  <2>5. Record(s, num) = again
    BY <1>3 DEF Record
  <2> HIDE DEF again
  <2>6. TrackerTypes(again) /\ EarlyIsBuffered(again) /\ AcceptedAreSeen(again)
    BY <1>3, <2>1, <2>2, <2>3 DEF TrackerInv, TrackerTypes, EarlyIsBuffered, AcceptedAreSeen, Seen
  <2>7. TrackerAddsUp(again)
    BY <2>3, <2>4 DEF TrackerInv, TrackerAddsUp, LossIsExact, NoneTwice, WindowIsExact
  <2> QED BY <2>5, <2>6, <2>7 DEF TrackerInv
<1> QED BY <1>1, <1>2, <1>3

LEMMA DetectGapsInv ==
  ASSUME NEW s, TrackerInv(s)
  PROVE  TrackerInv(DetectGaps(s))
<1> DEFINE r == [s EXCEPT !.reported = s.lost]
<1>1. s \in ProducerStates
  BY DEF TrackerInv, TrackerTypes
<1>2. r \in ProducerStates
  BY <1>1, Fields DEF ProducerStates
<1>3. /\ r.warming = s.warming /\ r.buffer = s.buffer /\ r.window = s.window
      /\ r.accepted = s.accepted /\ r.marked = s.marked /\ r.lost = s.lost
      /\ r.overrun = s.overrun /\ r.received = s.received
      /\ r.duplicates = s.duplicates /\ r.hc = s.hc /\ r.base = s.base
  BY <1>1 DEF ProducerStates
<1> HIDE DEF r
<1>4. TrackerTypes(r) /\ EarlyIsBuffered(r) /\ AcceptedAreSeen(r)
  BY <1>2, <1>3 DEF TrackerInv, TrackerTypes, EarlyIsBuffered, AcceptedAreSeen, Seen
<1>5. TrackerAddsUp(r)
  BY <1>3 DEF TrackerInv, TrackerAddsUp, LossIsExact, NoneTwice, WindowIsExact
<1> QED BY <1>4, <1>5 DEF TrackerInv, DetectGaps, r

\* In whatever order and however often numbers arrive, for every window and warm-up: a
\* number is counted as lost exactly if the window slid past it unseen, and as a duplicate
\* exactly if it had been received before (or counted as lost).
THEOREM CountsAreExact == ASSUME TrackerConstants PROVE TrackerSpec => []Correct
<1>1. TrackerInit => TrackerInv(t)
  BY FreshInv DEF TrackerInit
<1>2. TrackerInv(t) /\ [TrackerNext]_t => TrackerInv(t)'
  <2> SUFFICES ASSUME TrackerInv(t), [TrackerNext]_t PROVE TrackerInv(t')
    OBVIOUS
  <2>1. ASSUME NEW num \in Positive, t' = Record(t, num) PROVE TrackerInv(t')
    BY <2>1, RecordInv
  <2>2. CASE t' = DetectGaps(t)
    BY <2>2, DetectGapsInv
  <2>3. CASE t' = Fresh
    BY <2>3, FreshInv
  <2> QED BY <2>1, <2>2, <2>3 DEF TrackerNext
<1>3. TrackerInv(t) => Correct
  BY DEF TrackerInv, Correct
<1> QED BY <1>1, <1>2, <1>3, PTL DEF TrackerSpec

-----------------------------------------------------------------------------
\* Requests.

\* Sums over a finite set, which MapThenSumSet computes.

OneOf(s) == CHOOSE x \in s : TRUE
Rest(s) == s \ {OneOf(s)}

\* g has the sum of f over every subset of S.
Sums(g, f, S) ==
  /\ g \in [SUBSET S -> Int]
  /\ \A s \in SUBSET S : g[s] = IF s = {} THEN 0 ELSE f[OneOf(s)] + g[Rest(s)]

LEMMA OneLess == ASSUME NEW s, s # {} PROVE OneOf(s) \in s /\ Rest(s) \subseteq s /\ Rest(s) # s
BY DEF OneOf, Rest

LEMMA LeastSet ==
  ASSUME NEW S, IsFiniteSet(S), NEW Bad \in SUBSET (SUBSET S), Bad # {}
  PROVE  \E T \in Bad : \A U \in Bad : U \subseteq T => U = T
<1> DEFINE Smaller == StrictSubsetOrdering(S)
<1>1. Bad \subseteq FiniteSubsetsOf(S)
  BY FS_Subset DEF FiniteSubsetsOf
<1>2. IsWellFoundedOn(Smaller, FiniteSubsetsOf(S))
  BY FS_StrictSubsetOrderingWellFounded
<1>3. PICK T \in Bad : \A U \in Bad : <<U, T>> \notin Smaller
  BY <1>1, <1>2, WFMin
<1>4. ASSUME NEW U \in Bad, U \subseteq T, U # T PROVE FALSE
  <2>1. U \in SUBSET S /\ T \in SUBSET S
    OBVIOUS
  <2> QED BY <1>3, <1>4, <2>1 DEF StrictSubsetOrdering
<1> QED BY <1>3, <1>4

\* Sums are unique.
SumsUp(h, f, S) ==
  h = [s \in SUBSET S |-> IF s = {} THEN 0 ELSE f[OneOf(s)] + h[Rest(s)]]

LEMMA SumsAgree ==
  ASSUME NEW S, IsFiniteSet(S), NEW f, NEW g, NEW h, Sums(g, f, S), SumsUp(h, f, S)
  PROVE  g = h
<1> USE DEF SumsUp
<1>0. /\ h[{}] = 0 /\ DOMAIN h = SUBSET S
      /\ \A s \in SUBSET S : s # {} => h[s] = f[OneOf(s)] + h[Rest(s)]
  <2>1. {} \in SUBSET S
    OBVIOUS
  <2> QED BY <2>1, Zenon
<1> DEFINE Bad == {s \in SUBSET S : g[s] # h[s]}
<1>1. SUFFICES ASSUME Bad # {} PROVE FALSE
  <2>1. \A s \in SUBSET S : g[s] = h[s]
    BY <1>1
  <2>2. h = [s \in SUBSET S |-> h[s]]
    OBVIOUS
  <2> QED BY <2>1, <2>2 DEF Sums
<1>2. PICK T \in Bad : \A U \in Bad : U \subseteq T => U = T
  <2>1. Bad \in SUBSET (SUBSET S)
    OBVIOUS
  <2> HIDE DEF Bad
  <2> QED BY <1>1, <2>1, LeastSet
<1>3. T \in SUBSET S /\ g[T] # h[T]
  OBVIOUS
<1>4. T # {}
  BY <1>0, <1>3 DEF Sums
<1>5. Rest(T) \in SUBSET S /\ Rest(T) \subseteq T /\ Rest(T) # T
  BY <1>3, <1>4, OneLess
<1>6. g[Rest(T)] = h[Rest(T)]
  BY <1>2, <1>5
<1> QED BY <1>0, <1>3, <1>4, <1>6 DEF Sums

\* A part of sums is sums of a part.
LEMMA SumsOfPart ==
  ASSUME NEW S, NEW U \in SUBSET S, NEW f, NEW g, Sums(g, f, S),
         NEW h, h = [s \in SUBSET U |-> g[s]]
  PROVE  Sums(h, f, U)
<1>1. h \in [SUBSET U -> Int]
  BY DEF Sums
<1>2. ASSUME NEW s \in SUBSET U PROVE h[s] = IF s = {} THEN 0 ELSE f[OneOf(s)] + h[Rest(s)]
  <2>1. h[s] = g[s] /\ s \in SUBSET S
    OBVIOUS
  <2>2. s # {} => Rest(s) \in SUBSET U /\ h[Rest(s)] = g[Rest(s)]
    BY OneLess
  <2> QED BY <2>1, <2>2 DEF Sums
<1> QED BY <1>1, <1>2 DEF Sums

\* Sums exist.
LEMMA HasSumsOver ==
  ASSUME NEW S, IsFiniteSet(S), NEW f \in [S -> Int]
  PROVE  \E g : Sums(g, f, S)
<1> DEFINE Bad == {s \in SUBSET S : ~\E g : Sums(g, f, s)}
<1>1. SUFFICES ASSUME Bad # {} PROVE FALSE
  BY <1>1
<1>2. PICK T \in Bad : \A U \in Bad : U \subseteq T => U = T
  <2>1. Bad \in SUBSET (SUBSET S)
    OBVIOUS
  <2> HIDE DEF Bad
  <2> QED BY <1>1, <2>1, LeastSet
<1>3. T \in SUBSET S /\ ~\E g : Sums(g, f, T)
  OBVIOUS
<1>4. \A U \in SUBSET T : U # T => \E g : Sums(g, f, U)
  BY <1>2, <1>3
<1> HIDE DEF Bad
<1> DEFINE G(U) == CHOOSE g : Sums(g, f, U)
           h == [s \in SUBSET T |-> IF s = {} THEN 0 ELSE f[OneOf(s)] + G(Rest(s))[Rest(s)]]
<1>5. ASSUME NEW U \in SUBSET T, U # T PROVE Sums(G(U), f, U)
  BY <1>4, <1>5
<1>6. ASSUME NEW s \in SUBSET T, s # {} PROVE Sums(G(Rest(s)), f, Rest(s)) /\ G(Rest(s))[Rest(s)] \in Int
  <2>1. Rest(s) \in SUBSET T /\ Rest(s) # T
    BY <1>6, OneLess
  <2>2. Sums(G(Rest(s)), f, Rest(s))
    BY <1>5, <2>1
  <2> HIDE DEF G
  <2> QED BY <2>2 DEF Sums
<1>7. ASSUME NEW s \in SUBSET T, s # {} PROVE OneOf(s) \in S /\ f[OneOf(s)] \in Int
  <2>1. OneOf(s) \in S
    BY <1>3, <1>7, OneLess
  <2> QED BY <2>1
<1> HIDE DEF G
<1>8. h \in [SUBSET T -> Int]
  BY <1>6, <1>7
<1>9. ASSUME NEW s \in SUBSET T, s # T PROVE h[s] = G(s)[s]
  <2>1. Sums(G(s), f, s)
    BY <1>5, <1>9
  <2>2. CASE s = {}
    <3>1. G(s)[s] = 0
      BY <2>1, <2>2 DEF Sums
    <3> QED BY <2>2, <3>1
  <2>3. CASE s # {}
    <3> DEFINE r == Rest(s)
               k == [u \in SUBSET r |-> G(s)[u]]
    <3>1. r \in SUBSET s /\ r \in SUBSET T /\ r \in SUBSET S /\ r \in SUBSET r
      BY <1>3, <2>3, OneLess
    <3>2. Sums(k, f, r)
      <4>1. k = [u \in SUBSET r |-> G(s)[u]]
        OBVIOUS
      <4> HIDE DEF r, k
      <4> QED BY <2>1, <3>1, <4>1, SumsOfPart
    <3>3. Sums(G(r), f, r)
      BY <1>6, <2>3
    <3>4. IsFiniteSet(r) /\ [x \in r |-> f[x]] \in [r -> Int]
      BY <3>1, FS_Subset
    <3>5. k = G(r)
      <4>1. \A u \in SUBSET r : u # {} => OneOf(u) \in r
        BY OneLess
      <4> DEFINE e == [x \in r |-> f[x]]
      <4>2. Sums(k, e, r) /\ Sums(G(r), e, r)
        <5> HIDE DEF k, r
        <5> QED BY <3>2, <3>3, <4>1 DEF Sums
      <4> HIDE DEF k, r, e
      <4>3. SumsUp(G(r), e, r)
        BY <4>2 DEF Sums, SumsUp
      <4> QED BY <3>4, <4>2, <4>3, SumsAgree
    <3>6. G(s)[r] = G(r)[r]
      BY <3>1, <3>5
    <3>7. G(s)[s] = f[OneOf(s)] + G(s)[r]
      BY <2>1, <2>3 DEF Sums
    <3> QED BY <2>3, <3>6, <3>7
  <2> QED BY <2>2, <2>3
<1>10. Sums(h, f, T)
  <2>1. ASSUME NEW s \in SUBSET T, s # {} PROVE h[s] = f[OneOf(s)] + h[Rest(s)]
    <3>1. Rest(s) \in SUBSET T /\ Rest(s) # T
      BY <2>1, OneLess
    <3>2. h[Rest(s)] = G(Rest(s))[Rest(s)]
      BY <1>9, <3>1
    <3> QED BY <2>1, <3>2
  <2>2. h[{}] = 0
    OBVIOUS
  <2> HIDE DEF h
  <2> QED BY <1>8, <2>1, <2>2 DEF Sums
<1> QED BY <1>3, <1>10

\* More of one element is as much more of the whole.
LEMMA SumChanges ==
  ASSUME NEW S, IsFiniteSet(S), NEW f \in [S -> Int], NEW f2 \in [S -> Int], NEW g, NEW g2,
         Sums(g, f, S), Sums(g2, f2, S), NEW p \in S, NEW d \in Int,
         f2[p] = f[p] + d, \A q \in S : q # p => f2[q] = f[q]
  PROVE  g2[S] = g[S] + d
<1> DEFINE Bad == {s \in SUBSET S : g2[s] # g[s] + (IF p \in s THEN d ELSE 0)}
<1>1. SUFFICES ASSUME Bad # {} PROVE FALSE
  <2>1. S \in SUBSET S /\ S \notin Bad
    BY <1>1
  <2> QED BY <2>1
<1>2. PICK T \in Bad : \A U \in Bad : U \subseteq T => U = T
  <2>1. Bad \in SUBSET (SUBSET S)
    OBVIOUS
  <2> HIDE DEF Bad
  <2> QED BY <1>1, <2>1, LeastSet
<1>3. T \in SUBSET S /\ g2[T] # g[T] + (IF p \in T THEN d ELSE 0)
  OBVIOUS
<1>4. T # {}
  <2>1. {} \in SUBSET S /\ g[{}] = 0 /\ g2[{}] = 0
    BY DEF Sums
  <2> HIDE DEF Bad
  <2> QED BY <1>3, <2>1
<1>5. Rest(T) \in SUBSET S /\ Rest(T) \subseteq T /\ Rest(T) # T /\ OneOf(T) \in T
  BY <1>3, <1>4, OneLess
<1>6. g2[Rest(T)] = g[Rest(T)] + (IF p \in Rest(T) THEN d ELSE 0)
  BY <1>2, <1>5
<1>7. p \in T <=> p \in Rest(T) \/ p = OneOf(T)
  BY <1>5 DEF Rest
<1>8. p = OneOf(T) => p \notin Rest(T)
  BY DEF Rest
<1>9. /\ g[Rest(T)] \in Int /\ g2[Rest(T)] \in Int
      /\ g[T] = f[OneOf(T)] + g[Rest(T)] /\ g2[T] = f2[OneOf(T)] + g2[Rest(T)]
  BY <1>3, <1>4, <1>5 DEF Sums
<1>10. OneOf(T) \in S /\ f[OneOf(T)] \in Int /\ f2[OneOf(T)] \in Int
  BY <1>3, <1>5
<1> HIDE DEF Bad
<1>11. CASE p = OneOf(T)
  BY <1>3, <1>6, <1>7, <1>8, <1>9, <1>10, <1>11
<1>12. CASE p # OneOf(T)
  BY <1>3, <1>6, <1>7, <1>8, <1>9, <1>10, <1>12
<1> QED BY <1>11, <1>12

SettledOf(iss, inf) == MapThenSumSet(LAMBDA s : iss[s] - Cardinality(DOMAIN inf[s]), Senders)

LEMMA SettledIs ==
  ASSUME RpcConstants, NEW iss, NEW inf, NEW f, NEW g, Sums(g, f, Senders),
         f = [s \in Senders |-> iss[s] - Cardinality(DOMAIN inf[s])]
  PROVE  SettledOf(iss, inf) = g[Senders]
<1> DEFINE IsIter(h) == h = [s \in SUBSET Senders |->
                          IF s = {} THEN 0
                          ELSE iss[CHOOSE x \in s : TRUE] - Cardinality(DOMAIN inf[CHOOSE x \in s : TRUE])
                               + h[s \ {CHOOSE x \in s : TRUE}]]
           iter == CHOOSE h : IsIter(h)
<1>1. SettledOf(iss, inf) = iter[Senders]
  BY DEF SettledOf, MapThenSumSet, MapThenFoldSet
<1>2. \A s \in SUBSET Senders : s # {} =>
        f[OneOf(s)] = iss[OneOf(s)] - Cardinality(DOMAIN inf[OneOf(s)])
  BY OneLess
<1>3. ASSUME NEW h
      PROVE  IsIter(h) <=> SumsUp(h, f, Senders)
  <2>1. \A s \in SUBSET Senders :
          (IF s = {} THEN 0
           ELSE iss[CHOOSE x \in s : TRUE] - Cardinality(DOMAIN inf[CHOOSE x \in s : TRUE])
                + h[s \ {CHOOSE x \in s : TRUE}])
          = (IF s = {} THEN 0 ELSE f[OneOf(s)] + h[Rest(s)])
    BY <1>2 DEF OneOf, Rest
  <2> QED BY <2>1, Zenon DEF SumsUp
<1>4. SumsUp(g, f, Senders)
  BY DEF Sums, SumsUp
<1>5. IsIter(iter)
  <2> HIDE DEF IsIter
  <2>1. IsIter(g)
    BY <1>3, <1>4, Zenon
  <2> QED BY <2>1, Zenon
<1> HIDE DEF iter, IsIter
<1>6. SumsUp(iter, f, Senders)
  BY <1>3, <1>5, Zenon
<1>7. g = iter
  <2>1. IsFiniteSet(Senders)
    BY RpcConstants
  <2> QED BY <1>6, <2>1, SumsAgree, Zenon
<1> QED BY <1>1, <1>7
LEMMA SettledIsThis == Settled = SettledOf(issued, inflight) /\ Settled' = SettledOf(issued', inflight')
BY DEF Settled, SettledOf, InFlight, MapThenSumSet, MapThenFoldSet

\* One more request of a sender that is over is one more altogether.
LEMMA SettledMoves ==
  ASSUME RpcConstants, NEW iss, NEW inf, NEW iss2, NEW inf2,
         \A s \in Senders : iss[s] - Cardinality(DOMAIN inf[s]) \in Int,
         NEW p \in Senders, NEW d \in Int,
         iss2[p] - Cardinality(DOMAIN inf2[p]) = iss[p] - Cardinality(DOMAIN inf[p]) + d,
         \A s \in Senders : s # p => iss2[s] - Cardinality(DOMAIN inf2[s]) = iss[s] - Cardinality(DOMAIN inf[s])
  PROVE  SettledOf(iss, inf) \in Int /\ SettledOf(iss2, inf2) = SettledOf(iss, inf) + d
<1> DEFINE f == [s \in Senders |-> iss[s] - Cardinality(DOMAIN inf[s])]
           f2 == [s \in Senders |-> iss2[s] - Cardinality(DOMAIN inf2[s])]
<1>1. f \in [Senders -> Int]
  OBVIOUS
<1>2. f2 \in [Senders -> Int] /\ f2[p] = f[p] + d /\ \A s \in Senders : s # p => f2[s] = f[s]
  OBVIOUS
<1> HIDE DEF f, f2
<1>3. PICK g : Sums(g, f, Senders)
  BY <1>1, HasSumsOver, RpcConstants
<1>4. PICK g2 : Sums(g2, f2, Senders)
  BY <1>2, HasSumsOver, RpcConstants
<1>5. SettledOf(iss, inf) = g[Senders]
  BY <1>3, SettledIs, RpcConstants DEF f
<1>6. SettledOf(iss2, inf2) = g2[Senders]
  BY <1>4, SettledIs, RpcConstants DEF f2
<1>7. g2[Senders] = g[Senders] + d
  BY <1>1, <1>2, <1>3, <1>4, SumChanges, RpcConstants
<1>8. g[Senders] \in Int
  BY <1>3 DEF Sums
<1> QED BY <1>5, <1>6, <1>7, <1>8

LEMMA NothingSettled ==
  ASSUME RpcConstants, NEW iss, NEW inf, \A s \in Senders : iss[s] - Cardinality(DOMAIN inf[s]) = 0
  PROVE  SettledOf(iss, inf) = 0
<1> DEFINE f == [s \in Senders |-> iss[s] - Cardinality(DOMAIN inf[s])]
           g == [s \in SUBSET Senders |-> 0]
<1>1. f = [s \in Senders |-> 0]
  OBVIOUS
<1>2. Sums(g, f, Senders)
  <2>1. \A s \in SUBSET Senders : s # {} => f[OneOf(s)] = 0 /\ Rest(s) \in SUBSET Senders
    BY <1>1, OneLess
  <2> HIDE DEF f
  <2> QED BY <2>1 DEF Sums
<1>3. SettledOf(iss, inf) = g[Senders]
  <2> HIDE DEF g
  <2> QED BY <1>2, SettledIs
<1> QED BY <1>3

Places == {"loop", "race", "drain", "ended"}
Tallies == [success : Nat, timeout : Nat, error : Nat, errors : Nat, sent : Nat, corrupted : Nat]

RpcTypes ==
  /\ place \in [Senders -> Places] /\ issued \in [Senders -> Nat]
  /\ inflight = [s \in Senders |-> inflight[s]]
  /\ \A s \in Senders : DOMAIN inflight[s] \subseteq 1..issued[s]
  /\ tally \in Tallies /\ forgotten \in Int

RpcInv == RpcTypes /\ RpcAccounted

LEMMA CountIs ==
  ASSUME RpcTypes, NEW s \in Senders
  PROVE  IsFiniteSet(DOMAIN inflight[s]) /\ InFlight(s) \in Nat /\ issued[s] - InFlight(s) \in Int
<1>1. DOMAIN inflight[s] \subseteq 1..issued[s] /\ issued[s] \in Nat
  BY DEF RpcTypes
<1>2. IsFiniteSet(DOMAIN inflight[s])
  <2>1. IsFiniteSet(1..issued[s])
    BY <1>1, FS_Interval
  <2> QED BY <1>1, <2>1, FS_Subset
<1> QED BY <1>1, <1>2, FS_CardinalityType DEF InFlight

LEMMA RpcInitInv == RpcConstants /\ RpcInit => RpcInv
<1> SUFFICES ASSUME RpcConstants, RpcInit PROVE RpcInv
  OBVIOUS
<1>1. RpcTypes
  BY DEF RpcInit, RpcTypes, Places, Tallies, NoTally
<1>2. \A s \in Senders : DOMAIN inflight[s] = {}
  BY DEF RpcInit
<1>3. \A s \in Senders : InFlight(s) = 0 /\ issued[s] = 0
  BY <1>2, FS_EmptySet DEF InFlight, RpcInit
<1>4. Settled = 0
  BY <1>3, NothingSettled, SettledIsThis DEF InFlight
<1> QED BY <1>1, <1>3, <1>4, RpcConstants DEF RpcInv, RpcAccounted, RpcInit, NoTally

Outcomes(u) == u.success + u.timeout + u.error

LEMMA AlsoCounted ==
  ASSUME NEW u \in Tallies
  PROVE  /\ [u EXCEPT !.sent = @ + 1] \in Tallies /\ Outcomes([u EXCEPT !.sent = @ + 1]) = Outcomes(u)
         /\ [u EXCEPT !.errors = @ + 1] \in Tallies /\ Outcomes([u EXCEPT !.errors = @ + 1]) = Outcomes(u)
BY DEF Tallies, Outcomes

\* A request that settles is counted once.
LEMMA CommandIsCounted ==
  ASSUME NEW before \in Tallies, NEW outcome
  PROVE  CountCommand(before, outcome) \in Tallies /\ Outcomes(CountCommand(before, outcome)) = Outcomes(before) + 1
<1>1. CASE outcome \in {"done", "damaged"}
  <2>1. CountCommand(before, outcome) = [before EXCEPT !.success = @ + 1, !.sent = @ + 1]
    BY <1>1 DEF CountCommand
  <2> DEFINE u == [before EXCEPT !.success = @ + 1]
  <2>2. u \in Tallies /\ Outcomes(u) = Outcomes(before) + 1
    BY DEF Tallies, Outcomes
  <2>3. CountCommand(before, outcome) = [u EXCEPT !.sent = @ + 1]
    BY <2>1
  <2> HIDE DEF u
  <2> QED BY <2>2, <2>3, AlsoCounted
<1>2. CASE outcome = "refused"
  <2>1. CountCommand(before, outcome) = [before EXCEPT !.error = @ + 1]
    BY <1>2 DEF CountCommand
  <2> QED BY <2>1 DEF Tallies, Outcomes
<1>3. CASE outcome = "late"
  <2>1. CountCommand(before, outcome) = [before EXCEPT !.timeout = @ + 1]
    BY <1>3 DEF CountCommand
  <2> QED BY <2>1 DEF Tallies, Outcomes
<1>4. CASE outcome = "timeout"
  <2>1. CountCommand(before, outcome) = [before EXCEPT !.timeout = @ + 1, !.errors = @ + 1]
    BY <1>4 DEF CountCommand
  <2> DEFINE u == [before EXCEPT !.timeout = @ + 1]
  <2>2. u \in Tallies /\ Outcomes(u) = Outcomes(before) + 1
    BY DEF Tallies, Outcomes
  <2>3. CountCommand(before, outcome) = [u EXCEPT !.errors = @ + 1]
    BY <2>1
  <2> HIDE DEF u
  <2> QED BY <2>2, <2>3, AlsoCounted
<1>5. CASE outcome \notin {"done", "damaged", "refused", "late", "timeout"}
  <2>1. CountCommand(before, outcome) = [before EXCEPT !.error = @ + 1, !.errors = @ + 1]
    BY <1>5 DEF CountCommand
  <2> DEFINE u == [before EXCEPT !.error = @ + 1]
  <2>2. u \in Tallies /\ Outcomes(u) = Outcomes(before) + 1
    BY DEF Tallies, Outcomes
  <2>3. CountCommand(before, outcome) = [u EXCEPT !.errors = @ + 1]
    BY <2>1
  <2> HIDE DEF u
  <2> QED BY <2>2, <2>3, AlsoCounted
<1> QED BY <1>1, <1>2, <1>3, <1>4, <1>5

LEMMA IsCounted ==
  ASSUME NEW before \in Tallies, NEW outcome
  PROVE  Counted(before, outcome) \in Tallies /\ Outcomes(Counted(before, outcome)) = Outcomes(before) + 1
<1> DEFINE c == CountCommand(before, outcome)
<1>1. c \in Tallies /\ Outcomes(c) = Outcomes(before) + 1
  BY CommandIsCounted
<1> HIDE DEF c
<1>2. /\ [c EXCEPT !.corrupted = @ + 1] \in Tallies
      /\ Outcomes([c EXCEPT !.corrupted = @ + 1]) = Outcomes(c)
  BY <1>1 DEF Tallies, Outcomes
<1>3. Counted(before, outcome) \in {c, [c EXCEPT !.corrupted = @ + 1]}
  BY DEF Counted, CountQuery, c
<1> QED BY <1>1, <1>2, <1>3

\* A step at one sender.
LEMMA AtOneSender ==
  ASSUME RpcTypes, NEW s \in Senders, NEW x, inflight' = [inflight EXCEPT ![s] = x]
  PROVE  /\ inflight' = [q \in Senders |-> inflight'[q]]
         /\ inflight'[s] = x
         /\ \A q \in Senders : q # s => inflight'[q] = inflight[q] /\ InFlight(q)' = InFlight(q)
         /\ InFlight(s)' = Cardinality(DOMAIN x)
<1>1. DOMAIN inflight = Senders
  BY DEF RpcTypes
<1>2. inflight' = [q \in Senders |-> IF q = s THEN x ELSE inflight[q]]
  BY <1>1
<1> QED BY <1>2 DEF InFlight

\* What is settled stays, or is one more.
LEMMA SettledStays ==
  ASSUME RpcTypes, \A s \in Senders : issued'[s] - InFlight(s)' = issued[s] - InFlight(s)
  PROVE  Settled' = Settled
<1>1. CASE Senders = {}
  <2>1. \A iss, inf : SettledOf(iss, inf) = 0
    BY <1>1, NothingSettled, RpcConstants
  <2> QED BY <2>1, SettledIsThis
<1>2. ASSUME NEW p \in Senders PROVE Settled' = Settled
  <2>1. \A s \in Senders : issued[s] - Cardinality(DOMAIN inflight[s]) \in Int
    BY CountIs DEF InFlight
  <2>2. \A s \in Senders : issued'[s] - Cardinality(DOMAIN inflight'[s]) = issued[s] - Cardinality(DOMAIN inflight[s])
    BY DEF InFlight
  <2>3. SettledOf(issued', inflight') = SettledOf(issued, inflight) + 0 /\ SettledOf(issued, inflight) \in Int
    <3>1. issued'[p] - Cardinality(DOMAIN inflight'[p]) = issued[p] - Cardinality(DOMAIN inflight[p]) + 0
      BY <2>1, <2>2
    <3>2. 0 \in Int
      OBVIOUS
    <3> QED BY <2>1, <2>2, <3>1, <3>2, SettledMoves, RpcConstants
  <2> QED BY <2>3, SettledIsThis
<1> QED BY <1>1, <1>2

LEMMA SettledGrows ==
  ASSUME RpcTypes, NEW p \in Senders, issued' = issued, InFlight(p)' = InFlight(p) - 1,
         \A s \in Senders : s # p => InFlight(s)' = InFlight(s)
  PROVE  Settled \in Int /\ Settled' = Settled + 1
<1>1. \A s \in Senders : issued[s] - Cardinality(DOMAIN inflight[s]) \in Int
  BY CountIs DEF InFlight
<1>2. \A s \in Senders : s # p =>
        issued'[s] - Cardinality(DOMAIN inflight'[s]) = issued[s] - Cardinality(DOMAIN inflight[s])
  BY DEF InFlight
<1>3. issued'[p] - Cardinality(DOMAIN inflight'[p]) = issued[p] - Cardinality(DOMAIN inflight[p]) + 1
  <2>1. issued[p] \in Int /\ InFlight(p) \in Int
    BY CountIs DEF RpcTypes
  <2> QED BY <2>1 DEF InFlight
<1> QED BY <1>1, <1>2, <1>3, SettledMoves, SettledIsThis, RpcConstants

LEMMA SettledIsNumber == ASSUME RpcTypes PROVE Settled \in Int
<1>1. CASE Senders = {}
  <2>1. \A iss, inf : SettledOf(iss, inf) = 0
    BY <1>1, NothingSettled, RpcConstants
  <2> QED BY <2>1, SettledIsThis
<1>2. ASSUME NEW p \in Senders PROVE Settled \in Int
  <2>1. \A s \in Senders : issued[s] - Cardinality(DOMAIN inflight[s]) \in Int
    BY CountIs DEF InFlight
  <2>2. issued[p] - Cardinality(DOMAIN inflight[p]) = issued[p] - Cardinality(DOMAIN inflight[p]) + 0
    BY <2>1
  <2>3. SettledOf(issued, inflight) \in Int
    <3>1. 0 \in Int
      OBVIOUS
    <3> QED BY <2>1, <2>2, <3>1, SettledMoves, RpcConstants
  <2> QED BY <2>3, SettledIsThis
<1> QED BY <1>1, <1>2

\* What RpcAccounted says of one sender.
Bounded(s) ==
  /\ InFlight(s) <= Concurrency /\ (place[s] = "race" <=> InFlight(s) = Concurrency)
  /\ place[s] = "ended" => InFlight(s) = 0

LEMMA RpcInvIs ==
  RpcInv <=> /\ RpcTypes /\ \A s \in Senders : Bounded(s)
             /\ tally.success + tally.timeout + tally.error + forgotten = Settled
BY DEF RpcInv, RpcAccounted, Bounded

LEMMA IssueKeeps == ASSUME RpcInv, NEW s \in Senders, Issue(s) PROVE RpcInv'
<1> DEFINE n == issued[s] + 1
<1>0. RpcTypes /\ issued[s] \in Nat /\ DOMAIN inflight[s] \subseteq 1..issued[s]
  BY DEF RpcInv, RpcTypes
<1>1. /\ place[s] = "loop" /\ issued' = [issued EXCEPT ![s] = n]
      /\ inflight' = [inflight EXCEPT ![s] = With(inflight[s], n, "asked")]
      /\ place' = [place EXCEPT ![s] = IF Full(InFlight(s) + 1) THEN "race" ELSE "loop"]
      /\ UNCHANGED <<stopped, responding, tally, forgotten>>
  BY DEF Issue, RpcInv, RpcTypes
<1>2. DOMAIN With(inflight[s], n, "asked") = DOMAIN inflight[s] \cup {n} /\ n \notin DOMAIN inflight[s]
  BY <1>0 DEF With
<1>3. /\ inflight' = [q \in Senders |-> inflight'[q]]
      /\ DOMAIN inflight'[s] = DOMAIN inflight[s] \cup {n}
      /\ \A q \in Senders : q # s => inflight'[q] = inflight[q] /\ InFlight(q)' = InFlight(q)
      /\ InFlight(s)' = Cardinality(DOMAIN inflight[s] \cup {n})
  BY <1>0, <1>1, <1>2, AtOneSender
<1>4. InFlight(s)' = InFlight(s) + 1 /\ InFlight(s) \in Nat
  BY <1>0, <1>2, <1>3, CountIs, FS_AddElement DEF InFlight
<1>5. issued' \in [Senders -> Nat] /\ issued'[s] = n /\ \A q \in Senders : q # s => issued'[q] = issued[q]
  BY <1>0, <1>1 DEF RpcTypes
<1>6. place' \in [Senders -> Places] /\ \A q \in Senders : q # s => place'[q] = place[q]
  BY <1>0, <1>1 DEF RpcTypes, Places
<1>7. place'[s] = IF Full(InFlight(s) + 1) THEN "race" ELSE "loop"
  BY <1>0, <1>1 DEF RpcTypes
<1>8. RpcTypes'
  <2>1. DOMAIN inflight'[s] \subseteq 1..issued'[s]
    BY <1>0, <1>3, <1>5
  <2>2. \A q \in Senders : q # s => DOMAIN inflight'[q] \subseteq 1..issued'[q]
    BY <1>0, <1>3, <1>5 DEF RpcTypes
  <2> QED BY <1>0, <1>1, <1>3, <1>5, <1>6, <2>1, <2>2 DEF RpcTypes
<1>9. Settled' = Settled
  <2>1. \A q \in Senders : issued'[q] - InFlight(q)' = issued[q] - InFlight(q)
    BY <1>0, <1>3, <1>4, <1>5
  <2> QED BY <1>0, <2>1, SettledStays
<1>10. Bounded(s)'
  BY <1>1, <1>4, <1>7, RpcInvIs, RpcConstants DEF Bounded, Full
<1>11. \A q \in Senders : q # s => Bounded(q)'
  BY <1>3, <1>6, RpcInvIs DEF Bounded
<1>12. (tally.success + tally.timeout + tally.error + forgotten = Settled)'
  BY <1>1, <1>9, RpcInvIs
<1> QED BY <1>8, <1>10, <1>11, <1>12 DEF RpcInv, RpcAccounted, Bounded

LEMMA DrainEndKeep == ASSUME RpcInv, NEW s \in Senders, Drain(s) \/ End(s) PROVE RpcInv'
<1>0. RpcTypes
  BY DEF RpcInv
<1>1. PICK to \in {"drain", "ended"} :
        /\ place' = [place EXCEPT ![s] = to] /\ place[s] # "race" /\ (to = "ended" => InFlight(s) = 0)
        /\ UNCHANGED <<inflight, issued, stopped, responding, tally, forgotten>>
  BY DEF Drain, End
<1>2. \A q \in Senders : InFlight(q)' = InFlight(q) /\ issued'[q] = issued[q]
  BY <1>1 DEF InFlight
<1>3. Settled' = Settled
  BY <1>0, <1>2, SettledStays
<1>4. RpcTypes'
  BY <1>0, <1>1 DEF RpcTypes, Places
<1>5. place'[s] = to /\ \A q \in Senders : q # s => place'[q] = place[q]
  BY <1>0, <1>1 DEF RpcTypes
<1>6. \A q \in Senders : Bounded(q)'
  BY <1>1, <1>2, <1>5, RpcInvIs DEF Bounded
<1>7. (tally.success + tally.timeout + tally.error + forgotten = Settled)'
  BY <1>1, <1>3, RpcInvIs
<1> QED BY <1>4, <1>6, <1>7 DEF RpcInv, RpcAccounted, Bounded

LEMMA RespondKeeps == ASSUME RpcInv, NEW s \in Senders, NEW n, Respond(s, n) PROVE RpcInv'
<1>0. RpcTypes
  BY DEF RpcInv
<1>1. PICK answer : inflight' = [inflight EXCEPT ![s][n] = answer]
  BY DEF Respond
<1>2. /\ UNCHANGED <<place, issued, forgotten>> /\ n \in DOMAIN inflight[s]
      /\ tally' = tally \/ tally' = [tally EXCEPT !.errors = @ + 1]
  BY DEF Respond
<1>3. /\ inflight' = [q \in Senders |-> inflight'[q]]
      /\ inflight'[s] = [inflight[s] EXCEPT ![n] = answer]
      /\ \A q \in Senders : q # s => inflight'[q] = inflight[q] /\ InFlight(q)' = InFlight(q)
      /\ InFlight(s)' = Cardinality(DOMAIN [inflight[s] EXCEPT ![n] = answer])
  <2>1. inflight' = [inflight EXCEPT ![s] = [inflight[s] EXCEPT ![n] = answer]]
    BY <1>1
  <2> QED BY <1>0, <2>1, AtOneSender
<1>4. DOMAIN [inflight[s] EXCEPT ![n] = answer] = DOMAIN inflight[s]
  OBVIOUS
<1>5. \A q \in Senders : InFlight(q)' = InFlight(q) /\ issued'[q] = issued[q] /\ DOMAIN inflight'[q] = DOMAIN inflight[q]
  BY <1>2, <1>3, <1>4 DEF InFlight
<1>6. Settled' = Settled
  BY <1>0, <1>5, SettledStays
<1>7. tally' \in Tallies /\ Outcomes(tally') = Outcomes(tally)
  BY <1>0, <1>2, AlsoCounted DEF RpcTypes
<1>8. RpcTypes'
  BY <1>0, <1>2, <1>3, <1>5, <1>7 DEF RpcTypes
<1>9. \A q \in Senders : Bounded(q)'
  BY <1>2, <1>5, RpcInvIs DEF Bounded
<1>10. (tally.success + tally.timeout + tally.error + forgotten = Settled)'
  BY <1>2, <1>6, <1>7, RpcInvIs DEF Outcomes
<1> QED BY <1>8, <1>9, <1>10 DEF RpcInv, RpcAccounted, Bounded

LEMMA SettleKeeps == ASSUME RpcInv, NEW s \in Senders, NEW n, Settle(s, n) PROVE RpcInv'
<1>0. RpcTypes
  BY DEF RpcInv
<1>1. PICK outcome : tally' = Counted(tally, outcome)
  BY DEF Settle
<1>2. /\ n \in DOMAIN inflight[s] /\ issued' = issued /\ forgotten' = forgotten
      /\ inflight' = [inflight EXCEPT ![s] = Without(inflight[s], n)]
      /\ place' = [place EXCEPT ![s] = IF place[s] = "race" THEN "loop" ELSE place[s]]
  BY <1>0 DEF Settle, RpcTypes
<1>3. DOMAIN Without(inflight[s], n) = DOMAIN inflight[s] \ {n}
  BY DEF Without
<1>4. /\ inflight' = [q \in Senders |-> inflight'[q]]
      /\ DOMAIN inflight'[s] = DOMAIN inflight[s] \ {n}
      /\ \A q \in Senders : q # s => inflight'[q] = inflight[q] /\ InFlight(q)' = InFlight(q)
      /\ InFlight(s)' = Cardinality(DOMAIN inflight[s] \ {n})
  BY <1>0, <1>2, <1>3, AtOneSender
<1>5. InFlight(s)' = InFlight(s) - 1 /\ InFlight(s) \in Nat
  BY <1>0, <1>2, <1>4, CountIs, FS_RemoveElement DEF InFlight
<1>6. Settled \in Int /\ Settled' = Settled + 1
  BY <1>0, <1>2, <1>4, <1>5, SettledGrows
<1>7. tally' \in Tallies /\ Outcomes(tally') = Outcomes(tally) + 1
  BY <1>0, <1>1, IsCounted DEF RpcTypes
<1>8. /\ place' \in [Senders -> Places] /\ \A q \in Senders : q # s => place'[q] = place[q]
      /\ place'[s] = IF place[s] = "race" THEN "loop" ELSE place[s]
  BY <1>0, <1>2 DEF RpcTypes, Places
<1>9. RpcTypes'
  BY <1>0, <1>2, <1>4, <1>7, <1>8 DEF RpcTypes
<1>10. Bounded(s)'
  <2>1. InFlight(s) # 0
    BY <1>0, <1>2, CountIs, FS_EmptySet DEF InFlight
  <2>2. Bounded(s)
    BY RpcInvIs
  <2> QED BY <1>0, <1>5, <1>8, <2>1, <2>2, RpcConstants DEF Bounded, RpcTypes, Places
<1>11. \A q \in Senders : q # s => Bounded(q)'
  BY <1>4, <1>8, RpcInvIs DEF Bounded
<1>12. (tally.success + tally.timeout + tally.error + forgotten = Settled)'
  BY <1>0, <1>2, <1>6, <1>7, RpcInvIs DEF Outcomes, RpcTypes, Tallies
<1> QED BY <1>9, <1>10, <1>11, <1>12 DEF RpcInv, RpcAccounted, Bounded

LEMMA ResetKeeps == ASSUME RpcInv, ResetRpc PROVE RpcInv'
<1>0. RpcTypes
  BY DEF RpcInv
<1>1. tally' = NoTally /\ forgotten' = Settled /\ UNCHANGED <<place, inflight, issued>>
  BY DEF ResetRpc, requests
<1>2. \A q \in Senders : InFlight(q)' = InFlight(q) /\ issued'[q] = issued[q]
  BY <1>1 DEF InFlight
<1>3. Settled' = Settled /\ Settled \in Int
  BY <1>0, <1>2, SettledStays, SettledIsNumber
<1>4. RpcTypes'
  BY <1>0, <1>1, <1>3 DEF RpcTypes, NoTally, Tallies
<1>5. \A q \in Senders : Bounded(q)'
  BY <1>1, <1>2, RpcInvIs DEF Bounded
<1>6. (tally.success + tally.timeout + tally.error + forgotten = Settled)'
  BY <1>1, <1>3 DEF NoTally
<1> QED BY <1>4, <1>5, <1>6 DEF RpcInv, RpcAccounted, Bounded

LEMMA RpcNextInv == RpcInv /\ [RpcNext]_rpc => RpcInv'
<1> SUFFICES ASSUME RpcInv, [RpcNext]_rpc PROVE RpcInv'
  OBVIOUS
<1>1. CASE StopSenders \/ StopResponders \/ UNCHANGED rpc
  <2>0. RpcTypes
    BY DEF RpcInv
  <2>1. UNCHANGED <<place, inflight, issued, tally, forgotten>>
    BY <1>1 DEF StopSenders, StopResponders, rpc, requests
  <2>2. \A q \in Senders : InFlight(q)' = InFlight(q) /\ issued'[q] = issued[q]
    BY <2>1 DEF InFlight
  <2>3. Settled' = Settled
    BY <2>0, <2>2, SettledStays
  <2>4. RpcTypes'
    BY <2>0, <2>1 DEF RpcTypes
  <2> QED BY <2>1, <2>2, <2>3, <2>4 DEF RpcInv, RpcAccounted
<1> QED BY <1>1, IssueKeeps, DrainEndKeep, RespondKeeps, SettleKeeps, ResetKeeps DEF RpcNext, Settles

\* However requests are answered, refused, lost or late, and whenever the senders are told
\* to stop: no sender has too many requests in flight, and each that settled is counted once.
THEOREM RequestsAreAccounted == RpcSpec => []RpcAccounted
<1>1. RpcInv => RpcAccounted
  BY DEF RpcInv
<1> QED BY <1>1, RpcInitInv, RpcNextInv, RpcConstants, PTL DEF RpcSpec

-----------------------------------------------------------------------------
\* The worker of a channel of messages.

LEMMA LeastOfTwo ==
  ASSUME NEW a \in Int, NEW b \in Int
  PROVE  Min({a, b}) = IF a <= b THEN a ELSE b
<1> DEFINE least == IF a <= b THEN a ELSE b
<1>1. \A x \in {a, b} : (\A y \in {a, b} : x <= y) <=> x = least
  OBVIOUS
<1>2. least \in {a, b}
  OBVIOUS
<1> HIDE DEF least
<1>3. Min({a, b}) = least
  BY <1>1, <1>2 DEF Min
<1> QED BY <1>3 DEF least

LEMMA GreatestOfTwo ==
  ASSUME NEW a \in Int, NEW b \in Int
  PROVE  Max({a, b}) = IF a >= b THEN a ELSE b
<1> DEFINE greatest == IF a >= b THEN a ELSE b
<1>1. \A x \in {a, b} : (\A y \in {a, b} : x >= y) <=> x = greatest
  OBVIOUS
<1>2. greatest \in {a, b}
  OBVIOUS
<1> HIDE DEF greatest
<1>3. Max({a, b}) = greatest
  BY <1>1, <1>2 DEF Max
<1> QED BY <1>3 DEF greatest

LEMMA NumbersArePositive == Numbers \subseteq Positive
BY DEF Numbers, Positive

\* What the trackers took for no duplicates, a sum over the producers.
TakenOf(tr) == MapThenSumSet(LAMBDA p : tr[p].received - tr[p].duplicates, Producers)

LEMMA TakenIs ==
  ASSUME WorkerConstants, NEW tr, NEW f, NEW g, Sums(g, f, Producers),
         f = [p \in Producers |-> tr[p].received - tr[p].duplicates]
  PROVE  TakenOf(tr) = g[Producers]
<1> DEFINE IsIter(h) == h = [s \in SUBSET Producers |->
                          IF s = {} THEN 0
                          ELSE tr[CHOOSE x \in s : TRUE].received - tr[CHOOSE x \in s : TRUE].duplicates
                               + h[s \ {CHOOSE x \in s : TRUE}]]
           iter == CHOOSE h : IsIter(h)
<1>1. TakenOf(tr) = iter[Producers]
  BY DEF TakenOf, MapThenSumSet, MapThenFoldSet
<1>2. \A s \in SUBSET Producers : s # {} =>
        f[OneOf(s)] = tr[OneOf(s)].received - tr[OneOf(s)].duplicates
  BY OneLess
<1>3. ASSUME NEW h
      PROVE  IsIter(h) <=> SumsUp(h, f, Producers)
  <2>1. \A s \in SUBSET Producers :
          (IF s = {} THEN 0
           ELSE tr[CHOOSE x \in s : TRUE].received - tr[CHOOSE x \in s : TRUE].duplicates
                + h[s \ {CHOOSE x \in s : TRUE}])
          = (IF s = {} THEN 0 ELSE f[OneOf(s)] + h[Rest(s)])
    BY <1>2 DEF OneOf, Rest
  <2> QED BY <2>1, Zenon DEF SumsUp
<1>4. SumsUp(g, f, Producers)
  BY DEF Sums, SumsUp
<1>5. IsIter(iter)
  <2> HIDE DEF IsIter
  <2>1. IsIter(g)
    BY <1>3, <1>4, Zenon
  <2> QED BY <2>1, Zenon
<1> HIDE DEF iter, IsIter
<1>6. SumsUp(iter, f, Producers)
  BY <1>3, <1>5, Zenon
<1>7. g = iter
  <2>1. IsFiniteSet(Producers)
    BY WorkerConstants
  <2> QED BY <1>6, <2>1, SumsAgree, Zenon
<1> QED BY <1>1, <1>7

\* One more number of a producer is one more altogether.
LEMMA TakenMoves ==
  ASSUME WorkerConstants, NEW tr, NEW tr2, NEW p \in Producers, NEW d \in Int,
         \A q \in Producers : tr[q].received - tr[q].duplicates \in Int,
         tr2[p].received - tr2[p].duplicates = tr[p].received - tr[p].duplicates + d,
         \A q \in Producers : q # p => tr2[q] = tr[q]
  PROVE  TakenOf(tr) \in Int /\ TakenOf(tr2) = TakenOf(tr) + d
<1> DEFINE f == [q \in Producers |-> tr[q].received - tr[q].duplicates]
           f2 == [q \in Producers |-> tr2[q].received - tr2[q].duplicates]
<1>1. f \in [Producers -> Int]
  OBVIOUS
<1>2. f2 \in [Producers -> Int] /\ f2[p] = f[p] + d /\ \A q \in Producers : q # p => f2[q] = f[q]
  OBVIOUS
<1> HIDE DEF f, f2
<1>3. PICK g : Sums(g, f, Producers)
  BY <1>1, HasSumsOver, WorkerConstants
<1>4. PICK g2 : Sums(g2, f2, Producers)
  BY <1>2, HasSumsOver, WorkerConstants
<1>5. TakenOf(tr) = g[Producers]
  BY <1>3, TakenIs, WorkerConstants DEF f
<1>6. TakenOf(tr2) = g2[Producers]
  BY <1>4, TakenIs, WorkerConstants DEF f2
<1>7. g2[Producers] = g[Producers] + d
  BY <1>1, <1>2, <1>3, <1>4, SumChanges, WorkerConstants
<1>8. g[Producers] \in Int
  BY <1>3 DEF Sums
<1> QED BY <1>5, <1>6, <1>7, <1>8

LEMMA NothingTaken ==
  ASSUME WorkerConstants, NEW tr, \A p \in Producers : tr[p].received - tr[p].duplicates = 0
  PROVE  TakenOf(tr) = 0
<1> DEFINE f == [p \in Producers |-> tr[p].received - tr[p].duplicates]
           g == [s \in SUBSET Producers |-> 0]
<1>1. f = [p \in Producers |-> 0]
  OBVIOUS
<1>2. Sums(g, f, Producers)
  <2>1. \A s \in SUBSET Producers : s # {} => f[OneOf(s)] = 0 /\ Rest(s) \in SUBSET Producers
    BY <1>1, OneLess
  <2> HIDE DEF f
  <2> QED BY <2>1 DEF Sums
<1>3. TakenOf(tr) = g[Producers]
  <2> HIDE DEF g
  <2> QED BY <1>2, TakenIs
<1> QED BY <1>3

\* record() takes a number for a duplicate or for none, as isDuplicate() said.
LEMMA RecordTakes ==
  ASSUME TrackerConstants, NEW s, TrackerInv(s), NEW num \in Positive
  PROVE  Record(s, num).received - Record(s, num).duplicates
           = s.received - s.duplicates + (IF IsDuplicate(s, num) THEN 0 ELSE 1)
<1> DEFINE again == [s EXCEPT !.received = @ + 1, !.duplicates = @ + 1]
           more == [s EXCEPT !.buffer = @ \cup {num}, !.received = @ + 1,
                             !.accepted = @ \cup {num}]
<1>1. s \in ProducerStates /\ s.received \in Nat /\ s.duplicates \in Nat
  BY Fields DEF TrackerInv, TrackerTypes
<1>2. again.received - again.duplicates = s.received - s.duplicates
  BY <1>1 DEF ProducerStates
<1>3. CASE s.warming
  <2>1. CASE num \in s.buffer
    <3>1. Record(s, num) = again
      BY <1>3, <2>1 DEF Record, RecordEarly
    <3> HIDE DEF again
    <3> QED BY <1>1, <1>2, <1>3, <2>1, <3>1 DEF IsDuplicate
  <2>2. CASE num \notin s.buffer
    <3>1. more.received = s.received + 1 /\ more.duplicates = s.duplicates
      BY <1>1 DEF ProducerStates
    <3>2. \A r : DOMAIN r = DOMAIN s => Finalize(r).received = r.received /\ Finalize(r).duplicates = r.duplicates
      BY <1>1 DEF Finalize, ProducerStates
    <3>3. DOMAIN more = DOMAIN s
      OBVIOUS
    <3>4. Record(s, num) \in {more, Finalize(more)}
      BY <1>3, <2>2 DEF Record, RecordEarly
    <3> HIDE DEF more
    <3>5. Record(s, num).received = s.received + 1 /\ Record(s, num).duplicates = s.duplicates
      BY <3>1, <3>2, <3>3, <3>4
    <3> QED BY <1>1, <1>3, <2>2, <3>5 DEF IsDuplicate
  <2> QED BY <2>1, <2>2
<1>4. CASE ~s.warming
  <2>1. CASE Seen(s, num)
    <3>1. Record(s, num) = again
      BY <1>4, <2>1 DEF Record
    <3> HIDE DEF again
    <3> QED BY <1>1, <1>2, <1>4, <2>1, <3>1 DEF IsDuplicate
  <2>2. CASE ~Seen(s, num)
    <3> DEFINE slid == Slide(s, num)
    <3>1. slid \in ProducerStates /\ slid.received = s.received /\ slid.duplicates = s.duplicates
      BY <1>4, <2>2, SlideCounts DEF Slid
    <3>2. Mark(s, num).received = slid.received + 1 /\ Mark(s, num).duplicates = slid.duplicates
      <4> HIDE DEF slid
      <4>1. DOMAIN slid = DOMAIN [received |-> 0] \cup DOMAIN slid
        BY <3>1 DEF ProducerStates
      <4> QED BY <3>1 DEF Mark, ProducerStates, slid
    <3> HIDE DEF slid
    <3>3. Record(s, num) = Mark(s, num)
      BY <1>4, <2>2 DEF Record
    <3> QED BY <1>1, <1>4, <2>2, <3>1, <3>2, <3>3 DEF IsDuplicate
  <2> QED BY <2>1, <2>2
<1> QED BY <1>3, <1>4

\* The inductive invariant: the types with the domains, every tracker good, and their sum.
WorkerTypes ==
  /\ TypeOK
  /\ \A p \in Producers : DOMAIN copies[p] = Numbers
  /\ DOMAIN copies = Producers /\ DOMAIN trackers = Producers

TrackersAreGood ==
  /\ DOMAIN trackers = Producers /\ \A p \in Producers : TrackerInv(trackers[p])
  /\ received = TakenOf(trackers)

WorkerInv == WorkerTypes /\ TrackersAreGood

LEMMA WorkerInvIs == WorkerInv => CountsAddUp
BY DEF WorkerInv, WorkerTypes, TrackersAreGood, CountsAddUp, TrackerInv, TakenOf

Places0 == {"none", "loop", "queued", "check", "sending", "ended"}

LEMMA WorkerInitInv == Init => WorkerInv
<1> SUFFICES ASSUME Init PROVE WorkerInv
  OBVIOUS
<1>1. TypeOK /\ DOMAIN copies = Producers /\ \A p \in Producers : DOMAIN copies[p] = Numbers
  <2>1. /\ DOMAIN copies = Producers
        /\ \A p \in Producers : copies[p] = [n \in Numbers |-> 0]
    BY DEF Init, UnusedChannel
  <2>2. /\ \A p \in Producers : DOMAIN copies[p] = Numbers
        /\ \A p \in Producers, n \in Numbers : copies[p][n] \in 0..Copies
    BY <2>1, WorkerConstants
  <2>3. /\ seq \in [Producers -> Nat] /\ \A p \in Producers : seq[p] <= Quota[p]
        /\ tokens \in 0..MaxTokens
    BY WorkerConstants DEF Init, UnusedChannel
  <2>4. /\ waitQueue = <<>> /\ timer \in BOOLEAN
        /\ sent \in Nat /\ received \in Nat /\ errors \in Nat /\ corrupted \in Nat
    BY DEF Init, UnusedChannel
  <2>5. /\ pc \in [Producers -> {"none", "loop", "queued", "check", "sending", "ended"}]
        /\ aborted \in BOOLEAN /\ consuming \in BOOLEAN
    BY DEF Init
  <2>6. waitQueue \in Seq(Producers)
    BY <2>4
  <2> QED BY <2>1, <2>2, <2>3, <2>4, <2>5, <2>6 DEF TypeOK
<1>2. DOMAIN trackers = Producers /\ \A p \in Producers : trackers[p] = Fresh
  BY DEF Init, UnusedChannel
<1>3. TakenOf(trackers) = 0
  <2>1. \A p \in Producers : trackers[p].received - trackers[p].duplicates = 0
    BY <1>2 DEF Fresh
  <2> QED BY <2>1, NothingTaken, WorkerConstants
<1>4. \A p \in Producers : TrackerInv(trackers[p])
  BY <1>2, FreshInv, TrackerConstants
<1> QED BY <1>1, <1>2, <1>3, <1>4 DEF WorkerInv, WorkerTypes, TrackersAreGood, Init, UnusedChannel

\* What a step leaves of a tracker stays good.
LEMMA SameTrackers ==
  ASSUME TrackersAreGood, trackers' = trackers, received' = received
  PROVE  TrackersAreGood'
BY DEF TrackersAreGood

\* recordReceive().
LEMMA ReceiveKeeps ==
  ASSUME TrackersAreGood, NEW p \in Producers, NEW n \in Numbers, received \in Nat, RecordReceive(p, n)
  PROVE  TrackersAreGood' /\ received' \in Nat
<1>1. /\ trackers' = [trackers EXCEPT ![p] = Record(trackers[p], n)]
      /\ received' = received + (IF IsDuplicate(trackers[p], n) THEN 0 ELSE 1)
  BY DEF RecordReceive, Counts
<1>2. n \in Positive
  BY NumbersArePositive
<1>3. /\ DOMAIN trackers' = Producers /\ trackers'[p] = Record(trackers[p], n)
      /\ \A q \in Producers : q # p => trackers'[q] = trackers[q]
  BY <1>1 DEF TrackersAreGood
<1>4. \A q \in Producers : TrackerInv(trackers[q])
  BY DEF TrackersAreGood
<1>5. \A q \in Producers : TrackerInv(trackers'[q])
  BY <1>2, <1>3, <1>4, RecordInv, TrackerConstants
<1> DEFINE d == IF IsDuplicate(trackers[p], n) THEN 0 ELSE 1
<1>6. d \in Int
  OBVIOUS
<1>7. trackers'[p].received - trackers'[p].duplicates = trackers[p].received - trackers[p].duplicates + d
  BY <1>2, <1>3, <1>4, RecordTakes, TrackerConstants
<1>8. \A q \in Producers : trackers[q].received - trackers[q].duplicates \in Int
  BY <1>4, Fields DEF TrackerInv, TrackerTypes
<1> HIDE DEF d
<1>9. TakenOf(trackers') = TakenOf(trackers) + d
  <2> DEFINE after == trackers'
  <2>1. /\ after[p].received - after[p].duplicates = trackers[p].received - trackers[p].duplicates + d
        /\ \A q \in Producers : q # p => after[q] = trackers[q]
    BY <1>3, <1>7
  <2> HIDE DEF after
  <2>2. TakenOf(after) = TakenOf(trackers) + d
    BY <1>6, <1>8, <2>1, TakenMoves, WorkerConstants
  <2> QED BY <2>2 DEF after
<1>10. TakenOf(trackers)' = TakenOf(trackers')
  BY DEF TakenOf, MapThenSumSet, MapThenFoldSet
<1>11. received' = received + d /\ d \in Nat
  BY <1>1 DEF d
<1> QED BY <1>3, <1>5, <1>9, <1>10, <1>11 DEF TrackersAreGood

LEMMA ResetWorkerKeeps ==
  ASSUME TrackersAreGood, ResetAfterWarmup
  PROVE  TrackersAreGood' /\ received' \in Nat
<1>1. received' = 0 /\ trackers' = [p \in Producers |-> Fresh]
  BY DEF ResetAfterWarmup
<1>2. DOMAIN trackers' = Producers /\ \A p \in Producers : trackers'[p] = Fresh
  BY <1>1
<1>3. \A p \in Producers : TrackerInv(trackers'[p])
  BY <1>2, FreshInv, TrackerConstants
<1>4. TakenOf(trackers') = 0
  <2>1. \A p \in Producers : trackers'[p].received - trackers'[p].duplicates = 0
    BY <1>2 DEF Fresh
  <2> QED BY <2>1, NothingTaken, WorkerConstants
<1>5. TakenOf(trackers)' = TakenOf(trackers')
  BY DEF TakenOf, MapThenSumSet, MapThenFoldSet
<1> QED BY <1>1, <1>2, <1>3, <1>4, <1>5 DEF TrackersAreGood

\* Steps and what they do to the trackers.
LEMMA TrackersKeep ==
  ASSUME WorkerInv, [Next]_vars
  PROVE  TrackersAreGood' /\ received' \in Nat
<1>0. TrackersAreGood /\ received \in Nat
  BY DEF WorkerInv, WorkerTypes, TypeOK
<1>1. CASE trackers' = trackers /\ received' = received
  BY <1>0, <1>1, SameTrackers
<1>2. ASSUME NEW p \in Producers, NEW n \in Numbers, RecordReceive(p, n)
      PROVE  TrackersAreGood' /\ received' \in Nat
  BY <1>0, <1>2, ReceiveKeeps
<1>3. CASE Tick \/ ConsumerFails \/ StopConsumers \/ StopProducers \/ UNCHANGED vars
  BY <1>1, <1>3 DEF Tick, ConsumerFails, StopConsumers, StopProducers, vars, counters
<1>4. ASSUME NEW p \in Producers, Goes(p) \/ SendFails(p) PROVE TrackersAreGood' /\ received' \in Nat
  BY <1>1, <1>4 DEF Goes, TakeToken, QueueUp, HoldBack, StartSend, SendOnClosed, SendResolves, Finish,
       SendFails, counters
<1>5. ASSUME NEW p \in Producers, NEW n \in Numbers, Consumes(p, n) \/ LoseCopy(p, n)
      PROVE  TrackersAreGood' /\ received' \in Nat
  BY <1>1, <1>2, <1>5 DEF Consumes, EventConsumers, StoreConsumers, StreamConsumers, PollConsumers,
       Deliver, DeliverAgain, DeliverDamaged, LoseCopy, counters
<1>6. CASE ResetAfterWarmup
  BY <1>0, <1>6, ResetWorkerKeeps
<1> QED BY <1>3, <1>4, <1>5, <1>6 DEF Next, Works

\* The types, without what TrackersKeep says of them.
OtherTypes ==
  /\ pc \in [Producers -> Places0]
  /\ seq \in [Producers -> Nat] /\ \A p \in Producers : seq[p] <= Quota[p]
  /\ waitQueue \in Seq(Producers) /\ tokens \in 0..MaxTokens
  /\ timer \in BOOLEAN /\ aborted \in BOOLEAN /\ consuming \in BOOLEAN
  /\ \A p \in Producers, n \in Numbers : copies[p][n] \in 0..Copies
  /\ DOMAIN copies = Producers /\ \A p \in Producers : DOMAIN copies[p] = Numbers
  /\ sent \in Nat /\ errors \in Nat /\ corrupted \in Nat

LEMMA WorkerTypesAre ==
  WorkerTypes <=> OtherTypes /\ received \in Nat /\ DOMAIN trackers = Producers
BY DEF WorkerTypes, TypeOK, OtherTypes, Places0

LEMMA QueueTypes ==
  ASSUME OtherTypes, seq' = seq, copies' = copies, sent' = sent, errors' = errors, corrupted' = corrupted,
         aborted' \in BOOLEAN, consuming' \in BOOLEAN, timer' \in BOOLEAN, tokens' \in 0..MaxTokens,
         waitQueue' \in Seq(Producers), pc' \in [Producers -> Places0]
  PROVE  OtherTypes'
BY DEF OtherTypes

LEMMA PlacesOf ==
  ASSUME OtherTypes, NEW p \in Producers, NEW from, NEW to \in Places0, At(p, from, to)
  PROVE  pc' \in [Producers -> Places0]
BY DEF OtherTypes, At

LEMMA RefilledIs ==
  ASSUME OtherTypes, NEW n \in Nat
  PROVE  Refilled(n) \in 0..MaxTokens
<1>1. tokens + n \in Int /\ MaxTokens \in Int /\ tokens \in Nat
  BY WorkerConstants DEF OtherTypes
<1>2. Refilled(n) = IF tokens + n <= MaxTokens THEN tokens + n ELSE MaxTokens
  BY <1>1, LeastOfTwo DEF Refilled
<1> QED BY <1>1, <1>2, WorkerConstants

LEMMA TakeTokenTypes == ASSUME OtherTypes, NEW p \in Producers, TakeToken(p) PROVE OtherTypes'
<1>1. pc' \in [Producers -> Places0]
  BY PlacesOf DEF TakeToken, Places0
<1>2. PICK n \in 0..1 : tokens' = Max({Refilled(n) - 1, 0})
  BY DEF TakeToken
<1>3. Refilled(n) \in 0..MaxTokens
  BY RefilledIs
<1>4. tokens' = IF Refilled(n) - 1 >= 0 THEN Refilled(n) - 1 ELSE 0
  BY <1>2, <1>3, GreatestOfTwo
<1>5. tokens' \in 0..MaxTokens
  BY <1>3, <1>4, WorkerConstants
<1> QED BY <1>1, <1>5, QueueTypes DEF TakeToken, counters, channel, control, OtherTypes

LEMMA QueueUpTypes == ASSUME OtherTypes, NEW p \in Producers, QueueUp(p) PROVE OtherTypes'
<1>1. pc' \in [Producers -> Places0]
  BY PlacesOf DEF QueueUp, Places0
<1>2. waitQueue' \in Seq(Producers)
  BY DEF QueueUp, OtherTypes
<1> QED BY <1>1, <1>2, QueueTypes DEF QueueUp, counters, channel, control, OtherTypes

LEMMA TickTypes == ASSUME OtherTypes, Tick PROVE OtherTypes'
<1>1. PICK n \in 0..MaxTokens :
        LET have == Refilled(n)
            served == Min({have, Len(waitQueue)})
        IN /\ tokens' = have - served
           /\ pc' = [p \in Producers |->
                       IF \E i \in 1..served : waitQueue[i] = p THEN "check" ELSE pc[p]]
           /\ waitQueue' = SubSeq(waitQueue, served + 1, Len(waitQueue))
           /\ timer' = KeepTimer(served)
  BY DEF Tick
<1> DEFINE have == Refilled(n)
           served == Min({have, Len(waitQueue)})
<1>2. have \in 0..MaxTokens /\ waitQueue \in Seq(Producers) /\ Len(waitQueue) \in Nat /\ MaxTokens \in Nat
  BY RefilledIs, WorkerConstants DEF OtherTypes
<1> HIDE DEF have
<1>3. served = (IF have <= Len(waitQueue) THEN have ELSE Len(waitQueue))
  BY <1>2, LeastOfTwo
<1>4. tokens' = have - served /\ waitQueue' = SubSeq(waitQueue, served + 1, Len(waitQueue))
      /\ timer' = (served < Len(waitQueue))
      /\ pc' = [p \in Producers |-> IF \E i \in 1..served : waitQueue[i] = p THEN "check" ELSE pc[p]]
  BY <1>1 DEF have, KeepTimer
<1> HIDE DEF served
<1>5. tokens' \in 0..MaxTokens /\ served \in Nat /\ served <= Len(waitQueue)
  BY <1>2, <1>3, <1>4
<1>6. waitQueue' \in Seq(Producers)
  <2>1. \A i \in served + 1 .. Len(waitQueue) : i \in 1 .. Len(waitQueue)
    BY <1>2, <1>5
  <2> QED BY <1>2, <1>4, <1>5, <2>1, SubSeqProperties
<1>7. pc' \in [Producers -> Places0]
  BY <1>4 DEF OtherTypes, Places0
<1>8. UNCHANGED <<seq, counters, channel, control>> /\ timer' \in BOOLEAN
  BY <1>4 DEF Tick
<1>9. aborted' \in BOOLEAN /\ consuming' \in BOOLEAN
  BY <1>8 DEF control, OtherTypes
<1> QED BY <1>5, <1>6, <1>7, <1>8, <1>9, QueueTypes DEF counters, channel

LEMMA StopTypes == ASSUME OtherTypes, StopProducers \/ StopConsumers PROVE OtherTypes'
<1>1. CASE StopProducers
  <2>1. pc' \in [Producers -> Places0] /\ waitQueue' \in Seq(Producers)
    BY <1>1 DEF StopProducers, OtherTypes, Places0
  <2> QED BY <1>1, <2>1, QueueTypes DEF StopProducers, counters, channel, OtherTypes
<1>2. CASE StopConsumers
  BY <1>2, QueueTypes DEF StopConsumers, limiter, producing, counters, channel, OtherTypes
<1> QED BY <1>1, <1>2

LEMMA LoopTypes == ASSUME OtherTypes, NEW p \in Producers, HoldBack(p) \/ Finish(p) PROVE OtherTypes'
<1>1. pc' \in [Producers -> Places0]
  BY PlacesOf DEF HoldBack, Finish, Places0
<1> QED BY <1>1, QueueTypes DEF HoldBack, Finish, limiter, counters, channel, control, OtherTypes

\* A message more of one producer.
LEMMA NextNumber ==
  ASSUME OtherTypes, NEW p \in Producers, seq[p] < Quota[p], seq' = [seq EXCEPT ![p] = @ + 1]
  PROVE  seq' \in [Producers -> Nat] /\ \A q \in Producers : seq'[q] <= Quota[q]
<1>1. \A q \in Producers : seq[q] \in Nat /\ Quota[q] \in Nat
  BY WorkerConstants DEF OtherTypes
<1> QED BY <1>1 DEF OtherTypes

\* As many copies as there are consumers, or one less.
LEMMA CopiesChange ==
  ASSUME OtherTypes, NEW p \in Producers, NEW n, NEW k,
         n \in Numbers => k \in 0..Copies, copies' = [copies EXCEPT ![p][n] = k]
  PROVE  /\ \A q \in Producers, m \in Numbers : copies'[q][m] \in 0..Copies
         /\ DOMAIN copies' = Producers /\ \A q \in Producers : DOMAIN copies'[q] = Numbers
<1>1. copies' = [copies EXCEPT ![p] = [copies[p] EXCEPT ![n] = k]]
  OBVIOUS
<1>2. /\ DOMAIN copies' = Producers /\ copies'[p] = [copies[p] EXCEPT ![n] = k]
      /\ \A q \in Producers : q # p => copies'[q] = copies[q]
  BY <1>1 DEF OtherTypes
<1>3. DOMAIN copies'[p] = Numbers /\ \A m \in Numbers : copies'[p][m] = IF m = n THEN k ELSE copies[p][m]
  BY <1>2 DEF OtherTypes
<1> QED BY <1>2, <1>3 DEF OtherTypes

LEMMA SendTypes ==
  ASSUME OtherTypes, NEW p \in Producers,
         StartSend(p) \/ SendOnClosed(p) \/ SendResolves(p) \/ SendFails(p)
  PROVE  OtherTypes'
<1>1. pc' \in [Producers -> Places0]
  BY PlacesOf DEF StartSend, SendOnClosed, SendResolves, SendFails, Places0
<1>2. CASE StartSend(p)
  <2>1. seq' \in [Producers -> Nat] /\ \A q \in Producers : seq'[q] <= Quota[q]
    BY <1>2, NextNumber DEF StartSend
  <2>2. /\ \A q \in Producers, m \in Numbers : copies'[q][m] \in 0..Copies
        /\ DOMAIN copies' = Producers /\ \A q \in Producers : DOMAIN copies'[q] = Numbers
    <3>1. Copies \in 0..Copies
      BY WorkerConstants
    <3>2. copies' = [copies EXCEPT ![p][seq'[p]] = Copies]
      BY <1>2 DEF StartSend
    <3> QED BY <3>1, <3>2, CopiesChange
  <2> QED BY <1>1, <1>2, <2>1, <2>2 DEF StartSend, limiter, counters, control, OtherTypes
<1>3. CASE SendOnClosed(p)
  <2>1. seq' \in [Producers -> Nat] /\ \A q \in Producers : seq'[q] <= Quota[q]
    BY <1>3, NextNumber DEF SendOnClosed
  <2> QED BY <1>1, <1>3, <2>1 DEF SendOnClosed, limiter, channel, control, OtherTypes
<1>4. CASE SendResolves(p) \/ SendFails(p)
  BY <1>1, <1>4 DEF SendResolves, SendFails, limiter, channel, control, OtherTypes
<1> QED BY <1>2, <1>3, <1>4

LEMMA ConsumerTypes ==
  ASSUME OtherTypes, NEW p \in Producers, NEW n \in Numbers, Consumes(p, n) \/ LoseCopy(p, n)
  PROVE  OtherTypes'
<1>1. UNCHANGED <<limiter, producing, control, sent>> /\ errors' \in Nat /\ corrupted' \in Nat
  BY DEF Consumes, EventConsumers, StoreConsumers, StreamConsumers, PollConsumers, Deliver, DeliverAgain,
     DeliverDamaged, LoseCopy, RecordReceive, counters, OtherTypes
<1>2. \/ copies' = copies
      \/ copies[p][n] > 0 /\ copies' = [copies EXCEPT ![p][n] = copies[p][n] - 1]
  BY DEF Consumes, EventConsumers, StoreConsumers, StreamConsumers, PollConsumers, Deliver, DeliverAgain,
     DeliverDamaged, LoseCopy, OtherTypes
<1>3. /\ \A q \in Producers, m \in Numbers : copies'[q][m] \in 0..Copies
      /\ DOMAIN copies' = Producers /\ \A q \in Producers : DOMAIN copies'[q] = Numbers
  <2>1. CASE copies' = copies
    BY <2>1 DEF OtherTypes
  <2>2. CASE copies[p][n] > 0 /\ copies' = [copies EXCEPT ![p][n] = copies[p][n] - 1]
    <3>1. copies[p][n] \in 0..Copies
      BY DEF OtherTypes
    <3>2. copies[p][n] - 1 \in 0..Copies
      BY <2>2, <3>1, WorkerConstants
    <3> QED BY <2>2, <3>2, CopiesChange
  <2> QED BY <1>2, <2>1, <2>2
<1> QED BY <1>1, <1>3 DEF OtherTypes, limiter, producing, control

LEMMA ErrorTypes == ASSUME OtherTypes, ConsumerFails \/ ResetAfterWarmup PROVE OtherTypes'
<1>1. /\ UNCHANGED <<limiter, producing, control, copies>>
      /\ sent' \in Nat /\ errors' \in Nat /\ corrupted' \in Nat
  BY DEF ConsumerFails, ResetAfterWarmup, OtherTypes
<1> QED BY <1>1 DEF OtherTypes, limiter, producing, control

LEMMA WorkerNextInv == WorkerInv /\ [Next]_vars => WorkerInv'
<1> SUFFICES ASSUME WorkerInv, [Next]_vars PROVE WorkerInv'
  OBVIOUS
<1>1. TrackersAreGood' /\ received' \in Nat
  BY TrackersKeep
<1>2. OtherTypes
  BY WorkerTypesAre DEF WorkerInv
<1>3. OtherTypes'
  <2>1. CASE UNCHANGED vars
    BY <1>2, <2>1 DEF OtherTypes, vars, limiter, producing, counters, channel, control
  <2> QED BY <1>2, <2>1, TakeTokenTypes, QueueUpTypes, TickTypes, StopTypes, LoopTypes, SendTypes,
        ConsumerTypes, ErrorTypes DEF Next, Works, Goes
<1>4. (WorkerTypes <=> OtherTypes /\ received \in Nat /\ DOMAIN trackers = Producers)'
  BY DEF WorkerTypes, TypeOK, OtherTypes, Places0
<1> QED BY <1>1, <1>3, <1>4 DEF WorkerInv, TrackersAreGood

\* Whatever the broker loses, repeats, damages or puts out of order, and whenever the counters
\* are reset and the engine stops whom: what each tracker has counted adds up, and the worker
\* has received exactly what its trackers took for no duplicates.
THEOREM WorkersCountsAddUp == Spec => []CountsAddUp
<1>1. WorkerInv => CountsAddUp
  BY WorkerInvIs
<1> QED BY <1>1, WorkerInitInv, WorkerNextInv, PTL DEF Spec

-----------------------------------------------------------------------------
\* The tracker again: what has a bit, what was accepted, and what is lost.

\* What has a bit was accepted, and while the window has room what is accepted has one.
MarksAre(s) ==
  /\ s.marked \subseteq s.accepted
  /\ s.warming => s.hc = 0 /\ s.marked = {}
  /\ ~s.warming => s.base > 0
  /\ ~s.warming /\ ~s.overrun => Window > 0 /\ s.accepted \subseteq s.marked

LEMMA FreshMarks == MarksAre(Fresh)
BY DEF MarksAre, Fresh

LEMMA FinalizeMarks ==
  ASSUME TrackerConstants, NEW s \in ProducerStates, s.buffer # {}, s.accepted = s.buffer
  PROVE  MarksAre(Finalize(s)) /\ Finalize(s).accepted = s.accepted
         /\ Finalize(s).duplicates = s.duplicates
<1> DEFINE base == Min(s.buffer)
           bits == {n \in s.buffer : n - base < Window}
           r == Finalize(s)
<1>1. s.buffer \in SUBSET Nat /\ s.buffer \in SUBSET Positive
  BY Fields DEF Positive
<1>2. base \in s.buffer /\ base \in Nat /\ base > 0
  BY <1>1, MinIsLeast DEF Positive
<1>3. /\ r.warming = FALSE /\ r.base = base /\ r.marked = bits /\ r.overrun = (bits # s.buffer)
      /\ r.accepted = s.accepted /\ r.duplicates = s.duplicates
  <2> HIDE DEF base
  <2> QED BY DEF Finalize, ProducerStates, base
<1>4. bits = s.buffer => Window > 0
  <2>1. bits = s.buffer => base - base < Window
    BY <1>2
  <2> QED BY <1>2, <2>1, TrackerConstants
<1> HIDE DEF r, bits
<1>5. bits \subseteq s.buffer
  BY DEF bits
<1> QED BY <1>2, <1>3, <1>4, <1>5 DEF MarksAre, r

\* record() accepts what isDuplicate() takes for no duplicate.
LEMMA RecordAccepts ==
  ASSUME TrackerConstants, NEW s, TrackerInv(s), MarksAre(s), NEW num \in Positive
  PROVE  /\ MarksAre(Record(s, num))
         /\ IsDuplicate(s, num) => Record(s, num).accepted = s.accepted
         /\ ~IsDuplicate(s, num) => /\ Record(s, num).accepted = s.accepted \cup {num}
                                    /\ Record(s, num).duplicates = s.duplicates
<1> DEFINE again == [s EXCEPT !.received = @ + 1, !.duplicates = @ + 1]
           more == [s EXCEPT !.buffer = @ \cup {num}, !.received = @ + 1,
                             !.accepted = @ \cup {num}]
           r == Record(s, num)
<1>1. s \in ProducerStates
  BY DEF TrackerInv, TrackerTypes
<1>2. MarksAre(again) /\ again.accepted = s.accepted
  <2>1. /\ again.marked = s.marked /\ again.accepted = s.accepted /\ again.warming = s.warming
        /\ again.hc = s.hc /\ again.base = s.base /\ again.overrun = s.overrun
    BY <1>1 DEF ProducerStates
  <2> HIDE DEF again
  <2> QED BY <2>1 DEF MarksAre
<1>3. CASE s.warming
  <2>1. CASE num \in s.buffer
    <3>1. r = again
      BY <1>3, <2>1 DEF Record, RecordEarly
    <3> HIDE DEF again, r
    <3> QED BY <1>2, <1>3, <2>1, <3>1 DEF IsDuplicate, r
  <2>2. CASE num \notin s.buffer
    <3>1. /\ more.marked = s.marked /\ more.accepted = s.accepted \cup {num}
          /\ more.buffer = s.buffer \cup {num} /\ more.warming = s.warming
          /\ more.hc = s.hc /\ more.duplicates = s.duplicates
      BY <1>1 DEF ProducerStates
    <3>2. more \in ProducerStates
      <4>1. s.buffer \cup {num} \in SUBSET Positive /\ s.accepted \cup {num} \in SUBSET Positive
        BY <1>1, Fields
      <4> QED BY <1>1, <4>1, Fields DEF ProducerStates
    <3>3. r \in {more, Finalize(more)}
      BY <1>3, <2>2 DEF Record, RecordEarly
    <3>4. s.accepted = s.buffer
      BY <1>3 DEF TrackerInv, EarlyIsBuffered
    <3> HIDE DEF more, r
    <3>5. MarksAre(more)
      BY <1>3, <3>1 DEF MarksAre
    <3>6. /\ MarksAre(Finalize(more)) /\ Finalize(more).accepted = more.accepted
          /\ Finalize(more).duplicates = more.duplicates
      BY <3>1, <3>2, <3>4, FinalizeMarks
    <3> QED BY <1>3, <2>2, <3>1, <3>3, <3>5, <3>6 DEF IsDuplicate, r
  <2> QED BY <2>1, <2>2
<1>4. CASE ~s.warming
  <2>1. CASE Seen(s, num)
    <3>1. r = again
      BY <1>4, <2>1 DEF Record
    <3> HIDE DEF again, r
    <3> QED BY <1>2, <1>4, <2>1, <3>1 DEF IsDuplicate, r
  <2>2. CASE ~Seen(s, num)
    <3> DEFINE slid == Slide(s, num)
               mine == {n \in {num} : n > slid.hc}
    <3>1. /\ slid \in ProducerStates /\ slid.warming = s.warming /\ slid.marked = s.marked
          /\ slid.accepted = s.accepted /\ slid.base = s.base /\ slid.overrun = s.overrun
          /\ slid.duplicates = s.duplicates
      BY <1>4, <2>2, SlideCounts DEF Slid
    <3>2. Window > 0 => slid.hc < num
      <4>1. /\ num \in Nat /\ s.hc \in Nat /\ Window \in Nat /\ num > s.hc
        BY <1>1, <2>2, Fields, TrackerConstants DEF Seen, Positive
      <4>2. slid.hc = IF num - Window <= s.hc THEN s.hc ELSE num - Window
        BY <1>1 DEF Slide, ProducerStates
      <4> HIDE DEF slid
      <4> QED BY <4>1, <4>2
    <3>3. /\ r.marked = s.marked \cup mine /\ r.accepted = s.accepted \cup {num}
          /\ r.warming = s.warming /\ r.base = s.base /\ r.overrun = s.overrun
          /\ r.duplicates = s.duplicates
      <4>1. r = Mark(s, num)
        BY <1>4, <2>2 DEF Record
      <4> HIDE DEF slid, r
      <4> QED BY <3>1, <4>1 DEF Mark, ProducerStates, slid
    <3>4. ~IsDuplicate(s, num)
      BY <1>4, <2>2 DEF IsDuplicate
    <3>5. mine \subseteq {num} /\ (Window > 0 => mine = {num})
      <4> HIDE DEF slid
      <4>1. num \in Nat /\ slid.hc \in Nat
        BY <3>1, Fields DEF Positive
      <4> QED BY <3>2, <4>1
    <3> HIDE DEF r, mine, slid
    <3>6. MarksAre(r)
      BY <1>4, <3>3, <3>5 DEF MarksAre
    <3> QED BY <3>3, <3>4, <3>6 DEF r
  <2> QED BY <2>1, <2>2
<1> QED BY <1>3, <1>4

\* Where nothing is counted as lost, every number was accepted.
LEMMA NothingLost ==
  ASSUME NEW s, TrackerInv(s), MarksAre(s), s.lost = 0, NEW n \in s.base .. s.hc, n > 0
  PROVE  n \in s.accepted
<1> DEFINE gone == (s.base .. s.hc) \ s.marked
<1>1. s.hc \in Nat /\ s.base \in Nat
  BY Fields DEF TrackerInv, TrackerTypes
<1>2. ~s.warming
  BY <1>1 DEF MarksAre
<1>3. IsFiniteSet(gone)
  <2>1. IsFiniteSet(s.base .. s.hc)
    BY <1>1, IntervalsAreFinite
  <2> QED BY <2>1, FS_Difference
<1>4. Cardinality(gone) = 0
  BY <1>2 DEF TrackerInv, TrackerAddsUp, LossIsExact
<1>5. gone = {}
  BY <1>3, <1>4, FS_EmptySet
<1> QED BY <1>5 DEF MarksAre

\* Where every number was accepted nothing is counted as lost, unless the warm-up
\* overran the window.
LEMMA AllThere ==
  ASSUME NEW s, TrackerInv(s), MarksAre(s), ~s.overrun,
         \A n \in s.base .. s.hc : n > 0 => n \in s.accepted
  PROVE  s.lost = 0
<1>1. s.hc \in Nat /\ s.base \in Nat
  BY Fields DEF TrackerInv, TrackerTypes
<1>2. CASE s.warming
  BY <1>2 DEF TrackerInv, EarlyIsBuffered
<1>3. CASE ~s.warming
  <2>1. (s.base .. s.hc) \ s.marked = {}
    BY <1>1, <1>3 DEF MarksAre
  <2> QED BY <1>3, <2>1, FS_EmptySet DEF TrackerInv, TrackerAddsUp, LossIsExact
<1> QED BY <1>2, <1>3

-----------------------------------------------------------------------------
\* Sums of counters.

\* The sum of natural numbers is one, and nothing only if each of them is.
LEMMA SumOfNaturals ==
  ASSUME NEW S, IsFiniteSet(S), NEW f \in [S -> Nat], NEW g, Sums(g, f, S)
  PROVE  g[S] \in Nat
<1> DEFINE Bad == {s \in SUBSET S : g[s] \notin Nat}
<1>1. SUFFICES ASSUME Bad # {} PROVE FALSE
  <2>1. S \in SUBSET S /\ S \notin Bad
    BY <1>1
  <2> QED BY <2>1
<1>2. PICK T \in Bad : \A U \in Bad : U \subseteq T => U = T
  <2>1. Bad \in SUBSET (SUBSET S)
    OBVIOUS
  <2> HIDE DEF Bad
  <2> QED BY <1>1, <2>1, LeastSet
<1>3. T \in SUBSET S /\ g[T] \notin Nat
  OBVIOUS
<1>4. T # {}
  <2>1. {} \in SUBSET S /\ g[{}] = 0
    BY DEF Sums
  <2> HIDE DEF Bad
  <2> QED BY <1>3, <2>1
<1>5. Rest(T) \in SUBSET S /\ Rest(T) \subseteq T /\ Rest(T) # T /\ OneOf(T) \in T
  BY <1>3, <1>4, OneLess
<1>6. g[Rest(T)] \in Nat
  BY <1>2, <1>5
<1>7. g[T] = f[OneOf(T)] + g[Rest(T)] /\ f[OneOf(T)] \in Nat
  BY <1>3, <1>4, <1>5 DEF Sums
<1> QED BY <1>3, <1>6, <1>7

LEMMA SumIsAtLeast ==
  ASSUME NEW S, IsFiniteSet(S), NEW f \in [S -> Nat], NEW g, Sums(g, f, S), NEW p \in S
  PROVE  g[S] >= f[p]
<1> DEFINE f2 == [q \in S |-> IF q = p THEN 0 ELSE f[q]]
<1>1. /\ f2 \in [S -> Nat] /\ f2 \in [S -> Int] /\ f \in [S -> Int] /\ f[p] \in Nat /\ f2[p] = 0
      /\ \A q \in S : q # p => f2[q] = f[q]
  OBVIOUS
<1> HIDE DEF f2
<1>2. PICK g2 : Sums(g2, f2, S)
  BY <1>1, HasSumsOver
<1>3. f2[p] = f[p] + (0 - f[p]) /\ 0 - f[p] \in Int
  BY <1>1
<1> DEFINE d == 0 - f[p]
<1>4. d \in Int /\ f2[p] = f[p] + d /\ d = 0 - f[p]
  BY <1>3
<1> HIDE DEF d
<1>5. g2[S] = g[S] + d
  BY <1>1, <1>2, <1>4, SumChanges
<1>6. g2[S] \in Nat /\ g[S] \in Nat
  BY <1>1, <1>2, SumOfNaturals
<1> QED BY <1>1, <1>4, <1>5, <1>6

\* SumOf of any trackers.
SumIn(tr, field) == MapThenSumSet(LAMBDA p : tr[p][field], Producers)

LEMMA SumInIs ==
  ASSUME WorkerConstants, NEW tr, NEW field, NEW f, NEW g, Sums(g, f, Producers),
         f = [p \in Producers |-> tr[p][field]]
  PROVE  SumIn(tr, field) = g[Producers]
<1> DEFINE IsIter(h) == h = [s \in SUBSET Producers |->
                          IF s = {} THEN 0
                          ELSE tr[CHOOSE x \in s : TRUE][field] + h[s \ {CHOOSE x \in s : TRUE}]]
           iter == CHOOSE h : IsIter(h)
<1>1. SumIn(tr, field) = iter[Producers]
  BY DEF SumIn, MapThenSumSet, MapThenFoldSet
<1>2. \A s \in SUBSET Producers : s # {} => f[OneOf(s)] = tr[OneOf(s)][field]
  BY OneLess
<1>3. ASSUME NEW h
      PROVE  IsIter(h) <=> SumsUp(h, f, Producers)
  <2>1. \A s \in SUBSET Producers :
          (IF s = {} THEN 0
           ELSE tr[CHOOSE x \in s : TRUE][field] + h[s \ {CHOOSE x \in s : TRUE}])
          = (IF s = {} THEN 0 ELSE f[OneOf(s)] + h[Rest(s)])
    BY <1>2 DEF OneOf, Rest
  <2> QED BY <2>1, Zenon DEF SumsUp
<1>4. SumsUp(g, f, Producers)
  BY DEF Sums, SumsUp
<1>5. IsIter(iter)
  <2> HIDE DEF IsIter
  <2>1. IsIter(g)
    BY <1>3, <1>4, Zenon
  <2> QED BY <2>1, Zenon
<1> HIDE DEF iter, IsIter
<1>6. SumsUp(iter, f, Producers)
  BY <1>3, <1>5, Zenon
<1>7. g = iter
  <2>1. IsFiniteSet(Producers)
    BY WorkerConstants
  <2> QED BY <1>6, <2>1, SumsAgree, Zenon
<1> QED BY <1>1, <1>7

\* A sum of counters is a number, and 0 exactly if each of them is.
LEMMA SumInIsZero ==
  ASSUME WorkerConstants, NEW tr, NEW field, \A p \in Producers : tr[p][field] \in Nat
  PROVE  /\ SumIn(tr, field) \in Nat
         /\ SumIn(tr, field) = 0 <=> \A p \in Producers : tr[p][field] = 0
<1> DEFINE f == [p \in Producers |-> tr[p][field]]
           zero == [s \in SUBSET Producers |-> 0]
<1>1. f \in [Producers -> Nat] /\ f \in [Producers -> Int] /\ \A p \in Producers : f[p] = tr[p][field]
  OBVIOUS
<1>2. f = [p \in Producers |-> tr[p][field]]
  OBVIOUS
<1> HIDE DEF f
<1>3. PICK g : Sums(g, f, Producers)
  BY <1>1, HasSumsOver, WorkerConstants
<1>4. SumIn(tr, field) = g[Producers]
  BY <1>2, <1>3, SumInIs
<1>5. g[Producers] \in Nat /\ \A p \in Producers : g[Producers] >= f[p]
  BY <1>1, <1>3, SumOfNaturals, SumIsAtLeast, WorkerConstants
<1>6. ASSUME \A p \in Producers : f[p] = 0 PROVE SumIn(tr, field) = 0
  <2>1. Sums(zero, f, Producers)
    <3>1. \A s \in SUBSET Producers : s # {} => f[OneOf(s)] = 0 /\ Rest(s) \in SUBSET Producers
      BY <1>6, OneLess
    <3> QED BY <3>1 DEF Sums
  <2>2. zero[Producers] = 0
    OBVIOUS
  <2> HIDE DEF zero
  <2> QED BY <1>2, <2>1, <2>2, SumInIs
<1>7. ASSUME SumIn(tr, field) = 0, NEW p \in Producers PROVE tr[p][field] = 0
  BY <1>1, <1>4, <1>5, <1>7
<1> QED BY <1>1, <1>4, <1>5, <1>6, <1>7

\* A channel by itself is its pattern's total.
LEMMA TotalOfOne ==
  ASSUME NEW d, NEW field, d[field] \in Int
  PROVE  Total([i \in {1} |-> d], field) = d[field]
<1> DEFINE one == {1}
           c == [i \in one |-> d]
           f == [i \in one |-> d[field]]
           g == [s \in SUBSET one |-> IF s = {} THEN 0 ELSE d[field]]
           IsIter(h) == h = [s \in SUBSET one |->
                          IF s = {} THEN 0
                          ELSE c[CHOOSE x \in s : TRUE][field] + h[s \ {CHOOSE x \in s : TRUE}]]
           iter == CHOOSE h : IsIter(h)
<1>1. Total(c, field) = iter[one]
  <2>1. DOMAIN c = one
    OBVIOUS
  <2> HIDE DEF c, one
  <2> QED BY <2>1 DEF Total, MapThenSumSet, MapThenFoldSet
<1>2. \A s \in SUBSET one : s # {} => OneOf(s) = 1 /\ Rest(s) = {}
  <2>1. ASSUME NEW s \in SUBSET one, s # {} PROVE OneOf(s) = 1 /\ Rest(s) = {}
    <3>1. OneOf(s) \in s
      BY <2>1, OneLess
    <3> QED BY <3>1 DEF Rest
  <2> QED BY <2>1
<1>3. Sums(g, f, one)
  <2>1. g \in [SUBSET one -> Int]
    <3> HIDE DEF one
    <3> QED OBVIOUS
  <2>2. ASSUME NEW s \in SUBSET one, s # {} PROVE g[s] = f[OneOf(s)] + g[Rest(s)]
    <3>1. OneOf(s) = 1 /\ Rest(s) = {} /\ {} \in SUBSET one /\ 1 \in one
      BY <1>2, <2>2
    <3>2. g[s] = d[field] /\ g[{}] = 0 /\ f[1] = d[field]
      BY <2>2, <3>1
    <3> HIDE DEF g, f
    <3> QED BY <3>1, <3>2
  <2>3. g[{}] = 0
    OBVIOUS
  <2> HIDE DEF g, f, one
  <2> QED BY <2>1, <2>2, <2>3 DEF Sums
<1>4. \A s \in SUBSET one : s # {} => f[OneOf(s)] = c[OneOf(s)][field]
  BY <1>2
<1>5. IsFiniteSet(one) /\ g[one] = d[field]
  BY FS_Singleton
<1> HIDE DEF one, c, f, g
<1>6. ASSUME NEW h
      PROVE  IsIter(h) <=> SumsUp(h, f, one)
  <2>1. \A s \in SUBSET one :
          (IF s = {} THEN 0
           ELSE c[CHOOSE x \in s : TRUE][field] + h[s \ {CHOOSE x \in s : TRUE}])
          = (IF s = {} THEN 0 ELSE f[OneOf(s)] + h[Rest(s)])
    BY <1>4 DEF OneOf, Rest
  <2> QED BY <2>1, Zenon DEF SumsUp
<1>7. SumsUp(g, f, one)
  BY <1>3 DEF Sums, SumsUp
<1>8. IsIter(iter)
  <2> HIDE DEF IsIter
  <2>1. IsIter(g)
    BY <1>6, <1>7, Zenon
  <2> QED BY <2>1, Zenon
<1> HIDE DEF iter, IsIter
<1>9. SumsUp(iter, f, one)
  BY <1>6, <1>8, Zenon
<1>10. g = iter
  BY <1>3, <1>5, <1>9, SumsAgree, Zenon
<1>11. c = [i \in {1} |-> d]
  BY DEF c, one
<1> QED BY <1>1, <1>5, <1>10, <1>11

-----------------------------------------------------------------------------
\* The channel of a report: while nothing goes wrong nothing is counted as wrong.

\* Nothing has gone wrong with messages that go to one consumer, and they are still sent.
Untroubled == Copies = 1 /\ faults = 0 /\ ~astray /\ ~aborted

\* Each message is then on its way, or accepted, or neither, but never both.
Clean ==
  /\ errors = 0 /\ corrupted = 0
  /\ \A p \in Producers :
       /\ trackers[p].duplicates = 0
       /\ \A n \in Numbers : n > seq[p] => copies[p][n] = 0
       /\ \A n \in trackers[p].accepted : n <= seq[p] /\ (n \in Numbers => copies[p][n] = 0)

ChannelInv ==
  /\ WorkerInv /\ pattern \in Patterns /\ faults \in Nat
  /\ \A p \in Producers : MarksAre(trackers[p])
  /\ Untroubled => Clean

LEMMA ChannelInitInv == Init => ChannelInv
<1> SUFFICES ASSUME Init PROVE ChannelInv
  OBVIOUS
<1>1. /\ pattern \in Patterns /\ faults = 0 /\ errors = 0 /\ corrupted = 0
      /\ \A p \in Producers : trackers[p] = Fresh /\ seq[p] = 0
      /\ \A p \in Producers : \A n \in Numbers : copies[p][n] = 0
  BY DEF Init, UnusedChannel
<1>2. Clean
  BY <1>1 DEF Clean, Fresh
<1> QED BY <1>1, <1>2, WorkerInitInv, FreshMarks DEF ChannelInv

\* recordReceive() and the reset.
LEMMA MarksKeep ==
  ASSUME ChannelInv, [Next]_vars
  PROVE  \A p \in Producers : MarksAre(trackers'[p])
<1>0. /\ \A p \in Producers : MarksAre(trackers[p]) /\ TrackerInv(trackers[p])
      /\ DOMAIN trackers = Producers
  BY DEF ChannelInv, WorkerInv, TrackersAreGood
<1>1. CASE trackers' = trackers
  BY <1>0, <1>1
<1>2. ASSUME NEW p \in Producers, NEW n \in Numbers, RecordReceive(p, n)
      PROVE  \A q \in Producers : MarksAre(trackers'[q])
  <2>1. trackers' = [trackers EXCEPT ![p] = Record(trackers[p], n)]
    BY <1>2 DEF RecordReceive
  <2>2. trackers'[p] = Record(trackers[p], n) /\ \A q \in Producers : q # p => trackers'[q] = trackers[q]
    BY <1>0, <2>1
  <2>3. MarksAre(Record(trackers[p], n))
    BY <1>0, RecordAccepts, NumbersArePositive, TrackerConstants
  <2> QED BY <1>0, <2>2, <2>3
<1>3. CASE ResetAfterWarmup
  <2>1. \A p \in Producers : trackers'[p] = Fresh
    BY <1>3 DEF ResetAfterWarmup
  <2> QED BY <2>1, FreshMarks
<1>4. CASE Tick \/ ConsumerFails \/ StopConsumers \/ StopProducers \/ UNCHANGED vars
  BY <1>1, <1>4 DEF Tick, ConsumerFails, StopConsumers, StopProducers, vars, counters
<1>5. ASSUME NEW p \in Producers, Goes(p) \/ SendFails(p) PROVE \A q \in Producers : MarksAre(trackers'[q])
  BY <1>1, <1>5 DEF Goes, TakeToken, QueueUp, HoldBack, StartSend, SendOnClosed, SendResolves, Finish,
       SendFails, counters
<1>6. ASSUME NEW p \in Producers, NEW n \in Numbers, Consumes(p, n) \/ LoseCopy(p, n)
      PROVE  \A q \in Producers : MarksAre(trackers'[q])
  BY <1>1, <1>2, <1>6 DEF Consumes, EventConsumers, StoreConsumers, StreamConsumers, PollConsumers,
       Deliver, DeliverAgain, DeliverDamaged, LoseCopy, counters
<1> QED BY <1>3, <1>4, <1>5, <1>6 DEF Next, Works

\* What is on its way is taken for no duplicate.
LEMMA DeliverIsClean ==
  ASSUME ChannelInv, Untroubled, NEW p \in Producers, NEW n \in Numbers, Deliver(p, n), ~astray'
  PROVE  Clean'
<1>1. /\ Clean /\ DOMAIN trackers = Producers /\ TrackerInv(trackers[p]) /\ MarksAre(trackers[p])
      /\ DOMAIN copies = Producers /\ \A q \in Producers : DOMAIN copies[q] = Numbers
      /\ \A q \in Producers : seq[q] \in Nat
      /\ copies[p][n] \in 0..Copies /\ Copies = 1
  BY DEF ChannelInv, WorkerInv, WorkerTypes, TypeOK, TrackersAreGood, Untroubled
<1>2. /\ trackers' = [trackers EXCEPT ![p] = Record(trackers[p], n)]
      /\ copies' = [copies EXCEPT ![p] = [copies[p] EXCEPT ![n] = copies[p][n] - 1]]
      /\ copies[p][n] > 0 /\ seq' = seq /\ errors' = errors /\ corrupted' = corrupted
      /\ ~(IsDuplicate(trackers[p], n) /\ n \notin trackers[p].accepted)
  BY DEF Deliver, RecordReceive, producing
<1>3. n \notin trackers[p].accepted /\ ~IsDuplicate(trackers[p], n) /\ n <= seq[p]
  <2>1. n \in Nat
    BY NumbersArePositive DEF Positive
  <2> QED BY <1>1, <1>2, <2>1 DEF Clean
<1>4. /\ trackers'[p].accepted = trackers[p].accepted \cup {n}
      /\ trackers'[p].duplicates = trackers[p].duplicates
      /\ \A q \in Producers : q # p => trackers'[q] = trackers[q] /\ copies'[q] = copies[q]
  <2>1. /\ Record(trackers[p], n).accepted = trackers[p].accepted \cup {n}
        /\ Record(trackers[p], n).duplicates = trackers[p].duplicates
    BY <1>1, <1>3, RecordAccepts, NumbersArePositive, TrackerConstants
  <2> QED BY <1>1, <1>2, <2>1
<1>5. copies'[p][n] = 0 /\ \A m \in Numbers : m # n => copies'[p][m] = copies[p][m]
  <2>1. copies[p][n] - 1 = 0
    BY <1>1, <1>2
  <2>2. copies'[p] = [copies[p] EXCEPT ![n] = 0]
    BY <1>1, <1>2, <2>1
  <2> QED BY <1>1, <2>2
<1>6. ASSUME NEW q \in Producers
      PROVE  /\ trackers'[q].duplicates = 0
             /\ \A m \in Numbers : m > seq[q] => copies'[q][m] = 0
             /\ \A m \in trackers'[q].accepted : m <= seq[q] /\ (m \in Numbers => copies'[q][m] = 0)
  <2>1. CASE q = p
    BY <1>1, <1>3, <1>4, <1>5, <2>1 DEF Clean
  <2>2. CASE q # p
    BY <1>1, <1>4, <2>2 DEF Clean
  <2> QED BY <2>1, <2>2
<1>7. errors' = 0 /\ corrupted' = 0
  BY <1>1, <1>2 DEF Clean
<1> QED BY <1>2, <1>6, <1>7 DEF Clean

LEMMA SendIsClean ==
  ASSUME ChannelInv, Untroubled, NEW p \in Producers, StartSend(p)
  PROVE  Clean'
<1>1. /\ Clean /\ DOMAIN copies = Producers /\ \A q \in Producers : DOMAIN copies[q] = Numbers
      /\ \A q \in Producers : seq[q] \in Nat /\ seq \in [Producers -> Nat]
  BY DEF ChannelInv, WorkerInv, WorkerTypes, TypeOK, Untroubled
<1> DEFINE next == seq[p] + 1
<1>2. /\ seq' = [seq EXCEPT ![p] = next] /\ trackers' = trackers
      /\ errors' = errors /\ corrupted' = corrupted
      /\ copies' = [copies EXCEPT ![p][seq'[p]] = Copies]
  BY DEF StartSend, counters
<1>3. seq'[p] = next /\ \A q \in Producers : q # p => seq'[q] = seq[q]
  <2> HIDE DEF next
  <2> QED BY <1>1, <1>2
<1>4. copies' = [copies EXCEPT ![p] = [copies[p] EXCEPT ![next] = Copies]]
  BY <1>2, <1>3
<1>5. next \in Nat /\ next > seq[p] /\ seq[p] \in Nat
  BY <1>1
<1> HIDE DEF next
<1>6. /\ \A m \in Numbers : m # next => copies'[p][m] = copies[p][m]
      /\ \A q \in Producers : q # p => copies'[q] = copies[q]
  <2>1. copies'[p] = [copies[p] EXCEPT ![next] = Copies]
    BY <1>1, <1>4
  <2> QED BY <1>1, <1>4, <2>1
<1>7. \A m \in Numbers : m \in Nat
  BY NumbersArePositive DEF Positive
<1>8. \A m \in trackers[p].accepted : m \in Nat
  BY Fields DEF ChannelInv, WorkerInv, TrackersAreGood, TrackerInv, TrackerTypes, Positive
<1>9. ASSUME NEW q \in Producers
      PROVE  /\ trackers'[q].duplicates = 0
             /\ \A m \in Numbers : m > seq'[q] => copies'[q][m] = 0
             /\ \A m \in trackers'[q].accepted : m <= seq'[q] /\ (m \in Numbers => copies'[q][m] = 0)
  <2>1. CASE q = p
    <3>1. ASSUME NEW m \in Numbers, m > seq'[p] PROVE copies'[p][m] = 0
      <4>1. m # next /\ m > seq[p]
        BY <1>3, <1>5, <1>7, <3>1
      <4> QED BY <1>1, <1>6, <4>1 DEF Clean
    <3>2. ASSUME NEW m \in trackers[p].accepted
          PROVE  m <= seq'[p] /\ (m \in Numbers => copies'[p][m] = 0)
      <4>1. m <= seq[p] /\ (m \in Numbers => copies[p][m] = 0)
        BY <1>1 DEF Clean
      <4>2. m # next /\ m <= next
        BY <1>5, <1>8, <4>1
      <4> QED BY <1>3, <1>6, <4>1, <4>2
    <3> QED BY <1>1, <1>2, <2>1, <3>1, <3>2 DEF Clean
  <2>2. CASE q # p
    BY <1>1, <1>2, <1>3, <1>6, <2>2 DEF Clean
  <2> QED BY <2>1, <2>2
<1>10. errors' = 0 /\ corrupted' = 0
  BY <1>1, <1>2 DEF Clean
<1> QED BY <1>9, <1>10 DEF Clean

LEMMA CleanKeeps ==
  ASSUME ChannelInv, [Next]_vars
  PROVE  faults' \in Nat /\ pattern' \in Patterns /\ (Untroubled' => Clean')
<1>0. faults \in Nat /\ pattern \in Patterns /\ (Untroubled => Clean)
  BY DEF ChannelInv
<1> DEFINE Goal == faults' \in Nat /\ pattern' \in Patterns /\ (Untroubled' => Clean')
<1>1. CASE UNCHANGED <<errors, corrupted, trackers, seq, copies, faults, astray, pattern>> /\ (aborted => aborted')
  <2>1. Untroubled' => Untroubled
    BY <1>1 DEF Untroubled
  <2>2. Clean => Clean'
    BY <1>1 DEF Clean
  <2> QED BY <1>0, <1>1, <2>1, <2>2
<1>2. CASE faults' = faults + 1 /\ pattern' = pattern
  BY <1>0, <1>2 DEF Untroubled
<1>3. CASE aborted' /\ faults' \in {faults, faults + 1} /\ pattern' = pattern
  BY <1>0, <1>3 DEF Untroubled
<1>4. ASSUME NEW p \in Producers, StartSend(p) PROVE Goal
  <2>1. UNCHANGED <<faults, astray, aborted, pattern>>
    BY <1>4 DEF StartSend, control
  <2>2. Untroubled' => Untroubled
    BY <2>1 DEF Untroubled
  <2>3. Untroubled' => Clean'
    BY <1>4, <2>2, SendIsClean
  <2> QED BY <1>0, <2>1, <2>3
<1>5. ASSUME NEW p \in Producers, NEW n \in Numbers, Deliver(p, n) PROVE Goal
  <2>1. UNCHANGED <<faults, aborted, pattern>> /\ (astray => astray')
    BY <1>5 DEF Deliver, RecordReceive, control
  <2>2. Untroubled' => Untroubled /\ ~astray'
    BY <2>1 DEF Untroubled
  <2>3. Untroubled' => Clean'
    BY <1>5, <2>2, DeliverIsClean
  <2> QED BY <1>0, <2>1, <2>3
<1> HIDE DEF Goal
<1>6. CASE Tick \/ StopConsumers \/ StopProducers \/ UNCHANGED vars
  <2>1. /\ UNCHANGED <<errors, corrupted, trackers, seq, copies, faults, astray, pattern>>
        /\ aborted => aborted'
    BY <1>6 DEF Tick, StopConsumers, StopProducers, vars, limiter, producing, counters, channel, control
  <2> QED BY <1>1, <2>1 DEF Goal
<1>7. CASE ConsumerFails \/ ResetAfterWarmup
  BY <1>2, <1>7 DEF ConsumerFails, ResetAfterWarmup, control, Goal
<1>8. ASSUME NEW p \in Producers, Goes(p) \/ SendFails(p) PROVE Goal
  <2>1. CASE TakeToken(p) \/ QueueUp(p) \/ HoldBack(p) \/ SendResolves(p) \/ Finish(p)
    <3>1. /\ UNCHANGED <<errors, corrupted, trackers, seq, copies, faults, astray, pattern>>
          /\ aborted => aborted'
      BY <2>1 DEF TakeToken, QueueUp, HoldBack, SendResolves, Finish, limiter, counters, channel, control
    <3> QED BY <1>1, <3>1 DEF Goal
  <2>2. CASE SendOnClosed(p) \/ SendFails(p)
    <3>1. \/ faults' = faults + 1 /\ pattern' = pattern
          \/ aborted' /\ faults' \in {faults, faults + 1} /\ pattern' = pattern
      BY <2>2 DEF SendOnClosed, SendFails, HandleClosed, channel, control
    <3> QED BY <1>2, <1>3, <3>1 DEF Goal
  <2> QED BY <1>4, <1>8, <2>1, <2>2 DEF Goes
<1>9. ASSUME NEW p \in Producers, NEW n \in Numbers, Consumes(p, n) \/ LoseCopy(p, n) PROVE Goal
  <2>1. Deliver(p, n) \/ DeliverAgain(p, n) \/ DeliverDamaged(p, n) \/ LoseCopy(p, n)
    BY <1>9 DEF Consumes, EventConsumers, StoreConsumers, StreamConsumers, PollConsumers
  <2>2. CASE DeliverAgain(p, n) \/ DeliverDamaged(p, n) \/ LoseCopy(p, n)
    BY <1>2, <2>2 DEF DeliverAgain, DeliverDamaged, LoseCopy, control, Goal
  <2> QED BY <1>5, <2>1, <2>2
<1> QED BY <1>6, <1>7, <1>8, <1>9 DEF Next, Works, Goal

LEMMA ChannelNextInv == ChannelInv /\ [Next]_vars => ChannelInv'
BY WorkerNextInv, MarksKeep, CleanKeeps DEF ChannelInv

-----------------------------------------------------------------------------
\* What is captured of the channel.

\* What is captured of a channel tells what went wrong in it.
Details == [sent : Nat, received : Nat, lost : Nat, duplicated : Nat, corrupted : Nat, errors : Nat]

CountsOf(d) ==
  [channelDetails |-> [i \in {1} |-> d], sent |-> d.sent, received |-> d.received, lost |-> d.lost,
   duplicated |-> d.duplicated, corrupted |-> d.corrupted, errors |-> d.errors]

Tells(s, d) ==
  /\ d \in Details /\ s.counts = CountsOf(d)
  /\ d.lost = 0 => ~s.missing
  /\ ~s.missing /\ ~s.overrun => d.lost = 0
  /\ Copies = 1 /\ ~s.troubled => d.errors = 0 /\ d.corrupted = 0 /\ d.duplicated = 0

SoundSnapshot == snapshot = NoSnapshot \/ \E d \in Details : Tells(snapshot, d)

ReportInv == ChannelInv /\ SoundSnapshot

LEMMA SnapshotIs ==
  ASSUME NEW d \in Details
  PROVE  SnapshotOf([i \in {1} |-> d]) = CountsOf(d)
<1>1. /\ d.sent \in Int /\ d.received \in Int /\ d.lost \in Int /\ d.duplicated \in Int
      /\ d.corrupted \in Int /\ d.errors \in Int
  BY DEF Details
<1> DEFINE c == [i \in {1} |-> d]
<1>2. /\ Total(c, "sent") = d.sent /\ Total(c, "received") = d.received /\ Total(c, "lost") = d.lost
      /\ Total(c, "duplicated") = d.duplicated /\ Total(c, "corrupted") = d.corrupted
      /\ Total(c, "errors") = d.errors
  BY <1>1, TotalOfOne
<1> HIDE DEF c
<1>3. SnapshotOf(c) = [channelDetails |-> c, sent |-> d.sent, received |-> d.received, lost |-> d.lost,
                       duplicated |-> d.duplicated, corrupted |-> d.corrupted, errors |-> d.errors]
  BY <1>2 DEF SnapshotOf
<1> QED BY <1>3 DEF CountsOf, c

LEMMA TakeTells ==
  ASSUME ChannelInv, ~aborted
  PROVE  \E d \in Details : Tells(Take, d)
<1> DEFINE d == ChannelDetails
<1>1. \A p \in Producers : TrackerInv(trackers[p]) /\ MarksAre(trackers[p])
  BY DEF ChannelInv, WorkerInv, TrackersAreGood
<1>2. \A p \in Producers : trackers[p]["lost"] \in Nat /\ trackers[p]["duplicates"] \in Nat
  BY <1>1, Fields DEF TrackerInv, TrackerTypes
<1>3. /\ SumOf("lost") \in Nat /\ (SumOf("lost") = 0 <=> \A p \in Producers : trackers[p]["lost"] = 0)
      /\ SumOf("duplicates") \in Nat
      /\ (SumOf("duplicates") = 0 <=> \A p \in Producers : trackers[p]["duplicates"] = 0)
  <2>1. SumOf("lost") = SumIn(trackers, "lost") /\ SumOf("duplicates") = SumIn(trackers, "duplicates")
    BY DEF SumOf, SumIn
  <2> QED BY <1>2, <2>1, SumInIsZero, WorkerConstants
<1>4. /\ sent \in Nat /\ received \in Nat /\ corrupted \in Nat /\ errors \in Nat /\ faults \in Nat
  BY DEF ChannelInv, WorkerInv, WorkerTypes, TypeOK
<1>5. /\ d.sent = sent /\ d.received = received /\ d.lost = SumOf("lost")
      /\ d.duplicated = SumOf("duplicates") /\ d.corrupted = corrupted /\ d.errors = errors
  BY DEF ChannelDetails
<1>6. d \in Details
  BY <1>3, <1>4 DEF ChannelDetails, Details
<1>7. /\ Take.counts = CountsOf(d) /\ Take.missing = Missing /\ Take.overrun = Overrun
      /\ Take.troubled = (faults > 0 \/ astray)
  <2>1. SnapshotOf([i \in {1} |-> d]) = CountsOf(d)
    BY <1>6, SnapshotIs
  <2> HIDE DEF d
  <2>2. Take = [counts |-> CountsOf(d), missing |-> Missing, overrun |-> Overrun,
                troubled |-> faults > 0 \/ astray]
    BY <2>1 DEF Take, d
  <2> QED BY <2>2
<1> HIDE DEF d
<1>8. ASSUME d.lost = 0 PROVE ~Missing
  <2>1. \A p \in Producers : trackers[p].lost = 0
    BY <1>3, <1>5, <1>8
  <2> QED BY <1>1, <2>1, NothingLost DEF Missing
<1>9. ASSUME ~Missing, ~Overrun PROVE d.lost = 0
  <2>1. ASSUME NEW p \in Producers PROVE trackers[p].lost = 0
    <3>1. ~trackers[p].overrun
      BY <1>9 DEF Overrun
    <3>2. \A n \in trackers[p].base .. trackers[p].hc : n > 0 => n \in trackers[p].accepted
      BY <1>9 DEF Missing
    <3> QED BY <1>1, <3>1, <3>2, AllThere
  <2> QED BY <1>3, <1>5, <2>1
<1>10. ASSUME Copies = 1, ~(faults > 0 \/ astray)
       PROVE  d.errors = 0 /\ d.corrupted = 0 /\ d.duplicated = 0
  <2>1. Clean
    BY <1>4, <1>10 DEF ChannelInv, Untroubled
  <2>2. \A p \in Producers : trackers[p].duplicates = 0
    BY <2>1 DEF Clean
  <2> QED BY <1>3, <1>5, <2>1, <2>2 DEF Clean
<1> HIDE DEF Take
<1>11. Tells(Take, d)
  BY <1>6, <1>7, <1>8, <1>9, <1>10 DEF Tells
<1> QED BY <1>6, <1>11

LEMMA ReportNextInv == ReportInv /\ [ReportNext]_<<vars, snapshot>> => ReportInv'
<1> SUFFICES ASSUME ReportInv, [ReportNext]_<<vars, snapshot>> PROVE ReportInv'
  OBVIOUS
<1>1. ChannelInv'
  <2>1. [Next]_vars
    BY DEF ReportNext, CaptureAndStop, Next
  <2> QED BY <2>1, ChannelNextInv DEF ReportInv
<1>2. SoundSnapshot'
  <2>1. CASE CaptureAndStop
    <3>1. \E d \in Details : Tells(Take, d)
      BY <2>1, TakeTells DEF CaptureAndStop, StopProducers, ReportInv
    <3>2. snapshot' = Take
      BY <2>1 DEF CaptureAndStop
    <3>3. \E d \in Details : Tells(snapshot', d)
      BY <3>1, <3>2
    <3> QED BY <3>3 DEF SoundSnapshot, Tells
  <2>2. CASE snapshot' = snapshot
    BY <2>2 DEF SoundSnapshot, ReportInv, Tells
  <2> QED BY <2>1, <2>2 DEF ReportNext
<1> QED BY <1>1, <1>2 DEF ReportInv

-----------------------------------------------------------------------------
\* The summary of the channel.

\* The part of the summary about the pattern of the channel.
Part == PatternSummary(pattern, Config.patterns[pattern], snapshot.counts, Measured, 1)

LEMMA SummaryIs ==
  ASSUME NEW growth
  PROVE  /\ DOMAIN Summary(growth).patterns = {pattern}
         /\ Summary(growth).patterns[pattern] = Part
         /\ Summary(growth).duration = 1 /\ Summary(growth).growth = growth
<1> HIDE DEF Part
<1>1. Summary(growth) = [patterns |-> [p \in {pattern} |->
                            PatternSummary(p, Config.patterns[p], snapshot.counts, Measured, 1)],
                         duration |-> 1, growth |-> growth]
  BY DEF Summary
<1> QED BY <1>1 DEF Part

\* What the summary says of one channel.
PartOf(d) ==
  /\ Part.pattern = pattern /\ Part.consumers = Config.patterns[pattern].consumers
  /\ Part.avgRate = d.sent /\ Part.targetRate = Config.patterns[pattern].rate
  /\ Part.group = (pattern \in EventPatterns /\ Config.patterns[pattern].group)
  /\ Part.responses = d.received /\ Part.channelDetails = [i \in {1} |-> d]
  /\ Part.sent = d.sent /\ Part.received = d.received /\ Part.lost = d.lost
  /\ Part.duplicated = d.duplicated /\ Part.errors = d.errors
  /\ Part.p99 = 0 /\ Part.p999 = 0 /\ Part.downtime = 0

\* The limits of the pattern.
LimitsAreNumbers ==
  /\ pattern \in PubSubQueue /\ pattern \notin RpcPatterns
  /\ Config.patterns[pattern].rate \in Nat /\ Config.patterns[pattern].consumers \in Nat
  /\ LossThreshold(Config, pattern) \in Nat
  /\ P99Threshold(Config, pattern) \in Nat /\ P999Threshold(Config, pattern) \in Nat
  /\ Config.thresholds.duplication \in Nat /\ Config.thresholds.errors \in Nat
  /\ Config.thresholds.downtime \in Nat
  /\ Config.thresholds.throughput \in 1..100
  /\ Config.thresholds.memory \in Nat /\ Config.thresholds.memory >= 100

LEMMA LimitsAre ==
  ASSUME pattern \in Patterns
  PROVE  LimitsAreNumbers
<1>1. /\ Config.thresholds["loss"] \in Nat /\ Config.thresholds["eventsLoss"] \in Nat
      /\ Config.thresholds["duplication"] \in Nat /\ Config.thresholds["p99"] \in Nat
      /\ Config.thresholds["p999"] \in Nat /\ Config.thresholds["errors"] \in Nat
      /\ Config.thresholds["downtime"] \in Nat
      /\ Config.thresholds.throughput \in 1..100
      /\ Config.thresholds.memory \in Nat /\ Config.thresholds.memory >= 100
  BY ReportConstants
<1> DEFINE of == Config.patterns[pattern]
<1>2. /\ of.rate \in Nat /\ of.consumers \in Nat \ {0}
      /\ of.thresholds["loss"] \in Limits /\ of.thresholds["p99"] \in Limits
      /\ of.thresholds["p999"] \in Limits
  BY ReportConstants
<1>3. pattern \in PubSubQueue /\ pattern \notin RpcPatterns
  BY ReportConstants DEF PubSubQueue, EventPatterns, RpcPatterns
<1>4. /\ LossThreshold(Config, pattern) \in Nat
      /\ P99Threshold(Config, pattern) \in Nat /\ P999Threshold(Config, pattern) \in Nat
  <2> DEFINE o == of.thresholds
  <2>1. o["loss"] = "none" \/ o["loss"] \in Nat
    BY <1>2 DEF Limits
  <2>2. o["p99"] = "none" \/ o["p99"] \in Nat
    BY <1>2 DEF Limits
  <2>3. o["p999"] = "none" \/ o["p999"] \in Nat
    BY <1>2 DEF Limits
  <2> QED BY <1>1, <2>1, <2>2, <2>3 DEF LossThreshold, P99Threshold, P999Threshold, Own
<1> QED BY <1>1, <1>2, <1>3, <1>4 DEF LimitsAreNumbers

LEMMA PartIs ==
  ASSUME pattern \in Patterns, NEW d \in Details, snapshot.counts = CountsOf(d)
  PROVE  PartOf(d)
<1> DEFINE c == CountsOf(d)
           of == Config.patterns[pattern]
<1>1. /\ c.channelDetails = [i \in {1} |-> d] /\ c.sent = d.sent /\ c.received = d.received
      /\ c.lost = d.lost /\ c.duplicated = d.duplicated /\ c.errors = d.errors
  BY DEF CountsOf
<1> HIDE DEF c
<1>2. Cardinality(DOMAIN c.channelDetails) = 1
  <2>1. DOMAIN c.channelDetails = {1}
    BY <1>1
  <2> QED BY <2>1, FS_Singleton
<1>3. c.sent \div 1 = d.sent
  <2>1. d.sent \in Nat
    BY DEF Details
  <2> QED BY <1>1, <2>1
<1>4. of.rate * 1 = of.rate
  BY LimitsAre DEF LimitsAreNumbers
<1>5. pattern \notin RpcPatterns
  BY LimitsAre DEF LimitsAreNumbers
<1>6. Part = PatternSummary(pattern, of, c, Measured, 1)
  BY DEF Part, c
<1> HIDE DEF of
<1> DEFINE p == PatternSummary(pattern, of, c, Measured, 1)
<1>7. /\ p.pattern = pattern /\ p.consumers = of.consumers
      /\ p.avgRate = c.sent \div 1 /\ p.targetRate = of.rate * Cardinality(DOMAIN c.channelDetails)
      /\ p.group = (pattern \in EventPatterns /\ of.group)
      /\ p.responses = c.received /\ p.channelDetails = c.channelDetails
      /\ p.sent = c.sent /\ p.received = c.received /\ p.lost = c.lost
      /\ p.duplicated = c.duplicated /\ p.errors = c.errors
      /\ p.p99 = Measured.p99 /\ p.p999 = Measured.p999 /\ p.downtime = Measured.downtime
  BY <1>5 DEF PatternSummary
<1>8. Measured.p99 = 0 /\ Measured.p999 = 0 /\ Measured.downtime = 0
  BY DEF Measured
<1> HIDE DEF p
<1>9. p = Part
  BY <1>6 DEF p
<1> QED BY <1>1, <1>2, <1>3, <1>4, <1>7, <1>8, <1>9 DEF PartOf, of

-----------------------------------------------------------------------------
\* The checks of the verdict.

\* The checks of a channel that is all there is of its pattern.
ChannelOk(d) ==
  /\ ~Exceeds(d.lost, d.sent, LossThreshold(Config, pattern))
  /\ IF FannedOut THEN d.received = d.sent * Config.patterns[pattern].consumers
                  ELSE ~Exceeds(d.duplicated, d.sent, DuplicationLimit(Config, Part))
  /\ ~Exceeds(d.errors, d.sent + d.received, Config.thresholds.errors)
  /\ Config.mode = "soak" /\ Config.patterns[pattern].rate > 0
       => 100 * Min({d.sent, Config.patterns[pattern].rate})
            >= Config.thresholds.throughput * Config.patterns[pattern].rate

LEMMA ChannelIsAll ==
  ASSUME NEW d, PartOf(d)
  PROVE  DOMAIN Part.channelDetails = {1} /\ Channels(Part) = {d} /\ ~Several(Part)
<1> HIDE DEF Part
<1>1. Part.channelDetails = [i \in {1} |-> d]
  BY DEF PartOf
<1>2. DOMAIN Part.channelDetails = {1}
  BY <1>1
<1>3. Channels(Part) = {d}
  BY <1>1 DEF Channels
<1>4. Cardinality({1}) = 1
  BY FS_Singleton
<1>5. ~(1 > 1)
  OBVIOUS
<1> QED BY <1>2, <1>3, <1>4, <1>5 DEF Several

LEMMA DeliveryIs ==
  ASSUME pattern \in Patterns, NEW d \in Details, PartOf(d)
  PROVE  DeliveryOk(Config, Part) <=>
           IF FannedOut THEN d.received = d.sent * Config.patterns[pattern].consumers
                        ELSE ~Exceeds(d.duplicated, d.sent, DuplicationLimit(Config, Part))
<1> HIDE DEF Part
<1>1. Broadcasts(Part) <=> FannedOut
  <2>1. Config.patterns[pattern].group \in BOOLEAN
    BY ReportConstants
  <2>2. Part.group <=> (pattern \in EventPatterns /\ Config.patterns[pattern].group)
    BY <2>1 DEF PartOf
  <2> QED BY <2>2 DEF Broadcasts, FannedOut, PartOf
<1>2. BroadcastOk(Part) <=> d.received = d.sent * Config.patterns[pattern].consumers
  <2>1. Part.consumers = Config.patterns[pattern].consumers /\ {1} # {}
    BY DEF PartOf
  <2> QED BY <2>1, ChannelIsAll DEF BroadcastOk
<1>3. DuplicationOk(Config, Part) <=> ~Exceeds(d.duplicated, d.sent, DuplicationLimit(Config, Part))
  BY ChannelIsAll DEF DuplicationOk, PartOf
<1> QED BY <1>1, <1>2, <1>3 DEF DeliveryOk

LEMMA PatternIsOk ==
  ASSUME pattern \in Patterns, NEW d \in Details, PartOf(d), NEW growth
  PROVE  PatternOk(Config, Summary(growth), pattern) <=> ChannelOk(d)
<1>0. LimitsAreNumbers
  BY LimitsAre
<1>1. Summary(growth).patterns[pattern] = Part /\ Summary(growth).duration = 1
  BY SummaryIs
<1> HIDE DEF Part
<1>2. LossOk(Config, Part) <=> ~Exceeds(d.lost, d.sent, LossThreshold(Config, pattern))
  BY ChannelIsAll DEF LossOk, PartOf
<1>3. LatencyOk(Config, Part)
  BY <1>0 DEF LatencyOk, PartOf, LimitsAreNumbers
<1>4. ErrorsOk(Config, Part) <=> ~Exceeds(d.errors, d.sent + d.received, Config.thresholds.errors)
  BY DEF ErrorsOk, PartOf
<1>5. DowntimeOk(Config, Part, 1)
  BY <1>0 DEF DowntimeOk, Exceeds, PartOf, LimitsAreNumbers
<1>6. ThroughputOk(Config, Part) <=>
        (Config.mode = "soak" /\ Config.patterns[pattern].rate > 0
           => 100 * Min({d.sent, Config.patterns[pattern].rate})
                >= Config.thresholds.throughput * Config.patterns[pattern].rate)
  <2>1. Part.avgRate = d.sent /\ Part.targetRate = Config.patterns[pattern].rate
    BY DEF PartOf
  <2> QED BY <2>1 DEF ThroughputOk
<1>7. pattern \in PubSubQueue /\ 1 > 0
  BY <1>0 DEF LimitsAreNumbers
<1>8. DeliveryOk(Config, Part) <=>
           IF FannedOut THEN d.received = d.sent * Config.patterns[pattern].consumers
                        ELSE ~Exceeds(d.duplicated, d.sent, DuplicationLimit(Config, Part))
  BY DeliveryIs
<1> DEFINE s == Summary(growth)
<1> HIDE DEF s
<1>9. s.patterns[pattern] = Part /\ s.duration = 1
  BY <1>1 DEF s
<1>10. PatternOk(Config, s, pattern) <=>
         LossOk(Config, Part) /\ DeliveryOk(Config, Part) /\ LatencyOk(Config, Part)
         /\ ErrorsOk(Config, Part) /\ ThroughputOk(Config, Part) /\ DowntimeOk(Config, Part, 1)
  BY <1>7, <1>9 DEF PatternOk
<1>11. PatternOk(Config, s, pattern) <=> ChannelOk(d)
  BY <1>2, <1>3, <1>4, <1>5, <1>6, <1>8, <1>10 DEF ChannelOk
<1> QED BY <1>11 DEF s

LEMMA FailsIs ==
  ASSUME pattern \in Patterns, NEW d \in Details, PartOf(d), NEW growth, NEW advisory
  PROVE  Fails(Config, Summary(growth), advisory) <=>
           \/ Config.patterns[pattern].enabled /\ (~ChannelOk(d) \/ d.corrupted # 0)
           \/ ~advisory /\ ~(growth <= Config.thresholds.memory)
<1> DEFINE s == Summary(growth)
<1>1. DOMAIN s.patterns = {pattern} /\ s.patterns[pattern] = Part /\ s.growth = growth
  BY SummaryIs
<1>2. PatternOk(Config, s, pattern) <=> ChannelOk(d)
  BY PatternIsOk
<1>3. Channels(Part) = {d}
  BY ChannelIsAll
<1> HIDE DEF s, Part
<1>4. Judged(Config, s) = {p \in {pattern} : Config.patterns[p].enabled}
  BY <1>1 DEF Judged
<1>5. (\E p \in Judged(Config, s) : ~PatternOk(Config, s, p))
        <=> Config.patterns[pattern].enabled /\ ~ChannelOk(d)
  BY <1>2, <1>4
<1>6. ~NoCorruption(s, Judged(Config, s)) <=> Config.patterns[pattern].enabled /\ d.corrupted # 0
  BY <1>1, <1>3, <1>4 DEF NoCorruption
<1>7. Fails(Config, s, advisory) <=>
           \/ Config.patterns[pattern].enabled /\ (~ChannelOk(d) \/ d.corrupted # 0)
           \/ ~advisory /\ ~MemoryOk(Config, s)
  BY <1>5, <1>6 DEF Fails
<1> QED BY <1>1, <1>7 DEF MemoryOk, s

-----------------------------------------------------------------------------
\* The verdict.

\* Of what there is, nothing may be wrong.
LEMMA NothingTolerated ==
  ASSUME NEW part \in Nat, NEW whole \in Nat, whole > 0, ~Exceeds(part, whole, 0)
  PROVE  part = 0
BY DEF Exceeds

LEMMA NothingExceeds ==
  ASSUME NEW whole \in Nat, NEW percent \in Nat
  PROVE  ~Exceeds(0, whole, percent)
<1>1. percent * whole >= 0
  OBVIOUS
<1> QED BY <1>1 DEF Exceeds

LEMMA SoundVerdict ==
  ASSUME pattern \in Patterns, NEW d, Tells(snapshot, d), ToleratesNothing,
         NEW growth \in Growths, NEW advisory \in BOOLEAN
  PROVE  LET verdict == Verdict(Config, Summary(growth), advisory) IN
         /\ verdict # "FAILED" =>
              /\ ~snapshot.missing /\ d.corrupted = 0 /\ d.errors = 0
              /\ IF FannedOut THEN d.received = d.sent * Config.patterns[pattern].consumers
                              ELSE d.duplicated = 0
              /\ growth > Config.thresholds.memory => advisory
         /\ verdict = "PASSED" => growth = 100
<1> DEFINE s == Summary(growth)
           verdict == Verdict(Config, s, advisory)
           of == Config.patterns[pattern]
           memory == Config.thresholds.memory
<1>1. /\ d \in Details /\ snapshot.counts = CountsOf(d) /\ (d.lost = 0 => ~snapshot.missing)
  BY DEF Tells
<1>2. PartOf(d)
  BY <1>1, PartIs
<1>3. LimitsAreNumbers
  BY LimitsAre
<1>4. memory \in Nat /\ memory >= 100 /\ growth \in Nat
      /\ growth \in {100, memory, memory + 1}
  BY <1>3 DEF LimitsAreNumbers, Growths
<1>5. verdict # "FAILED" => ~Fails(Config, s, advisory)
  BY DEF Verdict
<1>6. s.growth = growth
  BY SummaryIs
<1>7. verdict = "PASSED" => growth = 100
  <2>1. verdict = "PASSED" => ~(growth > TrendLimit(Config)) /\ MemoryOk(Config, s)
    <3> HIDE DEF s
    <3> QED BY <1>6 DEF Verdict
  <2>2. verdict = "PASSED" => ~(growth > 100 + (memory - 100) \div 2) /\ growth <= memory
    <3> HIDE DEF s
    <3> QED BY <1>6, <2>1 DEF TrendLimit, MemoryOk
  <2> HIDE DEF verdict, memory
  <2> QED BY <1>4, <2>2
<1>8. ASSUME verdict # "FAILED"
      PROVE  /\ ~snapshot.missing /\ d.corrupted = 0 /\ d.errors = 0
             /\ IF FannedOut THEN d.received = d.sent * of.consumers ELSE d.duplicated = 0
             /\ growth > memory => advisory
  <2>1. of.enabled /\ of.rate > 0 /\ of.rate \in Nat /\ Config.mode = "soak"
        /\ LossThreshold(Config, pattern) = 0 /\ Config.thresholds.duplication = 0
        /\ Config.thresholds.errors = 0
    BY <1>3 DEF ToleratesNothing, LimitsAreNumbers
  <2>2. ChannelOk(d) /\ d.corrupted = 0 /\ (~advisory => growth <= memory)
    BY <1>1, <1>2, <1>5, <1>8, <2>1, FailsIs
  <2>3. /\ d.sent \in Nat /\ d.received \in Nat /\ d.lost \in Nat /\ d.duplicated \in Nat
        /\ d.errors \in Nat
    BY <1>1 DEF Details
  <2>4. d.sent > 0
    <3> DEFINE r == of.rate
               u == Config.thresholds.throughput
    <3>1. r \in Nat /\ r >= 1 /\ u \in Nat /\ u >= 1
      BY <1>3, <2>1 DEF LimitsAreNumbers
    <3>2. 100 * Min({d.sent, r}) >= u * r
      BY <2>1, <2>2 DEF ChannelOk
    <3>3. Min({d.sent, r}) = IF d.sent <= r THEN d.sent ELSE r
      BY <2>3, <3>1, LeastOfTwo
    <3> HIDE DEF r, u
    <3>4. u * r >= 1
      BY <3>1
    <3> QED BY <2>3, <3>1, <3>2, <3>3, <3>4
  <2>5. d.lost = 0
    BY <2>1, <2>2, <2>3, <2>4, NothingTolerated DEF ChannelOk
  <2>6. d.errors = 0
    <3>1. d.sent + d.received \in Nat /\ d.sent + d.received > 0
      BY <2>3, <2>4
    <3> QED BY <2>1, <2>2, <2>3, <3>1, NothingTolerated DEF ChannelOk
  <2>7. DuplicationLimit(Config, Part) = 0
    <3> HIDE DEF Part
    <3> QED BY <2>1 DEF DuplicationLimit
  <2>8. ~FannedOut => d.duplicated = 0
    BY <2>2, <2>3, <2>4, <2>7, NothingTolerated DEF ChannelOk
  <2>9. FannedOut => d.received = d.sent * of.consumers
    BY <2>2 DEF ChannelOk
  <2>10. growth > memory => advisory
    BY <1>4, <2>2
  <2> QED BY <1>1, <2>2, <2>5, <2>6, <2>8, <2>9, <2>10
<1> QED BY <1>7, <1>8

LEMMA NoFalseAlarm ==
  ASSUME pattern \in Patterns, NEW d, Tells(snapshot, d), Copies = 1, ~FannedOut,
         ~snapshot.troubled, ~snapshot.missing, ~snapshot.overrun,
         ~(d.sent < Config.patterns[pattern].rate)
  PROVE  Verdict(Config, Summary(100), FALSE) # "FAILED"
<1>1. /\ d \in Details /\ snapshot.counts = CountsOf(d)
      /\ d.lost = 0 /\ d.errors = 0 /\ d.corrupted = 0 /\ d.duplicated = 0
  BY DEF Tells
<1>2. PartOf(d)
  BY <1>1, PartIs
<1>3. LimitsAreNumbers
  BY LimitsAre
<1>4. d.sent \in Nat /\ d.received \in Nat /\ d.sent + d.received \in Nat
  BY <1>1 DEF Details
<1>5. DuplicationLimit(Config, Part) \in Nat
  <2> HIDE DEF Part
  <2> QED BY <1>3 DEF DuplicationLimit, LimitsAreNumbers
<1>6. ChannelOk(d)
  <2>1. /\ ~Exceeds(d.lost, d.sent, LossThreshold(Config, pattern))
        /\ ~Exceeds(d.duplicated, d.sent, DuplicationLimit(Config, Part))
        /\ ~Exceeds(d.errors, d.sent + d.received, Config.thresholds.errors)
    BY <1>1, <1>3, <1>4, <1>5, NothingExceeds DEF LimitsAreNumbers
  <2> DEFINE r == Config.patterns[pattern].rate
             u == Config.thresholds.throughput
  <2>2. r \in Nat /\ u \in Nat /\ u <= 100 /\ d.sent >= r
    BY <1>3, <1>4 DEF LimitsAreNumbers
  <2>3. Min({d.sent, r}) = IF d.sent <= r THEN d.sent ELSE r
    BY <1>4, <2>2, LeastOfTwo
  <2>4. 100 * Min({d.sent, r}) >= u * r
    <3> HIDE DEF r, u
    <3>1. Min({d.sent, r}) = r
      BY <1>4, <2>2, <2>3
    <3>2. 100 * r >= u * r
      BY <2>2
    <3> QED BY <3>1, <3>2
  <2> QED BY <2>1, <2>4 DEF ChannelOk
<1>7. 100 <= Config.thresholds.memory
  BY <1>3 DEF LimitsAreNumbers
<1>8. ~Fails(Config, Summary(100), FALSE)
  BY <1>1, <1>2, <1>6, <1>7, FailsIs
<1> QED BY <1>8 DEF Verdict

LEMMA ReportInvIsEarned == ReportInv => VerdictIsEarned
<1> SUFFICES ASSUME ReportInv, snapshot # NoSnapshot, ToleratesNothing,
                    NEW growth \in Growths, NEW intended \in Moments, NEW sampled \in Moments
             PROVE
      LET verdict == Verdict(Config, Summary(growth), Advisory(intended, sampled))
          counts == snapshot.counts
      IN
      /\ verdict # "FAILED" =>
           /\ ~snapshot.missing /\ counts.corrupted = 0 /\ counts.errors = 0
           /\ IF FannedOut THEN counts.received = counts.sent * Config.patterns[pattern].consumers
                           ELSE counts.duplicated = 0
           /\ growth > Config.thresholds.memory => intended < FiveMinutes \/ sampled < FiveMinutes
      /\ verdict = "PASSED" => growth = 100
  BY DEF VerdictIsEarned
<1>1. PICK d : Tells(snapshot, d)
  BY DEF ReportInv, SoundSnapshot
<1>2. pattern \in Patterns
  BY DEF ReportInv, ChannelInv
<1>3. /\ snapshot.counts.corrupted = d.corrupted /\ snapshot.counts.errors = d.errors
      /\ snapshot.counts.sent = d.sent /\ snapshot.counts.received = d.received
      /\ snapshot.counts.duplicated = d.duplicated
  BY <1>1 DEF Tells, CountsOf
<1>4. Advisory(intended, sampled) \in BOOLEAN
  BY DEF Advisory
<1>5. Advisory(intended, sampled) => intended < FiveMinutes \/ sampled < FiveMinutes
  BY DEF Moments, Advisory, BaselineSetAt, OneMinute, FiveMinutes
<1> DEFINE advisory == Advisory(intended, sampled)
<1> HIDE DEF advisory
<1>6. LET verdict == Verdict(Config, Summary(growth), advisory) IN
         /\ verdict # "FAILED" =>
              /\ ~snapshot.missing /\ d.corrupted = 0 /\ d.errors = 0
              /\ IF FannedOut THEN d.received = d.sent * Config.patterns[pattern].consumers
                              ELSE d.duplicated = 0
              /\ growth > Config.thresholds.memory => advisory
         /\ verdict = "PASSED" => growth = 100
  <2>1. advisory \in BOOLEAN
    BY <1>4 DEF advisory
  <2> QED BY <1>1, <1>2, <2>1, SoundVerdict
<1> QED BY <1>3, <1>5, <1>6 DEF advisory

LEMMA ReportInvHasCause == ReportInv => FailureHasCause
<1> SUFFICES ASSUME ReportInv, snapshot # NoSnapshot, Copies = 1, ~FannedOut,
                    ~snapshot.troubled, ~snapshot.missing, ~snapshot.overrun,
                    ~(snapshot.counts.sent < Config.patterns[pattern].rate)
             PROVE  Verdict(Config, Summary(100), FALSE) # "FAILED"
  BY DEF FailureHasCause
<1>1. PICK d : Tells(snapshot, d)
  BY DEF ReportInv, SoundSnapshot
<1>2. snapshot.counts.sent = d.sent
  BY <1>1 DEF Tells, CountsOf
<1> QED BY <1>1, <1>2, NoFalseAlarm DEF ReportInv, ChannelInv

LEMMA ReportInitInv == ReportInit => ReportInv
BY ChannelInitInv DEF ReportInit, ReportInv, SoundSnapshot

\* A run that passes with thresholds of nothing has sent, and got, each message its trackers
\* know of exactly once, whole and without an error, whatever the broker did and whenever the
\* run was stopped: what the report counts leaves nothing out.
THEOREM VerdictsAreEarned == ReportSpec => []VerdictIsEarned
BY ReportInitInv, ReportNextInv, ReportInvIsEarned, PTL DEF ReportSpec

\* A run of one consumer for each message fails only when something went wrong before it was
\* told to stop, or less was sent than its rate asks for: what was on its way when the counters
\* were captured is no loss.
THEOREM FailuresHaveCauses == ReportSpec => []FailureHasCause
BY ReportInitInv, ReportNextInv, ReportInvHasCause, PTL DEF ReportSpec
=============================================================================

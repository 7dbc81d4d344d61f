------------------------ MODULE SubscriptionsProofs ------------------------
(***************************************************************************)
(* Proofs about Connection and Subscriptions for any limit of attempts,    *)
(* any number of outages and any set of subscriptions: the connection is   *)
(* looked after until it is closed, what the application hears of it is    *)
(* ConnectionLifecycle, handles tell the truth, the events of a store      *)
(* arrive once and in order, and what is over stays over.                  *)
(***************************************************************************)
EXTENDS Subscriptions, SequenceTheorems, TLAPS

\* connect() and create() come before anything else.
Opening ==
  /\ tstate \in {"IDLE", "CONNECTING"} => created # "yes"
  /\ created # "yes" => /\ tstate \in {"IDLE", "CONNECTING", "READY"} /\ loop = "none" /\ ~closing
                        /\ client \in {"none", "idle"} /\ heard = <<>>

\* How far close() is, and that only close() aborts the loop.
Shutting ==
  /\ closePc = "no" <=> ~closing
  /\ closePc = "awaiting" => tstate = "READY" /\ loop = "none"
  /\ closePc = "done" <=> tstate = "CLOSED"
  /\ aborted => closing

\* Somebody watches the channel, or is about to replace it.
Watched ==
  /\ watching => tstate = "READY"
  /\ tstate = "READY" /\ ~closing => watching /\ client # "none" /\ loop = "none"
  /\ tstate = "RECONNECTING" /\ MaxAttempts = -1 => loop # "none"

\* The queue q of emissions leads from state a to state z by valid transitions: st[i]
\* is the state after the first i microtasks.
Leads(q, a, z) ==
  \E st \in [0..Len(q) -> States] :
    /\ st[0] = a /\ st[Len(q)] = z
    /\ \A i \in 1..Len(q) :
         \/ q[i] = Resubscription /\ st[i] = st[i - 1]
         \/ q[i] = <<st[i - 1], st[i]>> /\ Allowed(st[i - 1], st[i])

\* What an application knows of a connection in state a.
Known(a) == CASE a = "RECONNECTING" -> "disconnected" [] a = "CLOSED" -> "closed" [] OTHER -> "reconnected"

\* What was heard, and the microtasks still to run, agree with the state.
Announced ==
  created = "yes" => \E a \in States : Leads(microtasks, a, tstate) /\ Known(a) = Lifecycle!Last

ConnInv == ConnTypeOK /\ Opening /\ Shutting /\ Watched /\ Announced

\* Who is tracked, and whose handle is active.
Registered ==
  /\ ActiveIsTrue
  /\ \A s \in Subs :
       /\ phase[s] = "none" => s \notin tracked /\ s \notin active
       /\ phase[s] = "cancelled" => s \notin active /\ (s \in tracked => s \in Consumers)
       /\ s \in active => s \in tracked \/ closing

\* Where a subscription goes on, and where it would resume.
Resumes ==
  \A s \in Subs :
    /\ s \in tracked \/ phase[s] = "none" => lastSequence[s] = Len(received[s])
    /\ s \in active => nextSequence[s] = Len(received[s]) + 1

SubInv == TypeOK /\ ConnInv /\ Registered /\ Resumes /\ StoreInOrder

-----------------------------------------------------------------------------
\* The queue of emissions.

Tasks == (States \X States) \cup {Resubscription}

LEMMA LeadsNowhere ==
  ASSUME NEW a \in States
  PROVE  Leads(<<>>, a, a)
<1> DEFINE st == [i \in 0..Len(<<>>) |-> a]
<1>1. Len(<<>>) = 0
  OBVIOUS
<1>2. st \in [0..Len(<<>>) -> States] /\ st[0] = a /\ st[Len(<<>>)] = a /\ \A i \in 1..Len(<<>>) : FALSE
  BY <1>1
<1> QED BY <1>2 DEF Leads

\* One more microtask.
LEMMA LeadsFurther ==
  ASSUME NEW q \in Seq(Tasks), NEW a \in States, NEW z \in States, NEW y \in States, NEW task \in Tasks,
         Leads(q, a, z), (task = Resubscription /\ y = z) \/ (task = <<z, y>> /\ Allowed(z, y))
  PROVE  Leads(Append(q, task), a, y)
<1> DEFINE n == Len(q)
           r == Append(q, task)
<1>1. n \in Nat /\ Len(r) = n + 1 /\ r[n + 1] = task /\ \A i \in 1..n : r[i] = q[i]
  BY AppendProperties, LenProperties
<1>2. PICK st \in [0..n -> States] :
        /\ st[0] = a /\ st[n] = z
        /\ \A i \in 1..n : \/ q[i] = Resubscription /\ st[i] = st[i - 1]
                           \/ q[i] = <<st[i - 1], st[i]>> /\ Allowed(st[i - 1], st[i])
  BY DEF Leads
<1> HIDE DEF n, r
<1> DEFINE nst == [i \in 0..(n + 1) |-> IF i = n + 1 THEN y ELSE st[i]]
<1>3. nst \in [0..Len(r) -> States]
  <2>1. \A i \in 0..(n + 1) : i # n + 1 => i \in 0..n
    BY <1>1
  <2> QED BY <1>1, <1>2, <2>1
<1>4. /\ \A i \in 0..n : nst[i] = st[i]
      /\ nst[n + 1] = y
  BY <1>1
<1> HIDE DEF nst
<1>5. nst[0] = a /\ nst[Len(r)] = y
  BY <1>1, <1>2, <1>4
<1>6. ASSUME NEW i \in 1..Len(r)
      PROVE  \/ r[i] = Resubscription /\ nst[i] = nst[i - 1]
             \/ r[i] = <<nst[i - 1], nst[i]>> /\ Allowed(nst[i - 1], nst[i])
  <2>1. CASE i = n + 1
    <3>1. i - 1 = n /\ n \in 0..n
      BY <1>1, <2>1
    <3>2. nst[i - 1] = z /\ nst[i] = y /\ r[i] = task
      BY <1>1, <1>2, <1>4, <2>1, <3>1
    <3> QED BY <3>2
  <2>2. CASE i # n + 1
    <3>1. i \in 1..n /\ i \in 0..n /\ i - 1 \in 0..n
      BY <1>1, <2>2
    <3>2. nst[i - 1] = st[i - 1] /\ nst[i] = st[i] /\ r[i] = q[i]
      BY <1>1, <1>4, <3>1
    <3> QED BY <1>2, <3>1, <3>2
  <2> QED BY <2>1, <2>2
<1>7. Leads(r, a, y)
  BY <1>3, <1>5, <1>6 DEF Leads
<1> QED BY <1>7 DEF r

\* The first microtask runs.
LEMMA LeadsOn ==
  ASSUME NEW q \in Seq(Tasks), NEW a \in States, NEW z \in States, Leads(q, a, z), q # <<>>
  PROVE  \E b \in States : /\ Leads(Tail(q), b, z)
                           /\ \/ Head(q) = Resubscription /\ b = a
                              \/ Head(q) = <<a, b>> /\ Allowed(a, b)
<1> DEFINE n == Len(q)
           r == Tail(q)
<1>1. /\ n \in Nat /\ n > 0 /\ Len(r) = n - 1 /\ Head(q) = q[1]
      /\ \A i \in 1..(n - 1) : r[i] = q[i + 1]
  BY HeadTailProperties, LenProperties, EmptySeq
<1>2. PICK st \in [0..n -> States] :
        /\ st[0] = a /\ st[n] = z
        /\ \A i \in 1..n : \/ q[i] = Resubscription /\ st[i] = st[i - 1]
                           \/ q[i] = <<st[i - 1], st[i]>> /\ Allowed(st[i - 1], st[i])
  BY DEF Leads
<1> HIDE DEF n, r
<1> DEFINE nst == [i \in 0..(n - 1) |-> st[i + 1]]
<1>3. \A i \in 0..(n - 1) : i + 1 \in 0..n /\ i + 1 \in 1..n
  BY <1>1
<1>4. nst \in [0..Len(r) -> States]
  BY <1>1, <1>2, <1>3
<1>5. \A i \in 0..(n - 1) : nst[i] = st[i + 1]
  OBVIOUS
<1> HIDE DEF nst
<1>6. nst[Len(r)] = z
  <2>1. n - 1 \in 0..(n - 1) /\ n - 1 + 1 = n
    BY <1>1
  <2> QED BY <1>1, <1>2, <1>5, <2>1
<1>7. ASSUME NEW i \in 1..Len(r)
      PROVE  \/ r[i] = Resubscription /\ nst[i] = nst[i - 1]
             \/ r[i] = <<nst[i - 1], nst[i]>> /\ Allowed(nst[i - 1], nst[i])
  <2>1. /\ i \in 1..(n - 1) /\ i \in 0..(n - 1) /\ i - 1 \in 0..(n - 1) /\ i + 1 \in 1..n
        /\ i - 1 + 1 = i /\ i + 1 - 1 = i
    BY <1>1
  <2>2. nst[i] = st[i + 1] /\ nst[i - 1] = st[i] /\ r[i] = q[i + 1]
    BY <1>1, <1>5, <2>1
  <2> QED BY <1>2, <2>1, <2>2
<1>8. nst[0] \in States
  <2>1. 0 \in 0..Len(r)
    BY <1>1
  <2> QED BY <1>4, <2>1
<1>9. Leads(r, nst[0], z)
  BY <1>4, <1>6, <1>7 DEF Leads
<1>10. \/ Head(q) = Resubscription /\ nst[0] = a
       \/ Head(q) = <<a, nst[0]>> /\ Allowed(a, nst[0])
  <2>1. 0 \in 0..(n - 1) /\ 0 + 1 = 1 /\ 1 - 1 = 0 /\ 1 \in 1..n
    BY <1>1
  <2>2. nst[0] = st[1] /\ st[1 - 1] = a
    BY <1>2, <1>5, <2>1
  <2> QED BY <1>1, <1>2, <2>1, <2>2
<1> QED BY <1>8, <1>9, <1>10 DEF r

-----------------------------------------------------------------------------
\* Transitions, as connect(), close() and the reconnection loop use them.

LEMMA StatesAre ==
  /\ "IDLE" \in States /\ "CONNECTING" \in States /\ "READY" \in States
  /\ "RECONNECTING" \in States /\ "CLOSED" \in States
BY DEF States

LEMMA FunctionIsSeq ==
  ASSUME NEW S, NEW n \in Nat, NEW t \in [1..n -> S]
  PROVE  t \in Seq(S) /\ Len(t) = n
OBVIOUS

LEMMA OneMore ==
  ASSUME NEW S, NEW s \in Seq(S), NEW t \in Seq(S), Len(t) = 1
  PROVE  s \o t = Append(s, t[1])
<1>1. Len(s) \in Nat /\ t[1] \in S
  BY LenProperties
<1>2. /\ s \o t \in Seq(S) /\ Len(s \o t) = Len(s) + 1
      /\ \A i \in 1..(Len(s) + 1) : (s \o t)[i] = IF i <= Len(s) THEN s[i] ELSE t[i - Len(s)]
  <2>1. /\ s \o t \in Seq(S) /\ Len(s \o t) = Len(s) + Len(t)
        /\ \A i \in 1..(Len(s) + Len(t)) : (s \o t)[i] = IF i <= Len(s) THEN s[i] ELSE t[i - Len(s)]
    BY ConcatProperties
  <2> QED BY <2>1
<1>3. /\ Append(s, t[1]) \in Seq(S) /\ Len(Append(s, t[1])) = Len(s) + 1
      /\ \A i \in 1..Len(s) : Append(s, t[1])[i] = s[i]
      /\ Append(s, t[1])[Len(s) + 1] = t[1]
  BY <1>1, AppendProperties
<1>4. ASSUME NEW i \in 1..(Len(s) + 1) PROVE (s \o t)[i] = Append(s, t[1])[i]
  <2>1. CASE i <= Len(s)
    BY <1>1, <1>2, <1>3, <2>1
  <2>2. CASE ~(i <= Len(s))
    <3>1. i = Len(s) + 1 /\ i - Len(s) = 1
      BY <1>1, <2>2
    <3> QED BY <1>2, <1>3, <2>2, <3>1
  <2> QED BY <2>1, <2>2
<1> QED BY <1>2, <1>3, <1>4, SeqEqual

\* The queue grew by what leads from the state to its successor.
Grown ==
  /\ microtasks' \in Seq(Tasks)
  /\ \A a \in States : Leads(microtasks, a, tstate) => Leads(microtasks', a, tstate')

\* What transitionTo(x) does.
Moved(x) == tstate' = IF Allowed(tstate, x) THEN x ELSE tstate

LEMMA NoTransition ==
  ASSUME tstate \in States, microtasks \in Seq(Tasks), Transitions(<<>>, <<Resubscription>>)
  PROVE  tstate' = tstate /\ Grown
<1>1. tstate' = tstate /\ microtasks' = microtasks \o <<Resubscription>>
  BY DEF Transitions
<1>2. <<Resubscription>> \in Seq(Tasks) /\ Len(<<Resubscription>>) = 1 /\ <<Resubscription>>[1] = Resubscription
      /\ Resubscription \in Tasks
  BY DEF Tasks
<1>3. microtasks' = Append(microtasks, Resubscription)
  BY <1>1, <1>2, OneMore
<1>4. microtasks' \in Seq(Tasks)
  BY <1>2, <1>3, AppendProperties
<1> QED BY <1>1, <1>2, <1>3, <1>4, LeadsFurther DEF Grown

LEMMA OneTransition ==
  ASSUME tstate \in States, microtasks \in Seq(Tasks), NEW x \in States,
         NEW more, more \in {<<>>, <<Resubscription>>}, Transitions(<<x>>, more)
  PROVE  Moved(x) /\ Grown
<1> DEFINE t == [i \in 1..1 |-> <<IF i = 1 THEN tstate ELSE <<x>>[i - 1], <<x>>[i]>>]
<1>1. IF Allowed(tstate, x)
      THEN tstate' = x /\ microtasks' = microtasks \o t \o more
      ELSE tstate' = tstate /\ microtasks' = microtasks \o more
  <2>1. <<x>> # <<>> /\ Len(<<x>>) = 1 /\ <<x>>[1] = x
    OBVIOUS
  <2> QED BY <2>1 DEF Transitions
<1>2. <<tstate, x>> \in Tasks /\ Resubscription \in Tasks
  BY DEF Tasks
<1>3. t \in Seq(Tasks) /\ Len(t) = 1 /\ t[1] = <<tstate, x>>
  <2>1. \A i \in 1..1 : i = 1
    OBVIOUS
  <2>2. t[1] = <<tstate, x>>
    OBVIOUS
  <2>3. t \in [1..1 -> Tasks]
    BY <1>2, <2>1, <2>2
  <2>4. 1 \in Nat
    OBVIOUS
  <2> HIDE DEF t
  <2> QED BY <2>2, <2>3, <2>4, FunctionIsSeq
<1> HIDE DEF t
<1>4. microtasks \o t = Append(microtasks, <<tstate, x>>) /\ microtasks \o t \in Seq(Tasks)
  BY <1>2, <1>3, OneMore, AppendProperties
<1>5. Allowed(tstate, x) => \A a \in States : Leads(microtasks, a, tstate) => Leads(microtasks \o t, a, x)
  BY <1>2, <1>4, LeadsFurther
<1>6. ASSUME NEW q \in Seq(Tasks), NEW z \in States
      PROVE  /\ q \o more \in Seq(Tasks)
             /\ \A a \in States : Leads(q, a, z) => Leads(q \o more, a, z)
  <2>1. CASE more = <<>>
    BY <2>1, ConcatEmptySeq
  <2>2. CASE more = <<Resubscription>>
    <3>1. more \in Seq(Tasks) /\ Len(more) = 1 /\ more[1] = Resubscription
      BY <1>2, <2>2
    <3>2. q \o more = Append(q, Resubscription) /\ q \o more \in Seq(Tasks)
      BY <1>2, <3>1, OneMore, AppendProperties
    <3> QED BY <1>2, <3>2, LeadsFurther
  <2> QED BY <2>1, <2>2
<1>7. CASE Allowed(tstate, x)
  <2>1. tstate' = x /\ microtasks' = (microtasks \o t) \o more
    BY <1>1, <1>7
  <2> QED BY <1>4, <1>5, <1>6, <1>7, <2>1 DEF Grown, Moved
<1>8. CASE ~Allowed(tstate, x)
  BY <1>1, <1>6, <1>8 DEF Grown, Moved
<1> QED BY <1>7, <1>8

\* handleTransientFailure and the first attempt of the loop, one after the other.
LEMMA TwoTransitions ==
  ASSUME tstate \in States, microtasks \in Seq(Tasks), Allowed(tstate, "RECONNECTING"),
         Transitions(<<"RECONNECTING", "RECONNECTING">>, <<>>)
  PROVE  tstate' = "RECONNECTING" /\ Grown
<1> DEFINE x == "RECONNECTING"
           news == <<x, x>>
           t == [i \in 1..2 |-> <<IF i = 1 THEN tstate ELSE news[i - 1], news[i]>>]
<1>1. tstate' = x /\ microtasks' = microtasks \o t \o <<>>
  <2>1. news # <<>> /\ Len(news) = 2 /\ news[1] = x /\ news[2] = x
    OBVIOUS
  <2> QED BY <2>1 DEF Transitions
<1>2. <<tstate, x>> \in Tasks /\ <<x, x>> \in Tasks /\ Allowed(x, x) /\ x \in States
  BY DEF Tasks, States, Allowed, ValidTransitions
<1>3. t[1] = <<tstate, x>> /\ t[2] = <<x, x>>
  OBVIOUS
<1>4. t \in Seq(Tasks) /\ Len(t) = 2
  <2>1. \A i \in 1..2 : i = 1 \/ i = 2
    OBVIOUS
  <2>2. t \in [1..2 -> Tasks]
    BY <1>2, <1>3, <2>1
  <2>3. 2 \in Nat
    OBVIOUS
  <2> HIDE DEF t
  <2> QED BY <2>2, <2>3, FunctionIsSeq
<1> HIDE DEF t, x
<1>5. t = <<t[1]>> \o <<t[2]>>
  <2>1. <<t[1]>> \in Seq(Tasks) /\ <<t[2]>> \in Seq(Tasks) /\ Len(<<t[1]>>) = 1 /\ Len(<<t[2]>>) = 1
    BY <1>2, <1>3
  <2> DEFINE one == <<t[1]>>
             two == <<t[2]>>
  <2>2. one \o two \in Seq(Tasks) /\ Len(one \o two) = 2 /\ (one \o two)[1] = t[1] /\ (one \o two)[2] = t[2]
    BY <2>1, ConcatProperties
  <2>3. \A i \in 1..2 : (one \o two)[i] = t[i]
    <3>1. \A i \in 1..2 : i = 1 \/ i = 2
      OBVIOUS
    <3> HIDE DEF one, two
    <3> QED BY <2>2, <3>1
  <2> HIDE DEF one, two
  <2>4. one \o two = t
    BY <1>4, <2>2, <2>3, SeqEqual
  <2> QED BY <2>4 DEF one, two
<1>6. microtasks' = Append(Append(microtasks, <<tstate, x>>), <<x, x>>)
  <2>1. microtasks \o t \in Seq(Tasks) /\ microtasks' = microtasks \o t
    BY <1>1, <1>4, ConcatProperties, ConcatEmptySeq
  <2>2. <<t[1]>> \in Seq(Tasks) /\ <<t[2]>> \in Seq(Tasks) /\ Len(<<t[1]>>) = 1 /\ Len(<<t[2]>>) = 1
        /\ <<t[1]>>[1] = <<tstate, x>> /\ <<t[2]>>[1] = <<x, x>>
    BY <1>2, <1>3
  <2>3. microtasks \o t = (microtasks \o <<t[1]>>) \o <<t[2]>>
    <3> DEFINE one == <<t[1]>>
               two == <<t[2]>>
    <3>1. one \in Seq(Tasks) /\ two \in Seq(Tasks) /\ t = one \o two
      BY <1>5, <2>2
    <3> HIDE DEF one, two
    <3>2. (microtasks \o one) \o two = microtasks \o (one \o two)
      BY <3>1, ConcatAssociative
    <3>3. microtasks \o t = (microtasks \o one) \o two
      BY <3>1, <3>2, Zenon
    <3> QED BY <3>3 DEF one, two
  <2>4. microtasks \o <<t[1]>> = Append(microtasks, <<tstate, x>>) /\ microtasks \o <<t[1]>> \in Seq(Tasks)
    BY <1>2, <2>2, OneMore, AppendProperties
  <2> QED BY <2>1, <2>2, <2>3, <2>4, OneMore
<1>7. Append(microtasks, <<tstate, x>>) \in Seq(Tasks) /\ microtasks' \in Seq(Tasks)
  BY <1>2, <1>6, AppendProperties
<1>8. ASSUME NEW a \in States, Leads(microtasks, a, tstate) PROVE Leads(microtasks', a, x)
  <2>1. Leads(Append(microtasks, <<tstate, x>>), a, x)
    BY <1>2, <1>8, LeadsFurther DEF x
  <2> QED BY <1>2, <1>6, <1>7, <2>1, LeadsFurther
<1> QED BY <1>1, <1>7, <1>8 DEF Grown, x

-----------------------------------------------------------------------------
\* The actions of the connection, one by one.

LEMMA Limits ==
  /\ MaxAttempts \in Nat \cup {-1} /\ MaxOutages \in Nat
  /\ StoreSubs \subseteq Subs /\ Consumers \subseteq Subs \ StoreSubs /\ MaxLog \in Nat
BY ConnectionConstants, SubscriptionConstants DEF ConnectionConstants, SubscriptionConstants

LEMMA Table ==
  /\ Allowed("READY", "RECONNECTING") /\ Allowed("RECONNECTING", "RECONNECTING")
  /\ Allowed("RECONNECTING", "READY") /\ Allowed("READY", "CLOSED") /\ Allowed("RECONNECTING", "CLOSED")
  /\ Allowed("IDLE", "CONNECTING") /\ Allowed("CONNECTING", "READY")
  /\ \A x : ~Allowed("CLOSED", x)
BY DEF Allowed, ValidTransitions

LEMMA MachineTypes == ConnTypeOK => tstate \in States /\ microtasks \in Seq(Tasks)
BY DEF ConnTypeOK, Tasks

LEMMA AnnouncedKept ==
  ASSUME Announced, Grown, UNCHANGED <<created, heard>>
  PROVE  Announced'
BY DEF Announced, Grown, Lifecycle!Last

\* A step that takes no transition and announces nothing.
LEMMA StillAnnounced ==
  ASSUME Announced, UNCHANGED <<created, heard, machine>>
  PROVE  Announced'
BY DEF Announced, machine, Lifecycle!Last

\* A loop is at work in an outage, or in a connection that close() has left.
LEMMA LoopIsInOutage ==
  ASSUME ConnInv, loop # "none"
  PROVE  tstate \in {"RECONNECTING", "CLOSED"} /\ created = "yes" /\ ~watching /\ closePc # "awaiting"
BY DEF ConnInv, ConnTypeOK, Opening, Shutting, Watched, States

LEMMA AppendSecond ==
  ASSUME NEW S, NEW one \in Seq(S), NEW two \in Seq(S), NEW x \in S,
         Len(one) = 1, one[1] = x, Len(two) = 2, two[1] = x, two[2] = x
  PROVE  Append(one, x) = two
<1>1. /\ Append(one, x) \in Seq(S) /\ Len(Append(one, x)) = Len(one) + 1
      /\ \A i \in 1..Len(one) : Append(one, x)[i] = one[i]
      /\ Append(one, x)[Len(one) + 1] = x
  BY AppendProperties
<1>2. \A i \in 1..2 : Append(one, x)[i] = two[i]
  BY <1>1, \A i \in 1..2 : i = 1 \/ i = 2
<1> QED BY <1>1, <1>2, SeqEqual

LEMMA Twice ==
  ASSUME NEW x
  PROVE  Append(<<x>>, x) = <<x, x>>
<1>1. <<x>> \in Seq({x}) /\ Len(<<x>>) = 1 /\ <<x>>[1] = x /\ x \in {x}
  OBVIOUS
<1>2. <<x, x>> \in Seq({x}) /\ Len(<<x, x>>) = 2 /\ <<x, x>>[1] = x /\ <<x, x>>[2] = x
  OBVIOUS
<1> QED BY <1>1, <1>2, AppendSecond, Zenon

LEMMA LoopGoesOn ==
  ASSUME ConnInv, loop # "none", LoopHead(attempt, <<>>)
  PROVE  /\ tstate' = tstate /\ Grown
         /\ loop' \in {"none", "sleeping"} /\ attempt' \in 0..MaxAttempts \cup {0}
         /\ MaxAttempts = -1 /\ ~closing => loop' # "none"
<1>1. attempt \in 0..MaxAttempts \cup {0} /\ attempt \in Nat /\ tstate \in States /\ microtasks \in Seq(Tasks)
  BY Limits, MachineTypes DEF ConnInv, ConnTypeOK
<1>2. tstate \in {"RECONNECTING", "CLOSED"} /\ (~closing => ~aborted)
  BY LoopIsInOutage DEF ConnInv, Shutting
<1>3. CASE Exhausted(attempt) \/ aborted
  <2>1. loop' = "none" /\ attempt' = attempt /\ Transitions(<<>>, <<Resubscription>>)
    BY <1>3 DEF LoopHead
  <2>2. tstate' = tstate /\ Grown
    BY <1>1, <2>1, NoTransition
  <2>3. MaxAttempts = -1 => ~Exhausted(attempt)
    BY DEF Exhausted
  <2> QED BY <1>1, <1>2, <1>3, <2>1, <2>2, <2>3
<1>4. CASE ~(Exhausted(attempt) \/ aborted)
  <2>1. loop' = "sleeping" /\ attempt' = Count(attempt) /\ Transitions(<<"RECONNECTING">>, <<>>)
    <3>1. Append(<<>>, "RECONNECTING") = <<"RECONNECTING">>
      OBVIOUS
    <3> QED BY <1>4, <3>1 DEF LoopHead
  <2>2. Moved("RECONNECTING") /\ Grown
    BY <1>1, <2>1, OneTransition, StatesAre
  <2>3. tstate' = tstate
    BY <1>2, <2>2, Table DEF Moved
  <2>4. Count(attempt) \in 0..MaxAttempts \cup {0}
    BY <1>1, <1>4, Limits DEF Count, Exhausted
  <2> QED BY <2>1, <2>2, <2>3, <2>4
<1> QED BY <1>3, <1>4

LEMMA OutageBegins ==
  ASSUME ConnInv, tstate = "READY", LoopHead(0, <<"RECONNECTING">>)
  PROVE  /\ tstate' = "RECONNECTING" /\ Grown
         /\ loop' \in {"none", "sleeping"} /\ attempt' \in 0..MaxAttempts \cup {0}
         /\ MaxAttempts = -1 => loop' # "none"
<1>1. tstate \in States /\ microtasks \in Seq(Tasks)
  BY MachineTypes DEF ConnInv
<1>2. <<"RECONNECTING">> # <<>>
  OBVIOUS
<1>3. CASE Exhausted(0)
  <2>1. loop' = "none" /\ attempt' = 0 /\ Transitions(<<"RECONNECTING">>, <<Resubscription>>)
    BY <1>3 DEF LoopHead
  <2>2. Moved("RECONNECTING") /\ Grown
    BY <1>1, <2>1, OneTransition, StatesAre
  <2>3. MaxAttempts # -1
    BY <1>3 DEF Exhausted
  <2> QED BY <2>1, <2>2, <2>3, Table DEF Moved
<1>4. CASE ~Exhausted(0)
  <2>1. loop' = "sleeping" /\ attempt' = Count(0) /\ Transitions(<<"RECONNECTING", "RECONNECTING">>, <<>>)
    <3>1. Append(<<"RECONNECTING">>, "RECONNECTING") = <<"RECONNECTING", "RECONNECTING">>
      BY Twice
    <3> QED BY <1>2, <1>4, <3>1 DEF LoopHead
  <2>2. tstate' = "RECONNECTING" /\ Grown
    BY <1>1, <2>1, TwoTransitions, Table
  <2>3. Count(0) \in 0..MaxAttempts \cup {0}
    BY <1>4, Limits DEF Count, Exhausted
  <2> QED BY <2>1, <2>2, <2>3
<1> QED BY <1>3, <1>4

\* The part of ConnTypeOK a step that moves the state machine has to show.
LEMMA ConnTypes ==
  ASSUME ConnTypeOK, tstate' \in States, Grown, UNCHANGED <<created, heard, outages>>,
         closing' \in BOOLEAN, closePc' \in {"no", "awaiting", "done"},
         client' \in {"none", "idle", "connecting", "ready", "failure"}, watching' \in BOOLEAN,
         loop' \in {"none", "sleeping", "building", "probing"},
         attempt' \in 0..MaxAttempts \cup {0}, aborted' \in BOOLEAN
  PROVE  ConnTypeOK'
BY DEF ConnTypeOK, Grown, Tasks

LifecycleEvents == {"disconnected", "reconnected", "closed"}

\* A transition is either silent, or tells the application exactly what is new to it.
LEMMA EmissionIsNews ==
  ASSUME NEW a \in States, NEW b \in States, Allowed(a, b)
  PROVE  \/ Emitted(a, b) = <<>> /\ Known(b) = Known(a)
         \/ Emitted(a, b) = <<"disconnected">> /\ Known(a) = "reconnected" /\ Known(b) = "disconnected"
         \/ Emitted(a, b) = <<"reconnected">> /\ Known(a) = "disconnected" /\ Known(b) = "reconnected"
         \/ Emitted(a, b) = <<"closed">> /\ Known(a) # "closed" /\ Known(b) = "closed"
<1>1. CASE b = "RECONNECTING" /\ a \in {"CONNECTING", "READY"}
  BY <1>1 DEF Emitted, Known
<1>2. CASE b = "RECONNECTING" /\ a = "RECONNECTING"
  BY <1>2 DEF Emitted, Known
<1>3. CASE b = "READY" /\ a = "RECONNECTING"
  BY <1>3 DEF Emitted, Known
<1>4. CASE b = "READY" /\ a = "CONNECTING"
  BY <1>4 DEF Emitted, Known
<1>5. CASE b = "CONNECTING" /\ a = "IDLE"
  BY <1>5 DEF Emitted, Known
<1>6. CASE b = "CLOSED" /\ a # "CLOSED"
  BY <1>6 DEF Emitted, Known
<1> QED BY <1>1, <1>2, <1>3, <1>4, <1>5, <1>6 DEF Allowed, ValidTransitions

LEMMA Hears ==
  ASSUME NEW a \in States, NEW b \in States, Allowed(a, b), heard \in Seq(LifecycleEvents),
         Known(a) = Lifecycle!Last, heard' = heard \o Emitted(a, b)
  PROVE  heard' \in Seq(LifecycleEvents) /\ [Lifecycle!Next]_heard /\ Known(b) = Lifecycle!Last'
<1>1. CASE Emitted(a, b) = <<>> /\ Known(b) = Known(a)
  <2>1. heard' = heard
    BY <1>1, ConcatEmptySeq
  <2> QED BY <1>1, <2>1 DEF Lifecycle!Last
<1>2. ASSUME NEW e \in LifecycleEvents, Emitted(a, b) = <<e>>
      PROVE  /\ heard' = Append(heard, e) /\ heard' \in Seq(LifecycleEvents) /\ Lifecycle!Last' = e
  <2>1. <<e>> \in Seq(LifecycleEvents) /\ Len(<<e>>) = 1 /\ <<e>>[1] = e
    OBVIOUS
  <2>2. heard' = Append(heard, e)
    BY <1>2, <2>1, OneMore
  <2>3. /\ heard' \in Seq(LifecycleEvents) /\ heard' # <<>> /\ Len(heard') = Len(heard) + 1
        /\ heard'[Len(heard) + 1] = e
    BY <2>2, AppendProperties
  <2> QED BY <2>2, <2>3 DEF Lifecycle!Last
<1>3. "disconnected" \in LifecycleEvents /\ "reconnected" \in LifecycleEvents /\ "closed" \in LifecycleEvents
  BY DEF LifecycleEvents
<1>4. CASE Emitted(a, b) = <<"disconnected">> /\ Known(a) = "reconnected" /\ Known(b) = "disconnected"
  BY <1>2, <1>3, <1>4 DEF Lifecycle!Next, Lifecycle!Hear
<1>5. CASE Emitted(a, b) = <<"reconnected">> /\ Known(a) = "disconnected" /\ Known(b) = "reconnected"
  BY <1>2, <1>3, <1>5 DEF Lifecycle!Next, Lifecycle!Hear
<1>6. CASE Emitted(a, b) = <<"closed">> /\ Known(a) # "closed" /\ Known(b) = "closed"
  BY <1>2, <1>3, <1>6 DEF Lifecycle!Next, Lifecycle!Hear
<1> QED BY <1>1, <1>4, <1>5, <1>6, EmissionIsNews

\* A microtask runs, and the application hears what ConnectionLifecycle allows.
LEMMA MicrotaskKeeps ==
  ASSUME ConnInv, RunMicrotask
  PROVE  ConnInv' /\ [Lifecycle!Next]_heard
<1>1. /\ microtasks # <<>> /\ microtasks' = Tail(microtasks)
      /\ UNCHANGED <<tstate, closing, closePc, client, watching, loop, attempt, aborted, created, outages>>
  BY DEF RunMicrotask, closeVars, channel, manager
<1>2. microtasks \in Seq(Tasks) /\ microtasks' \in Seq(Tasks) /\ tstate \in States /\ heard \in Seq(LifecycleEvents)
  BY <1>1, MachineTypes, HeadTailProperties DEF ConnInv, ConnTypeOK, LifecycleEvents
<1>3. ASSUME heard' \in Seq(LifecycleEvents), created = "yes" \/ heard' = heard, Announced' PROVE ConnInv'
  <2>1. ConnTypeOK'
    BY <1>1, <1>2, <1>3 DEF ConnInv, ConnTypeOK, Tasks, LifecycleEvents
  <2>2. Opening' /\ Shutting' /\ Watched'
    BY <1>1, <1>3 DEF ConnInv, Opening, Shutting, Watched
  <2> QED BY <1>3, <2>1, <2>2 DEF ConnInv
<1>4. CASE created # "yes"
  <2>1. heard' = heard
    BY <1>4 DEF RunMicrotask
  <2>2. Announced'
    BY <1>1, <1>4 DEF Announced
  <2> QED BY <1>2, <1>3, <2>1, <2>2
<1>5. CASE created = "yes"
  <2>1. PICK a \in States : Leads(microtasks, a, tstate) /\ Known(a) = Lifecycle!Last
    BY <1>5 DEF ConnInv, Announced
  <2>2. PICK b \in States : /\ Leads(microtasks', b, tstate)
                            /\ \/ Head(microtasks) = Resubscription /\ b = a
                               \/ Head(microtasks) = <<a, b>> /\ Allowed(a, b)
    BY <1>1, <1>2, <2>1, LeadsOn
  <2>3. ASSUME Known(b) = Lifecycle!Last' PROVE Announced'
    BY <1>1, <2>2, <2>3 DEF Announced
  <2>4. CASE Head(microtasks) = Resubscription /\ b = a
    <3>1. heard' = heard
      BY <2>4 DEF RunMicrotask
    <3>2. Known(b) = Lifecycle!Last'
      BY <2>1, <2>4, <3>1 DEF Lifecycle!Last
    <3> QED BY <1>2, <1>3, <1>5, <2>3, <3>1, <3>2
  <2>5. CASE Head(microtasks) = <<a, b>> /\ Allowed(a, b)
    <3>1. Head(microtasks) # Resubscription
      <4>1. Len(<<a, b>>) = 2 /\ Len(<<"resubscribe">>) = 1
        OBVIOUS
      <4>2. <<a, b>> = <<"resubscribe">> => Len(<<a, b>>) = Len(<<"resubscribe">>)
        BY Zenon
      <4>3. <<a, b>> # <<"resubscribe">>
        BY <4>1, <4>2
      <4>4. <<a, b>> # Resubscription
        BY <4>3 DEF Resubscription
      <4> QED BY <2>5, <4>4
    <3>2. heard' = heard \o Emitted(a, b)
      <4>1. Head(microtasks)[1] = a /\ Head(microtasks)[2] = b
        BY <2>5
      <4>2. heard' = heard \o Emitted(Head(microtasks)[1], Head(microtasks)[2])
        BY <1>5, <3>1 DEF RunMicrotask
      <4> QED BY <4>1, <4>2
    <3>3. heard' \in Seq(LifecycleEvents) /\ [Lifecycle!Next]_heard /\ Known(b) = Lifecycle!Last'
      BY <1>2, <2>1, <2>5, <3>2, Hears
    <3> QED BY <1>3, <1>5, <2>3, <3>3
  <2> QED BY <2>2, <2>4, <2>5
<1> QED BY <1>4, <1>5

\* Steps of connect() and create().
LEMMA ConnectBeginKeeps ==
  ASSUME ConnInv, ConnectBegin
  PROVE  ConnInv'
<1>1. /\ tstate = "IDLE" /\ created = "no" /\ Transitions(<<"CONNECTING">>, <<>>)
      /\ UNCHANGED <<closing, closePc, client, watching, loop, attempt, aborted, created, heard, outages>>
  BY DEF ConnectBegin, closeVars, channel, manager
<1>2. tstate' = "CONNECTING" /\ Grown
  <2>1. tstate \in States /\ microtasks \in Seq(Tasks)
    BY MachineTypes DEF ConnInv
  <2>2. Moved("CONNECTING") /\ Grown
    BY <1>1, <2>1, OneTransition, StatesAre
  <2> QED BY <1>1, <2>2, Table DEF Moved
<1>3. ConnTypeOK'
  BY <1>1, <1>2, StatesAre, ConnTypes DEF ConnInv, ConnTypeOK
<1>4. Opening' /\ Shutting' /\ Watched' /\ Announced'
  BY <1>1, <1>2, AnnouncedKept DEF ConnInv, Opening, Shutting, Watched
<1> QED BY <1>3, <1>4 DEF ConnInv

LEMMA ConnectEndKeeps ==
  ASSUME ConnInv, ConnectEnd
  PROVE  ConnInv'
<1>1. /\ tstate = "CONNECTING" /\ created = "no" /\ Transitions(<<"READY">>, <<>>)
      /\ client' = "idle" /\ watching' = TRUE
      /\ UNCHANGED <<closing, closePc, loop, attempt, aborted, created, heard, outages>>
  BY DEF ConnectEnd, closeVars, manager
<1>2. tstate' = "READY" /\ Grown
  <2>1. tstate \in States /\ microtasks \in Seq(Tasks)
    BY MachineTypes DEF ConnInv
  <2>2. Moved("READY") /\ Grown
    BY <1>1, <2>1, OneTransition, StatesAre
  <2> QED BY <1>1, <2>2, Table DEF Moved
<1>3. ConnTypeOK'
  <2>1. watching' \in BOOLEAN
    BY <1>1
  <2> QED BY <1>1, <1>2, <2>1, StatesAre, ConnTypes DEF ConnInv, ConnTypeOK
<1>4. Opening' /\ Shutting' /\ Watched' /\ Announced'
  BY <1>1, <1>2, AnnouncedKept DEF ConnInv, Opening, Shutting, Watched
<1> QED BY <1>3, <1>4 DEF ConnInv

LEMMA CreateKeeps ==
  ASSUME ConnInv, ConnectFails \/ Create
  PROVE  ConnInv'
<1>1. /\ UNCHANGED <<tstate, microtasks, closing, closePc, client, watching, loop, attempt, aborted, heard, outages>>
      /\ created = "no" /\ created' \in {"yes", "failed"}
  BY DEF ConnectFails, Create, machine, closeVars, channel, manager
<1>2. ConnTypeOK'
  BY <1>1 DEF ConnInv, ConnTypeOK
<1>3. CASE created' = "failed"
  <2>1. Opening' /\ Shutting' /\ Watched' /\ Announced'
    BY <1>1, <1>3 DEF ConnInv, Opening, Shutting, Watched, Announced
  <2> QED BY <1>2, <2>1 DEF ConnInv
<1>4. CASE created' = "yes"
  <2>1. tstate = "READY" /\ microtasks = <<>>
    BY <1>4 DEF ConnectFails, Create, Idle
  <2>2. heard = <<>>
    BY <1>1 DEF ConnInv, Opening
  <2>3. Leads(microtasks', "READY", tstate') /\ Known("READY") = Lifecycle!Last'
    BY <1>1, <2>1, <2>2, LeadsNowhere, StatesAre DEF Known, Lifecycle!Last
  <2>4. Announced'
    BY <2>3, StatesAre DEF Announced
  <2>5. Opening' /\ Shutting' /\ Watched'
    BY <1>1, <1>4, <2>1 DEF ConnInv, Opening, Shutting, Watched
  <2> QED BY <1>2, <2>4, <2>5 DEF ConnInv
<1> QED BY <1>1, <1>3, <1>4

\* The channel changes: a watched one that fails starts the reconnection loop.
LEMMA ChannelKeeps ==
  ASSUME ConnInv, NEW c \in {"idle", "connecting", "ready", "failure"}, Idle, client # "none",
         created = "yes" \/ loop = "probing" \/ client # "idle",
         ChannelBecomes(c), outages' \in 0..MaxOutages
  PROVE  ConnInv'
<1>1. UNCHANGED <<closing, closePc, created, heard>> /\ client' = c
  BY DEF ChannelBecomes, closeVars
<1>2. created = "yes"
  BY LoopIsInOutage DEF ConnInv, Opening
<1>3. closePc # "awaiting"
  BY DEF Idle
<1>4. CASE watching /\ ~closing /\ c = "failure"
  <2>1. tstate = "READY" /\ watching' = FALSE /\ aborted' = FALSE /\ LoopHead(0, <<"RECONNECTING">>)
    BY <1>4 DEF ConnInv, Watched, ChannelBecomes
  <2>2. /\ tstate' = "RECONNECTING" /\ Grown
        /\ loop' \in {"none", "sleeping"} /\ attempt' \in 0..MaxAttempts \cup {0}
        /\ MaxAttempts = -1 => loop' # "none"
    BY <2>1, OutageBegins
  <2>3. ConnTypeOK'
    <3>1. watching' \in BOOLEAN /\ aborted' \in BOOLEAN
      BY <2>1
    <3> QED BY <1>1, <2>2, <3>1, StatesAre DEF ConnInv, ConnTypeOK, Grown, Tasks
  <2>4. Opening' /\ Shutting' /\ Watched' /\ Announced'
    BY <1>1, <1>2, <1>3, <1>4, <2>1, <2>2, AnnouncedKept DEF ConnInv, Opening, Shutting, Watched
  <2> QED BY <2>3, <2>4 DEF ConnInv
<1>5. CASE ~(watching /\ ~closing /\ c = "failure")
  <2>1. watching' = (watching /\ ~closing) /\ UNCHANGED <<tstate, microtasks, loop, attempt, aborted>>
    BY <1>5 DEF ChannelBecomes, machine, manager
  <2>2. ConnTypeOK'
    <3>1. watching' \in BOOLEAN
      BY <2>1
    <3> QED BY <1>1, <2>1, <3>1 DEF ConnInv, ConnTypeOK
  <2>3. Announced'
    BY <1>1, <2>1, StillAnnounced DEF ConnInv, machine
  <2>4. Opening' /\ Shutting' /\ Watched'
    BY <1>1, <1>2, <1>3, <2>1 DEF ConnInv, Opening, Shutting, Watched
  <2> QED BY <2>2, <2>3, <2>4 DEF ConnInv
<1> QED BY <1>4, <1>5

LEMMA ChannelStepKeeps ==
  ASSUME ConnInv, ChannelConnects \/ ChannelReady \/ ChannelLost
  PROVE  ConnInv'
<1>1. outages \in 0..MaxOutages /\ MaxOutages \in Nat
  BY Limits DEF ConnInv, ConnTypeOK
<1>2. CASE ChannelConnects
  <2>1. outages' \in 0..MaxOutages
    BY <1>1, <1>2 DEF ChannelConnects
  <2> QED BY <1>2, <2>1, ChannelKeeps DEF ChannelConnects
<1>3. CASE ChannelReady
  <2>1. outages' \in 0..MaxOutages
    BY <1>1, <1>3 DEF ChannelReady
  <2> QED BY <1>3, <2>1, ChannelKeeps DEF ChannelReady
<1>4. CASE ChannelLost
  <2>1. outages' \in 0..MaxOutages
    BY <1>1, <1>4 DEF ChannelLost
  <2> QED BY <1>4, <2>1, ChannelKeeps DEF ChannelLost
<1> QED BY <1>2, <1>3, <1>4

\* Steps of the reconnection loop that take no transition.
LEMMA AttemptBeginsKeeps ==
  ASSUME ConnInv, SleepOver \/ Build
  PROVE  ConnInv'
<1>1. /\ UNCHANGED <<tstate, microtasks, closing, closePc, watching, attempt, aborted, created, heard, outages>>
      /\ loop # "none" /\ loop' \in {"building", "probing"} /\ client' \in {"none", "idle"}
  BY DEF SleepOver, Build, machine, closeVars
<1>2. tstate \in {"RECONNECTING", "CLOSED"} /\ created = "yes"
  BY <1>1, LoopIsInOutage
<1>3. ConnTypeOK'
  BY <1>1 DEF ConnInv, ConnTypeOK
<1>4. Announced'
  BY <1>1, StillAnnounced DEF ConnInv, machine
<1>5. Opening' /\ Shutting' /\ Watched'
  BY <1>1, <1>2 DEF ConnInv, Opening, Shutting, Watched
<1> QED BY <1>3, <1>4, <1>5 DEF ConnInv

\* Steps that leave the state where it is and perhaps end the loop.
LEMMA AttemptFailsKeeps ==
  ASSUME ConnInv, SleepAborted \/ BuildFails \/ ProbeFails
  PROVE  ConnInv'
<1>1. UNCHANGED <<closing, closePc, client, watching, aborted, created, heard>> /\ loop # "none"
  BY DEF SleepAborted, BuildFails, ProbeFails, closeVars, channel
<1>2. outages' \in 0..MaxOutages
  BY Limits DEF ConnInv, ConnTypeOK, SleepAborted, BuildFails, ProbeFails
<1>3. /\ tstate' = tstate /\ Grown
      /\ loop' \in {"none", "sleeping"} /\ attempt' \in 0..MaxAttempts \cup {0}
      /\ MaxAttempts = -1 /\ ~closing => loop' # "none"
  <2>1. CASE SleepAborted
    <3>1. tstate \in States /\ microtasks \in Seq(Tasks)
      BY MachineTypes DEF ConnInv
    <3>2. Transitions(<<>>, <<Resubscription>>) /\ aborted /\ loop' = "none" /\ attempt' = attempt
      BY <2>1 DEF SleepAborted
    <3>3. tstate' = tstate /\ Grown
      BY <3>1, <3>2, NoTransition
    <3> QED BY <3>2, <3>3 DEF ConnInv, ConnTypeOK, Shutting
  <2>2. CASE BuildFails \/ ProbeFails
    BY <1>1, <2>2, LoopGoesOn DEF BuildFails, ProbeFails
  <2> QED BY <2>1, <2>2
<1>4. tstate \in {"RECONNECTING", "CLOSED"} /\ created = "yes"
  BY <1>1, LoopIsInOutage
<1>5. tstate = "RECONNECTING" => ~closing
  BY DEF ConnInv, ConnTypeOK, Shutting
<1>6. ConnTypeOK'
  BY <1>1, <1>2, <1>3 DEF ConnInv, ConnTypeOK, Grown, Tasks
<1>7. Announced'
  BY <1>1, <1>3, AnnouncedKept DEF ConnInv
<1>8. Opening' /\ Shutting' /\ Watched'
  BY <1>1, <1>3, <1>4, <1>5 DEF ConnInv, Opening, Shutting, Watched
<1> QED BY <1>6, <1>7, <1>8 DEF ConnInv

LEMMA AttemptSucceedsKeeps ==
  ASSUME ConnInv, AttemptSucceeds
  PROVE  ConnInv'
<1>1. /\ loop = "probing" /\ client = "ready" /\ loop' = "none" /\ attempt' = 0 /\ aborted' = FALSE
      /\ watching' = ~closing /\ Transitions(<<"READY">>, <<Resubscription>>)
      /\ UNCHANGED <<closing, closePc, client, created, heard, outages>>
  BY DEF AttemptSucceeds, Watch, closeVars
<1>2. Moved("READY") /\ Grown
  <2>1. tstate \in States /\ microtasks \in Seq(Tasks)
    BY MachineTypes DEF ConnInv
  <2> QED BY <1>1, <2>1, OneTransition, StatesAre
<1>3. tstate \in {"RECONNECTING", "CLOSED"} /\ created = "yes"
  BY <1>1, LoopIsInOutage
<1>4. tstate' = IF tstate = "RECONNECTING" THEN "READY" ELSE "CLOSED"
  BY <1>2, <1>3, Table DEF Moved
<1>5. tstate = "RECONNECTING" <=> ~closing
  BY <1>3, LoopIsInOutage, <1>1 DEF ConnInv, ConnTypeOK, Shutting
<1>6. ConnTypeOK'
  <2>1. watching' \in BOOLEAN /\ aborted' \in BOOLEAN /\ tstate' \in States
    BY <1>1, <1>4, StatesAre
  <2> QED BY <1>1, <1>2, <2>1, ConnTypes DEF ConnInv, ConnTypeOK
<1>7. Announced'
  BY <1>1, <1>2, AnnouncedKept DEF ConnInv
<1>8. Opening' /\ Shutting' /\ Watched'
  BY <1>1, <1>3, <1>4, <1>5 DEF ConnInv, Opening, Shutting, Watched
<1> QED BY <1>6, <1>7, <1>8 DEF ConnInv

\* close().
LEMMA CloseReconnectingKeeps ==
  ASSUME ConnInv, CloseReconnecting
  PROVE  ConnInv'
<1>1. /\ created = "yes" /\ ~closing /\ tstate = "RECONNECTING" /\ Transitions(<<"CLOSED">>, <<>>)
      /\ closing' = TRUE /\ closePc' = "done" /\ aborted' = TRUE
      /\ UNCHANGED <<client, watching, loop, attempt, created, heard, outages>>
  BY DEF CloseReconnecting, channel
<1>2. tstate' = "CLOSED" /\ Grown
  <2>1. tstate \in States /\ microtasks \in Seq(Tasks)
    BY MachineTypes DEF ConnInv
  <2>2. Moved("CLOSED") /\ Grown
    BY <1>1, <2>1, OneTransition, StatesAre
  <2> QED BY <1>1, <2>2, Table DEF Moved
<1>3. ConnTypeOK'
  <2>1. closing' \in BOOLEAN /\ aborted' \in BOOLEAN
    BY <1>1
  <2> QED BY <1>1, <1>2, <2>1, StatesAre, ConnTypes DEF ConnInv, ConnTypeOK
<1>4. Announced'
  BY <1>1, <1>2, AnnouncedKept DEF ConnInv
<1>5. Opening' /\ Shutting' /\ Watched'
  BY <1>1, <1>2 DEF ConnInv, Opening, Shutting, Watched
<1> QED BY <1>3, <1>4, <1>5 DEF ConnInv

LEMMA CloseBeginKeeps ==
  ASSUME ConnInv, CloseBegin
  PROVE  ConnInv'
<1>1. /\ created = "yes" /\ ~closing /\ tstate = "READY" /\ closing' = TRUE /\ closePc' = "awaiting"
      /\ UNCHANGED <<tstate, microtasks, client, watching, loop, attempt, aborted, created, heard, outages>>
  BY DEF CloseBegin, machine, channel, manager
<1>2. ConnTypeOK'
  <2>1. closing' \in BOOLEAN
    BY <1>1
  <2> QED BY <1>1, <2>1 DEF ConnInv, ConnTypeOK
<1>3. Announced'
  BY <1>1, StillAnnounced DEF ConnInv, machine
<1>4. Opening' /\ Shutting' /\ Watched'
  BY <1>1 DEF ConnInv, Opening, Shutting, Watched
<1> QED BY <1>2, <1>3, <1>4 DEF ConnInv

LEMMA CloseEndKeeps ==
  ASSUME ConnInv, CloseEnd
  PROVE  ConnInv' /\ closing
<1>1. /\ closePc = "awaiting" /\ closePc' = "done" /\ client' = "none" /\ watching' = FALSE
      /\ Transitions(<<"CLOSED">>, <<>>)
      /\ UNCHANGED <<closing, loop, attempt, aborted, created, heard, outages>>
  BY DEF CloseEnd, manager
<1>2. tstate = "READY" /\ closing /\ created = "yes" /\ loop = "none"
  BY <1>1 DEF ConnInv, ConnTypeOK, Shutting, Opening
<1>3. tstate' = "CLOSED" /\ Grown
  <2>1. tstate \in States /\ microtasks \in Seq(Tasks)
    BY MachineTypes DEF ConnInv
  <2>2. Moved("CLOSED") /\ Grown
    BY <1>1, <2>1, OneTransition, StatesAre
  <2> QED BY <1>2, <2>2, Table DEF Moved
<1>4. ConnTypeOK'
  <2>1. watching' \in BOOLEAN
    BY <1>1
  <2> QED BY <1>1, <1>3, <2>1, StatesAre, ConnTypes DEF ConnInv, ConnTypeOK
<1>5. Announced'
  BY <1>1, <1>3, AnnouncedKept DEF ConnInv
<1>6. Opening' /\ Shutting' /\ Watched'
  BY <1>1, <1>2, <1>3 DEF ConnInv, Opening, Shutting, Watched
<1> QED BY <1>2, <1>4, <1>5, <1>6 DEF ConnInv

-----------------------------------------------------------------------------
\* The connection as a whole.

LEMMA ConnInit == Init => ConnInv
<1> SUFFICES ASSUME Init PROVE ConnInv
  OBVIOUS
<1>1. microtasks \in Seq(Tasks) /\ heard \in Seq(LifecycleEvents)
  BY DEF Init
<1>2. tstate \in States /\ attempt \in 0..MaxAttempts \cup {0} /\ outages \in 0..MaxOutages
  BY Limits, StatesAre DEF Init
<1>3. closing \in BOOLEAN /\ watching \in BOOLEAN /\ aborted \in BOOLEAN
  BY DEF Init
<1>4. ConnTypeOK
  BY <1>1, <1>2, <1>3 DEF Init, ConnTypeOK, Tasks, LifecycleEvents
<1>5. Opening /\ Shutting /\ Watched /\ Announced
  BY DEF Init, Opening, Shutting, Watched, Announced
<1> QED BY <1>4, <1>5 DEF ConnInv

LEMMA ConnNext == ConnInv /\ Next => ConnInv'
BY MicrotaskKeeps, ConnectBeginKeeps, ConnectEndKeeps, CreateKeeps, ChannelStepKeeps, AttemptBeginsKeeps,
   AttemptFailsKeeps, AttemptSucceedsKeeps, CloseReconnectingKeeps, CloseBeginKeeps, CloseEndKeeps
   DEF Next

LEMMA ConnQuiet ==
  ASSUME ConnInv,
         UNCHANGED <<tstate, microtasks, closing, closePc, client, watching, loop, attempt, aborted, created, heard>>,
         outages' \in 0..MaxOutages
  PROVE  ConnInv'
<1>1. ConnTypeOK'
  BY DEF ConnInv, ConnTypeOK
<1>2. Announced'
  BY StillAnnounced DEF ConnInv, machine
<1>3. Opening' /\ Shutting' /\ Watched'
  BY DEF ConnInv, Opening, Shutting, Watched
<1> QED BY <1>1, <1>2, <1>3 DEF ConnInv

LEMMA InvLookedAfter == ConnInv => LookedAfter
BY DEF ConnInv, Watched, LookedAfter

-----------------------------------------------------------------------------
\* Streams and their handles.

StreamStates == {"none", "pending", "open", "orphan", "dead"}

\* The streams of D die, those of S become how.
Become(S, how, D) ==
  /\ stream' = [s \in Subs |-> IF s \in D THEN "dead" ELSE IF s \in S THEN how ELSE stream[s]]
  /\ active' = active \ D

LEMMA BecomeTrue ==
  ASSUME stream \in [Subs -> StreamStates], ActiveIsTrue,
         NEW S, S \subseteq Alive, NEW D, NEW how, how \in {"open", "orphan"}, Become(S, how, D)
  PROVE  stream' \in [Subs -> StreamStates] /\ ActiveIsTrue' /\ active' \subseteq active
<1>1. stream' \in [Subs -> StreamStates]
  BY DEF Become, StreamStates
<1>2. \A s \in Subs : s \in Alive' <=> s \in Alive \ D
  BY DEF Become, Alive
<1>3. Alive \subseteq Subs /\ Alive' \subseteq Subs
  BY DEF Alive
<1>4. active' = Alive'
  BY <1>2, <1>3 DEF Become, ActiveIsTrue
<1> QED BY <1>1, <1>4 DEF Become, ActiveIsTrue

LEMMA DieTrue ==
  ASSUME stream \in [Subs -> StreamStates], ActiveIsTrue, NEW D, Die(D)
  PROVE  stream' \in [Subs -> StreamStates] /\ ActiveIsTrue' /\ active' \subseteq active
<1>1. Become({}, "open", D)
  BY DEF Die, Become
<1> QED BY <1>1, BecomeTrue

LEMMA StreamsFollowTrue ==
  ASSUME stream \in [Subs -> StreamStates], ActiveIsTrue, StreamsFollow
  PROVE  stream' \in [Subs -> StreamStates] /\ ActiveIsTrue' /\ active' \subseteq active
<1> DEFINE pending == {s \in Subs : stream[s] = "pending"}
           open == {s \in Subs : stream[s] = "open"}
<1>1. pending \subseteq Alive /\ open \subseteq Alive
  BY DEF Alive
<1>2. \/ Become({}, "", pending)
      \/ \E S \in SUBSET open : Become(S, "orphan", open \ S)
      \/ Become(pending, "open", {})
      \/ Become(open, "orphan", pending)
      \/ UNCHANGED <<stream, active>>
  BY DEF StreamsFollow, Become
<1>3. CASE Become({}, "", pending)
  <2>1. Become({}, "open", pending)
    BY <1>3 DEF Become
  <2> QED BY <2>1, BecomeTrue
<1>4. CASE \E S \in SUBSET open : Become(S, "orphan", open \ S)
  <2>1. PICK S \in SUBSET open : Become(S, "orphan", open \ S)
    BY <1>4
  <2> QED BY <1>1, <2>1, BecomeTrue
<1>5. CASE Become(pending, "open", {}) \/ Become(open, "orphan", pending)
  BY <1>1, <1>5, BecomeTrue
<1>6. CASE UNCHANGED <<stream, active>>
  BY <1>6 DEF ActiveIsTrue, Alive
<1> QED BY <1>2, <1>3, <1>4, <1>5, <1>6

LEMMA AttachTrue ==
  ASSUME stream \in [Subs -> StreamStates], ActiveIsTrue, NEW S, S \subseteq Subs,
         AttachStreams(S), active' = active \cup S
  PROVE  stream' \in [Subs -> StreamStates] /\ ActiveIsTrue'
<1>1. NewStream \in {"open", "pending"}
  BY DEF NewStream
<1>2. stream' = [s \in Subs |-> IF s \in S THEN NewStream ELSE stream[s]]
  BY DEF AttachStreams
<1>3. stream' \in [Subs -> StreamStates]
  BY <1>1, <1>2 DEF StreamStates
<1>4. \A s \in Subs : s \in Alive' <=> s \in Alive \cup S
  BY <1>1, <1>2 DEF Alive
<1>5. Alive \subseteq Subs /\ Alive' \subseteq Subs
  BY DEF Alive
<1> QED BY <1>3, <1>4, <1>5 DEF ActiveIsTrue

\* A step that at most takes handles away.
LEMMA FewerHandles ==
  ASSUME SubInv, ConnInv', closing => closing',
         stream' \in [Subs -> StreamStates], ActiveIsTrue', active' \subseteq active,
         UNCHANGED <<phase, tracked, lastSequence, log, nextSequence, received, unheard>>
  PROVE  SubInv'
<1> USE DEF SubInv
<1>1. TypeOK'
  BY DEF TypeOK, ConnInv, StreamStates
<1>2. Registered'
  BY DEF Registered
<1>3. Resumes' /\ StoreInOrder'
  BY DEF Resumes, StoreInOrder
<1> QED BY <1>1, <1>2, <1>3

LEMMA ClosingStays ==
  ASSUME Next \/ UNCHANGED connVars, closing
  PROVE  closing'
BY DEF Next, connVars, closeVars, RunMicrotask, ConnectBegin, ConnectEnd, ConnectFails, Create,
   ChannelConnects, ChannelReady, ChannelLost, ChannelBecomes, SleepOver, SleepAborted, Build, BuildFails,
   ProbeFails, AttemptSucceeds, CloseReconnecting, CloseBegin, CloseEnd

LEMMA StreamTypes == TypeOK => stream \in [Subs -> StreamStates]
BY DEF TypeOK, StreamStates

\* A step of the connection that leaves the tracker alone.
LEMMA WithKeeps ==
  ASSUME SubInv, Next, StreamsFollow,
         UNCHANGED <<phase, tracked, lastSequence, log, nextSequence, received, unheard>>
  PROVE  SubInv'
<1>1. ConnInv'
  BY ConnNext DEF SubInv
<1>2. closing => closing'
  BY ClosingStays
<1>3. stream' \in [Subs -> StreamStates] /\ ActiveIsTrue' /\ active' \subseteq active
  BY StreamTypes, StreamsFollowTrue DEF SubInv, Registered
<1> QED BY <1>1, <1>2, <1>3, FewerHandles

LEMMA CloseAndClearKeeps ==
  ASSUME SubInv, CloseAndClear
  PROVE  SubInv'
<1> USE DEF SubInv
<1>1. ConnInv' /\ closing /\ closing' = closing
  BY CloseEndKeeps DEF CloseAndClear, CloseEnd
<1>2. /\ tracked' = {} /\ UNCHANGED <<phase, lastSequence, log, nextSequence, received, unheard>>
      /\ StreamsFollow
  BY DEF CloseAndClear
<1>3. stream' \in [Subs -> StreamStates] /\ ActiveIsTrue' /\ active' \subseteq active
  BY <1>2, StreamTypes, StreamsFollowTrue DEF Registered
<1>4. TypeOK'
  BY <1>1, <1>2, <1>3 DEF TypeOK, ConnInv, StreamStates
<1>5. Registered'
  BY <1>1, <1>2, <1>3 DEF Registered
<1>6. Resumes' /\ StoreInOrder'
  BY <1>2, <1>3 DEF Resumes, StoreInOrder, Registered
<1> QED BY <1>1, <1>4, <1>5, <1>6

LEMMA StreamEndsKeeps ==
  ASSUME SubInv, NEW s \in Subs, StreamEnds(s)
  PROVE  SubInv'
<1>1. /\ UNCHANGED <<tstate, microtasks, closing, closePc, client, watching, loop, attempt, aborted, created, heard>>
      /\ UNCHANGED <<phase, tracked, lastSequence, log, nextSequence, received, unheard>> /\ Die({s})
  BY DEF StreamEnds, machine, closeVars, channel, manager
<1>2. outages' \in 0..MaxOutages
  BY Limits DEF StreamEnds, SubInv, ConnInv, ConnTypeOK
<1>3. ConnInv'
  BY <1>1, <1>2, ConnQuiet DEF SubInv
<1>4. stream' \in [Subs -> StreamStates] /\ ActiveIsTrue' /\ active' \subseteq active
  BY <1>1, StreamTypes, DieTrue DEF SubInv, Registered
<1> QED BY <1>1, <1>3, <1>4, FewerHandles

\* The connection does nothing.
LEMMA ConnUnchanged ==
  ASSUME ConnInv, UNCHANGED connVars
  PROVE  ConnInv' /\ closing' = closing
<1>1. UNCHANGED <<tstate, microtasks, closing, closePc, client, watching, loop, attempt, aborted, created, heard, outages>>
  BY DEF connVars, machine, closeVars, channel, manager
<1>2. outages' \in 0..MaxOutages
  BY <1>1 DEF ConnInv, ConnTypeOK
<1> QED BY <1>1, <1>2, ConnQuiet

LEMMA CancelKeeps ==
  ASSUME SubInv, NEW s \in Subs, Cancel(s) \/ CloseConsumer(s)
  PROVE  SubInv'
<1> USE DEF SubInv
<1>1. /\ phase[s] = "subscribed" /\ phase' = [phase EXCEPT ![s] = "cancelled"]
      /\ UNCHANGED <<connVars, lastSequence, log, nextSequence, received, unheard>>
      /\ IF s \in active THEN Die({s}) ELSE UNCHANGED <<stream, active>>
      /\ tracked' \subseteq tracked /\ \A x \in Subs : x # s => (x \in tracked' <=> x \in tracked)
      /\ s \in tracked' => s \in Consumers
  BY DEF Cancel, CloseConsumer, Untrack
<1>2. ConnInv' /\ closing' = closing
  BY <1>1, ConnUnchanged
<1>3. stream' \in [Subs -> StreamStates] /\ ActiveIsTrue' /\ active' = active \ {s}
  <2>1. CASE s \in active
    BY <1>1, <2>1, StreamTypes, DieTrue DEF Registered, Die
  <2>2. CASE s \notin active
    BY <1>1, <2>2, StreamTypes DEF Registered, ActiveIsTrue, Alive
  <2> QED BY <2>1, <2>2
<1>4. \A x \in Subs : phase'[x] = IF x = s THEN "cancelled" ELSE phase[x]
  BY <1>1 DEF TypeOK
<1>5. TypeOK'
  BY <1>1, <1>2, <1>3 DEF TypeOK, ConnInv, StreamStates
<1>6. Registered'
  BY <1>1, <1>2, <1>3, <1>4 DEF Registered
<1>7. Resumes' /\ StoreInOrder'
  BY <1>1, <1>3, <1>4 DEF Resumes, StoreInOrder
<1> QED BY <1>2, <1>5, <1>6, <1>7

LEMMA PublishKeeps ==
  ASSUME SubInv, Publish
  PROVE  SubInv'
<1> USE DEF SubInv
<1>1. UNCHANGED connVars /\ UNCHANGED <<phase, tracked, active, stream, lastSequence, nextSequence, received, unheard>>
  BY DEF Publish
<1>2. ConnInv' /\ closing' = closing
  BY <1>1, ConnUnchanged
<1>3. log' \in 0..MaxLog
  BY Limits DEF Publish, TypeOK
<1>4. TypeOK'
  BY <1>1, <1>2, <1>3 DEF TypeOK, ConnInv
<1>5. Registered' /\ Resumes' /\ StoreInOrder'
  BY <1>1, <1>2 DEF Registered, Resumes, StoreInOrder, ActiveIsTrue, Alive
<1> QED BY <1>2, <1>4, <1>5

\* A stream attached to a subscription begins after the last event it got.
LEMMA AttachedAt ==
  ASSUME SubInv, NEW S, S \subseteq Subs, \A s \in S : s \in tracked \/ phase[s] = "none", AttachStreams(S)
  PROVE  /\ nextSequence' \in [Subs -> 1..(MaxLog + 1)]
         /\ \A s \in Subs : nextSequence'[s] = IF s \in S THEN Len(received[s]) + 1 ELSE nextSequence[s]
<1>1. nextSequence' = [s \in Subs |-> IF s \in S THEN lastSequence[s] + 1 ELSE nextSequence[s]]
  BY DEF AttachStreams, ResumeAt
<1>2. \A s \in Subs : lastSequence[s] \in 0..MaxLog /\ lastSequence[s] + 1 \in 1..(MaxLog + 1)
  BY Limits DEF SubInv, TypeOK
<1>3. \A s \in Subs : nextSequence[s] \in 1..(MaxLog + 1)
  BY DEF SubInv, TypeOK
<1>4. \A s \in S : lastSequence[s] = Len(received[s])
  BY DEF SubInv, Resumes
<1>5. \A s \in Subs : nextSequence'[s] = IF s \in S THEN lastSequence[s] + 1 ELSE nextSequence[s]
  BY <1>1
<1>6. nextSequence' \in [Subs -> 1..(MaxLog + 1)]
  BY <1>1, <1>2, <1>3
<1> QED BY <1>4, <1>5, <1>6

LEMMA RegisterKeeps ==
  ASSUME SubInv, NEW s \in Subs, Register(s)
  PROVE  SubInv'
<1> USE DEF SubInv
<1>1. /\ phase[s] = "none" /\ ~closing /\ phase' = [phase EXCEPT ![s] = "subscribed"]
      /\ AttachStreams({s}) /\ active' = active \cup {s} /\ tracked' = tracked \cup {s}
      /\ UNCHANGED connVars /\ UNCHANGED <<lastSequence, log, received, unheard>>
  BY DEF Register, CanStream
<1>2. ConnInv' /\ closing' = closing
  BY <1>1, ConnUnchanged
<1>3. stream' \in [Subs -> StreamStates] /\ ActiveIsTrue'
  BY <1>1, StreamTypes, AttachTrue DEF Registered
<1>4. /\ nextSequence' \in [Subs -> 1..(MaxLog + 1)]
      /\ \A x \in Subs : nextSequence'[x] = IF x = s THEN Len(received[x]) + 1 ELSE nextSequence[x]
  <2>1. {s} \subseteq Subs /\ \A x \in {s} : x \in tracked \/ phase[x] = "none"
    BY <1>1
  <2> QED BY <1>1, <2>1, AttachedAt
<1>5. \A x \in Subs : phase'[x] = IF x = s THEN "subscribed" ELSE phase[x]
  BY <1>1 DEF TypeOK
<1>6. TypeOK'
  BY <1>1, <1>2, <1>3, <1>4 DEF TypeOK, ConnInv, StreamStates
<1>7. Registered'
  BY <1>1, <1>2, <1>3, <1>5 DEF Registered
<1>8. Resumes' /\ StoreInOrder'
  BY <1>1, <1>4, <1>5 DEF Resumes, StoreInOrder
<1> QED BY <1>2, <1>6, <1>7, <1>8

LEMMA ResubscribeKeeps ==
  ASSUME SubInv, Resubscribe
  PROVE  SubInv'
<1> USE DEF SubInv
<1>1. /\ RunMicrotask /\ AttachStreams(Restorable) /\ active' = active \cup Restorable
      /\ unheard' = (unheard \/ (Restorable \cap Alive) \ Consumers # {})
      /\ UNCHANGED <<phase, tracked, lastSequence, log, received>>
  BY DEF Resubscribe, ResubscribeAll
<1>2. ConnInv' /\ closing' = closing
  BY <1>1, MicrotaskKeeps DEF RunMicrotask, closeVars
<1>3. Restorable \subseteq tracked /\ \A s \in Restorable : s \in Consumers => s \in active
  BY DEF Restorable
<1>4. Restorable \subseteq Subs
  BY <1>3 DEF TypeOK
<1>5. stream' \in [Subs -> StreamStates] /\ ActiveIsTrue'
  BY <1>1, <1>4, StreamTypes, AttachTrue DEF Registered
<1>6. /\ nextSequence' \in [Subs -> 1..(MaxLog + 1)]
      /\ \A s \in Subs : nextSequence'[s] = IF s \in Restorable THEN Len(received[s]) + 1 ELSE nextSequence[s]
  BY <1>1, <1>3, <1>4, AttachedAt
<1>7. TypeOK'
  <2>1. unheard' \in BOOLEAN
    BY <1>1
  <2> QED BY <1>1, <1>2, <1>4, <1>5, <1>6, <2>1 DEF TypeOK, ConnInv, StreamStates
<1>8. Registered'
  BY <1>1, <1>2, <1>3, <1>5 DEF Registered
<1>9. Resumes' /\ StoreInOrder'
  BY <1>1, <1>6 DEF Resumes, StoreInOrder
<1> QED BY <1>2, <1>7, <1>8, <1>9

LEMMA ReceiveKeeps ==
  ASSUME SubInv, NEW s \in Subs, Receive(s)
  PROVE  SubInv'
<1> USE DEF SubInv
<1> DEFINE n == nextSequence[s]
           r == Append(received[s], n)
<1>1. /\ stream[s] \in {"open", "orphan"} /\ n <= log
      /\ received' = [received EXCEPT ![s] = r]
      /\ lastSequence' = IF s \in tracked THEN [lastSequence EXCEPT ![s] = n] ELSE lastSequence
      /\ nextSequence' = [nextSequence EXCEPT ![s] = n + 1]
      /\ UNCHANGED connVars /\ UNCHANGED <<phase, tracked, active, stream, log, unheard>>
  BY DEF Receive, UpdateSequence
<1>2. ConnInv' /\ closing' = closing
  BY <1>1, ConnUnchanged
<1>3. s \in active
  BY <1>1 DEF Registered, ActiveIsTrue, Alive
<1>4. n = Len(received[s]) + 1 /\ n \in 1..MaxLog /\ n + 1 \in 1..(MaxLog + 1) /\ n \in 0..MaxLog
  BY <1>1, <1>3, Limits DEF Resumes, TypeOK
<1>5. received[s] \in Seq(1..MaxLog)
  BY DEF TypeOK
<1>6. /\ r \in Seq(1..MaxLog) /\ Len(r) = n /\ Len(received[s]) \in Nat
      /\ \A i \in 1..Len(received[s]) : r[i] = received[s][i]
      /\ r[n] = n
  <2>1. /\ r \in Seq(1..MaxLog) /\ Len(r) = Len(received[s]) + 1
        /\ \A i \in 1..Len(received[s]) : r[i] = received[s][i]
        /\ r[Len(received[s]) + 1] = n
    BY <1>4, <1>5, AppendProperties
  <2>2. Len(received[s]) \in Nat
    BY <1>5, LenProperties
  <2> QED BY <1>4, <2>1, <2>2
<1>7. \A i \in 1..Len(r) : r[i] = i
  <2>1. \A i \in 1..Len(received[s]) : received[s][i] = i
    BY DEF StoreInOrder
  <2>2. \A i \in 1..Len(r) : i \in 1..Len(received[s]) \/ i = n
    BY <1>4, <1>6
  <2> QED BY <1>6, <2>1, <2>2
<1> HIDE DEF r, n
<1>8. /\ \A x \in Subs : received'[x] = IF x = s THEN r ELSE received[x]
      /\ \A x \in Subs : nextSequence'[x] = IF x = s THEN n + 1 ELSE nextSequence[x]
      /\ \A x \in Subs : lastSequence'[x] = IF x = s /\ s \in tracked THEN n ELSE lastSequence[x]
  BY <1>1 DEF TypeOK
<1>9. TypeOK'
  <2>1. received' \in [Subs -> Seq(1..MaxLog)]
    BY <1>1, <1>6 DEF TypeOK
  <2>2. nextSequence' \in [Subs -> 1..(MaxLog + 1)] /\ lastSequence' \in [Subs -> 0..MaxLog]
    BY <1>1, <1>4 DEF TypeOK
  <2> QED BY <1>1, <1>2, <2>1, <2>2 DEF TypeOK, ConnInv
<1>10. Registered'
  BY <1>1, <1>2 DEF Registered, ActiveIsTrue, Alive
<1>11. phase[s] # "none"
  BY <1>3 DEF Registered
<1>12. Resumes'
  BY <1>1, <1>6, <1>8, <1>11 DEF Resumes
<1>13. StoreInOrder'
  BY <1>7, <1>8 DEF StoreInOrder
<1> QED BY <1>2, <1>9, <1>10, <1>12, <1>13

-----------------------------------------------------------------------------
\* The inductive invariant, and what follows from it.

LEMMA SubsInit == SubInit => SubInv
<1> SUFFICES ASSUME SubInit PROVE SubInv
  OBVIOUS
<1>1. ConnInv
  BY ConnInit DEF SubInit
<1>2. <<>> \in Seq(1..MaxLog) /\ Len(<<>>) = 0
  OBVIOUS
<1>3. TypeOK
  <2>1. received \in [Subs -> Seq(1..MaxLog)] /\ stream \in [Subs -> StreamStates]
    BY <1>2 DEF SubInit, StreamStates
  <2>2. /\ lastSequence \in [Subs -> 0..MaxLog] /\ log \in 0..MaxLog
        /\ nextSequence \in [Subs -> 1..(MaxLog + 1)]
    <3>1. 0 \in 0..MaxLog /\ 1 \in 1..(MaxLog + 1)
      BY Limits
    <3> QED BY <3>1 DEF SubInit
  <2>3. /\ phase \in [Subs -> {"none", "subscribed", "cancelled"}] /\ unheard \in BOOLEAN
        /\ tracked \subseteq Subs /\ active \subseteq Subs
    BY DEF SubInit
  <2> QED BY <1>1, <2>1, <2>2, <2>3 DEF TypeOK, ConnInv, StreamStates
<1>4. Registered /\ Resumes /\ StoreInOrder
  BY <1>2 DEF SubInit, Registered, Resumes, StoreInOrder, ActiveIsTrue, Alive
<1> QED BY <1>1, <1>3, <1>4 DEF SubInv

\* What a step is to the connection.
LEMMA ConnectionStep ==
  ASSUME [SubNext]_vars
  PROVE  \/ Next
         \/ UNCHANGED connVars
         \/ \E s \in Subs : StreamEnds(s)
<1>1. CASE Resubscribe
  BY <1>1 DEF Resubscribe, Next
<1>2. CASE CloseAndClear
  BY <1>2 DEF CloseAndClear, Next
<1>3. CASE Publish \/ UNCHANGED vars
  BY <1>3 DEF Publish, vars
<1>4. CASE \/ With(Emit)
           \/ With(ConnectBegin) \/ With(ConnectEnd) \/ With(ConnectFails) \/ With(Create)
           \/ With(ChannelConnects) \/ With(ChannelReady) \/ With(ChannelLost)
           \/ With(SleepOver) \/ With(SleepAborted) \/ With(Build) \/ With(BuildFails)
           \/ With(ProbeFails) \/ With(AttemptSucceeds)
           \/ With(CloseReconnecting) \/ With(CloseBegin)
  BY <1>4 DEF With, Emit, Next
<1>5. ASSUME NEW s \in Subs,
             \/ SubscribeToEvents(s) \/ SubscribeToEventsStore(s) \/ SubscribeToCommands(s)
             \/ SubscribeToQueries(s) \/ StreamQueueMessages(s)
             \/ Cancel(s) \/ CloseConsumer(s) \/ Receive(s)
      PROVE  UNCHANGED connVars
  BY <1>5 DEF SubscribeToEvents, SubscribeToEventsStore, SubscribeToCommands, SubscribeToQueries,
     StreamQueueMessages, Register, Cancel, CloseConsumer, Receive
<1> QED BY <1>1, <1>2, <1>3, <1>4, <1>5 DEF SubNext

LEMMA SubsNext == SubInv /\ [SubNext]_vars => SubInv'
<1> SUFFICES ASSUME SubInv, [SubNext]_vars PROVE SubInv'
  OBVIOUS
<1>1. CASE \/ With(Emit)
           \/ With(ConnectBegin) \/ With(ConnectEnd) \/ With(ConnectFails) \/ With(Create)
           \/ With(ChannelConnects) \/ With(ChannelReady) \/ With(ChannelLost)
           \/ With(SleepOver) \/ With(SleepAborted) \/ With(Build) \/ With(BuildFails)
           \/ With(ProbeFails) \/ With(AttemptSucceeds)
           \/ With(CloseReconnecting) \/ With(CloseBegin)
  <2>1. Next /\ StreamsFollow /\ UNCHANGED <<phase, tracked, lastSequence, log, nextSequence, received, unheard>>
    BY <1>1 DEF With, Emit, Next
  <2> QED BY <2>1, WithKeeps
<1>2. CASE Resubscribe
  BY <1>2, ResubscribeKeeps
<1>3. CASE CloseAndClear
  BY <1>3, CloseAndClearKeeps
<1>4. CASE Publish
  BY <1>4, PublishKeeps
<1>5. ASSUME NEW s \in Subs,
             \/ SubscribeToEvents(s) \/ SubscribeToEventsStore(s) \/ SubscribeToCommands(s)
             \/ SubscribeToQueries(s) \/ StreamQueueMessages(s)
      PROVE  SubInv'
  BY <1>5, RegisterKeeps DEF SubscribeToEvents, SubscribeToEventsStore, SubscribeToCommands,
     SubscribeToQueries, StreamQueueMessages
<1>6. ASSUME NEW s \in Subs, Cancel(s) \/ CloseConsumer(s) \/ Receive(s) \/ StreamEnds(s)
      PROVE  SubInv'
  BY <1>6, CancelKeeps, ReceiveKeeps, StreamEndsKeeps
<1>7. CASE UNCHANGED vars
  <2>1. UNCHANGED connVars /\ UNCHANGED <<phase, tracked, active, stream, lastSequence, log, nextSequence, received, unheard>>
    BY <1>7 DEF vars, subVars
  <2>2. ConnInv' /\ closing' = closing
    BY <2>1, ConnUnchanged DEF SubInv
  <2>3. stream' \in [Subs -> StreamStates] /\ ActiveIsTrue' /\ active' \subseteq active
    BY <2>1, StreamTypes DEF SubInv, Registered, ActiveIsTrue, Alive
  <2> QED BY <2>1, <2>2, <2>3, FewerHandles
<1> QED BY <1>1, <1>2, <1>3, <1>4, <1>5, <1>6, <1>7 DEF SubNext

-----------------------------------------------------------------------------
\* What a single step may not do.

LEMMA ClosedTakesNoTransition ==
  ASSUME tstate = "CLOSED", NEW news, NEW more, Transitions(news, more)
  PROVE  tstate' = "CLOSED"
BY Table DEF Transitions

LEMMA ClosedRunsNoOutage ==
  ASSUME tstate = "CLOSED", NEW n, NEW first, LoopHead(n, first)
  PROVE  tstate' = "CLOSED"
<1>1. Transitions(first, <<Resubscription>>) \/ Transitions(Append(first, "RECONNECTING"), <<>>)
  BY DEF LoopHead
<1> QED BY <1>1, ClosedTakesNoTransition

LEMMA ClosedStays ==
  ASSUME tstate = "CLOSED", Next
  PROVE  tstate' = "CLOSED"
<1>1. CASE \/ RunMicrotask \/ ConnectFails \/ Create \/ SleepOver \/ Build \/ CloseBegin
  BY <1>1 DEF RunMicrotask, ConnectFails, Create, SleepOver, Build, CloseBegin, machine
<1>2. CASE ConnectBegin \/ ConnectEnd \/ CloseReconnecting
  BY <1>2 DEF ConnectBegin, ConnectEnd, CloseReconnecting
<1>3. ASSUME NEW c, ChannelBecomes(c) PROVE tstate' = "CLOSED"
  <2>1. CASE watching /\ ~closing /\ c = "failure"
    <3>1. LoopHead(0, <<"RECONNECTING">>)
      BY <1>3, <2>1 DEF ChannelBecomes
    <3> QED BY <3>1, ClosedRunsNoOutage
  <2>2. CASE ~(watching /\ ~closing /\ c = "failure")
    BY <1>3, <2>2 DEF ChannelBecomes, machine
  <2> QED BY <2>1, <2>2
<1>4. CASE ChannelConnects \/ ChannelReady \/ ChannelLost
  BY <1>3, <1>4 DEF ChannelConnects, ChannelReady, ChannelLost
<1>5. CASE BuildFails \/ ProbeFails
  BY <1>5, ClosedRunsNoOutage DEF BuildFails, ProbeFails
<1>6. CASE SleepAborted
  BY <1>6, ClosedTakesNoTransition DEF SleepAborted
<1>7. CASE AttemptSucceeds
  BY <1>7, ClosedTakesNoTransition DEF AttemptSucceeds
<1>8. CASE CloseEnd
  BY <1>8, ClosedTakesNoTransition DEF CloseEnd
<1> QED BY <1>1, <1>2, <1>4, <1>5, <1>6, <1>7, <1>8 DEF Next

\* Nothing but a microtask calls a listener.
LEMMA OnlyMicrotasksAreHeard ==
  ASSUME Next
  PROVE  RunMicrotask \/ heard' = heard
BY DEF Next, ConnectBegin, ConnectEnd, ConnectFails, Create, ChannelConnects, ChannelReady, ChannelLost,
   ChannelBecomes, SleepOver, SleepAborted, Build, BuildFails, ProbeFails, AttemptSucceeds,
   CloseReconnecting, CloseBegin, CloseEnd

LEMMA HeardInTurn == ConnInv /\ [Next]_connVars => [Lifecycle!Next]_heard
<1> SUFFICES ASSUME ConnInv, [Next]_connVars PROVE [Lifecycle!Next]_heard
  OBVIOUS
<1>1. CASE RunMicrotask
  BY <1>1, MicrotaskKeeps
<1>2. CASE heard' = heard
  BY <1>2
<1>3. UNCHANGED connVars => heard' = heard
  BY DEF connVars
<1> QED BY <1>1, <1>2, <1>3, OnlyMicrotasksAreHeard

LEMMA HeardFromNothing == Init => Lifecycle!Init
BY DEF Init, Lifecycle!Init

LEMMA ConnStep == ConnInv /\ [Next]_connVars => ConnInv'
BY ConnNext, ConnUnchanged

\* A stream that ends by itself is no event of the connection.
LEMMA StreamEndIsUnheard ==
  ASSUME NEW s \in Subs, StreamEnds(s)
  PROVE  tstate' = tstate /\ heard' = heard
BY DEF StreamEnds, machine

LEMMA SubsHeardInTurn == SubInv /\ [SubNext]_vars => [Lifecycle!Next]_heard
<1> SUFFICES ASSUME SubInv, [SubNext]_vars PROVE [Lifecycle!Next]_heard
  OBVIOUS
<1>1. CASE [Next]_connVars
  BY <1>1, HeardInTurn DEF SubInv
<1>2. ASSUME NEW s \in Subs, StreamEnds(s) PROVE heard' = heard
  BY <1>2, StreamEndIsUnheard
<1> QED BY <1>1, <1>2, ConnectionStep

LEMMA SubsClosedStays == tstate = "CLOSED" /\ [SubNext]_vars => tstate' = "CLOSED"
<1> SUFFICES ASSUME tstate = "CLOSED", [SubNext]_vars PROVE tstate' = "CLOSED"
  OBVIOUS
<1>1. CASE Next
  BY <1>1, ClosedStays
<1>2. CASE UNCHANGED connVars
  BY <1>2 DEF connVars, machine
<1>3. ASSUME NEW s \in Subs, StreamEnds(s) PROVE tstate' = "CLOSED"
  BY <1>3, StreamEndIsUnheard
<1> QED BY <1>1, <1>2, <1>3, ConnectionStep

\* Only what was never subscribed is subscribed.
LEMMA CancelledStays ==
  ASSUME SubInv, [SubNext]_vars, NEW s \in Subs, phase[s] = "cancelled"
  PROVE  phase'[s] = "cancelled" /\ received'[s] = received[s]
<1>1. phase \in [Subs -> {"none", "subscribed", "cancelled"}] /\ received \in [Subs -> Seq(1..MaxLog)]
  BY DEF SubInv, TypeOK
<1>2. s \notin Alive
  BY DEF SubInv, Registered, ActiveIsTrue
<1>3. CASE UNCHANGED <<phase, received>>
  BY <1>3
<1>4. ASSUME NEW x \in Subs, Register(x) \/ Cancel(x) \/ CloseConsumer(x)
      PROVE  phase'[s] = "cancelled" /\ received' = received
  <2>1. CASE Register(x)
    BY <1>1, <2>1 DEF Register
  <2>2. CASE Cancel(x) \/ CloseConsumer(x)
    BY <1>1, <2>2 DEF Cancel, CloseConsumer
  <2> QED BY <1>4, <2>1, <2>2
<1>5. ASSUME NEW x \in Subs, Receive(x)
      PROVE  phase' = phase /\ received'[s] = received[s]
  <2>1. x # s
    BY <1>2, <1>5 DEF Receive, Alive
  <2> QED BY <1>1, <1>5, <2>1 DEF Receive
<1>6. ASSUME NEW x \in Subs, StreamEnds(x)
      PROVE  UNCHANGED <<phase, received>>
  BY <1>6 DEF StreamEnds
<1>7. \/ UNCHANGED <<phase, received>>
      \/ \E x \in Subs : Register(x) \/ Cancel(x) \/ CloseConsumer(x) \/ Receive(x) \/ StreamEnds(x)
  BY DEF SubNext, vars, subVars, With, Resubscribe, ResubscribeAll, CloseAndClear, Publish, SubscribeToEvents,
     SubscribeToEventsStore, SubscribeToCommands, SubscribeToQueries, StreamQueueMessages
<1> QED BY <1>3, <1>4, <1>5, <1>6, <1>7

LEMMA CancelledIsOver ==
  ASSUME SubInv, [SubNext]_vars
  PROVE  \A s \in Subs : phase[s] = "cancelled" =>
           phase'[s] = "cancelled" /\ s \notin Alive' /\ received'[s] = received[s]
<1> SUFFICES ASSUME NEW s \in Subs, phase[s] = "cancelled"
             PROVE  phase'[s] = "cancelled" /\ s \notin Alive' /\ received'[s] = received[s]
  OBVIOUS
<1>1. phase'[s] = "cancelled" /\ received'[s] = received[s]
  BY CancelledStays
<1>2. Registered'
  BY SubsNext DEF SubInv
<1>3. s \notin Alive'
  BY <1>1, <1>2 DEF Registered, ActiveIsTrue
<1> QED BY <1>1, <1>3

LEMMA InvHandlesAreTrue == SubInv => HandlesAreTrue
<1> SUFFICES ASSUME SubInv PROVE HandlesAreTrue
  OBVIOUS
<1>1. LookedAfter
  BY InvLookedAfter DEF SubInv
<1>2. TypeOK /\ ActiveIsTrue /\ \A s \in Alive : s \in tracked \/ closing
  BY DEF SubInv, Registered, ActiveIsTrue, Alive
<1> QED BY <1>1, <1>2 DEF HandlesAreTrue

-----------------------------------------------------------------------------
\* The theorems.

\* Until close() a connection is looked after, whatever the limit of attempts: in READY
\* its channel is watched and no loop runs, and with unlimited attempts a loop runs in
\* RECONNECTING (watchChannelState, handleTransientFailure, ReconnectionManager).
THEOREM ConnectionIsLookedAfter == Spec => []LookedAfter
<1>1. Init => ConnInv
  BY ConnInit
<1>2. ConnInv /\ [Next]_connVars => ConnInv'
  BY ConnStep
<1>3. ConnInv => LookedAfter
  BY InvLookedAfter
<1> QED BY <1>1, <1>2, <1>3, PTL DEF Spec

\* The connection implements ConnectionLifecycle: 'disconnected' and 'reconnected' are
\* heard in turn and 'closed' once and last, although a listener runs a microtask after
\* the transition it hears of.
THEOREM ConnectionTells == Spec => LifecycleHeard
<1>1. Init => ConnInv
  BY ConnInit
<1>2. ConnInv /\ [Next]_connVars => ConnInv'
  BY ConnStep
<1>3. ConnInv /\ [Next]_connVars => [Lifecycle!Next]_heard
  BY HeardInTurn
<1>4. Init => Lifecycle!Init
  BY HeardFromNothing
<1> QED BY <1>1, <1>2, <1>3, <1>4, PTL DEF Spec, LifecycleHeard, Lifecycle!Spec

\* The inductive invariant holds for every set of subscriptions and consumers.
LEMMA SubsInvariant == SubSpec => []SubInv
<1> QED BY SubsInit, SubsNext, PTL DEF SubSpec

\* The same of a connection with subscriptions on it.
THEOREM ApplicationHears == SubSpec => LifecycleHeard
<1>1. SubInv /\ [SubNext]_vars => [Lifecycle!Next]_heard
  BY SubsHeardInTurn
<1>2. SubInit => Lifecycle!Init
  BY HeardFromNothing DEF SubInit
<1> QED BY <1>1, <1>2, SubsInvariant, PTL DEF SubSpec, LifecycleHeard, Lifecycle!Spec

\* isActive of a handle tells whether its stream is alive, and a live stream belongs to
\* a subscription the tracker knows, until close() clears it.
THEOREM HandlesTellTheTruth == SubSpec => []HandlesAreTrue
<1> QED BY SubsInvariant, InvHandlesAreTrue, PTL

\* A store subscription gets every event once and in order, across any number of
\* outages: resubscribeAll() resumes after the last sequence the tracker was told.
THEOREM EventsArriveInOrder == SubSpec => []StoreInOrder
<1>1. SubInv => StoreInOrder
  BY DEF SubInv
<1> QED BY <1>1, SubsInvariant, PTL

\* A closed transport announces no other state, although the loop close() cancelled may
\* succeed; a cancelled subscription gets no stream and no event again.
THEOREM OverStaysOver == SubSpec => StaysClosed
<1>1. [SubNext]_vars => [tstate = "CLOSED" => tstate' = "CLOSED"]_connVars
  BY SubsClosedStays
<1>2. SubInv /\ [SubNext]_vars =>
        [\A s \in Subs : phase[s] = "cancelled" =>
           phase'[s] = "cancelled" /\ s \notin Alive' /\ received'[s] = received[s]]_vars
  BY CancelledIsOver
<1> QED BY <1>1, <1>2, SubsInvariant, PTL DEF SubSpec, StaysClosed, ClosedIsFinal

=============================================================================

------------------------ MODULE PublishStreamsProofs ------------------------
(***************************************************************************)
(* Proofs about PublishStreams for every kind of handle, any set of        *)
(* requests, any limit of attempts and any number of outages: an open      *)
(* promise of a handle for events is on its way to an answer, and streams  *)
(* are opened for a reason only.                                           *)
(***************************************************************************)
EXTENDS PublishStreams, SequenceTheorems, TLAPS

\* A handle of events that takes requests has a stream, unless nobody heard its end.
ReadyHasStream ==
  kind # "upstream" /\ handle = "active" /\ streamReady => Alive \/ deaf

\* A request waits on a handle of events that is ready, or did not get its answer from
\* one that was closed.
WaitingIsServed ==
  /\ kind # "upstream" /\ handle = "active" =>
       \A r \in Requests : outcome[r] = "open" => r \in waiting /\ streamReady
  /\ handle = "none" => \A r \in Requests : outcome[r] # "open"

PubInv == TypeOK /\ ReadyHasStream /\ WaitingIsServed

-----------------------------------------------------------------------------
\* The types of the connection, step by step.

Tasks == (States \X States) \cup {Resubscription}
Clients == {"none", "idle", "connecting", "ready", "failure"}
Attempts == 0..MaxAttempts \cup {0}
LifecycleEvents == {"disconnected", "reconnected", "closed"}

LEMMA Limits == MaxAttempts \in Nat \cup {-1} /\ MaxOutages \in Nat
BY ConnectionConstants DEF ConnectionConstants

\* What transitions of known states leave behind.
MachineTypes == tstate \in States /\ microtasks \in Seq(Tasks)

LEMMA ConnTypesAre ==
  ConnTypeOK <=>
    /\ MachineTypes
    /\ closing \in BOOLEAN /\ closePc \in {"no", "awaiting", "done"}
    /\ client \in Clients /\ watching \in BOOLEAN
    /\ loop \in {"none", "sleeping", "building", "probing"}
    /\ attempt \in Attempts /\ aborted \in BOOLEAN
    /\ created \in {"no", "yes", "failed"}
    /\ heard \in Seq(LifecycleEvents) /\ outages \in 0..MaxOutages
BY DEF ConnTypeOK, MachineTypes, Tasks, Clients, Attempts, LifecycleEvents

LEMMA FunctionIsSeq ==
  ASSUME NEW S, NEW n \in Nat, NEW t \in [1..n -> S]
  PROVE  t \in Seq(S)
OBVIOUS

LEMMA TransitionTypes ==
  ASSUME MachineTypes, NEW news \in Seq(States), NEW more \in {<<>>, <<Resubscription>>},
         Transitions(news, more)
  PROVE  MachineTypes'
<1>1. more \in Seq(Tasks)
  <2>1. Resubscription \in Tasks
    BY DEF Tasks
  <2>2. <<>> \in Seq(Tasks) /\ <<Resubscription>> \in Seq(Tasks)
    BY <2>1
  <2> QED BY <2>2
<1> DEFINE from(i) == IF i = 1 THEN tstate ELSE news[i - 1]
           t == [i \in 1..Len(news) |-> <<from(i), news[i]>>]
<1>2. Len(news) \in Nat /\ \A i \in 1..Len(news) : news[i] \in States
  BY LenProperties
<1>3. ASSUME NEW i \in 1..Len(news) PROVE <<from(i), news[i]>> \in Tasks
  <2>1. CASE i = 1
    BY <1>2, <2>1 DEF MachineTypes, Tasks
  <2>2. CASE i # 1
    <3>1. i - 1 \in 1..Len(news)
      BY <1>2, <2>2
    <3> QED BY <1>2, <2>2, <3>1 DEF Tasks
  <2> QED BY <2>1, <2>2
<1>4. t \in Seq(Tasks)
  <2>1. t \in [1..Len(news) -> Tasks]
    BY <1>3
  <2> HIDE DEF t
  <2> QED BY <1>2, <2>1, FunctionIsSeq
<1>5. \/ /\ news # <<>> /\ tstate' = news[Len(news)]
         /\ microtasks' = microtasks \o t \o more
      \/ tstate' = tstate /\ microtasks' = microtasks \o more
  BY DEF Transitions
<1> HIDE DEF t
<1>6. CASE news # <<>> /\ tstate' = news[Len(news)] /\ microtasks' = microtasks \o t \o more
  <2>1. Len(news) \in 1..Len(news)
    BY <1>2, <1>6, EmptySeq
  <2>2. microtasks \o t \in Seq(Tasks)
    BY <1>4, ConcatProperties DEF MachineTypes
  <2>3. microtasks \o t \o more \in Seq(Tasks)
    BY <1>1, <2>2, ConcatProperties
  <2> QED BY <1>2, <1>6, <2>1, <2>3 DEF MachineTypes
<1>7. CASE tstate' = tstate /\ microtasks' = microtasks \o more
  BY <1>1, <1>7, ConcatProperties DEF MachineTypes
<1> QED BY <1>5, <1>6, <1>7

LEMMA StatesAre ==
  /\ <<>> \in Seq(States) /\ <<"CONNECTING">> \in Seq(States) /\ <<"READY">> \in Seq(States)
  /\ <<"RECONNECTING">> \in Seq(States) /\ <<"CLOSED">> \in Seq(States)
  /\ Append(<<>>, "RECONNECTING") \in Seq(States)
  /\ Append(<<"RECONNECTING">>, "RECONNECTING") \in Seq(States)
BY DEF States

LEMMA LoopHeadTypes ==
  ASSUME MachineTypes, NEW n \in Attempts, NEW first \in {<<>>, <<"RECONNECTING">>},
         LoopHead(n, first)
  PROVE  MachineTypes' /\ loop' \in {"none", "sleeping"} /\ attempt' \in Attempts
<1>1. CASE Exhausted(n) \/ (first = <<>> /\ aborted)
  <2>1. loop' = "none" /\ attempt' = n /\ Transitions(first, <<Resubscription>>)
    BY <1>1 DEF LoopHead
  <2> QED BY <2>1, StatesAre, TransitionTypes
<1>2. CASE ~(Exhausted(n) \/ (first = <<>> /\ aborted))
  <2>1. loop' = "sleeping" /\ attempt' = Count(n) /\ Transitions(Append(first, "RECONNECTING"), <<>>)
    BY <1>2 DEF LoopHead
  <2>2. Count(n) \in Attempts
    BY <1>2, Limits DEF Count, Exhausted, Attempts
  <2>3. MachineTypes'
    BY <2>1, StatesAre, TransitionTypes
  <2> QED BY <2>1, <2>2, <2>3
<1> QED BY <1>1, <1>2

\* The rest of ConnTypeOK, for a step that changes no more than these.
LEMMA ConnTypesKept ==
  ASSUME ConnTypeOK, MachineTypes',
         closing' \in BOOLEAN, closePc' \in {"no", "awaiting", "done"},
         client' \in Clients, watching' \in BOOLEAN,
         loop' \in {"none", "sleeping", "building", "probing"},
         attempt' \in Attempts, aborted' \in BOOLEAN,
         created' \in {"no", "yes", "failed"},
         heard' = heard, outages' \in 0..MaxOutages
  PROVE  ConnTypeOK'
BY DEF ConnTypeOK, MachineTypes, Tasks, Clients, Attempts, LifecycleEvents

LEMMA EmittedTypes ==
  ASSUME NEW a, NEW b PROVE Emitted(a, b) \in Seq(LifecycleEvents)
<1>1. /\ <<>> \in Seq(LifecycleEvents) /\ <<"reconnected">> \in Seq(LifecycleEvents)
      /\ <<"disconnected">> \in Seq(LifecycleEvents) /\ <<"closed">> \in Seq(LifecycleEvents)
  BY DEF LifecycleEvents
<1> QED BY <1>1 DEF Emitted

LEMMA MicrotaskTypes == ASSUME ConnTypeOK, RunMicrotask PROVE ConnTypeOK'
<1> USE ConnTypesAre
<1>1. heard' \in Seq(LifecycleEvents)
  <2>1. \A e \in Seq(LifecycleEvents) : heard \o e \in Seq(LifecycleEvents)
    BY ConcatProperties
  <2> QED BY <2>1, EmittedTypes DEF RunMicrotask
<1>2. MachineTypes'
  BY HeadTailProperties DEF RunMicrotask, MachineTypes
<1>3. UNCHANGED <<closing, closePc, client, watching, loop, attempt, aborted, created, outages>>
  BY DEF RunMicrotask, closeVars, channel, manager
<1> QED BY <1>1, <1>2, <1>3 DEF ConnTypeOK, MachineTypes, Tasks, LifecycleEvents

LEMMA ChannelTypes ==
  ASSUME ConnTypeOK, NEW c \in Clients, ChannelBecomes(c), outages' \in 0..MaxOutages
  PROVE  ConnTypeOK'
<1> USE ConnTypesAre
<1>1. client' = c /\ UNCHANGED <<closing, closePc, created, heard>>
  BY DEF ChannelBecomes, closeVars
<1>2. CASE watching /\ ~closing /\ c = "failure"
  <2>1. watching' = FALSE /\ aborted' = FALSE /\ LoopHead(0, <<"RECONNECTING">>)
    BY <1>2 DEF ChannelBecomes
  <2>2. 0 \in Attempts
    BY DEF Attempts
  <2>3. MachineTypes' /\ loop' \in {"none", "sleeping"} /\ attempt' \in Attempts
    BY <2>1, <2>2, LoopHeadTypes
  <2>4. watching' \in BOOLEAN /\ aborted' \in BOOLEAN
    BY <2>1
  <2> QED BY <1>1, <2>3, <2>4, ConnTypesKept
<1>3. CASE ~(watching /\ ~closing /\ c = "failure")
  <2>1. watching' = (watching /\ ~closing) /\ UNCHANGED <<tstate, microtasks, loop, attempt, aborted>>
    BY <1>3 DEF ChannelBecomes, machine, manager
  <2>2. watching' \in BOOLEAN
    BY <2>1
  <2>3. MachineTypes'
    BY <2>1 DEF MachineTypes
  <2> QED BY <1>1, <2>1, <2>2, <2>3, ConnTypesKept
<1> QED BY <1>2, <1>3

LEMMA ConnNextTypes == ASSUME ConnTypeOK, Next PROVE ConnTypeOK'
<1> USE ConnTypesAre
<1>1. CASE ConnectBegin \/ ConnectEnd \/ CloseReconnecting \/ CloseEnd \/ SleepAborted
  <2>1. MachineTypes'
    BY <1>1, StatesAre, TransitionTypes DEF ConnectBegin, ConnectEnd, CloseReconnecting, CloseEnd, SleepAborted
  <2>2. /\ closing' \in {closing, TRUE} /\ closePc' \in {closePc, "done"}
        /\ client' \in {client, "idle", "none"} /\ watching' \in {watching, TRUE, FALSE}
        /\ loop' \in {loop, "none"} /\ attempt' = attempt /\ aborted' \in {aborted, TRUE}
        /\ created' = created /\ heard' = heard /\ outages' = outages
    BY <1>1 DEF ConnectBegin, ConnectEnd, CloseReconnecting, CloseEnd, SleepAborted, closeVars, channel, manager
  <2>3. closing' \in BOOLEAN /\ watching' \in BOOLEAN /\ aborted' \in BOOLEAN
    BY <2>2
  <2>4. client' \in Clients
    BY <2>2 DEF Clients
  <2> QED BY <2>1, <2>2, <2>3, <2>4, ConnTypesKept
<1>2. CASE AttemptSucceeds
  <2>1. MachineTypes'
    BY <1>2, StatesAre, TransitionTypes DEF AttemptSucceeds
  <2>2. /\ watching' = ~closing /\ aborted' = FALSE /\ attempt' = 0 /\ loop' = "none"
        /\ UNCHANGED <<closing, closePc, client, created, heard, outages>>
    BY <1>2 DEF AttemptSucceeds, Watch, closeVars
  <2>3. watching' \in BOOLEAN /\ aborted' \in BOOLEAN /\ attempt' \in Attempts
    BY <2>2 DEF Attempts
  <2> QED BY <2>1, <2>2, <2>3, ConnTypesKept
<1>3. CASE BuildFails \/ ProbeFails
  <2>1. MachineTypes' /\ loop' \in {"none", "sleeping"} /\ attempt' \in Attempts
    BY <1>3, LoopHeadTypes DEF BuildFails, ProbeFails
  <2>2. UNCHANGED <<closing, closePc, client, watching, aborted, created, heard>>
    BY <1>3 DEF BuildFails, ProbeFails, closeVars, channel
  <2>3. outages' \in 0..MaxOutages
    BY <1>3, Limits DEF BuildFails, ProbeFails
  <2> QED BY <2>1, <2>2, <2>3, ConnTypesKept
<1>4. CASE ChannelConnects \/ ChannelReady \/ ChannelLost
  <2>1. outages' \in 0..MaxOutages
    BY <1>4, Limits DEF ChannelConnects, ChannelReady, ChannelLost
  <2>2. PICK c \in Clients : ChannelBecomes(c)
    BY <1>4 DEF ChannelConnects, ChannelReady, ChannelLost, Clients
  <2> QED BY <2>1, <2>2, ChannelTypes
<1>5. CASE ConnectFails \/ Create \/ SleepOver \/ Build \/ CloseBegin
  <2>1. UNCHANGED <<tstate, microtasks, watching, attempt, aborted, heard, outages>>
    BY <1>5 DEF ConnectFails, Create, SleepOver, Build, CloseBegin, machine, channel, manager
  <2>2. /\ closing' \in {closing, TRUE} /\ closePc' \in {closePc, "awaiting"}
        /\ client' \in {client, "idle", "none"} /\ loop' \in {loop, "building", "probing"}
        /\ created' \in {created, "yes", "failed"}
    BY <1>5 DEF ConnectFails, Create, SleepOver, Build, CloseBegin, machine, closeVars, channel, manager
  <2>3. MachineTypes' /\ client' \in Clients /\ closing' \in BOOLEAN
    BY <2>1, <2>2 DEF MachineTypes, Clients
  <2> QED BY <2>1, <2>2, <2>3, ConnTypesKept
<1> QED BY <1>1, <1>2, <1>3, <1>4, <1>5, MicrotaskTypes DEF Next

LEMMA ConnInitTypes == Init => ConnTypeOK
<1> SUFFICES ASSUME Init PROVE ConnTypeOK
  OBVIOUS
<1>1. MachineTypes /\ heard \in Seq(LifecycleEvents)
  BY DEF Init, MachineTypes, States
<1>2. closing \in BOOLEAN /\ watching \in BOOLEAN /\ aborted \in BOOLEAN
  BY DEF Init
<1>3. client \in Clients /\ attempt \in Attempts /\ outages \in 0..MaxOutages
  BY Limits DEF Init, Clients, Attempts
<1> QED BY <1>1, <1>2, <1>3, ConnTypesAre DEF Init

LEMMA ConnSameTypes == ASSUME ConnTypeOK, UNCHANGED connVars PROVE ConnTypeOK'
<1>1. UNCHANGED <<tstate, microtasks, closing, closePc, client, watching, loop, attempt, aborted, created, heard, outages>>
  BY DEF connVars, machine, closeVars, channel, manager
<1> QED BY <1>1 DEF ConnTypeOK

-----------------------------------------------------------------------------
\* The handle.

Outcomes == {"none", "open", "resolved", "rejected"}
StreamStates == {"none", "pending", "open", "orphan", "dead"}

HandleTypes ==
  /\ kind \in Kinds /\ handle \in {"none", "active", "closed"} /\ tracked \in BOOLEAN
  /\ stream \in StreamStates
  /\ opened \in Nat /\ streamReady \in BOOLEAN /\ healing \in BOOLEAN
  /\ healers \in [Awaits -> Nat]
  /\ waiting \subseteq {r \in Requests : outcome[r] = "open"}
  /\ outcome \in [Requests -> Outcomes] /\ deaf \in BOOLEAN

LEMMA TypesAre == TypeOK <=> ConnTypeOK /\ HandleTypes
BY DEF TypeOK, HandleTypes, StreamStates, Outcomes

LEMMA TypesNext == ConnTypeOK' /\ HandleTypes' => TypeOK'
BY DEF TypeOK, HandleTypes, StreamStates, Outcomes

LEMMA SettleTells ==
  ASSUME HandleTypes, NEW R, NEW how \in {"resolved", "rejected"}, Settle(R, how)
  PROVE  /\ waiting' \subseteq {r \in Requests : outcome'[r] = "open"}
         /\ outcome' \in [Requests -> Outcomes]
         /\ \A r \in Requests : outcome'[r] = "open" <=> outcome[r] = "open" /\ r \notin R
         /\ waiting' = waiting \ R
<1>1. /\ waiting' = waiting \ R
      /\ outcome' = [r \in Requests |-> IF r \in R THEN how ELSE outcome[r]]
  BY DEF Settle
<1>2. outcome' \in [Requests -> Outcomes]
  BY <1>1 DEF HandleTypes, Outcomes
<1>3. \A r \in Requests : outcome'[r] = IF r \in R THEN how ELSE outcome[r]
  BY <1>1
<1> QED BY <1>1, <1>2, <1>3 DEF HandleTypes

LEMMA OneMoreOrLess ==
  \A n \in Nat : n - 0 \in Nat /\ n + 1 \in Nat /\ n + 0 \in Nat /\ (n > 0 => n - 1 \in Nat)
OBVIOUS

LEMMA MovesTypes ==
  ASSUME HandleTypes, NEW from \in Awaits \cup {""}, NEW to \in Awaits \cup {""},
         from \in Awaits => healers[from] > 0, Moves(from, to)
  PROVE  healers' \in [Awaits -> Nat]
<1>1. healers' = [a \in Awaits |-> healers[a] - (IF a = from THEN 1 ELSE 0) + (IF a = to THEN 1 ELSE 0)]
  BY DEF Moves
<1>2. ASSUME NEW a \in Awaits
      PROVE  healers[a] - (IF a = from THEN 1 ELSE 0) + (IF a = to THEN 1 ELSE 0) \in Nat
  <2>1. healers[a] \in Nat /\ (a = from => healers[a] > 0)
    BY DEF HandleTypes
  <2>2. \A n \in Nat : n - 0 \in Nat /\ n + 1 \in Nat /\ n + 0 \in Nat /\ (n > 0 => n - 1 \in Nat)
    BY OneMoreOrLess
  <2>3. healers[a] - (IF a = from THEN 1 ELSE 0) \in Nat
    <3>1. CASE a = from
      BY <2>1, <2>2, <3>1, Zenon
    <3>2. CASE a # from
      BY <2>1, <2>2, <3>2, Zenon
    <3> QED BY <3>1, <3>2
  <2> QED BY <2>2, <2>3, Zenon
<1> QED BY <1>1, <1>2

LEMMA HealBeginsTypes ==
  ASSUME HandleTypes, HealBegins PROVE healing' \in BOOLEAN /\ healers' \in [Awaits -> Nat]
<1>1. CASE UNCHANGED <<healing, healers>>
  BY <1>1 DEF HandleTypes
<1>2. CASE healing' = TRUE /\ Moves("", IF tstate = "READY" THEN "settling" ELSE "polling")
  <2>1. "settling" \in Awaits /\ "polling" \in Awaits /\ "" \notin Awaits
    BY DEF Awaits
  <2> QED BY <1>2, <2>1, MovesTypes
<1> QED BY <1>1, <1>2 DEF HealBegins

LEMMA HealEndsTypes ==
  ASSUME HandleTypes, NEW from \in Awaits, healers[from] > 0, HealEnds(from)
  PROVE  healing' \in BOOLEAN /\ healers' \in [Awaits -> Nat]
<1>1. healing' = FALSE /\ Moves(from, "")
  BY DEF HealEnds
<1> QED BY <1>1, MovesTypes

LEMMA OpenTypes ==
  ASSUME HandleTypes, OpenStream
  PROVE  stream' \in {"open", "pending"} /\ opened' \in Nat /\ deaf' = FALSE /\ deaf' \in BOOLEAN
<1>1. stream' = (IF client = "ready" THEN "open" ELSE "pending") /\ opened' = opened + 1 /\ deaf' = FALSE
  BY DEF OpenStream
<1>2. opened' \in Nat
  BY <1>1 DEF HandleTypes
<1>3. deaf' \in BOOLEAN
  BY <1>1
<1> QED BY <1>1, <1>2, <1>3

\* A step that settles no promise, makes no handle and does not lose its stream.
LEMMA QuietKeeps ==
  ASSUME PubInv, ConnTypeOK', UNCHANGED <<kind, handle, streamReady, waiting, outcome>>,
         tracked' \in BOOLEAN, stream' \in StreamStates, opened' \in Nat,
         healing' \in BOOLEAN, healers' \in [Awaits -> Nat], deaf' \in BOOLEAN,
         Alive \/ deaf => Alive' \/ deaf'
  PROVE  PubInv'
<1>1. HandleTypes'
  BY TypesAre DEF PubInv, HandleTypes
<1>2. TypeOK'
  BY <1>1, TypesNext
<1>3. ReadyHasStream' /\ WaitingIsServed'
  BY DEF PubInv, ReadyHasStream, WaitingIsServed
<1> QED BY <1>2, <1>3 DEF PubInv

\* The stream is dead, and an active handle knows it.
LEMMA FailsKeeps ==
  ASSUME PubInv, ConnTypeOK', Fails, UNCHANGED <<kind, handle, opened>>, tracked' \in BOOLEAN
  PROVE  PubInv'
<1>0. HandleTypes /\ stream' = "dead" /\ deaf' = deaf
  BY TypesAre DEF PubInv, Fails
<1>1. CASE handle # "active"
  <2>1. UNCHANGED <<streamReady, healing, healers, waiting, outcome>>
    BY <1>1 DEF Fails
  <2>2. HandleTypes'
    BY <1>0, <2>1 DEF HandleTypes, StreamStates
  <2>3. ReadyHasStream' /\ WaitingIsServed'
    BY <1>1, <2>1 DEF PubInv, ReadyHasStream, WaitingIsServed
  <2> QED BY <2>2, <2>3, TypesNext DEF PubInv
<1>2. CASE handle = "active"
  <2>1. Break(kind = "upstream") /\ healing' \in BOOLEAN /\ healers' \in [Awaits -> Nat]
    <3>1. CASE kind = "upstream"
      <4>1. Break(TRUE) /\ UNCHANGED <<healing, healers>> /\ (kind = "upstream") = TRUE
        BY <1>2, <3>1 DEF Fails
      <4> QED BY <1>0, <4>1 DEF HandleTypes
    <3>2. CASE kind # "upstream"
      <4>1. Break(FALSE) /\ HealBegins /\ (kind = "upstream") = FALSE
        BY <1>2, <3>2 DEF Fails
      <4> QED BY <1>0, <4>1, HealBeginsTypes
    <3> QED BY <3>1, <3>2
  <2>2. streamReady' = (kind = "upstream") /\ Settle(waiting, "rejected")
    BY <2>1 DEF Break
  <2>3. /\ waiting' \subseteq {r \in Requests : outcome'[r] = "open"}
        /\ outcome' \in [Requests -> Outcomes]
        /\ \A r \in Requests : outcome'[r] = "open" <=> outcome[r] = "open" /\ r \notin waiting
    BY <1>0, <2>2, SettleTells
  <2>4. HandleTypes'
    <3>1. streamReady' \in BOOLEAN
      BY <2>2
    <3> QED BY <1>0, <2>1, <2>3, <3>1 DEF HandleTypes, StreamStates
  <2>5. ReadyHasStream'
    BY <2>2 DEF ReadyHasStream
  <2>6. WaitingIsServed'
    BY <1>2, <2>3 DEF PubInv, WaitingIsServed
  <2> QED BY <2>4, <2>5, <2>6, TypesNext DEF PubInv
<1> QED BY <1>1, <1>2

LEMMA EndsKeeps ==
  ASSUME PubInv, ConnTypeOK', Ends, UNCHANGED <<kind, handle, opened, tracked>>
  PROVE  PubInv'
<1>0. HandleTypes
  BY TypesAre DEF PubInv
<1>1. CASE handle = "active" /\ kind # "upstream" /\ healing
  <2>1. stream' = "dead" /\ deaf' = TRUE /\ UNCHANGED <<streamReady, healing, healers, waiting, outcome>>
    BY <1>1 DEF Ends
  <2>2. tracked' \in BOOLEAN /\ opened' \in Nat /\ healing' \in BOOLEAN /\ deaf' \in BOOLEAN
    BY <1>0, <2>1 DEF HandleTypes
  <2>3. stream' \in StreamStates /\ healers' \in [Awaits -> Nat]
    BY <1>0, <2>1 DEF HandleTypes, StreamStates
  <2> QED BY <2>1, <2>2, <2>3, QuietKeeps
<1>2. CASE Fails
  <2>1. tracked' \in BOOLEAN
    BY <1>0 DEF HandleTypes
  <2> QED BY <1>2, <2>1, FailsKeeps
<1> QED BY <1>1, <1>2 DEF Ends

\* What the connection does to the stream.
LEMMA FollowsKeeps ==
  ASSUME PubInv, ConnTypeOK', StreamFollows, UNCHANGED <<kind, handle, opened>>, tracked' \in BOOLEAN
  PROVE  PubInv'
<1>0. HandleTypes
  BY TypesAre DEF PubInv
<1>1. \/ Fails
      \/ /\ UNCHANGED <<streamReady, healing, healers, waiting, outcome, deaf>>
         /\ stream' = stream \/ (Alive /\ stream' \in {"open", "orphan"})
  BY DEF StreamFollows, Alive
<1>2. CASE /\ UNCHANGED <<streamReady, healing, healers, waiting, outcome, deaf>>
           /\ stream' = stream \/ (Alive /\ stream' \in {"open", "orphan"})
  <2>1. opened' \in Nat /\ healing' \in BOOLEAN /\ deaf' \in BOOLEAN /\ healers' \in [Awaits -> Nat]
    BY <1>0, <1>2 DEF HandleTypes
  <2>2. stream' \in StreamStates /\ (Alive => Alive')
    BY <1>0, <1>2 DEF HandleTypes, StreamStates, Alive
  <2> QED BY <1>2, <2>1, <2>2, QuietKeeps
<1> QED BY <1>1, <1>2, FailsKeeps

\* selfHeal().
LEMMA HealKeeps == ASSUME PubInv, HealPoll \/ HealSettle \/ HealRetry PROVE PubInv'
<1>0. HandleTypes /\ ConnTypeOK /\ {"polling", "settling", "retrying"} \subseteq Awaits /\ "" \notin Awaits
  BY TypesAre DEF PubInv, Awaits
<1>1. ConnTypeOK' /\ UNCHANGED <<kind, handle, tracked, waiting, outcome>>
  BY <1>0, ConnSameTypes DEF HealPoll, HealSettle, HealRetry
<1>2. healing' \in BOOLEAN /\ healers' \in [Awaits -> Nat]
  <2>1. CASE HealPoll
    <3>1. CASE HealEnds("polling")
      BY <1>0, <2>1, <3>1, HealEndsTypes DEF HealPoll
    <3>2. CASE Moves("polling", "settling") /\ UNCHANGED healing
      <4>1. healers["polling"] > 0
        BY <2>1 DEF HealPoll
      <4> QED BY <1>0, <3>2, <4>1, MovesTypes DEF HandleTypes
    <3> QED BY <2>1, <3>1, <3>2 DEF HealPoll
  <2>2. CASE HealSettle
    <3>1. healers["settling"] > 0
      BY <2>2 DEF HealSettle
    <3>2. CASE HealEnds("settling")
      BY <1>0, <3>1, <3>2, HealEndsTypes
    <3>3. CASE healing' = FALSE /\ Moves("settling", "retrying")
      BY <1>0, <3>1, <3>3, MovesTypes
    <3> QED BY <2>2, <3>2, <3>3 DEF HealSettle
  <2>3. CASE HealRetry
    <3>1. PICK to \in Awaits \cup {""} : Moves("retrying", to)
      BY <1>0, <2>3 DEF HealRetry
    <3>2. healers["retrying"] > 0 /\ healing' = FALSE
      BY <2>3 DEF HealRetry
    <3> QED BY <1>0, <3>1, <3>2, MovesTypes
  <2> QED BY <2>1, <2>2, <2>3
<1>3. CASE UNCHANGED <<stream, streamReady, opened, deaf>>
  BY <1>0, <1>1, <1>2, <1>3, QuietKeeps DEF HandleTypes, Alive
<1>4. CASE HealSettle /\ StillBroken /\ OpenStream /\ streamReady' = TRUE
  <2>1. stream' \in {"open", "pending"} /\ opened' \in Nat /\ deaf' = FALSE
    BY <1>0, <1>4, OpenTypes
  <2>2. streamReady' \in BOOLEAN /\ deaf' \in BOOLEAN
    BY <1>4, <2>1
  <2>3. HandleTypes'
    BY <1>0, <1>1, <1>2, <2>1, <2>2 DEF HandleTypes, StreamStates
  <2>4. ReadyHasStream'
    BY <2>1 DEF ReadyHasStream, Alive
  <2>5. WaitingIsServed'
    BY <1>1, <1>4 DEF PubInv, WaitingIsServed
  <2> QED BY <1>1, <2>3, <2>4, <2>5, TypesNext DEF PubInv
<1> QED BY <1>3, <1>4 DEF HealPoll, HealSettle, HealRetry

\* Answers and sends.
LEMMA SettlesKeeps ==
  ASSUME PubInv, NEW R, NEW how \in {"resolved", "rejected"}, Settle(R, how),
         UNCHANGED <<connVars, kind, handle, tracked, stream, opened, streamReady, healing, healers, deaf>>
  PROVE  PubInv'
<1>0. HandleTypes /\ ConnTypeOK'
  BY TypesAre, ConnSameTypes DEF PubInv
<1>1. /\ waiting' \subseteq {r \in Requests : outcome'[r] = "open"}
      /\ outcome' \in [Requests -> Outcomes]
      /\ \A r \in Requests : outcome'[r] = "open" <=> outcome[r] = "open" /\ r \notin R
      /\ waiting' = waiting \ R
  BY <1>0, SettleTells
<1>2. HandleTypes'
  BY <1>0, <1>1 DEF HandleTypes
<1>3. ReadyHasStream'
  BY DEF PubInv, ReadyHasStream, Alive
<1>4. WaitingIsServed'
  BY <1>1 DEF PubInv, WaitingIsServed
<1> QED BY <1>0, <1>2, <1>3, <1>4, TypesNext DEF PubInv

LEMMA SendKeeps == ASSUME PubInv, NEW r \in Requests, Send(r) PROVE PubInv'
<1>0. HandleTypes /\ ConnTypeOK'
  BY TypesAre, ConnSameTypes DEF PubInv, Send
<1>1. /\ handle # "none" /\ outcome[r] = "none"
      /\ UNCHANGED <<kind, handle, tracked, stream, opened, streamReady, healing, healers, deaf>>
  BY DEF Send
<1>2. \/ waiting' = waiting /\ \E how \in {"resolved", "rejected"} : OutcomeIs(r, how)
      \/ /\ waiting' = waiting \cup {r} /\ OutcomeIs(r, "open")
         /\ handle = "active" /\ streamReady
  <2>1. CASE kind = "event"
    <3>1. SendEvent(r)
      BY <2>1 DEF Send
    <3>2. handle \in {"active", "closed"} /\ streamReady \in BOOLEAN
      BY <1>0, <1>1 DEF HandleTypes
    <3> QED BY <3>1, <3>2 DEF SendEvent
  <2>2. CASE kind # "event"
    <3>1. SendTracked(r)
      BY <2>2 DEF Send
    <3> QED BY <3>1 DEF SendTracked
  <2> QED BY <2>1, <2>2
<1>3. PICK how \in {"resolved", "rejected", "open"} :
        /\ OutcomeIs(r, how)
        /\ waiting' = IF how = "open" THEN waiting \cup {r} ELSE waiting
        /\ how = "open" => handle = "active" /\ streamReady
  BY <1>2
<1>4. /\ outcome' \in [Requests -> Outcomes]
      /\ \A x \in Requests : outcome'[x] = IF x = r THEN how ELSE outcome[x]
  BY <1>0, <1>3 DEF OutcomeIs, HandleTypes, Outcomes
<1>5. waiting' \subseteq {x \in Requests : outcome'[x] = "open"}
  BY <1>0, <1>1, <1>3, <1>4 DEF HandleTypes
<1>6. HandleTypes'
  BY <1>0, <1>1, <1>4, <1>5 DEF HandleTypes
<1>7. ReadyHasStream'
  BY <1>1 DEF PubInv, ReadyHasStream, Alive
<1>8. WaitingIsServed'
  BY <1>1, <1>3, <1>4 DEF PubInv, WaitingIsServed
<1> QED BY <1>0, <1>6, <1>7, <1>8, TypesNext DEF PubInv

\* A handle is created, or closed.
LEMMA CreateKeeps == ASSUME PubInv, CreateStream PROVE PubInv'
<1>0. HandleTypes /\ ConnTypeOK'
  BY TypesAre, ConnSameTypes DEF PubInv, CreateStream
<1>1. /\ handle = "none" /\ handle' = "active" /\ tracked' = TRUE /\ OpenStream
      /\ UNCHANGED <<kind, streamReady, healing, healers, waiting, outcome>>
  BY DEF CreateStream
<1>2. stream' \in {"open", "pending"} /\ opened' \in Nat /\ deaf' \in BOOLEAN /\ tracked' \in BOOLEAN
  BY <1>0, <1>1, OpenTypes
<1>3. HandleTypes'
  BY <1>0, <1>1, <1>2 DEF HandleTypes, StreamStates
<1>4. ReadyHasStream' /\ WaitingIsServed'
  BY <1>1, <1>2 DEF PubInv, ReadyHasStream, WaitingIsServed, Alive
<1> QED BY <1>0, <1>3, <1>4, TypesNext DEF PubInv

LEMMA CloseKeeps == ASSUME PubInv, CloseHandle PROVE PubInv'
<1>0. HandleTypes /\ ConnTypeOK'
  BY TypesAre, ConnSameTypes DEF PubInv, CloseHandle
<1>1. /\ handle' = "closed" /\ tracked' = FALSE /\ stream' = "dead" /\ TellWaiting
      /\ UNCHANGED <<kind, opened, streamReady, healing, healers, deaf>>
  BY DEF CloseHandle
<1>2. waiting' \subseteq {r \in Requests : outcome'[r] = "open"} /\ outcome' \in [Requests -> Outcomes]
  BY <1>0, <1>1, SettleTells DEF TellWaiting, HandleTypes
<1>3. HandleTypes'
  <2>1. tracked' \in BOOLEAN
    BY <1>1
  <2> QED BY <1>0, <1>1, <1>2, <2>1 DEF HandleTypes, StreamStates
<1>4. ReadyHasStream' /\ WaitingIsServed'
  BY <1>1 DEF ReadyHasStream, WaitingIsServed
<1> QED BY <1>0, <1>3, <1>4, TypesNext DEF PubInv

\* resubscribeAll().
LEMMA ResubscribeKeeps == ASSUME PubInv, Resubscribe PROVE PubInv'
<1>0. HandleTypes /\ ConnTypeOK'
  BY TypesAre, MicrotaskTypes DEF PubInv, Resubscribe
<1>1. ResubscribeStream /\ UNCHANGED <<kind, handle, tracked, healing, healers>>
  BY DEF Resubscribe
<1>2. CASE tracked /\ handle = "active"
  <2>1. /\ Break(kind = "upstream" \/ CanStream)
        /\ IF CanStream THEN OpenStream ELSE stream' = "dead" /\ UNCHANGED <<opened, deaf>>
    BY <1>1, <1>2 DEF ResubscribeStream
  <2>2. streamReady' = (kind = "upstream" \/ CanStream) /\ Settle(waiting, "rejected")
    BY <2>1 DEF Break
  <2>3. /\ waiting' \subseteq {r \in Requests : outcome'[r] = "open"}
        /\ outcome' \in [Requests -> Outcomes]
        /\ \A r \in Requests : outcome'[r] = "open" <=> outcome[r] = "open" /\ r \notin waiting
    BY <1>0, <2>2, SettleTells
  <2>4. opened' \in Nat /\ deaf' \in BOOLEAN /\ stream' \in {"open", "pending", "dead"}
        /\ (CanStream => stream' \in {"open", "pending"})
    <3>1. CASE CanStream
      BY <1>0, <2>1, <3>1, OpenTypes
    <3>2. CASE ~CanStream
      BY <1>0, <2>1, <3>2 DEF HandleTypes
    <3> QED BY <3>1, <3>2
  <2>5. HandleTypes'
    <3>1. streamReady' \in BOOLEAN
      BY <2>2
    <3> QED BY <1>0, <1>1, <2>3, <2>4, <3>1 DEF HandleTypes, StreamStates
  <2>6. ReadyHasStream'
    BY <1>1, <2>2, <2>4 DEF ReadyHasStream, Alive
  <2>7. WaitingIsServed'
    BY <1>1, <1>2, <2>3 DEF PubInv, WaitingIsServed
  <2> QED BY <1>0, <2>5, <2>6, <2>7, TypesNext DEF PubInv
<1>3. CASE ~(tracked /\ handle = "active")
  <2>1. UNCHANGED <<stream, opened, streamReady, waiting, outcome, deaf>>
    BY <1>1, <1>3 DEF ResubscribeStream
  <2> QED BY <1>0, <1>1, <2>1, QuietKeeps DEF HandleTypes, Alive
<1> QED BY <1>2, <1>3

\* A step of the connection, with what happens to the stream.
LEMMA WithKeeps ==
  ASSUME PubInv, Next, StreamFollows, UNCHANGED <<kind, handle, opened>>, tracked' \in BOOLEAN
  PROVE  PubInv'
BY FollowsKeeps, ConnNextTypes, TypesAre DEF PubInv

LEMMA DiesKeeps == ASSUME PubInv, StreamDies PROVE PubInv'
<1>0. HandleTypes /\ ConnTypeOK
  BY TypesAre DEF PubInv
<1>1. /\ outages < MaxOutages /\ outages' = outages + 1 /\ (Fails \/ Ends)
      /\ UNCHANGED <<tstate, microtasks, closing, closePc, client, watching, loop, attempt, aborted, created, heard>>
      /\ UNCHANGED <<kind, handle, tracked, opened>>
  BY DEF StreamDies, machine, closeVars, channel, manager
<1>2. ConnTypeOK'
  <2>1. outages' \in 0..MaxOutages
    BY <1>0, <1>1, Limits, ConnTypesAre
  <2> QED BY <1>0, <1>1, <2>1 DEF ConnTypeOK
<1>3. tracked' \in BOOLEAN
  BY <1>0, <1>1 DEF HandleTypes
<1> QED BY <1>1, <1>2, <1>3, FailsKeeps, EndsKeeps

-----------------------------------------------------------------------------
\* The publishing stream as a whole.

LEMMA PubInitInv == PubInit => PubInv
<1> SUFFICES ASSUME PubInit PROVE PubInv
  OBVIOUS
<1>1. ConnTypeOK
  BY ConnInitTypes DEF PubInit
<1>2. HandleTypes
  <2>1. tracked \in BOOLEAN /\ streamReady \in BOOLEAN /\ healing \in BOOLEAN /\ deaf \in BOOLEAN
    BY DEF PubInit
  <2>2. healers \in [Awaits -> Nat] /\ outcome \in [Requests -> Outcomes]
    BY DEF PubInit, Outcomes
  <2> QED BY <2>1, <2>2 DEF PubInit, HandleTypes, StreamStates
<1>3. ReadyHasStream /\ WaitingIsServed
  BY DEF PubInit, ReadyHasStream, WaitingIsServed
<1> QED BY <1>1, <1>2, <1>3, TypesAre DEF PubInv

LEMMA PubNextInv == PubInv /\ [PubNext]_vars => PubInv'
<1> SUFFICES ASSUME PubInv, [PubNext]_vars PROVE PubInv'
  OBVIOUS
<1>0. HandleTypes /\ ConnTypeOK
  BY TypesAre DEF PubInv
<1>2. CASE \/ With(Emit)
           \/ With(ConnectBegin) \/ With(ConnectEnd) \/ With(ConnectFails) \/ With(Create)
           \/ With(ChannelConnects) \/ With(ChannelReady) \/ With(ChannelLost)
           \/ With(SleepOver) \/ With(SleepAborted) \/ With(Build) \/ With(BuildFails)
           \/ With(ProbeFails) \/ With(AttemptSucceeds)
           \/ With(CloseReconnecting) \/ With(CloseBegin)
  <2>1. Next /\ StreamFollows /\ UNCHANGED <<kind, handle, opened, tracked>>
    BY <1>2 DEF With, Next, Emit
  <2>2. tracked' \in BOOLEAN
    BY <1>0, <2>1 DEF HandleTypes
  <2> QED BY <2>1, <2>2, WithKeeps
<1>3. CASE CloseAndClear
  <2>1. Next /\ StreamFollows /\ tracked' \in BOOLEAN /\ UNCHANGED <<kind, handle, opened>>
    BY <1>3 DEF CloseAndClear, Next
  <2> QED BY <2>1, WithKeeps
<1>4. CASE Drain
  BY <1>4, SettlesKeeps DEF Drain
<1>5. ASSUME NEW r \in Requests, Answer(r) PROVE PubInv'
  BY <1>5, SettlesKeeps DEF Answer
<1>6. CASE UNCHANGED vars
  <2>1. UNCHANGED connVars /\ UNCHANGED <<kind, handle, tracked, stream, opened, streamReady, healing, healers, waiting, outcome, deaf>>
    BY <1>6 DEF vars, handleVars
  <2>2. ConnTypeOK'
    BY <1>0, <2>1, ConnSameTypes
  <2> QED BY <1>0, <2>1, <2>2, QuietKeeps DEF HandleTypes, Alive
<1> QED BY <1>2, <1>3, <1>4, <1>5, <1>6, ResubscribeKeeps, CreateKeeps, CloseKeeps, DiesKeeps, HealKeeps,
           SendKeeps DEF PubNext

\* An active handle of events loses no promise: one that is open waits on a stream that
\* is alive, unless the end of that stream was ignored (selfHeal, breakStream and
\* resubscribe of client.ts, in whatever order they run).
THEOREM PromisesAreHeard == PubSpec => []OpenIsHeard
<1>1. PubInv => OpenIsHeard
  BY DEF PubInv, ReadyHasStream, WaitingIsServed, OpenIsHeard
<1> QED BY <1>1, PubInitInv, PubNextInv, PTL DEF PubSpec

\* The steps that open a stream.
LEMMA StepOpensForAReason ==
  ASSUME PubNext \/ UNCHANGED vars, opened' # opened
  PROVE  /\ handle' = "active"
         /\ \/ handle = "none" \/ ~streamReady
            \/ (microtasks # <<>> /\ Head(microtasks) = Resubscription)
<1>1. CASE CreateStream \/ CloseHandle \/ StreamDies \/ Drain \/ HealPoll \/ HealRetry \/ HealSettle
  BY <1>1 DEF CreateStream, CloseHandle, StreamDies, Drain, HealPoll, HealRetry, HealSettle, StillBroken
<1>2. CASE Resubscribe
  BY <1>2 DEF Resubscribe, ResubscribeStream
<1>3. CASE \E r \in Requests : Send(r) \/ Answer(r)
  BY <1>3 DEF Send, Answer
<1>4. CASE CloseAndClear \/ UNCHANGED vars
  BY <1>4 DEF CloseAndClear, vars, handleVars
<1> QED BY <1>1, <1>2, <1>3, <1>4 DEF PubNext, With

\* A stream is opened for a new handle, for an active one whose stream is broken, or by
\* resubscribeAll(): never for a handle that was closed while calls of selfHeal() waited
\* (recreateStream of client.ts).
THEOREM StreamsHaveReasons == PubSpec => OpensForAReason
<1>1. [PubNext]_vars =>
        [opened' # opened =>
           /\ handle' = "active"
           /\ \/ handle = "none" \/ ~streamReady
              \/ (microtasks # <<>> /\ Head(microtasks) = Resubscription)]_vars
  BY StepOpensForAReason
<1> QED BY <1>1, PTL DEF PubSpec, OpensForAReason
=============================================================================

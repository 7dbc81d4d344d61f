---------------------------- MODULE MCUnaryCalls ----------------------------
(***************************************************************************)
(* Instances of UnaryCalls for TLC, which looks at the messages and the    *)
(* options by the way: a behaviour is either about calls, or about a       *)
(* message, an answer or the options of a client, which stays.             *)
(***************************************************************************)
EXTENDS UnaryCalls, ClientOptions

\* One operation of each kind: those that differ in nothing but the type, or in which
\* KubeMQError that is not retryable their answers become, behave alike.
OneOfEachKind ==
  {receiveQueueMessages, sendCommand, sendResponseDirect, createChannel, listChannels,
   idempotent, notIdempotent}

CallsOrMessages ==
  /\ \/ Init /\ sample = NoSample
     \/ Init /\ sample \in Samples \cup OptionSamples
  /\ [][sample = NoSample /\ Next /\ UNCHANGED sample]_<<vars, sample>>
  /\ Fairness

\* What the validators accept works: messages and answers arrive, nothing incomplete
\* reaches the wire, and a client and its transport agree on their options.
WhatIsAcceptedWorks == MessagesArrive /\ WireIsComplete /\ OptionsWork
=============================================================================

------------------------ MODULE ConnectionLifecycle ------------------------
(***************************************************************************)
(* What the application may hear of its connection through client.on():    *)
(* after create() the connection is up, 'disconnected' and 'reconnected'   *)
(* alternate, and 'closed' comes at most once, last.  'connected' is not   *)
(* heard: it is emitted before create() returns the client.                *)
(***************************************************************************)
EXTENDS Sequences

VARIABLE heard   \* lifecycle events in the order the listeners were called

Last == IF heard = <<>> THEN "reconnected" ELSE heard[Len(heard)]

Init == heard = <<>>

Hear(event) == heard' = Append(heard, event)

Next ==
  \/ Last = "reconnected" /\ Hear("disconnected")
  \/ Last = "disconnected" /\ Hear("reconnected")
  \/ Last # "closed" /\ Hear("closed")

Spec == Init /\ [][Next]_heard
=============================================================================

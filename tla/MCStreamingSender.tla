------------------------- MODULE MCStreamingSender -------------------------
(***************************************************************************)
(* Instances of StreamingSender for TLC: every tracked request has a key   *)
(* of its own.                                                             *)
(***************************************************************************)
EXTENDS StreamingSender

MCKeyOf == [m \in Tracked |-> m]
=============================================================================

-------------------------- MODULE MCPublishStreams --------------------------
(***************************************************************************)
(* Instances of PublishStreams for TLC.                                    *)
(***************************************************************************)
EXTENDS PublishStreams

Unlimited == -1
=============================================================================

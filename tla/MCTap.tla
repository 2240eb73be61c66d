------------------------------- MODULE MCTap -------------------------------
(***************************************************************************)
(* Small touchpads for the tap state machine.                              *)
(***************************************************************************)
EXTENDS Tap

CONSTANT LEFT

MCButtons == {LEFT}
MCNone == {}
MCConfigure == {"configure"}
=============================================================================

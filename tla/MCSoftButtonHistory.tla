------------------------ MODULE MCSoftButtonHistory ------------------------
(***************************************************************************)
(* A small clickpad: its only button is the left one.                      *)
(***************************************************************************)
EXTENDS SoftButtonHistory

CONSTANT LEFT

MCButtons == {LEFT}
MCNone == {}

MCBothAreas == {"IN_R", "IN_L", "IN_AREA"}

(* The right button spans the width of the touchpad. *)
MCRightArea == {"IN_R", "IN_AREA"}
=============================================================================

----------------------------- MODULE MCTouches -----------------------------
(***************************************************************************)
(* Touches on a device with one slot more than the library has touches     *)
(* for, so that the events of the last slot have no touch to go to.        *)
(***************************************************************************)
EXTENDS Touches

CONSTANT LEFT

MCNumSlots == 3
MCMaxTouchpoints == 2
MCButtons == {LEFT}
MCQuirks == {"same_frame", "fingers_at_open"}
=============================================================================

--------------------------- MODULE MCFakeTouches ---------------------------
(***************************************************************************)
(* A touchpad without slots and one with two slots, both of which count up *)
(* to four fingers.                                                        *)
(***************************************************************************)
EXTENDS FakeTouches

MCDevices == {-1, 2}
MCNoSlots == {-1}
MCTools == {2, 3, 4}
MCTripleTap == {2, 3}
=============================================================================

---------------------------- MODULE MCGestures -----------------------------
(***************************************************************************)
(* A small touchpad with physical buttons.  Motions are in halves of a     *)
(* scroll unit.                                                            *)
(***************************************************************************)
EXTENDS Gestures

MCOneButton == {0}
MCTwoButtons == {0, 1}
MCNone == {}
MCHeights == {0, 1}
MCFlat == {0}

(* A whole unit or none; a whole unit. *)
MCUnits == {0, 2}
MCWholeUnits == {2}

(* Half a unit, or a whole one backwards. *)
MCFineUnits == {-2, 1}

MCVertical == {{"VERTICAL"}}
MCOff == {{}}
MCOnOff == {{}, {"VERTICAL", "HORIZONTAL"}}
=============================================================================

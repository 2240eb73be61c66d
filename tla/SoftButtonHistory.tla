-------------------------- MODULE SoftButtonHistory --------------------------
(***************************************************************************)
(* SoftButton with a history of where each finger has been, to state what  *)
(* the documentation (touchpad.h, "Button selection") says of a click in   *)
(* terms of the finger's path and not of the state machine.                *)
(***************************************************************************)
EXTENDS SoftButton

VARIABLES
    path,   \* "outside": the finger of the touch arrived outside of the button
            \* area, "right": it has only ever been in the right area, "other"
    fresh   \* the finger found its touch in NONE and has not seen a click since

HistoryInit ==
    /\ ButtonInit
    /\ path = [t \in Touch |-> "other"]
    /\ fresh = [t \in Touch |-> FALSE]

(* A frame is about to be handled. *)
FrameHandled == pc = "post_events" /\ ~handled

Clicking == queued \cap {"BUTTON_PRESS", "BUTTON_RELEASE"} # {}

(* The finger is on the touchpad; once it is gone nothing is remembered. *)
Down(t) == state[t] \in {"BEGIN", "UPDATE"}

(* What is known of the finger of t once this frame is taken into account. *)
Path(t) ==
    CASE state[t] = "BEGIN" /\ area[t] = "IN_AREA"      -> "outside"
      [] state[t] = "BEGIN" /\ area[t] = "IN_R"         -> "right"
      [] state[t] = "UPDATE" /\ path[t] = "outside"     -> "outside"
      [] state[t] = "UPDATE" /\ path[t] = "right" /\ area[t] = "IN_R" -> "right"
      [] OTHER                                          -> "other"
Fresh(t) == IF state[t] = "BEGIN" THEN button_state[t] = "NONE" ELSE fresh[t]

(* The path of a finger from outside only matters for its first click.      *)
Remember ==
    LET stays(t) == Down(t) /\ Fresh(t) /\ ~Clicking
    IN  /\ path' = [t \in Touch |-> IF Path(t) = "outside" /\ ~stays(t) THEN "other"
                                                                       ELSE Path(t)]
        /\ fresh' = [t \in Touch |-> stays(t) /\ Path(t) # "other"]

HistoryNext ==
    /\ ButtonNext
    /\ IF FrameHandled THEN Remember ELSE UNCHANGED <<path, fresh>>

HistorySpec == HistoryInit /\ [][HistoryNext]_<<allVars, path, fresh>>

Clicks(t) == FrameHandled /\ "BUTTON_PRESS" \in queued /\ Down(t)

(* A finger that started outside of the button area and moved into it does *)
(* not make its first click a right click, however long it has been there. *)
OutsideClicksLeft ==
    \A t \in Touch : Clicks(t) /\ Fresh(t) /\ Path(t) = "outside" =>
        PressEvent(t).next # "PRESSED_RIGHT"

(* A finger that arrived in the right area and has never been anywhere else *)
(* makes its first click a right click, at any time after it arrived.       *)
RightAreaClicksRight ==
    \A t \in Touch : Clicks(t) /\ Fresh(t) /\ Path(t) = "right" =>
        PressEvent(t).next = "PRESSED_RIGHT"

(* The same of every click, the second one of a double click included.      *)
EveryRightAreaClickRight ==
    \A t \in Touch : Clicks(t) /\ Path(t) = "right" =>
        PressEvent(t).next = "PRESSED_RIGHT"
=============================================================================

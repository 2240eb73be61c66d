------------------------------ MODULE Pointer ------------------------------
(***************************************************************************)
(* Which touch moves the pointer, and which one is held still because it   *)
(* presses a button: the pointer and pinned flags of touchpad-events.c and *)
(* the buttons of a touchpad with a right button (touchpad-phys-button.c). *)
(*                                                                         *)
(* Buttons are numbered as in the mask of the source (BTN_LEFT is 0).      *)
(* Heights are whole grid lines, further apart than the filter of          *)
(* touchpad-filter.c moves a touch; 0 is the top.                          *)
(***************************************************************************)
EXTENDS Touches, Sequences, Order

CONSTANT Heights        \* the heights a touch may have

ASSUME ButtonNumbers == Buttons \subseteq Nat /\ IsFiniteSet(Buttons)
ASSUME HeightsAssumption == 0 \in Heights /\ Heights \subseteq Nat

VARIABLES
    pointer,        \* the touches with t->pointer
    pinned,         \* the touches with t->pinned
    y,              \* t->y of every touch, used or not
    old_state,      \* tp->buttons.old_state, as a set
    out,            \* the button callbacks of the last step
    moved,          \* the touches whose motion the last step posted
    odd_press       \* history: a button went down with other than one finger

flagVars    == <<pointer, pinned, y>>
pointerVars == <<flagVars, old_state, out, moved, odd_press>>

PointerTypeOK ==
    /\ pointer \in SUBSET Touch
    /\ pinned \in SUBSET Touch
    /\ y \in [Touch -> Heights]
    /\ old_state \in SUBSET Buttons
    /\ out \in Seq([button : Buttons, press : BOOLEAN])
    /\ moved \in SUBSET Touch
    /\ odd_press \in BOOLEAN

PointerInit ==
    /\ pointer = {}
    /\ pinned = {}
    /\ y = [t \in Touch |-> 0]
    /\ old_state = {}
    /\ out = <<>>
    /\ moved = {}
    /\ odd_press = FALSE

----------------------------------------------------------------------------
(* The first flagged touch, as a set: touchpad_pointer_touch, _pinned_touch. *)
First(flagged) == {t \in flagged : \A other \in flagged : t <= other}

Down(t) == state[t] \in {"BEGIN", "UPDATE"}

\* Mutant: the choice is made anew in every frame.
SelectAnew == First({t \in Touch : state[t] # "NONE"})

(* touchpad_select_pointer_touch: the pointer flags a frame starts with. *)
SelectPointer == IF pointer # {} THEN pointer
                 ELSE First({t \in Touch : state[t] # "NONE"})

(* The touch nearest to the bottom, touches that are not down included. *)
Lowest == First({t \in Touch : \A other \in Touch : y[other] <= y[t]})

(* The last touch that is down and not below all touches before it. *)
NewPointer ==
    LET candidates == {t \in Touch : Down(t) /\ \E other \in 0 .. t - 1 : y[other] >= y[t]}
        chosen     == IF candidates = {} THEN 0
                      ELSE CHOOSE t \in candidates : \A other \in candidates : other <= t
    IN  {t \in {chosen} : state[t] # "NONE"}

(* touchpad_pin_finger: the flags after a press. *)
PinFinger(selected) ==
    LET pin == IF fingers_down = 1 THEN First(selected) ELSE Lowest
        new == IF fingers_down = 1 THEN {} ELSE NewPointer
    IN  IF pinned # {} THEN [pointer |-> selected, pinned |-> pinned]
        ELSE [pointer |-> (selected \cup new) \ pin, pinned |-> pin]

(* touchpad_pre_process_touches *)
Flags ==
    IF "BUTTON_PRESS" \in queued THEN PinFinger(SelectPointer)
                                 ELSE [pointer |-> SelectPointer, pinned |-> pinned]

(* The buttons whose bit in the mask differs. *)
Changed == (buttons_state \ old_state) \cup (old_state \ buttons_state)

(* touchpad_phys_button_handle_state: a callback for every bit that differs. *)
Callbacks ==
    LET Call(b) == [button |-> b, press |-> b \in buttons_state]
    IN  [i \in 1 .. Cardinality(Changed) |-> Call(Nth(Changed, i))]

\* Mutant: the state of the buttons is compared with, but not remembered.
ButtonsForgotten == old_state' = old_state /\ out' = Callbacks

PhysButtons == old_state' = buttons_state /\ out' = Callbacks

(***************************************************************************)
(* The handlers of a frame up to the scroll: SYN_REPORT before             *)
(* touchpad_post_motion_events.                                            *)
(***************************************************************************)
PointerSyn ==
    /\ pointer' = Flags.pointer
    /\ pinned' = Flags.pinned
    /\ PhysButtons
    /\ odd_press' = (odd_press \/ ("BUTTON_PRESS" \in queued /\ fingers_down # 1))
    /\ UNCHANGED y

(* touchpad_post_motion_events; Still are touches that did not move. *)
PostMotion(Still) ==
    moved' = IF "MOTION" \in queued THEN First(pointer') \ Still ELSE {}

Quiet == out' = <<>> /\ moved' = {}

\* Mutant: the pinned finger is let go only when it is the only one.
ReleaseOnlyLast(down) ==
    LET unpinned == IF "BUTTON_RELEASE" \in queued /\ fingers_down = 1
                    THEN First(pinned \cap down) ELSE {}
    IN  /\ pinned' = (pinned \cap down) \ unpinned
        /\ pointer' = IF fingers_down = 1 THEN (pointer \cap down) \cup unpinned
                                          ELSE pointer \cap down

\* Mutant: the finger that is let go always takes the pointer.
ReleaseAlwaysToPointer(down) ==
    LET unpinned == IF "BUTTON_RELEASE" \in queued THEN First(pinned \cap down) ELSE {}
    IN  /\ pinned' = (pinned \cap down) \ unpinned
        /\ pointer' = (pointer \cap down) \cup unpinned

(* Touches that ended lose their flags, then touchpad_unpin_finger.        *)
(* "down": the touches whose flags are kept.                               *)
ReleaseFlags(down) ==
    LET unpinned == IF "BUTTON_RELEASE" \in queued THEN First(pinned \cap down) ELSE {}
    IN  /\ pinned' = (pinned \cap down) \ unpinned
        /\ pointer' = IF fingers_down = 1 THEN (pointer \cap down) \cup unpinned
                                          ELSE pointer \cap down

(* The rest of touchpad_post_process_touches. *)
PointerPost ==
    /\ ReleaseFlags({t \in Touch : state[t] # "END"})
    /\ Quiet
    /\ UNCHANGED <<y, old_state, odd_press>>

(* touchpad_reset: coordinates are zeroed, the flags are not. *)
PointerReset ==
    /\ y' = [t \in Touch |-> 0]
    /\ Quiet
    /\ UNCHANGED <<pointer, pinned, old_state, odd_press>>

(* ABS_MT_POSITION_Y of the current touch; ABS_MT_POSITION_X leaves y. *)
PointerPosition ==
    /\ \/ UNCHANGED y
       \/ \E h \in Heights : slot \in Touch /\ y' = [y EXCEPT ![slot] = h]
    /\ Quiet
    /\ UNCHANGED <<pointer, pinned, old_state, odd_press>>

(* Every other step. *)
PointerIdle == Quiet /\ UNCHANGED <<flagVars, old_state, odd_press>>
=============================================================================

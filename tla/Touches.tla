------------------------------ MODULE Touches ------------------------------
(***************************************************************************)
(* How libtouchpad assembles kernel events into touches                    *)
(* (touchpad-events.c, with the reset of touchpad.c).                      *)
(*                                                                         *)
(* The kernel side is a protocol-B multitouch device: it selects a slot    *)
(* (ABS_MT_SLOT), reports positions and tracking ids for the selected      *)
(* slot, and closes every frame with SYN_REPORT.  Only values that change  *)
(* are reported.  The library keeps one touch per slot and the flags of    *)
(* the frame being assembled; SYN_REPORT runs the handlers of the other    *)
(* modules (pc = "post_events") and then closes the frame.                 *)
(*                                                                         *)
(* Coordinates are abstracted away here: a position event only marks the   *)
(* touch dirty.                                                            *)
(***************************************************************************)
EXTENDS Integers, FiniteSets

CONSTANTS
    NumSlots,           \* libevdev_get_num_slots: the kernel's slots
    MAX_TOUCHPOINTS,    \* touches the library has room for (10 in the source)
    Buttons,            \* physical buttons of the device
    Quirks,             \* what else the environment may do, see QuirkKinds
    MaxFdChanges        \* bound: how often the caller changes the fd

(***************************************************************************)
(* "fingers_at_open": the device may be touched or clicked when opened.    *)
(* "same_frame": a slot or a button may change more than once in a frame.  *)
(* Without it the driver reports every slot and button once per scan.      *)
(* "configure": the caller may call touchpad_config_set while in use.      *)
(***************************************************************************)
QuirkKinds == {"fingers_at_open", "same_frame", "configure"}

ASSUME SlotsAssumption == NumSlots \in Nat \ {0} /\ MAX_TOUCHPOINTS \in Nat \ {0}
ASSUME QuirksAssumption == Quirks \subseteq QuirkKinds
ASSUME FdChangesAssumption == MaxFdChanges \in Nat

Slots == 0 .. NumSlots - 1

(* tp->ntouches; the touches are the slots the library tracks. *)
ntouches == IF NumSlots < MAX_TOUCHPOINTS THEN NumSlots ELSE MAX_TOUCHPOINTS
Touch == 0 .. ntouches - 1

TouchStates == {"NONE", "BEGIN", "UPDATE", "END"}
EventTypes  == {"MOTION", "BUTTON_PRESS", "BUTTON_RELEASE"}

VARIABLES
    contact,        \* kernel: slots that have a tracking id
    unseen,         \* kernel: slots with a finger the library was never told about
    pressed,        \* kernel: buttons that are down
    reported,       \* kernel: slots whose tracking id changed in this frame
    clicked,        \* kernel: buttons that changed in this frame
    slot,           \* tp->slot
    state,          \* t->state of every touch
    dirty,          \* t->dirty of every touch
    fingers_down,   \* tp->fingers_down
    queued,         \* tp->queued, as a set of flags
    buttons_state,  \* tp->buttons.state, as a set of buttons
    fd_changes,     \* how often the caller has changed the fd
    pc              \* where the library is: "poll", "read", "post_events"

kernelVars == <<contact, unseen, pressed, reported, clicked>>
touchVars  == <<state, dirty, fingers_down, queued>>
vars       == <<kernelVars, touchVars, slot, buttons_state, fd_changes, pc>>

TypeOK ==
    /\ contact \in SUBSET Slots
    /\ unseen \in SUBSET Slots
    /\ pressed \in SUBSET Buttons
    /\ reported \in SUBSET Slots
    /\ clicked \in SUBSET Buttons
    /\ slot \in Slots
    /\ state \in [Touch -> TouchStates]
    /\ dirty \in [Touch -> BOOLEAN]
    /\ fingers_down \in Nat
    /\ queued \in SUBSET EventTypes
    /\ buttons_state \in SUBSET Buttons
    /\ fd_changes \in 0 .. MaxFdChanges
    /\ pc \in {"poll", "read", "post_events"}

(***************************************************************************)
(* touchpad_new_from_fd: fingers that already rest on the device when it   *)
(* is opened have a tracking id the library is never told about, and so     *)
(* have buttons that are held.                                             *)
(***************************************************************************)
Init ==
    /\ contact \in SUBSET Slots
    /\ pressed \in SUBSET Buttons
    /\ "fingers_at_open" \in Quirks \/ (contact = {} /\ pressed = {})
    /\ unseen = contact
    /\ reported = {}
    /\ clicked = {}
    /\ slot \in Slots
    /\ state = [t \in Touch |-> "NONE"]
    /\ dirty = [t \in Touch |-> FALSE]
    /\ fingers_down = 0
    /\ queued = {}
    /\ buttons_state = {}
    /\ fd_changes = 0
    /\ pc = "poll"

----------------------------------------------------------------------------
(* Helpers of the source *)

\* Mutant: a touch that ended earlier in the frame is not counted again.
BeginTouchUncounted(t) ==
    /\ fingers_down' = IF state[t] = "NONE" THEN fingers_down + 1 ELSE fingers_down
    /\ state'  = [state EXCEPT ![t] = IF @ = "UPDATE" THEN @ ELSE "BEGIN"]
    /\ dirty'  = [dirty EXCEPT ![t] = TRUE]
    /\ queued' = queued \cup {"MOTION"}

\* Mutant: a touch that ended earlier in the frame stays ended.
BeginTouchStaysEnded(t) ==
    /\ fingers_down' = IF state[t] \in {"NONE", "END"} THEN fingers_down + 1
                                                       ELSE fingers_down
    /\ state'  = [state EXCEPT ![t] = IF @ \in {"UPDATE", "END"} THEN @ ELSE "BEGIN"]
    /\ dirty'  = [dirty EXCEPT ![t] = TRUE]
    /\ queued' = queued \cup {"MOTION"}

BeginTouch(t) ==
    /\ fingers_down' = IF state[t] \in {"NONE", "END"} THEN fingers_down + 1
                                                       ELSE fingers_down
    /\ state'  = [state EXCEPT ![t] = IF @ = "UPDATE" THEN @ ELSE "BEGIN"]
    /\ dirty'  = [dirty EXCEPT ![t] = TRUE]
    /\ queued' = queued \cup {"MOTION"}

\* Mutant: a finger the library was never told about is counted when it leaves.
EndTouchUnknown(t) ==
    /\ state' = [state EXCEPT ![t] = IF @ = "NONE" THEN @ ELSE "END"]
    /\ fingers_down' = fingers_down - 1
    /\ dirty' = [dirty EXCEPT ![t] = TRUE]
    /\ queued' = queued \cup {"MOTION"}

\* Mutant: the end of a touch is not queued for the handlers.
EndTouchUnqueued(t) ==
    \/ /\ state[t] = "NONE"
       /\ UNCHANGED touchVars
    \/ /\ state[t] # "NONE"
       /\ state' = [state EXCEPT ![t] = "END"]
       /\ fingers_down' = fingers_down - 1
       /\ dirty' = [dirty EXCEPT ![t] = TRUE]
       /\ UNCHANGED queued

EndTouch(t) ==
    \/ /\ state[t] = "NONE"
       /\ UNCHANGED touchVars
    \/ /\ state[t] # "NONE"
       /\ state' = [state EXCEPT ![t] = "END"]
       /\ fingers_down' = fingers_down - 1
       /\ dirty' = [dirty EXCEPT ![t] = TRUE]
       /\ queued' = queued \cup {"MOTION"}

(* touchpad_current_touch returns NULL: the slot has no touch. *)
NoTouch == slot \notin Touch

(* The kernel may report this slot, this button, in this frame. *)
MayReport(s) == "same_frame" \in Quirks \/ s \notin reported
MayClick(b)  == "same_frame" \in Quirks \/ b \notin clicked

----------------------------------------------------------------------------
(* touchpad_handle_event: one action per kernel event *)

AbsMtSlot(s) ==
    /\ pc = "read"
    /\ s # slot
    /\ slot' = s
    /\ UNCHANGED <<kernelVars, touchVars, buttons_state, fd_changes, pc>>

(* ABS_MT_POSITION_X or ABS_MT_POSITION_Y for the current slot. *)
AbsMtPosition ==
    /\ pc = "read"
    /\ slot \in contact
    /\ IF NoTouch THEN UNCHANGED <<dirty, queued>>
       ELSE /\ dirty' = [dirty EXCEPT ![slot] = TRUE]
            /\ queued' = queued \cup {"MOTION"}
    /\ UNCHANGED <<kernelVars, state, fingers_down, slot, buttons_state, fd_changes, pc>>

(* A new tracking id: a finger arrives, or replaces the one in the slot. *)
AbsMtTrackingIdBegin ==
    /\ pc = "read"
    /\ MayReport(slot)
    /\ contact' = contact \cup {slot}
    /\ unseen' = unseen \ {slot}
    /\ reported' = reported \cup {slot}
    /\ IF NoTouch THEN UNCHANGED touchVars ELSE BeginTouch(slot)
    /\ UNCHANGED <<pressed, clicked, slot, buttons_state, fd_changes, pc>>

(* Tracking id -1: the finger of the current slot leaves. *)
AbsMtTrackingIdEnd ==
    /\ pc = "read"
    /\ MayReport(slot)
    /\ slot \in contact
    /\ contact' = contact \ {slot}
    /\ unseen' = unseen \ {slot}
    /\ reported' = reported \cup {slot}
    /\ IF NoTouch THEN UNCHANGED touchVars ELSE EndTouch(slot)
    /\ UNCHANGED <<pressed, clicked, slot, buttons_state, fd_changes, pc>>

(* touchpad_update_button_state, for BTN_LEFT .. BTN_TASK. *)
ButtonPress(b) ==
    /\ pc = "read"
    /\ MayClick(b)
    /\ b \notin pressed
    /\ pressed' = pressed \cup {b}
    /\ clicked' = clicked \cup {b}
    /\ buttons_state' = buttons_state \cup {b}
    /\ queued' = queued \cup {"BUTTON_PRESS"}
    /\ UNCHANGED <<contact, unseen, reported, slot, state, dirty, fingers_down, fd_changes, pc>>

ButtonRelease(b) ==
    /\ pc = "read"
    /\ MayClick(b)
    /\ b \in pressed
    /\ pressed' = pressed \ {b}
    /\ clicked' = clicked \cup {b}
    /\ buttons_state' = buttons_state \ {b}
    /\ queued' = queued \cup {"BUTTON_RELEASE"}
    /\ UNCHANGED <<contact, unseen, reported, slot, state, dirty, fingers_down, fd_changes, pc>>

(* SYN_REPORT with nothing queued: the frame is dropped. *)
SynIgnored ==
    /\ pc = "read"
    /\ queued = {}
    /\ reported' = {}
    /\ clicked' = {}
    /\ UNCHANGED <<contact, unseen, pressed, touchVars, slot, buttons_state, fd_changes,
                   pc>>

(* SYN_REPORT that runs the handlers. *)
SynReport ==
    /\ pc = "read"
    /\ queued # {}
    /\ reported' = {}
    /\ clicked' = {}
    /\ pc' = "post_events"
    /\ UNCHANGED <<contact, unseen, pressed, touchVars, slot, buttons_state, fd_changes>>

\* Mutant: a new touch is not promoted when its first frame closes.
PostProcessKeepsBegin ==
    /\ pc = "post_events"
    /\ state' = [t \in Touch |-> IF state[t] = "END" THEN "NONE" ELSE state[t]]
    /\ dirty' = [t \in Touch |-> state[t] = "NONE" /\ dirty[t]]
    /\ queued' = {}
    /\ pc' = "read"
    /\ UNCHANGED <<kernelVars, fingers_down, slot, buttons_state, fd_changes>>

(* touchpad_post_process_touches with touchpad_touch_reset: close the frame. *)
PostProcess ==
    /\ pc = "post_events"
    /\ state' = [t \in Touch |-> CASE state[t] = "END"   -> "NONE"
                                   [] state[t] = "BEGIN" -> "UPDATE"
                                   [] OTHER              -> state[t]]
    /\ dirty' = [t \in Touch |-> state[t] = "NONE" /\ dirty[t]]
    /\ queued' = {}
    /\ pc' = "read"
    /\ UNCHANGED <<kernelVars, fingers_down, slot, buttons_state, fd_changes>>

----------------------------------------------------------------------------
(* touchpad_handle_events: the host's call and its return on -EAGAIN *)

HandleEvents ==
    /\ pc = "poll"
    /\ pc' = "read"
    /\ UNCHANGED <<kernelVars, touchVars, slot, buttons_state, fd_changes>>

(* The kernel makes whole frames readable: the queue is empty between them. *)
Again ==
    /\ pc = "read"
    /\ queued = {} /\ reported = {} /\ clicked = {}
    /\ pc' = "poll"
    /\ UNCHANGED <<kernelVars, touchVars, slot, buttons_state, fd_changes>>

(* touchpad_change_fd with touchpad_reset; the fingers on the device and    *)
(* the buttons may have changed while the fd was closed.                    *)
ChangeFd ==
    /\ fd_changes < MaxFdChanges
    /\ pc = "poll"
    /\ contact' \in SUBSET Slots
    /\ unseen' = contact'
    /\ pressed' \in SUBSET Buttons
    /\ state' = [t \in Touch |-> "NONE"]
    /\ fd_changes' = fd_changes + 1
    /\ UNCHANGED <<reported, clicked, slot, dirty, fingers_down, queued,
                   buttons_state, pc>>

Next ==
    \/ \E s \in Slots : AbsMtSlot(s)
    \/ AbsMtPosition
    \/ AbsMtTrackingIdBegin
    \/ AbsMtTrackingIdEnd
    \/ \E b \in Buttons : ButtonPress(b) \/ ButtonRelease(b)
    \/ SynIgnored
    \/ SynReport
    \/ PostProcess
    \/ HandleEvents
    \/ Again
    \/ ChangeFd

Spec == Init /\ [][Next]_vars

----------------------------------------------------------------------------
(* Properties *)

(* The touches that count as fingers. *)
Live == {t \in Touch : state[t] \in {"BEGIN", "UPDATE"}}

(* tp->fingers_down, adjusted one event at a time, always equals the        *)
(* number of touches that are down: no order of begins and ends within or   *)
(* across frames makes the counter drift (the asserts of begin_touch and    *)
(* end_touch only see it go negative).  touchpad_reset forgets the touches  *)
(* and not the counter, so it may be too high once the fd has changed.      *)
FingersDownCount ==
    /\ fd_changes = 0 => fingers_down = Cardinality(Live)
    /\ fingers_down >= Cardinality(Live)

(* The library and the kernel agree on which tracked slots have a finger,   *)
(* whatever is still queued: no begin or end is lost, or attributed to      *)
(* another slot.  Fingers that were down when the fd was opened are the     *)
(* only ones the library does not know.                                     *)
KernelAgreement == Live = (contact \ unseen) \cap Touch

(* The early return of SYN_REPORT on an empty queue never skips a touch     *)
(* that begins or ends, and the handlers never skip it for being clean.     *)
ChangesAreQueued ==
    \A t \in Touch : state[t] \in {"BEGIN", "END"} => dirty[t] /\ "MOTION" \in queued

(* Between frames (the host may only configure or close the device there)   *)
(* every touch is settled: no begin or end is left half processed.          *)
SettledWhenIdle ==
    pc = "poll" => /\ \A t \in Touch : state[t] \in {"NONE", "UPDATE"}
                   /\ queued = {}
=============================================================================

---------------------------- MODULE FakeTouches ----------------------------
(***************************************************************************)
(* Fake touches (touchpad-events.c): a device tells how many fingers it    *)
(* sees with BTN_TOOL_DOUBLETAP, TRIPLETAP and QUADTAP, and the library    *)
(* invents the touches that the device has no slot for.  On a device       *)
(* without slots every touch is invented, the first one by BTN_TOUCH.      *)
(*                                                                         *)
(* The kernel reports one scan of the device per frame, only what has      *)
(* changed, in the order of its drivers: the slots, BTN_TOUCH, the         *)
(* position, and the tools by ascending finger count.                      *)
(***************************************************************************)
EXTENDS Integers, Sequences, FiniteSets, FiniteSetsExt, Order

CONSTANTS
    Devices,        \* values of libevdev_get_num_slots: -1 without slots
    Tools,          \* finger counts the device has a BTN_TOOL_*TAP code for
    MaxFdChanges    \* bound: how often the caller changes the fd

ASSUME DevicesAssumption == Devices \subseteq {-1} \cup (Nat \ {0}) /\ Devices # {}
ASSUME ToolsAssumption == Tools \subseteq 2 .. 4 /\ Tools # {}
ASSUME FdChangesAssumption == MaxFdChanges \in Nat

MaxFingers == Max(Tools)

VARIABLES
    maxtouches,     \* tp->maxtouches, fixed when the device is opened
    slot,           \* tp->slot, without slots
    fingers,        \* kernel: fingers on the device at the last scan
    contact,        \* kernel: slots that have a tracking id
    frame,          \* kernel: the events of this frame still to be read
    tp,             \* the touches' state and fake, fingers_down, queued or not
    history,        \* t->history.valid # 0 of every touch
    fd_changes,     \* how often the caller has changed the fd
    one_by_one,     \* the fingers on the device have arrived one per scan
    pc              \* "poll", "read", or "crashed" at a NULL dereference

kernelVars == <<fingers, contact, one_by_one>>
vars == <<maxtouches, slot, kernelVars, frame, tp, history, fd_changes, pc>>

(* touchpad_new_from_fd: room for the slots and for every tool. *)
ntouches == Max(Tools \cup {maxtouches, 1})
Touch == 0 .. ntouches - 1
Slots == 0 .. maxtouches - 1

NoSlots == maxtouches = -1

TypeOK ==
    /\ maxtouches \in Devices
    /\ slot \in {-1, 0}
    /\ fingers \in 0 .. MaxFingers
    /\ contact \in SUBSET Slots
    /\ tp \in [state  : [Touch -> {"NONE", "BEGIN", "UPDATE", "END"}],
               fake   : [Touch -> BOOLEAN],
               fingers_down : Nat,
               queued : BOOLEAN]
    /\ history \in [Touch -> BOOLEAN]
    /\ fd_changes \in 0 .. MaxFdChanges
    /\ one_by_one \in BOOLEAN
    /\ pc \in {"poll", "read", "crashed"}

Init ==
    /\ maxtouches \in Devices
    /\ slot = 0
    /\ fingers = 0 /\ contact = {} /\ one_by_one = TRUE
    /\ frame = <<>>
    /\ tp = [state |-> [t \in Touch |-> "NONE"], fake |-> [t \in Touch |-> FALSE],
             fingers_down |-> 0, queued |-> FALSE]
    /\ history = [t \in Touch |-> FALSE]
    /\ fd_changes = 0
    /\ pc = "poll"

----------------------------------------------------------------------------
(* Helpers of the source, from one tp to the next *)

(* touchpad_begin_touch *)
Begin(r, t, is_fake) ==
    [r EXCEPT !.state[t] = IF @ = "UPDATE" THEN @ ELSE "BEGIN",
              !.fake[t] = is_fake,
              !.fingers_down = IF r.state[t] \in {"NONE", "END"} THEN @ + 1 ELSE @,
              !.queued = TRUE]

\* Mutant: the end of a touch that has none is counted.
EndUnchecked(r, t) ==
    [r EXCEPT !.state[t] = "END", !.fingers_down = @ - 1, !.queued = TRUE]

(* touchpad_end_touch *)
End(r, t) ==
    IF r.state[t] = "NONE" THEN r
    ELSE [r EXCEPT !.state[t] = "END", !.fingers_down = @ - 1, !.queued = TRUE]

\* Mutant: the touches that another tool ended in this frame stay ended.
BeginFakeLastOnly(r, tapcount) ==
    IF maxtouches >= tapcount THEN r ELSE Begin(r, tapcount - 1, TRUE)

\* Mutant: a touch that goes on is not counted again.
BeginFakeUncounted(r, tapcount) ==
    IF maxtouches >= tapcount THEN r
    ELSE LET Ended == {t \in 0 .. tapcount - 1 : r.state[t] = "END"}
         IN  Begin([r EXCEPT !.state = [t \in Touch |-> IF t \in Ended THEN "UPDATE" ELSE @[t]],
                             !.fake  = [t \in Touch |-> t \in Ended \/ @[t]]],
                   tapcount - 1, TRUE)

(* touchpad_begin_fake_touches: those that another tool ended in this frame *)
(* go on, and the last one begins.                                         *)
BeginFakeTouches(r, tapcount) ==
    IF maxtouches >= tapcount THEN r
    ELSE LET Ended == {t \in 0 .. tapcount - 1 : r.state[t] = "END"}
         IN  Begin([r EXCEPT !.state = [t \in Touch |-> IF t \in Ended THEN "UPDATE" ELSE @[t]],
                             !.fake  = [t \in Touch |-> t \in Ended \/ @[t]],
                             !.fingers_down = @ + Cardinality(Ended)],
                   tapcount - 1, TRUE)

(* The touches S end. *)
EndAll(r, S) ==
    [r EXCEPT !.state = [t \in Touch |-> IF t \in S THEN "END" ELSE @[t]],
              !.fingers_down = @ - Cardinality(S),
              !.queued = @ \/ S # {}]

\* Mutant: only the last touch of the tool is ended.
EndFakeLastOnly(r, tapcount) ==
    IF maxtouches >= tapcount THEN r
    ELSE EndAll(r, {t \in {tapcount - 1} : r.fake[t] /\ r.state[t] \in {"UPDATE", "BEGIN"}})

\* Mutant: the touches of the slots are ended with the fake ones.
EndFakeAndReal(r, tapcount) ==
    IF maxtouches >= tapcount THEN r
    ELSE EndAll(r, {t \in 0 .. tapcount - 1 : r.state[t] \in {"UPDATE", "BEGIN"}})

(* touchpad_end_fake_touches *)
EndFakeTouches(r, tapcount) ==
    IF maxtouches >= tapcount THEN r
    ELSE EndAll(r, {t \in 0 .. tapcount - 1 : r.fake[t] /\ r.state[t] \in {"UPDATE", "BEGIN"}})

----------------------------------------------------------------------------
(* The kernel's side of a frame *)

Event(code, arg, value) == [code |-> code, arg |-> arg, value |-> value]

(* The finger now in the slot, or -1: "new" slots have another one. *)
SlotEvents(now, new) ==
    LET Changed == (contact \ now) \cup (now \ contact) \cup new
    IN  [i \in 1 .. Cardinality(Changed) |->
            Event("ABS_MT_TRACKING_ID", Nth(Changed, i), Nth(Changed, i) \in now)]

TouchEvents(n) ==
    IF (n > 0) # (fingers > 0) THEN <<Event("BTN_TOUCH", 0, n > 0)>> ELSE <<>>

PositionEvents(n) == IF n > 0 THEN <<Event("POSITION", 0, TRUE)>> ELSE <<>>

ToolEvents(n) ==
    LET Changed == {c \in Tools : (n = c) # (fingers = c)}
    IN  [i \in 1 .. Cardinality(Changed) |->
            Event("BTN_TOOL", Nth(Changed, i), n = Nth(Changed, i))]

(* A scan sees n fingers. *)
Scan(n) ==
    /\ pc = "poll" /\ frame = <<>>
    /\ \E now \in SUBSET Slots : \E new \in SUBSET (contact \cap now) :
          /\ Cardinality(now) = Min({n, Cardinality(Slots)})
          /\ contact' = now
          /\ frame' = SlotEvents(now, new) \o TouchEvents(n) \o PositionEvents(n) \o ToolEvents(n)
    /\ fingers' = n
    /\ one_by_one' = (n = 0 \/ (one_by_one /\ n \in fingers .. fingers + 1))
    /\ pc' = "read"
    /\ UNCHANGED <<maxtouches, slot, tp, history, fd_changes>>

----------------------------------------------------------------------------
(***************************************************************************)
(* SYN_DROPPED: scans were lost, and libevdev makes up the events that lead *)
(* to what the device has now: the keys by their codes, of which the first *)
(* is BTN_TOOL_FINGER, then the position, then the slots.  Whenever the    *)
(* number of fingers has changed a key has; if it has not, the finger that *)
(* is new in a slot is somewhere else than the one before.                 *)
(***************************************************************************)
FingerEvents(n) ==
    IF (n = 1) # (fingers = 1) THEN <<Event("BTN_TOOL_FINGER", 0, n = 1)>> ELSE <<>>

SyncEvents(n, now, new) ==
    FingerEvents(n) \o TouchEvents(n) \o ToolEvents(n) \o PositionEvents(n)
        \o SlotEvents(now, new)

\* Mutant: the events of the slots are lost with the frame that was dropped.
SyncedKeysOnly(events) ==
    SelectSeq(events, LAMBDA e : e.code \notin {"ABS_MT_TRACKING_ID", "BTN_TOOL_FINGER"})

(* touchpad_sync_device closes the frame before, which is empty, drops the  *)
(* first event and handles the others.  (It handles the last one, a         *)
(* SYN_REPORT, twice: there is nothing queued the second time.)             *)
Synced(events) == IF events = <<>> THEN <<>> ELSE Tail(events)

SyncDevice(n) ==
    /\ pc = "poll" /\ frame = <<>>
    /\ \E now \in SUBSET Slots : \E new \in SUBSET (contact \cap now) :
          /\ Cardinality(now) = Min({n, Cardinality(Slots)})
          /\ contact' = now
          /\ frame' = Synced(SyncEvents(n, now, new))
    /\ fingers' = n
    /\ one_by_one' = (n = 0)
    /\ pc' = "read"
    /\ UNCHANGED <<maxtouches, slot, tp, history, fd_changes>>

----------------------------------------------------------------------------
(* touchpad_handle_event: one action per event code *)

Reading(code) == pc = "read" /\ frame # <<>> /\ Head(frame).code = code
Arg   == Head(frame).arg
Value == Head(frame).value

(* touchpad_current_touch is NULL. *)
NoCurrentTouch == NoSlots /\ slot = -1

(* The event has been handled and leaves r. *)
Handle(r) ==
    /\ frame' = Tail(frame)
    /\ tp' = r
    /\ UNCHANGED <<maxtouches, slot, kernelVars, history, fd_changes, pc>>

Crash ==
    /\ pc' = "crashed"
    /\ UNCHANGED <<maxtouches, slot, kernelVars, frame, tp, history, fd_changes>>

(* touchpad_mt_update_abs_state, on the slot selected before. *)
AbsMtTrackingId ==
    /\ Reading("ABS_MT_TRACKING_ID")
    /\ Handle(IF Value THEN Begin(tp, Arg, FALSE) ELSE End(tp, Arg))

(* BTN_TOUCH is only for devices without slots. *)
BtnTouch ==
    /\ Reading("BTN_TOUCH")
    /\ IF NoCurrentTouch THEN Crash
       ELSE Handle(IF ~NoSlots THEN tp
                   ELSE IF Value THEN Begin(tp, slot, TRUE) ELSE End(tp, slot))

(* A position: touchpad_st_update_abs_state without slots. *)
AbsPosition ==
    /\ Reading("POSITION")
    /\ IF NoCurrentTouch THEN Crash
       ELSE Handle([tp EXCEPT !.queued = TRUE])

BtnTool ==
    /\ Reading("BTN_TOOL")
    /\ Handle(IF Value THEN BeginFakeTouches(tp, Arg) ELSE EndFakeTouches(tp, Arg))

(* touchpad_motion_dejitter finds a point in the history of the touch, once *)
(* pre-processing has pushed the positions of new touches.                 *)
HasPoint(t) == tp.state[t] = "BEGIN" \/ history[t]

(* touchpad_post_process_touches *)
PostProcess ==
    [tp EXCEPT !.state = [t \in Touch |-> CASE @[t] = "END"   -> "NONE"
                                            [] @[t] = "BEGIN" -> "UPDATE"
                                            [] OTHER          -> @[t]],
               !.fake  = [t \in Touch |-> @[t] /\ tp.state[t] # "END"],
               !.queued = FALSE]

SynReport ==
    /\ pc = "read" /\ frame = <<>> /\ tp.queued
    /\ IF \E t \in Touch : tp.state[t] # "NONE" /\ ~HasPoint(t) THEN Crash
       ELSE /\ tp' = PostProcess
            /\ history' = [t \in Touch |-> tp.state[t] \in {"BEGIN", "UPDATE"}
                                              \/ (tp.state[t] = "NONE" /\ history[t])]
            /\ pc' = "poll"
            /\ UNCHANGED <<maxtouches, slot, kernelVars, frame, fd_changes>>

SynIgnored ==
    /\ pc = "read" /\ frame = <<>> /\ ~tp.queued
    /\ pc' = "poll"
    /\ UNCHANGED <<maxtouches, slot, kernelVars, frame, tp, history, fd_changes>>

(* touchpad_change_fd with touchpad_reset: libevdev has no current slot on  *)
(* a device without slots.  The fingers may have changed meanwhile.        *)
ChangeFd ==
    /\ pc = "poll" /\ frame = <<>>
    /\ fd_changes < MaxFdChanges
    /\ fd_changes' = fd_changes + 1
    /\ slot' = IF NoSlots THEN -1 ELSE slot
    /\ fingers' \in 0 .. MaxFingers
    /\ contact' \in {now \in SUBSET Slots : Cardinality(now) = Min({fingers', Cardinality(Slots)})}
    /\ one_by_one' = FALSE
    /\ tp' = [tp EXCEPT !.state = [t \in Touch |-> "NONE"]]
    /\ history' = [t \in Touch |-> FALSE]
    /\ UNCHANGED <<maxtouches, frame, pc>>

Next ==
    \/ \E n \in 0 .. MaxFingers : Scan(n) \/ SyncDevice(n)
    \/ AbsMtTrackingId
    \/ BtnTouch
    \/ AbsPosition
    \/ BtnTool
    \/ SynReport
    \/ SynIgnored
    \/ ChangeFd

Spec == Init /\ [][Next]_vars

----------------------------------------------------------------------------
(* Properties *)

Live == {t \in Touch : tp.state[t] \in {"BEGIN", "UPDATE"}}
Settled == pc = "poll" /\ frame = <<>>

(* Whatever tools come and go in one frame, fingers_down is the number of   *)
(* touches that are down: the corrections for touches that end and begin    *)
(* again within a frame add up.                                             *)
FingersDownCount == fd_changes = 0 => tp.fingers_down = Cardinality(Live)

(* The library never invents a finger: between frames there are at most as  *)
(* many touches as fingers, so none is left when the last finger leaves.    *)
NoGhostTouch == Settled /\ fd_changes = 0 => Cardinality(Live) <= fingers

(* As long as fingers arrive one per scan, there are as many touches as     *)
(* fingers: DOUBLETAP's touches survive the switch to TRIPLETAP.            *)
ArrivalsCounted ==
    Settled /\ one_by_one /\ fd_changes = 0 => Cardinality(Live) = fingers

(* The touches of a device's own slots follow the slots, however many       *)
(* fingers it announces beyond them.                                        *)
SlotsAgree == Settled /\ fd_changes = 0 => \A s \in Slots : s \in Live <=> s \in contact

(* argcheck_ptr_not_null(old) of touchpad_hysteresis_filter_motion: a touch *)
(* of the frame has a position in its history.                              *)
HistoryNotMissing ==
    pc = "read" /\ frame = <<>> /\ tp.queued =>
        \A t \in Touch : tp.state[t] # "NONE" => HasPoint(t)
=============================================================================

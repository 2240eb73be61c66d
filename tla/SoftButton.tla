----------------------------- MODULE SoftButton -----------------------------
(***************************************************************************)
(* Software buttons of a clickpad (touchpad-button.c): every touch has a   *)
(* button state driven by the area it is in, by the one physical button    *)
(* and by its enter and leave timers; a click is posted as the right       *)
(* button if any touch is in the right-pressed state.                      *)
(*                                                                         *)
(* A position is abstracted to the area it falls into.  The touches do not *)
(* influence each other inside button_handle_state, so the loop over them  *)
(* is one step.                                                            *)
(***************************************************************************)
EXTENDS Touches, Timers, Sequences, FiniteSetsExt

CONSTANTS
    Areas,          \* the areas the configuration divides the touchpad into
    EnterTimeout,   \* tp->buttons.config.enter_timeout
    LeaveTimeout,   \* tp->buttons.config.leave_timeout
    MaxUnderflow    \* bound: how far fingers_down may drop below zero

ASSUME AreasAssumption == Areas # {} /\ Areas \subseteq {"IN_R", "IN_L", "IN_AREA"}
ASSUME ButtonTimeoutAssumption == EnterTimeout \in Nat /\ LeaveTimeout \in Nat
ASSUME UnderflowAssumption == MaxUnderflow \in Nat

ButtonStates == {"NONE", "AREA", "LEFT", "LEFT_NEW", "RIGHT", "RIGHT_NEW",
                 "LEFT_TO_AREA", "RIGHT_TO_AREA", "LEFT_TO_RIGHT", "RIGHT_TO_LEFT",
                 "PRESSED_RIGHT", "PRESSED_LEFT"}

(* The value of t->state once a button state has been assigned to it. *)
Corrupt == "BUTTON_STATE"

VARIABLES
    area,               \* where t->x and t->y of every touch are
    button_state,       \* t->button_state of every touch
    button_timeout,     \* t->button_timeout of every touch, 0 if none
    active_softbutton,  \* tp->buttons.active_softbutton
    handled,            \* the handlers of this frame have run
    out                 \* the button callbacks of the last step

buttonVars == <<area, button_state, button_timeout, active_softbutton, handled, out>>
allVars    == <<vars, timerVars, buttonVars>>

ButtonTypeOK ==
    /\ TimersTypeOK
    /\ state \in [Touch -> TouchStates \cup {Corrupt}]
    /\ area \in [Touch -> Areas]
    /\ button_state \in [Touch -> ButtonStates]
    /\ button_timeout \in [Touch -> Nat]
    /\ active_softbutton \in {"BTN_LEFT", "BTN_RIGHT", "UNSET"}
    /\ handled \in BOOLEAN
    /\ out \in Seq([button : {"BTN_LEFT", "BTN_RIGHT", "UNSET"}, press : BOOLEAN])
    /\ fd_changes = 0 => \A i \in DOMAIN out : out[i].button # "UNSET"

ButtonInit ==
    /\ Init
    /\ TimersInit
    /\ \E a \in Areas : area = [t \in Touch |-> a]
    /\ button_state = [t \in Touch |-> "NONE"]
    /\ button_timeout = [t \in Touch |-> 0]
    /\ active_softbutton = "UNSET"
    /\ handled = FALSE
    /\ out = <<>>

----------------------------------------------------------------------------
(***************************************************************************)
(* What a handler does to its touch: the next button state, what becomes   *)
(* of the timer ("enter" and "leave" set it), and whether t->state is      *)
(* overwritten.                                                            *)
(***************************************************************************)
Go(next, timer)     == [next |-> next, timer |-> timer, corrupts |-> FALSE]
Spoil(stay, timer)  == [next |-> stay, timer |-> timer, corrupts |-> TRUE]

(* PRESS, RELEASE and TIMEOUT are asserted not to happen here. *)
ButtonNone(ev) ==
    CASE ev = "IN_R"    -> Go("RIGHT_NEW", "enter")
      [] ev = "IN_L"    -> Go("LEFT_NEW", "enter")
      [] ev = "IN_AREA" -> Go("AREA", "keep")
      [] OTHER          -> Go("NONE", "keep")

\* Mutant: a finger that moves into the right area is taken for a new one.
ButtonAreaFollows(ev) ==
    CASE ev = "IN_R"  -> Go("RIGHT_NEW", "enter")
      [] ev = "UP"    -> Go("NONE", "clear")
      [] ev = "PRESS" -> Go("PRESSED_LEFT", "clear")
      [] OTHER        -> Go("AREA", "clear")

ButtonArea(ev) ==
    CASE ev = "UP"    -> Go("NONE", "clear")
      [] ev = "PRESS" -> Go("PRESSED_LEFT", "clear")
      [] OTHER        -> Go("AREA", "clear")

ButtonLeft(ev) ==
    CASE ev = "IN_R"    -> Go("LEFT_TO_RIGHT", "leave")
      [] ev = "IN_AREA" -> Go("LEFT_TO_AREA", "leave")
      [] ev = "UP"      -> Go("NONE", "clear")
      [] ev = "PRESS"   -> Go("PRESSED_LEFT", "clear")
      [] OTHER          -> Go("LEFT", "clear")

ButtonLeftNew(ev) ==
    CASE ev = "IN_R"    -> Go("RIGHT_NEW", "enter")
      [] ev = "IN_AREA" -> Go("LEFT_TO_AREA", "clear")
      [] ev = "UP"      -> Go("NONE", "clear")
      [] ev = "PRESS"   -> Go("PRESSED_LEFT", "clear")
      [] ev = "TIMEOUT" -> Go("LEFT", "keep")
      [] OTHER          -> Go("LEFT_NEW", "keep")

\* Mutant: a finger that has settled in the right area clicks left.
ButtonRightClicksLeft(ev) ==
    CASE ev = "IN_L"    -> Go("RIGHT_TO_LEFT", "leave")
      [] ev = "IN_AREA" -> Go("RIGHT_TO_AREA", "leave")
      [] ev = "UP"      -> Go("NONE", "clear")
      [] ev = "PRESS"   -> Go("PRESSED_LEFT", "clear")
      [] OTHER          -> Go("RIGHT", "clear")

ButtonRight(ev) ==
    CASE ev = "IN_L"    -> Go("RIGHT_TO_LEFT", "leave")
      [] ev = "IN_AREA" -> Go("RIGHT_TO_AREA", "leave")
      [] ev = "UP"      -> Go("NONE", "clear")
      [] ev = "PRESS"   -> Go("PRESSED_RIGHT", "clear")
      [] OTHER          -> Go("RIGHT", "clear")

\* Mutant: moving out of the right area at once is not noticed.
ButtonRightNewStays(ev) ==
    CASE ev = "UP"      -> Go("NONE", "clear")
      [] ev = "PRESS"   -> Go("PRESSED_RIGHT", "clear")
      [] ev = "TIMEOUT" -> Go("RIGHT", "keep")
      [] OTHER          -> Go("RIGHT_NEW", "keep")

\* Mutant: moving out of the right area at once leaves the enter timer running.
ButtonRightNewKeepsTimer(ev) ==
    CASE ev = "IN_L"    -> Go("LEFT_NEW", "enter")
      [] ev = "IN_AREA" -> Go("AREA", "keep")
      [] ev = "UP"      -> Go("NONE", "clear")
      [] ev = "PRESS"   -> Go("PRESSED_RIGHT", "clear")
      [] ev = "TIMEOUT" -> Go("RIGHT", "keep")
      [] OTHER          -> Go("RIGHT_NEW", "keep")

ButtonRightNew(ev) ==
    CASE ev = "IN_L"    -> Go("LEFT_NEW", "enter")
      [] ev = "IN_AREA" -> Go("AREA", "clear")
      [] ev = "UP"      -> Go("NONE", "clear")
      [] ev = "PRESS"   -> Go("PRESSED_RIGHT", "clear")
      [] ev = "TIMEOUT" -> Go("RIGHT", "keep")
      [] OTHER          -> Go("RIGHT_NEW", "keep")

ButtonLeftToArea(ev) ==
    CASE ev = "IN_R"    -> Go("LEFT_TO_RIGHT", "leave")
      [] ev = "IN_L"    -> Go("LEFT", "clear")
      [] ev = "UP"      -> Go("NONE", "clear")
      [] ev = "PRESS"   -> Go("PRESSED_LEFT", "clear")
      [] ev = "TIMEOUT" -> Go("AREA", "keep")
      [] OTHER          -> Go("LEFT_TO_AREA", "keep")

(* UP assigns to t->state, not to t->button_state. *)
ButtonRightToArea(ev) ==
    CASE ev = "IN_R"    -> Go("RIGHT", "clear")
      [] ev = "IN_L"    -> Go("RIGHT_TO_LEFT", "leave")
      [] ev = "UP"      -> Spoil("RIGHT_TO_AREA", "clear")
      [] ev = "PRESS"   -> Go("PRESSED_RIGHT", "clear")
      [] ev = "TIMEOUT" -> Go("AREA", "keep")
      [] OTHER          -> Go("RIGHT_TO_AREA", "keep")

(* UP assigns to t->state. *)
ButtonLeftToRight(ev) ==
    CASE ev = "IN_L"    -> Go("LEFT", "clear")
      [] ev = "IN_AREA" -> Go("LEFT_TO_AREA", "leave")
      [] ev = "UP"      -> Spoil("LEFT_TO_RIGHT", "clear")
      [] ev = "PRESS"   -> Go("PRESSED_LEFT", "clear")
      [] ev = "TIMEOUT" -> Go("RIGHT", "keep")
      [] OTHER          -> Go("LEFT_TO_RIGHT", "keep")

(* IN_R, IN_AREA and UP assign to t->state. *)
ButtonRightToLeft(ev) ==
    CASE ev = "IN_R"    -> Spoil("RIGHT_TO_LEFT", "clear")
      [] ev = "IN_AREA" -> Spoil("RIGHT_TO_LEFT", "leave")
      [] ev = "UP"      -> Spoil("RIGHT_TO_LEFT", "clear")
      [] ev = "PRESS"   -> Go("PRESSED_RIGHT", "clear")
      [] ev = "TIMEOUT" -> Go("LEFT", "keep")
      [] OTHER          -> Go("RIGHT_TO_LEFT", "keep")

\* Mutant: a finger that lifts while the button is down stays pressed on release.
ButtonPressedIgnoresRelease(bs, ev) == Go(bs, "clear")

(* PRESSED_RIGHT and PRESSED_LEFT only wait for the release. *)
ButtonPressed(bs, ev) == Go(IF ev = "RELEASE" THEN "NONE" ELSE bs, "clear")

(* touchpad_button_handle_event *)
ButtonHandleEvent(bs, ev) ==
    CASE bs = "NONE"          -> ButtonNone(ev)
      [] bs = "AREA"          -> ButtonArea(ev)
      [] bs = "LEFT"          -> ButtonLeft(ev)
      [] bs = "LEFT_NEW"      -> ButtonLeftNew(ev)
      [] bs = "RIGHT"         -> ButtonRight(ev)
      [] bs = "RIGHT_NEW"     -> ButtonRightNew(ev)
      [] bs = "LEFT_TO_AREA"  -> ButtonLeftToArea(ev)
      [] bs = "RIGHT_TO_AREA" -> ButtonRightToArea(ev)
      [] bs = "LEFT_TO_RIGHT" -> ButtonLeftToRight(ev)
      [] bs = "RIGHT_TO_LEFT" -> ButtonRightToLeft(ev)
      [] OTHER                -> ButtonPressed(bs, ev)

(* The events of one touch in this frame, and what each one does: up or the *)
(* area if the touch changed, then the release and the press of the button. *)
MoveEvent(t) ==
    IF state[t] = "END" THEN ButtonHandleEvent(button_state[t], "UP")
    ELSE IF dirty[t] THEN ButtonHandleEvent(button_state[t], area[t])
    ELSE Go(button_state[t], "keep")
ReleaseEvent(t) ==
    IF "BUTTON_RELEASE" \in queued THEN ButtonHandleEvent(MoveEvent(t).next, "RELEASE")
                                   ELSE Go(MoveEvent(t).next, "keep")
PressEvent(t) ==
    IF "BUTTON_PRESS" \in queued THEN ButtonHandleEvent(ReleaseEvent(t).next, "PRESS")
                                 ELSE Go(ReleaseEvent(t).next, "keep")

(* t->button_timeout after the three events; only the first can set it. *)
Delta(timer)    == IF timer = "enter" THEN EnterTimeout ELSE LeaveTimeout
TimeoutAfter(t) ==
    IF "clear" \in {ReleaseEvent(t).timer, PressEvent(t).timer} THEN 0
    ELSE CASE MoveEvent(t).timer = "clear" -> 0
           [] MoveEvent(t).timer = "keep"  -> button_timeout[t]
           [] OTHER                        -> ms + Delta(MoveEvent(t).timer)

(* The touches that request a timer in this frame. *)
Requesting(S) == {t \in S : /\ MoveEvent(t).timer \in {"enter", "leave"}
                            /\ Delta(MoveEvent(t).timer) # 0}

(* touchpad_request_timer for each of them: the timerfd is left at the last *)
(* request, next_timeout at the earliest.                                   *)
RequestTimers(S) ==
    IF Requesting(S) = {} THEN UNCHANGED fdVars
    ELSE LET At(t) == ms + Delta(MoveEvent(t).timer)
             Armed == {t \in Requesting(S) : At(t) <= INT_MAX}
         IN  /\ next_timeout' = Min({At(t) : t \in Requesting(S)}
                                        \cup ({next_timeout} \ {0}))
             /\ timerfd' = IF Armed = {} THEN timerfd ELSE At(Max(Armed))

(* The callbacks: the release names the button the press was posted as. *)
PostedButton(S) == IF \E t \in S : PressEvent(t).next = "PRESSED_RIGHT"
                   THEN "BTN_RIGHT" ELSE "BTN_LEFT"

\* Mutant: a left click does not overwrite what the last right click left.
ActiveAfterRightOnly(S) ==
    IF "BUTTON_PRESS" \in queued /\ PostedButton(S) = "BTN_RIGHT"
    THEN "BTN_RIGHT" ELSE active_softbutton

ActiveAfter(S) == IF "BUTTON_PRESS" \in queued THEN PostedButton(S) ELSE active_softbutton

\* Mutant: the release names the button of the fingers as they are now.
CallbacksFromFingers(S) ==
    (IF "BUTTON_RELEASE" \in queued
     THEN <<[button |-> IF \E t \in S : ReleaseEvent(t).next = "RIGHT"
                        THEN "BTN_RIGHT" ELSE "BTN_LEFT", press |-> FALSE]>> ELSE <<>>)
    \o (IF "BUTTON_PRESS" \in queued
        THEN <<[button |-> PostedButton(S), press |-> TRUE]>> ELSE <<>>)

Callbacks(S) ==
    (IF "BUTTON_RELEASE" \in queued
     THEN <<[button |-> active_softbutton, press |-> FALSE]>> ELSE <<>>)
    \o (IF "BUTTON_PRESS" \in queued
        THEN <<[button |-> PostedButton(S), press |-> TRUE]>> ELSE <<>>)

----------------------------------------------------------------------------
(* touchpad_button_handle_state *)
ButtonHandleState ==
    /\ pc = "post_events" /\ ~handled
    /\ LET S == {t \in Touch : state[t] # "NONE"}
       IN  /\ button_state' = [t \in Touch |-> IF t \in S THEN PressEvent(t).next
                                                          ELSE button_state[t]]
           /\ button_timeout' = [t \in Touch |-> IF t \in S THEN TimeoutAfter(t)
                                                            ELSE button_timeout[t]]
           /\ state' = [t \in Touch |-> IF t \in S /\ MoveEvent(t).corrupts
                                        THEN Corrupt ELSE state[t]]
           /\ active_softbutton' = ActiveAfter(S)
           /\ out' = Callbacks(S)
           /\ RequestTimers(S)
    /\ handled' = TRUE
    /\ UNCHANGED <<kernelVars, dirty, fingers_down, queued, slot, buttons_state,
                   fd_changes, pc, clockVars, area>>

\* Mutant: only the first touch whose timer has run out is handled.
TimedOutFirst(n) ==
    LET S == {t \in Touch : button_timeout[t] # 0 /\ button_timeout[t] <= n}
    IN  IF S = {} THEN {} ELSE {Min(S)}

(* touchpad_button_handle_timeout: every touch whose timer has run out gets *)
(* TIMEOUT, with its timer already cleared.                                 *)
TimedOut(n) == {t \in Touch : button_timeout[t] # 0 /\ button_timeout[t] <= n}

(* The earliest deadline that remains, 0 if none. *)
EarliestTimeout(timeouts) ==
    LET m == Min(({timeouts[t] : t \in Touch} \ {0}) \cup {INT_MAX})
    IN  IF m = INT_MAX THEN 0 ELSE m

ButtonQuiet == out' = <<>> /\ UNCHANGED <<button_state, button_timeout, active_softbutton>>

(* touchpad_handle_timeouts at time n. *)
HandleTimeouts(n) ==
    \/ /\ ~Due(n)
       /\ ButtonQuiet
       /\ UNCHANGED fdVars
    \/ /\ Due(n)
       /\ button_state' = [t \in Touch |->
              IF t \in TimedOut(n) THEN ButtonHandleEvent(button_state[t], "TIMEOUT").next
                                   ELSE button_state[t]]
       /\ button_timeout' = [t \in Touch |-> IF t \in TimedOut(n) THEN 0
                                                                  ELSE button_timeout[t]]
       /\ next_timeout' = NextTimeout(EarliestTimeout(button_timeout'), 0)
       /\ out' = <<>>
       /\ UNCHANGED <<timerfd, active_softbutton>>

ButtonPosition(a) ==
    /\ AbsMtPosition
    /\ area' = IF NoTouch THEN area ELSE [area EXCEPT ![slot] = a]

ButtonKernelEvent ==
    /\ floor <= Horizon
    /\ \/ \E a \in Areas : ButtonPosition(a)
       \/ /\ \/ \E s \in Slots : AbsMtSlot(s)
             \/ AbsMtTrackingIdBegin
             \/ fingers_down > -MaxUnderflow /\ AbsMtTrackingIdEnd
             \/ \E b \in Buttons : ButtonPress(b) \/ ButtonRelease(b)
          /\ UNCHANGED area
    /\ ButtonQuiet
    /\ UNCHANGED <<timerVars, handled>>

ButtonSynReport(e) ==
    /\ e \in EventTimes
    /\ SynReport
    /\ HandleTimeouts(e)
    /\ ms' = e /\ floor' = e
    /\ UNCHANGED <<now, area, handled>>

ButtonSynIgnored(e) ==
    /\ e \in EventTimes
    /\ SynIgnored
    /\ HandleTimeouts(e)
    /\ floor' = e
    /\ UNCHANGED <<now, ms, area, handled>>

(* touchpad_touch_reset leaves the button timer of the touch alone. *)
ButtonPostProcess ==
    /\ PostProcess
    /\ handled
    /\ handled' = FALSE
    /\ button_state' = [t \in Touch |-> IF state[t] = "END" THEN "NONE" ELSE button_state[t]]
    /\ out' = <<>>
    /\ UNCHANGED <<timerVars, area, button_timeout, active_softbutton>>

ButtonHandleEvents ==
    /\ HandleEvents
    /\ Drain
    /\ ButtonQuiet
    /\ UNCHANGED <<clockVars, next_timeout, area, handled>>

ButtonAgain ==
    /\ Again
    /\ HandleTimeouts(now)
    /\ floor' = now
    /\ UNCHANGED <<now, ms, area, handled>>

ButtonTick ==
    /\ pc \in {"poll", "read"}
    /\ Tick
    /\ ButtonQuiet
    /\ UNCHANGED <<vars, area, handled>>

(* touchpad_reset: every touch is at the origin, in no button state; its    *)
(* button timer is left alone.                                              *)
ButtonChangeFd ==
    /\ ChangeFd
    /\ \E a \in Areas : area' = [t \in Touch |-> a]
    /\ button_state' = [t \in Touch |-> "NONE"]
    /\ out' = <<>>
    /\ UNCHANGED <<timerVars, button_timeout, active_softbutton, handled>>

ButtonNext ==
    \/ ButtonKernelEvent
    \/ \E e \in Time : ButtonSynReport(e) \/ ButtonSynIgnored(e)
    \/ ButtonHandleState
    \/ ButtonPostProcess
    \/ ButtonHandleEvents
    \/ ButtonAgain
    \/ ButtonTick
    \/ ButtonChangeFd

ButtonSpec == ButtonInit /\ [][ButtonNext]_allVars

----------------------------------------------------------------------------
(* Properties *)

PressedStates == {"PRESSED_LEFT", "PRESSED_RIGHT"}

(* The states with an enter or leave timeout. *)
WaitingStates == {"LEFT_NEW", "RIGHT_NEW", "LEFT_TO_AREA", "RIGHT_TO_AREA",
                  "LEFT_TO_RIGHT", "RIGHT_TO_LEFT"}

(* The button as the host has been told. *)
Posted == IF handled \/ queued \cap {"BUTTON_PRESS", "BUTTON_RELEASE"} = {}
          THEN buttons_state # {} ELSE "BUTTON_RELEASE" \in queued

Host == INSTANCE HostButtons WITH
            Button <- {"BTN_LEFT", "BTN_RIGHT"}, Sticky <- {"BTN_LEFT", "BTN_RIGHT"},
            down <- IF Posted THEN {active_softbutton} ELSE {}, out <- out

(* The host sees every click as the press and the release of the same      *)
(* button, however the fingers move, come and go between the two.          *)
ClicksAlternate == Host!Spec

(* A touch has a button timer only in a state that handles TIMEOUT: the     *)
(* argcheck_not_reached of the other states cannot be hit by a timeout.     *)
(* (touch_init resets the state of a touch and not its timer, so this does  *)
(* not outlive a change of the fd.)                                         *)
TimerMatchesState ==
    fd_changes = 0 => \A t \in Touch : button_timeout[t] # 0 => button_state[t] \in WaitingStates

(* A finger is never judged with a button deadline that had passed when the *)
(* frame happened: every pending timer lies after the frame being handled,  *)
(* although all the touches share one next_timeout.                         *)
NoExpiredButtonTimer ==
    pc = "post_events" /\ ~handled =>
        \A t \in Touch : button_timeout[t] # 0 => button_timeout[t] > ms

(* Once the click is over, no touch is left in a pressed state, where it    *)
(* would ignore its area until the next click.                              *)
NoStalePressed ==
    queued = {} /\ buttons_state = {} =>
        \A t \in Touch : button_state[t] \notin PressedStates

(* A touch takes part in a right click only where it is, or where it was    *)
(* before it moved to another area without settling there.                  *)
RightNeedsArea ==
    pc = "post_events" /\ ~handled /\ "BUTTON_PRESS" \in queued =>
        \A t \in Touch : state[t] # "NONE" /\ PressEvent(t).next = "PRESSED_RIGHT" =>
            area[t] = "IN_R" \/ MoveEvent(t).next \in {"RIGHT_TO_AREA", "RIGHT_TO_LEFT"}

(* argcheck_int_ge(tp->fingers_down, 0) of touchpad_end_touch. *)
FingersDownNotNegative == fingers_down >= 0

=============================================================================

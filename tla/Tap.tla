-------------------------------- MODULE Tap --------------------------------
(***************************************************************************)
(* Tap-to-click (touchpad-tap.c) on a touchpad with physical buttons: the  *)
(* frames of Touches, the timer of Timers, and the tap state machine that  *)
(* every frame and every timeout drives.                                   *)
(*                                                                         *)
(* The tap callbacks a step makes are in "out", in order.  Whether a touch *)
(* has moved past the threshold is a free choice for every touch that may. *)
(***************************************************************************)
EXTENDS Touches, Timers, Sequences

CONSTANTS
    TapTimeout      \* tp->tap.config.timeout_period

(* The timeout is taken as it is configured; 0 is a period that requests no *)
(* timer.                                                                   *)
ASSUME TapTimeoutAssumption == TapTimeout \in Nat

TapStates == {"IDLE", "TOUCH", "HOLD", "TAPPED", "TOUCH_2", "TOUCH_2_HOLD",
              "TOUCH_3", "TOUCH_3_HOLD", "DRAGGING_OR_DOUBLETAP", "DRAGGING",
              "DRAGGING_WAIT", "DRAGGING_2", "DEAD"}
TapEvents == {"TOUCH", "MOTION", "RELEASE", "BUTTON", "TIMEOUT"}

VARIABLES
    tap_state,      \* tp->tap.state
    tap_timeout,    \* tp->tap.timeout, 0 if none
    enabled,        \* tp->tap.config.enabled
    ti,             \* tap_handle_state: the next touch of the loop, -1 before it
    out             \* the tap callbacks of the last step

tapVars == <<tap_state, tap_timeout, enabled, ti, out>>
allVars == <<vars, timerVars, tapVars>>

TapTypeOK ==
    /\ TypeOK
    /\ TimersTypeOK
    /\ tap_state \in TapStates
    /\ tap_timeout \in Nat
    /\ enabled \in BOOLEAN
    /\ ti \in -1 .. ntouches
    /\ out \in Seq([button : 1 .. 3, press : BOOLEAN])

TapInit ==
    /\ Init
    /\ TimersInit
    /\ tap_state = "IDLE"
    /\ tap_timeout = 0
    /\ enabled = TRUE
    /\ ti = -1
    /\ out = <<>>

----------------------------------------------------------------------------
(* The tap callback: n fingers, press or release. *)
Press(n)   == [button |-> n, press |-> TRUE]
Release(n) == [button |-> n, press |-> FALSE]
Click(n)   == <<Press(n), Release(n)>>

(***************************************************************************)
(* How a handler of event ev ends: the next state, what it does with the   *)
(* timer ("set", "clear" or "keep") and the callbacks it makes.  The timer *)
(* that has just run out is already cleared, and touchpad_tap_handle_event *)
(* clears the timer of the states that have none.                          *)
(***************************************************************************)
Goto(ev, next, timer, callbacks) ==
    /\ tap_state' = next
    /\ out' = callbacks
    /\ tap_timeout' =
          IF \/ next \in {"IDLE", "DEAD"}
             \/ timer = "clear"
             \/ ev = "TIMEOUT" /\ timer = "keep"
          THEN 0
          ELSE IF timer = "set" THEN ms + TapTimeout ELSE tap_timeout
    /\ ev # "TIMEOUT" => IF timer = "set" THEN RequestTimer(TapTimeout)
                                          ELSE UNCHANGED fdVars

(* The event changes nothing but what the trailing clear clears. *)
Stay(ev) == Goto(ev, tap_state, "keep", <<>>)

----------------------------------------------------------------------------
(* One operator per state of the machine *)

(* RELEASE and MOTION are logged as a bug: no fingers are down. *)
TapIdle(ev) ==
    /\ tap_state = "IDLE"
    /\ \/ ev = "TOUCH" /\ Goto(ev, "TOUCH", "set", <<>>)
       \/ ev = "BUTTON" /\ Goto(ev, "DEAD", "keep", <<>>)
       \/ ev \in {"RELEASE", "MOTION", "TIMEOUT"} /\ Stay(ev)

TapTouch(ev) ==
    /\ tap_state = "TOUCH"
    /\ \/ ev = "TOUCH" /\ Goto(ev, "TOUCH_2", "set", <<>>)
       \/ ev = "RELEASE" /\ Goto(ev, "TAPPED", "set", <<Press(1)>>)
       \/ ev \in {"TIMEOUT", "MOTION"} /\ Goto(ev, "HOLD", "clear", <<>>)
       \/ ev = "BUTTON" /\ Goto(ev, "DEAD", "keep", <<>>)

TapHold(ev) ==
    /\ tap_state = "HOLD"
    /\ \/ ev = "TOUCH" /\ Goto(ev, "TOUCH_2", "set", <<>>)
       \/ ev = "RELEASE" /\ Goto(ev, "IDLE", "keep", <<>>)
       \/ ev \in {"MOTION", "TIMEOUT"} /\ Stay(ev)
       \/ ev = "BUTTON" /\ Goto(ev, "DEAD", "keep", <<>>)

\* Mutant: a button press during a tap does not release the tap's button.
TapTappedForgetsRelease(ev) ==
    /\ tap_state = "TAPPED"
    /\ \/ ev \in {"MOTION", "RELEASE"} /\ Stay(ev)
       \/ ev = "TOUCH" /\ Goto(ev, "DRAGGING_OR_DOUBLETAP", "clear", <<>>)
       \/ ev = "TIMEOUT" /\ Goto(ev, "IDLE", "keep", <<Release(1)>>)
       \/ ev = "BUTTON" /\ Goto(ev, "DEAD", "keep", <<>>)

(* MOTION and RELEASE are logged as a bug: the fingers are up. *)
TapTapped(ev) ==
    /\ tap_state = "TAPPED"
    /\ \/ ev \in {"MOTION", "RELEASE"} /\ Stay(ev)
       \/ ev = "TOUCH" /\ Goto(ev, "DRAGGING_OR_DOUBLETAP", "clear", <<>>)
       \/ ev = "TIMEOUT" /\ Goto(ev, "IDLE", "keep", <<Release(1)>>)
       \/ ev = "BUTTON" /\ Goto(ev, "DEAD", "keep", <<Release(1)>>)

\* Mutant: a two-finger tap waits like a tap, with one finger still down.
TapTouch2AsTap(ev) ==
    /\ tap_state = "TOUCH_2"
    /\ \/ ev = "TOUCH" /\ Goto(ev, "TOUCH_3", "set", <<>>)
       \/ ev = "RELEASE" /\ Goto(ev, "TAPPED", "set", <<Press(1)>>)
       \/ ev \in {"MOTION", "TIMEOUT"} /\ Goto(ev, "TOUCH_2_HOLD", "clear", <<>>)
       \/ ev = "BUTTON" /\ Goto(ev, "DEAD", "keep", <<>>)

TapTouch2(ev) ==
    /\ tap_state = "TOUCH_2"
    /\ \/ ev = "TOUCH" /\ Goto(ev, "TOUCH_3", "set", <<>>)
       \/ ev = "RELEASE" /\ Goto(ev, "HOLD", "clear", Click(2))
       \/ ev = "MOTION" /\ Goto(ev, "TOUCH_2_HOLD", "clear", <<>>)
       \/ ev = "TIMEOUT" /\ Goto(ev, "TOUCH_2_HOLD", "keep", <<>>)
       \/ ev = "BUTTON" /\ Goto(ev, "DEAD", "keep", <<>>)

TapTouch2Hold(ev) ==
    /\ tap_state = "TOUCH_2_HOLD"
    /\ \/ ev = "TOUCH" /\ Goto(ev, "TOUCH_3", "set", <<>>)
       \/ ev = "RELEASE" /\ Goto(ev, "HOLD", "keep", <<>>)
       \/ ev \in {"MOTION", "TIMEOUT"} /\ Stay(ev)
       \/ ev = "BUTTON" /\ Goto(ev, "DEAD", "keep", <<>>)

TapTouch3(ev) ==
    /\ tap_state = "TOUCH_3"
    /\ \/ ev = "TOUCH" /\ Goto(ev, "DEAD", "clear", <<>>)
       \/ ev \in {"MOTION", "TIMEOUT"} /\ Goto(ev, "TOUCH_3_HOLD", "clear", <<>>)
       \/ ev = "RELEASE" /\ Goto(ev, "TOUCH_2_HOLD", "keep", Click(3))
       \/ ev = "BUTTON" /\ Goto(ev, "DEAD", "keep", <<>>)

TapTouch3Hold(ev) ==
    /\ tap_state = "TOUCH_3_HOLD"
    /\ \/ ev = "TOUCH" /\ Goto(ev, "DEAD", "set", <<>>)
       \/ ev = "RELEASE" /\ Goto(ev, "TOUCH_2_HOLD", "keep", <<>>)
       \/ ev \in {"MOTION", "TIMEOUT"} /\ Stay(ev)
       \/ ev = "BUTTON" /\ Goto(ev, "DEAD", "keep", <<>>)

TapDraggingOrDoubletap(ev) ==
    /\ tap_state = "DRAGGING_OR_DOUBLETAP"
    /\ \/ ev = "TOUCH" /\ Goto(ev, "DRAGGING_2", "keep", <<>>)
       \/ ev = "RELEASE" /\ Goto(ev, "IDLE", "clear", <<Release(1), Press(1), Release(1)>>)
       \/ ev \in {"MOTION", "TIMEOUT"} /\ Goto(ev, "DRAGGING", "keep", <<>>)
       \/ ev = "BUTTON" /\ Goto(ev, "DEAD", "keep", <<Release(1)>>)

TapDragging(ev) ==
    /\ tap_state = "DRAGGING"
    /\ \/ ev = "TOUCH" /\ Goto(ev, "DRAGGING_2", "keep", <<>>)
       \/ ev = "RELEASE" /\ Goto(ev, "DRAGGING_WAIT", "set", <<>>)
       \/ ev \in {"MOTION", "TIMEOUT"} /\ Stay(ev)
       \/ ev = "BUTTON" /\ Goto(ev, "DEAD", "keep", <<Release(1)>>)

TapDraggingWait(ev) ==
    /\ tap_state = "DRAGGING_WAIT"
    /\ \/ ev = "TOUCH" /\ Goto(ev, "DRAGGING", "clear", <<>>)
       \/ ev \in {"RELEASE", "MOTION"} /\ Stay(ev)
       \/ ev = "TIMEOUT" /\ Goto(ev, "IDLE", "keep", <<Release(1)>>)
       \/ ev = "BUTTON" /\ Goto(ev, "DEAD", "keep", <<Release(1)>>)

TapDragging2(ev) ==
    /\ tap_state = "DRAGGING_2"
    /\ \/ ev = "RELEASE" /\ Goto(ev, "DRAGGING", "keep", <<>>)
       \/ ev = "TOUCH" /\ Goto(ev, "DEAD", "keep", <<Release(1)>>)
       \/ ev \in {"MOTION", "TIMEOUT"} /\ Stay(ev)
       \/ ev = "BUTTON" /\ Goto(ev, "DEAD", "keep", <<Release(1)>>)

TapDead(ev) ==
    /\ tap_state = "DEAD"
    /\ \/ ev = "RELEASE" /\ fingers_down = 0 /\ Goto(ev, "IDLE", "keep", <<>>)
       \/ ev = "RELEASE" /\ fingers_down # 0 /\ Stay(ev)
       \/ ev \in {"TOUCH", "MOTION", "TIMEOUT", "BUTTON"} /\ Stay(ev)

(* Nothing happens to the machine, its timer or the timerfd. *)
TapQuiet == out' = <<>> /\ UNCHANGED <<tap_state, tap_timeout, fdVars>>

TapHandleEvent(ev) ==
    IF ~enabled THEN TapQuiet
    ELSE \/ TapIdle(ev)         \/ TapTouch(ev)      \/ TapHold(ev)
         \/ TapTapped(ev)       \/ TapTouch2(ev)     \/ TapTouch2Hold(ev)
         \/ TapTouch3(ev)       \/ TapTouch3Hold(ev) \/ TapDraggingOrDoubletap(ev)
         \/ TapDragging(ev)     \/ TapDraggingWait(ev)
         \/ TapDragging2(ev)    \/ TapDead(ev)

----------------------------------------------------------------------------
\* Mutant: a deadline that has not passed is forgotten.
HandleTimeoutsForgets(n) ==
    \/ ~Due(n) /\ TapQuiet
    \/ /\ Due(n)
       /\ IF enabled /\ tap_timeout # 0 /\ tap_timeout <= n
          THEN TapHandleEvent("TIMEOUT")
          ELSE out' = <<>> /\ UNCHANGED <<tap_state, tap_timeout>>
       /\ next_timeout' = 0
       /\ UNCHANGED timerfd

(* touchpad_handle_timeouts at time n; the device's own buttons have none. *)
HandleTimeouts(n) ==
    \/ ~Due(n) /\ TapQuiet
    \/ /\ Due(n)
       /\ IF enabled /\ tap_timeout # 0 /\ tap_timeout <= n
          THEN TapHandleEvent("TIMEOUT")
          ELSE out' = <<>> /\ UNCHANGED <<tap_state, tap_timeout>>
       /\ next_timeout' = NextTimeout(0, IF enabled THEN tap_timeout' ELSE 0)
       /\ UNCHANGED timerfd

(* A kernel event before the SYN_REPORT of its frame. *)
KernelEvent ==
    /\ floor <= Horizon
    /\ \/ \E s \in Slots : AbsMtSlot(s)
       \/ AbsMtPosition
       \/ AbsMtTrackingIdBegin
       \/ AbsMtTrackingIdEnd
       \/ \E b \in Buttons : ButtonPress(b) \/ ButtonRelease(b)
    /\ TapQuiet
    /\ UNCHANGED <<clockVars, enabled, ti>>

\* Mutant: the timeouts are not run before the frame.
TapSynReportSkipsTimeouts(e) ==
    /\ e \in EventTimes
    /\ SynReport
    /\ TapQuiet
    /\ ms' = e /\ floor' = e
    /\ UNCHANGED <<now, enabled, ti>>

(* touchpad_handle_events runs the timeouts due at the SYN_REPORT's time    *)
(* before the frame.                                                       *)
TapSynReport(e) ==
    /\ e \in EventTimes
    /\ SynReport
    /\ HandleTimeouts(e)
    /\ ms' = e /\ floor' = e
    /\ UNCHANGED <<now, enabled, ti>>

TapSynIgnored(e) ==
    /\ e \in EventTimes
    /\ SynIgnored
    /\ HandleTimeouts(e)
    /\ floor' = e
    /\ UNCHANGED <<now, ms, enabled, ti>>

(* touchpad_tap_handle_state: the button press of the frame comes first ... *)
TapButtons ==
    /\ pc = "post_events" /\ ti = -1
    /\ IF "BUTTON_PRESS" \in queued THEN TapHandleEvent("BUTTON") ELSE TapQuiet
    /\ ti' = 0
    /\ UNCHANGED <<vars, clockVars, enabled>>

(* ... and then every touch in turn: it begins, ends, moves past the        *)
(* threshold, or has nothing to tell the machine.                          *)
TapLoop(touch_state, ev) ==
    /\ pc = "post_events" /\ ti \in Touch
    /\ dirty[ti] /\ state[ti] = touch_state
    /\ TapHandleEvent(ev)
    /\ ti' = ti + 1
    /\ UNCHANGED <<vars, clockVars, enabled>>

TapTouchBegins == TapLoop("BEGIN", "TOUCH")

\* Mutant: a touch that ends is taken for one that moved.
TapTouchEndsAsMotion == TapLoop("END", "MOTION")

TapTouchEnds == TapLoop("END", "RELEASE")

TapTouchMoves == tap_state # "IDLE" /\ TapLoop("UPDATE", "MOTION")

\* Mutant: the loop does not stop at the last touch.
TapTouchSkippedPastEnd ==
    /\ pc = "post_events" /\ ti >= 0
    /\ ti \in Touch => ~dirty[ti] \/ state[ti] \in {"NONE", "UPDATE"}
    /\ TapQuiet
    /\ ti' = ti + 1
    /\ UNCHANGED <<vars, clockVars, enabled>>

TapTouchSkipped ==
    /\ pc = "post_events" /\ ti \in Touch
    /\ ~dirty[ti] \/ state[ti] \in {"NONE", "UPDATE"}
    /\ TapQuiet
    /\ ti' = ti + 1
    /\ UNCHANGED <<vars, clockVars, enabled>>

TapPostProcess ==
    /\ PostProcess
    /\ ti = ntouches
    /\ ti' = -1
    /\ TapQuiet
    /\ UNCHANGED <<clockVars, enabled>>

(* The host calls touchpad_handle_events ... *)
TapHandleEvents ==
    /\ HandleEvents
    /\ Drain
    /\ out' = <<>>
    /\ UNCHANGED <<clockVars, next_timeout, tap_state, tap_timeout, enabled, ti>>

(* ... because the timerfd expired. *)
TimerWakesHost == Expired /\ TapHandleEvents

(* -EAGAIN: the queue is empty, the timeouts due now are run. *)
TapAgain ==
    /\ Again
    /\ HandleTimeouts(now)
    /\ floor' = now
    /\ UNCHANGED <<now, ms, enabled, ti>>

TapTick ==
    /\ pc \in {"poll", "read"}
    /\ Tick
    /\ out' = <<>>
    /\ UNCHANGED <<vars, tap_state, tap_timeout, enabled, ti>>

(* touchpad_reset: the state machine restarts, its timer is left alone. *)
TapChangeFd ==
    /\ ChangeFd
    /\ tap_state' = "IDLE"
    /\ out' = <<>>
    /\ UNCHANGED <<timerVars, tap_timeout, enabled, ti>>

(* touchpad_config_set with TOUCHPAD_CONFIG_TAP_ENABLE. *)
TapConfigSetEnable ==
    /\ "configure" \in Quirks
    /\ pc = "poll"
    /\ floor <= Horizon
    /\ enabled' = ~enabled
    /\ out' = <<>>
    /\ UNCHANGED <<vars, timerVars, tap_state, tap_timeout, ti>>

TapHandleState ==
    \/ TapButtons
    \/ TapTouchBegins
    \/ TapTouchEnds
    \/ TapTouchMoves
    \/ TapTouchSkipped

TapNext ==
    \/ KernelEvent
    \/ \E e \in Time : TapSynReport(e) \/ TapSynIgnored(e)
    \/ TapHandleState
    \/ TapPostProcess
    \/ TapHandleEvents
    \/ TapAgain
    \/ TapTick
    \/ TapChangeFd
    \/ TapConfigSetEnable

TapSpec == TapInit /\ [][TapNext]_allVars

(***************************************************************************)
(* The library runs a frame to its end, the kernel completes the frames it *)
(* starts, the host calls the library when the timerfd wakes it, and the   *)
(* library reads faster than the device reports: the queue is found empty  *)
(* again and again.  Time passes whatever they do (the clock of the model  *)
(* only stands still during a frame, hence strong fairness).               *)
(***************************************************************************)
TapFairness ==
    /\ WF_allVars(TapHandleState \/ TapPostProcess)
    /\ WF_allVars(\E e \in Time : TapSynReport(e) \/ TapSynIgnored(e))
    /\ WF_allVars(TimerWakesHost)
    /\ SF_allVars(TapTick)
    /\ SF_allVars(TapAgain)

TapFairSpec == TapSpec /\ TapFairness

----------------------------------------------------------------------------
(* Properties *)

(* The states in which a tap has pressed button 1 and not released it. *)
HeldStates == {"TAPPED", "DRAGGING_OR_DOUBLETAP", "DRAGGING", "DRAGGING_WAIT",
               "DRAGGING_2"}

Host == INSTANCE HostButtons WITH
            Button <- 1 .. 3, Sticky <- {1},
            down <- IF tap_state \in HeldStates THEN {1} ELSE {}, out <- out

(* The tap callbacks of every handler alternate between press and release  *)
(* for every finger count, over any sequence of frames, timeouts, physical *)
(* clicks and reconfiguration, and only the one-finger tap stays pressed:  *)
(* exactly in the held states of the machine.                              *)
ButtonsAlternate == Host!Spec

(* The fingers the state machine believes to be down, DEAD aside. *)
FingersOf(s) == CASE s \in {"IDLE", "TAPPED", "DRAGGING_WAIT"}            -> 0
                  [] s \in {"TOUCH", "HOLD", "DRAGGING_OR_DOUBLETAP",
                            "DRAGGING"}                                   -> 1
                  [] s \in {"TOUCH_2", "TOUCH_2_HOLD", "DRAGGING_2"}      -> 2
                  [] s \in {"TOUCH_3", "TOUCH_3_HOLD"}                    -> 3

(* Between frames the finger count the tap state stands for is the number  *)
(* of touches that are down, although the machine only ever sees single    *)
(* begin and end events in slot order, several of them in one frame.       *)
TapCountsFingers ==
    queued = {} /\ tap_state # "DEAD" => FingersOf(tap_state) = Cardinality(Live)

(* A finger event is never judged with a deadline that has passed when it  *)
(* happened: a pending tap timer lies after the frame being handled, even  *)
(* when the host reads the frame late.                                     *)
NoExpiredDeadline ==
    pc = "post_events" /\ tap_timeout # 0 => tap_timeout > ms

(* The states that wait for a timeout have a timer, and while the host     *)
(* polls, the timerfd wakes it no later than the deadline and next_timeout *)
(* lets the deadline through.                                              *)
TimedStates == {"TOUCH", "TAPPED", "TOUCH_2", "TOUCH_3", "DRAGGING_WAIT"}

DeadlineWakesHost ==
    /\ tap_state \in TimedStates => tap_timeout # 0
    /\ tap_timeout # 0 => next_timeout # 0 /\ next_timeout <= tap_timeout
    /\ tap_timeout # 0 /\ pc = "poll" => timerfd # 0 /\ timerfd <= tap_timeout

(* The loop never tells a machine that is in a state without a finger that  *)
(* one moved or left (the log_bug of these states), but for one case: when  *)
(* all fingers leave in one frame, the first of them takes a DEAD machine   *)
(* to IDLE, which then hears of the others.                                 *)
NoEventWithoutFinger ==
    pc = "post_events" /\ ti \in Touch /\ dirty[ti] /\ state[ti] \in {"UPDATE", "END"}
        => /\ tap_state \notin {"TAPPED", "DRAGGING_WAIT"}
           /\ tap_state = "IDLE" => state[ti] = "END" /\ Live = {}

(* The button a tap pressed is released once the touchpad is left alone:    *)
(* the wait after a tap, and after a drag, ends.                            *)
TapIsReleased ==
    /\ tap_state = "TAPPED" ~> tap_state # "TAPPED"
    /\ tap_state = "DRAGGING_WAIT" ~> tap_state # "DRAGGING_WAIT"

(* After a tap, a finger that rests is a drag once the timeout passes: the  *)
(* machine does not wait for a second tap forever.                          *)
HoldBecomesDrag ==
    tap_state = "DRAGGING_OR_DOUBLETAP" ~> tap_state # "DRAGGING_OR_DOUBLETAP"
=============================================================================

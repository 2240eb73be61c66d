----------------------------- MODULE TapProofs -----------------------------
(***************************************************************************)
(* Proofs about tap-to-click for any touchpad: the tap machine never       *)
(* misses or misjudges a deadline, and the host sees every tap as a press  *)
(* followed by a release.                                                  *)
(*                                                                         *)
(* The deadlines need an invariant on the three copies of a deadline: the  *)
(* state machine's (tap_timeout), the library's (next_timeout) and the     *)
(* kernel's (timerfd).  The last one is ahead of the others only between   *)
(* the drain of the timerfd and the end of the same call.                  *)
(***************************************************************************)
EXTENDS Tap, TouchesProofs

(* The actions of Tap are the actions of Touches and steps that leave the   *)
(* touches alone.                                                          *)
LEMMA TapStepsTouches == [TapNext]_allVars => [Next]_vars
<1> SUFFICES ASSUME [TapNext]_allVars PROVE [Next]_vars
  OBVIOUS
<1>1. CASE KernelEvent
  BY <1>1 DEF KernelEvent, Next
<1>2. ASSUME NEW e \in Time, TapSynReport(e) \/ TapSynIgnored(e) PROVE [Next]_vars
  BY <1>2 DEF TapSynReport, TapSynIgnored, Next
<1>3. CASE TapHandleState
  BY <1>3 DEF TapHandleState, TapButtons, TapTouchBegins, TapTouchEnds, TapTouchMoves,
              TapTouchSkipped, TapLoop
<1>4. CASE TapPostProcess \/ TapHandleEvents \/ TapAgain
  BY <1>4 DEF TapPostProcess, TapHandleEvents, TapAgain, Next
<1>5. CASE TapTick \/ TapConfigSetEnable
  BY <1>5 DEF TapTick, TapConfigSetEnable
<1>6. CASE TapChangeFd
  BY <1>6 DEF TapChangeFd, Next
<1>7. CASE UNCHANGED allVars
  BY <1>7 DEF allVars
<1> QED
  BY <1>1, <1>2, <1>3, <1>4, <1>5, <1>6, <1>7 DEF TapNext

(* Tapping does not interfere with how frames are assembled: a touchpad     *)
(* with tap-to-click implements the specification of the touches alone, so  *)
(* everything proved there holds here.                                     *)
THEOREM TapImplementsTouches == TapSpec => Spec
<1>1. TapInit => Init
  BY DEF TapInit
<1> QED
  BY <1>1, TapStepsTouches, PTL DEF TapSpec, Spec

----------------------------------------------------------------------------
(* Deadlines *)

(* The conditions of the theorems about deadlines.  Deadlines fit into an   *)
(* int; tapping is never disabled; and the timeout is not 0, which requests *)
(* no timer and leaves a deadline that has passed when it is set.           *)
DeadlinesFit  == MaxTime + TapTimeout < INT_MAX
NeverDisabled == "configure" \notin Quirks
TapTimeoutSet == TapTimeout # 0

(* Types of what the timers are made of. *)
TimerType ==
    /\ TimersTypeOK
    /\ tap_timeout \in Nat
    /\ tap_timeout <= MaxTime + TapTimeout

(* The states that wait have a deadline; next_timeout lets it through; the  *)
(* timerfd is set to it, or was drained in this call after it passed.       *)
DeadlineKept ==
    /\ tap_state \in TimedStates => tap_timeout # 0
    /\ tap_timeout # 0 =>
          /\ next_timeout # 0
          /\ next_timeout <= tap_timeout
          /\ \/ timerfd = tap_timeout
             \/ timerfd = 0 /\ tap_timeout <= now /\ pc # "poll"

TimerInv ==
    /\ TimerType
    /\ enabled = TRUE
    /\ DeadlineKept
    /\ NoExpiredDeadline

(* What any event but a timeout may do to the deadline: drop it, keep it,   *)
(* or set it together with the timer.                                      *)
LEMMA EventDeadline ==
    ASSUME TapTimeoutSet, enabled = TRUE, ms \in Nat, tap_timeout \in Nat,
           NEW ev \in TapEvents \ {"TIMEOUT"}, TapHandleEvent(ev),
           tap_state \in TimedStates => tap_timeout # 0
    PROVE  /\ tap_state' \in TimedStates => tap_timeout' # 0
           /\ UNCHANGED fdVars \/ RequestTimer(TapTimeout)
           /\ \/ tap_timeout' = 0
              \/ tap_timeout' = tap_timeout /\ UNCHANGED fdVars
              \/ tap_timeout' = ms + TapTimeout /\ RequestTimer(TapTimeout)
<1> USE TapTimeoutAssumption DEF TapTimeoutSet, Goto, Stay, TimedStates
<1>1. CASE TapIdle(ev)
  BY <1>1 DEF TapIdle
<1>2. CASE TapTouch(ev)
  BY <1>2 DEF TapTouch
<1>3. CASE TapHold(ev)
  BY <1>3 DEF TapHold
<1>4. CASE TapTapped(ev)
  BY <1>4 DEF TapTapped
<1>5. CASE TapTouch2(ev)
  BY <1>5 DEF TapTouch2
<1>6. CASE TapTouch2Hold(ev)
  BY <1>6 DEF TapTouch2Hold
<1>7. CASE TapTouch3(ev)
  BY <1>7 DEF TapTouch3
<1>8. CASE TapTouch3Hold(ev)
  BY <1>8 DEF TapTouch3Hold
<1>9. CASE TapDraggingOrDoubletap(ev)
  BY <1>9 DEF TapDraggingOrDoubletap
<1>10. CASE TapDragging(ev)
  BY <1>10 DEF TapDragging
<1>11. CASE TapDraggingWait(ev)
  BY <1>11 DEF TapDraggingWait
<1>12. CASE TapDragging2(ev)
  BY <1>12 DEF TapDragging2
<1>13. CASE TapDead(ev)
  BY <1>13 DEF TapDead
<1> QED
  BY <1>1, <1>2, <1>3, <1>4, <1>5, <1>6, <1>7, <1>8, <1>9, <1>10, <1>11, <1>12, <1>13
  DEF TapHandleEvent

(* A timeout leaves no deadline, and no state that waits for one. *)
LEMMA TimeoutDeadline ==
    ASSUME enabled = TRUE, TapHandleEvent("TIMEOUT")
    PROVE  tap_timeout' = 0 /\ tap_state' \notin TimedStates
<1> USE DEF Goto, Stay, TimedStates
<1> QED
  BY DEF TapHandleEvent, TapIdle, TapTouch, TapHold, TapTapped, TapTouch2, TapTouch2Hold,
         TapTouch3, TapTouch3Hold, TapDraggingOrDoubletap, TapDragging, TapDraggingWait,
         TapDragging2, TapDead

(* With no button deadline, the tap deadline is the next one. *)
LEMMA NextTimeoutIsTap ==
    ASSUME NEW d \in Nat, d < INT_MAX
    PROVE  NextTimeout(0, d) = d
<1>1. AsInt(d) = d /\ AsUnsigned(d) = d
  BY TimeAssumption DEF AsInt, AsUnsigned
<1>2. CASE d = 0
  BY <1>2 DEF NextTimeout
<1>3. CASE d # 0
  BY <1>1, <1>3, TimeAssumption DEF NextTimeout
<1> QED
  BY <1>2, <1>3

(* touchpad_handle_timeouts at time n: what remains is a deadline after n.  *)
LEMMA TimeoutsDeadline ==
    ASSUME DeadlinesFit, TimerInv, NEW n \in Time, HandleTimeouts(n)
    PROVE  /\ next_timeout' \in Nat
           /\ timerfd' = timerfd
           /\ tap_state' \in TimedStates => tap_timeout' # 0
           /\ tap_timeout' = 0 \/ tap_timeout' = tap_timeout
           /\ tap_timeout' # 0 => /\ tap_timeout' > n
                                  /\ next_timeout' # 0
                                  /\ next_timeout' <= tap_timeout'
<1> USE TimeAssumption, TapTimeoutAssumption DEF TimerInv, TimerType, TimersTypeOK, Time
<1>1. CASE ~Due(n)
  BY <1>1 DEF HandleTimeouts, TapQuiet, fdVars, DeadlineKept, Due
<1>2. CASE Due(n)
  <2>1. /\ timerfd' = timerfd
        /\ next_timeout' = NextTimeout(0, tap_timeout')
    BY <1>2 DEF HandleTimeouts
  <2>2. /\ tap_state' \in TimedStates => tap_timeout' # 0
        /\ \/ tap_timeout' = 0
           \/ tap_timeout' = tap_timeout /\ (tap_timeout = 0 \/ tap_timeout > n)
    <3>1. CASE tap_timeout # 0 /\ tap_timeout <= n
      BY <1>2, <3>1, TimeoutDeadline DEF HandleTimeouts
    <3>2. CASE ~(tap_timeout # 0 /\ tap_timeout <= n)
      <4>1. UNCHANGED <<tap_state, tap_timeout>>
        BY <1>2, <3>2 DEF HandleTimeouts
      <4> QED
        BY <3>2, <4>1 DEF DeadlineKept
    <3> QED
      BY <3>1, <3>2
  <2>3. tap_timeout' \in Nat /\ tap_timeout' < INT_MAX
    BY <2>2 DEF DeadlinesFit
  <2>4. NextTimeout(0, tap_timeout') = tap_timeout'
    BY <2>3, NextTimeoutIsTap
  <2> QED
    BY <2>1, <2>2, <2>3, <2>4
<1> QED
  BY <1>1, <1>2

(* An event of a frame: the deadline it sets lies after the frame. *)
LEMMA EventInv ==
    ASSUME DeadlinesFit, TapTimeoutSet, TimerInv, pc = "post_events",
           NEW ev \in TapEvents \ {"TIMEOUT"}, TapHandleEvent(ev),
           UNCHANGED <<vars, clockVars, enabled>>
    PROVE  TimerInv'
<1> USE TimeAssumption, TapTimeoutAssumption DEF TimerType, TimersTypeOK, Time, clockVars
<1>1. /\ TimerType /\ DeadlineKept /\ NoExpiredDeadline /\ enabled = TRUE
      /\ ms \in Nat /\ tap_timeout \in Nat
  BY DEF TimerInv
<1>2. /\ tap_state' \in TimedStates => tap_timeout' # 0
      /\ UNCHANGED fdVars \/ RequestTimer(TapTimeout)
      /\ \/ tap_timeout' = 0
         \/ tap_timeout' = tap_timeout /\ UNCHANGED fdVars
         \/ tap_timeout' = ms + TapTimeout /\ RequestTimer(TapTimeout)
  BY <1>1, EventDeadline DEF DeadlineKept
<1>3. enabled' = TRUE /\ pc' = "post_events" /\ now' = now /\ floor' = floor /\ ms' = ms
  BY <1>1 DEF vars
<1>4. ASSUME RequestTimer(TapTimeout)
      PROVE  /\ next_timeout' \in Nat \ {0} /\ next_timeout' <= ms + TapTimeout
             /\ timerfd' = ms + TapTimeout
  BY <1>1, <1>4 DEF RequestTimer, DeadlinesFit, TapTimeoutSet
<1>5. TimerType'
  BY <1>1, <1>2, <1>3, <1>4 DEF fdVars
<1>6. DeadlineKept' /\ NoExpiredDeadline'
  BY <1>1, <1>2, <1>3, <1>4 DEF fdVars, DeadlineKept, NoExpiredDeadline, TapTimeoutSet
<1> QED
  BY <1>3, <1>5, <1>6 DEF TimerInv

LEMMA TimerInit == TapInit => TimerInv
BY TimeAssumption, TapTimeoutAssumption
DEF TapInit, Init, TimersInit, TimerInv, TimerType, TimersTypeOK, Time, DeadlineKept,
    TimedStates, NoExpiredDeadline

(* A step that touches neither deadlines nor time. *)
LEMMA QuietInv ==
    ASSUME TimerInv, TapQuiet, UNCHANGED <<clockVars, enabled>>,
           pc' = pc \/ pc' = "read"
    PROVE  TimerInv'
BY DEF TimerInv, TimerType, TimersTypeOK, DeadlineKept, NoExpiredDeadline, TapQuiet,
       clockVars, fdVars

LEMMA TimerStep ==
    ASSUME DeadlinesFit, NeverDisabled, TapTimeoutSet, TimerInv, [TapNext]_allVars
    PROVE  TimerInv'
<1> USE TimeAssumption, TapTimeoutAssumption
<1>0. TimerType /\ DeadlineKept /\ NoExpiredDeadline /\ enabled = TRUE
  BY DEF TimerInv
<1>1. CASE KernelEvent
  <2>1. pc' = pc
    BY <1>1 DEF KernelEvent, AbsMtSlot, AbsMtPosition, AbsMtTrackingIdBegin,
                AbsMtTrackingIdEnd, ButtonPress, ButtonRelease
  <2> QED
    BY <1>1, <2>1, QuietInv DEF KernelEvent
<1>2. ASSUME NEW e \in Time, TapSynReport(e) \/ TapSynIgnored(e) PROVE TimerInv'
  <2>1. /\ HandleTimeouts(e) /\ floor' = e /\ now' = now /\ enabled' = enabled
        /\ ms' = e \/ (ms' = ms /\ pc' = "read")
        /\ pc' = "read" \/ pc' = "post_events"
    BY <1>2 DEF TapSynReport, TapSynIgnored, SynReport, SynIgnored
  <2>2. /\ next_timeout' \in Nat
        /\ timerfd' = timerfd
        /\ tap_state' \in TimedStates => tap_timeout' # 0
        /\ tap_timeout' = 0 \/ tap_timeout' = tap_timeout
        /\ tap_timeout' # 0 => /\ tap_timeout' > e
                               /\ next_timeout' # 0
                               /\ next_timeout' <= tap_timeout'
    BY <2>1, TimeoutsDeadline
  <2>3. TimerType'
    BY <1>0, <2>1, <2>2 DEF TimerType, TimersTypeOK, Time
  <2>4. DeadlineKept'
    BY <1>0, <2>1, <2>2 DEF DeadlineKept
  <2>5. NoExpiredDeadline'
    BY <2>1, <2>2 DEF NoExpiredDeadline
  <2> QED
    BY <1>0, <2>1, <2>3, <2>4, <2>5 DEF TimerInv
<1>3. CASE TapHandleState
  <2>1. /\ pc = "post_events" /\ UNCHANGED <<vars, clockVars, enabled>>
        /\ TapQuiet \/ \E ev \in TapEvents \ {"TIMEOUT"} : TapHandleEvent(ev)
    BY <1>3 DEF TapHandleState, TapButtons, TapTouchBegins, TapTouchEnds, TapTouchMoves,
                TapTouchSkipped, TapLoop, TapEvents
  <2>2. pc' = pc
    BY <2>1 DEF vars
  <2> QED
    BY <2>1, <2>2, QuietInv, EventInv
<1>4. CASE TapPostProcess
  BY <1>4, QuietInv DEF TapPostProcess, PostProcess
<1>5. CASE TapHandleEvents
  <2>1. /\ pc' = "read" /\ Drain
        /\ UNCHANGED <<clockVars, next_timeout, tap_state, tap_timeout, enabled>>
    BY <1>5 DEF TapHandleEvents, HandleEvents
  <2> QED
    BY <1>0, <2>1 DEF TimerInv, TimerType, TimersTypeOK, Time, DeadlineKept,
                      NoExpiredDeadline, Drain, Expired, clockVars
<1>6. CASE TapAgain
  <2>1. /\ HandleTimeouts(now) /\ floor' = now
        /\ UNCHANGED <<now, ms, enabled>> /\ pc' = "poll"
    BY <1>6 DEF TapAgain, Again
  <2>2. now \in Time
    BY <1>0 DEF TimerType, TimersTypeOK
  <2>3. /\ next_timeout' \in Nat
        /\ timerfd' = timerfd
        /\ tap_state' \in TimedStates => tap_timeout' # 0
        /\ tap_timeout' = 0 \/ tap_timeout' = tap_timeout
        /\ tap_timeout' # 0 => /\ tap_timeout' > now
                               /\ next_timeout' # 0
                               /\ next_timeout' <= tap_timeout'
    BY <2>1, <2>2, TimeoutsDeadline
  <2>4. TimerType'
    BY <1>0, <2>1, <2>3 DEF TimerType, TimersTypeOK, Time
  <2>5. DeadlineKept'
    BY <1>0, <2>1, <2>2, <2>3 DEF DeadlineKept, TimerType, TimersTypeOK, Time
  <2> QED
    BY <1>0, <2>1, <2>4, <2>5 DEF TimerInv, NoExpiredDeadline
<1>7. CASE TapTick
  BY <1>0, <1>7 DEF TapTick, Tick, TimerInv, TimerType, TimersTypeOK, Time, DeadlineKept,
                    NoExpiredDeadline, vars, fdVars
<1>8. CASE TapChangeFd
  BY <1>0, <1>8 DEF TapChangeFd, ChangeFd, TimerInv, TimerType, TimersTypeOK, DeadlineKept,
                    NoExpiredDeadline, timerVars, clockVars, fdVars, TimedStates
<1>9. CASE TapConfigSetEnable
  BY <1>9 DEF TapConfigSetEnable, NeverDisabled
<1>10. CASE UNCHANGED allVars
  <2>1. /\ UNCHANGED <<tap_state, tap_timeout, enabled, pc>>
        /\ UNCHANGED <<now, floor, ms, next_timeout, timerfd>>
    BY <1>10 DEF allVars, vars, timerVars, clockVars, fdVars, tapVars
  <2> QED
    BY <1>0, <2>1 DEF TimerInv, TimerType, TimersTypeOK, DeadlineKept, NoExpiredDeadline
<1> QED
  BY <1>1, <1>2, <1>3, <1>4, <1>5, <1>6, <1>7, <1>8, <1>9, <1>10 DEF TapNext

THEOREM DeadlineInductive ==
    ASSUME DeadlinesFit, NeverDisabled, TapTimeoutSet
    PROVE  TapSpec => []TimerInv
<1>1. TimerInv /\ [TapNext]_allVars => TimerInv'
  BY TimerStep
<1> QED
  BY <1>1, TimerInit, PTL DEF TapSpec

(* No event of a frame is judged with a tap deadline that had passed when   *)
(* the frame happened, however late the host reads it, for every timeout    *)
(* but 0 whose deadlines fit an int, and while tapping stays enabled.       *)
THEOREM DeadlinesAreCurrent ==
    ASSUME DeadlinesFit, NeverDisabled, TapTimeoutSet
    PROVE  TapSpec => []NoExpiredDeadline
<1>1. TimerInv => NoExpiredDeadline
  BY DEF TimerInv
<1> QED
  BY <1>1, DeadlineInductive, PTL

(* A state that waits has a deadline, and while the host polls, the timerfd *)
(* is armed to wake it at that deadline, under the same conditions.         *)
THEOREM DeadlinesWake ==
    ASSUME DeadlinesFit, NeverDisabled, TapTimeoutSet
    PROVE  TapSpec => []DeadlineWakesHost
<1>1. TimerInv => DeadlineWakesHost
  BY DEF TimerInv, TimerType, TimersTypeOK, DeadlineKept, DeadlineWakesHost
<1> QED
  BY <1>1, DeadlineInductive, PTL

----------------------------------------------------------------------------
(* The callbacks.  Tap-to-click implements HostButtons as long as the fd is *)
(* not changed: touchpad_change_fd forgets the button a tap holds.          *)
HeldNow == IF tap_state \in HeldStates THEN {1} ELSE {}

(* What a handler may tell the host, and whether button 1 is held before   *)
(* and after it.                                                           *)
Shape ==
    \/ out' = <<>> /\ HeldNow' = HeldNow
    \/ HeldNow = {} /\ out' = <<Press(1)>> /\ HeldNow' = {1}
    \/ HeldNow = {} /\ HeldNow' = {} /\ \E n \in {2, 3} : out' = Click(n)
    \/ HeldNow = {1} /\ out' = <<Release(1)>> /\ HeldNow' = {}
    \/ HeldNow = {1} /\ out' = <<Release(1), Press(1), Release(1)>> /\ HeldNow' = {}

----------------------------------------------------------------------------
(* Whether a button is down after some callbacks: none of them ... *)
LEMMA DownAfterNone ==
    ASSUME NEW s, NEW b
    PROVE  Host!DownAfter(s, 0, b) <=> b \in HeldNow
BY DEF Host!DownAfter, HeldNow

(* ... or one more: the last one decides, if it is about the button. *)
LEMMA DownAfterOne ==
    ASSUME NEW s \in Seq(Host!Callback), NEW i \in 1 .. Len(s), NEW b \in 1 .. 3
    PROVE  Host!DownAfter(s, i, b) <=>
              IF s[i].button = b THEN s[i].press ELSE Host!DownAfter(s, i - 1, b)
<1>0. s[i] \in Host!Callback /\ i \in Nat /\ i >= 1
  OBVIOUS
<1>1. s[i].button \in 1 .. 3 /\ s[i].press \in BOOLEAN
      /\ s[i] = [button |-> s[i].button, press |-> s[i].press]
  BY <1>0 DEF Host!Callback
<1>2. CASE s[i].button = b /\ s[i].press
  <2>1. s[i] = [button |-> b, press |-> TRUE]
    BY <1>1, <1>2
  <2>2. \A j \in i + 1 .. i : s[j].button # b
    BY <1>0
  <2> QED
    BY <1>0, <1>2, <2>1, <2>2 DEF Host!DownAfter
<1>3. CASE s[i].button = b /\ ~s[i].press
  <2>1. s[i] # [button |-> b, press |-> TRUE]
    BY <1>3
  <2>2. ASSUME NEW k \in 1 .. i, s[k] = [button |-> b, press |-> TRUE],
               \A j \in k + 1 .. i : s[j].button # b
        PROVE  FALSE
    <3>1. k # i
      BY <2>1, <2>2
    <3>2. i \in k + 1 .. i
      BY <1>0, <3>1
    <3> QED
      BY <1>3, <2>2, <3>2
  <2>3. i \in 1 .. i
    BY <1>0
  <2> QED
    BY <1>3, <2>2, <2>3 DEF Host!DownAfter
<1>4. CASE s[i].button # b
  <2>1. \A k \in 1 .. i : (\A j \in k + 1 .. i : s[j].button # b)
                             <=> (\A j \in k + 1 .. i - 1 : s[j].button # b)
    BY <1>0, <1>4
  <2>2. (\A j \in 1 .. i : s[j].button # b) <=> (\A j \in 1 .. i - 1 : s[j].button # b)
    BY <1>0, <1>4
  <2>3. s[i] # [button |-> b, press |-> TRUE]
    BY <1>4
  <2>4. (\E k \in 1 .. i : s[k] = [button |-> b, press |-> TRUE]
                           /\ \A j \in k + 1 .. i : s[j].button # b)
        <=> (\E k \in 1 .. i - 1 : s[k] = [button |-> b, press |-> TRUE]
                           /\ \A j \in k + 1 .. i - 1 : s[j].button # b)
    <3>1. 1 .. i = (1 .. i - 1) \cup {i}
      BY <1>0
    <3> QED
      BY <2>1, <2>3, <3>1
  <2> QED
    BY <1>4, <2>2, <2>4 DEF Host!DownAfter
<1> QED
  BY <1>1, <1>2, <1>3, <1>4

LEMMA CallbackParts ==
    ASSUME NEW n \in 1 .. 3
    PROVE  /\ Press(n) \in Host!Callback /\ Press(n).button = n /\ Press(n).press
           /\ Release(n) \in Host!Callback /\ Release(n).button = n /\ ~Release(n).press
BY DEF Host!Callback, Press, Release

(* A press puts its button down ... *)
LEMMA PressedBy ==
    ASSUME NEW s \in Seq(Host!Callback), NEW i \in 1 .. Len(s), NEW j, j = i - 1,
           NEW n \in 1 .. 3, s[i] = Press(n), NEW b \in 1 .. 3
    PROVE  Host!DownAfter(s, i, b) <=> b = n \/ Host!DownAfter(s, j, b)
<1>1. s[i].button = n /\ s[i].press
  BY CallbackParts
<1>2. Host!DownAfter(s, i, b) <=>
         IF s[i].button = b THEN s[i].press ELSE Host!DownAfter(s, i - 1, b)
  BY DownAfterOne
<1> QED
  BY <1>1, <1>2

(* ... and a release lets it go. *)
LEMMA ReleasedBy ==
    ASSUME NEW s \in Seq(Host!Callback), NEW i \in 1 .. Len(s), NEW j, j = i - 1,
           NEW n \in 1 .. 3, s[i] = Release(n), NEW b \in 1 .. 3
    PROVE  Host!DownAfter(s, i, b) <=> b # n /\ Host!DownAfter(s, j, b)
<1>1. s[i].button = n /\ ~s[i].press
  BY CallbackParts
<1>2. Host!DownAfter(s, i, b) <=>
         IF s[i].button = b THEN s[i].press ELSE Host!DownAfter(s, i - 1, b)
  BY DownAfterOne
<1> QED
  BY <1>1, <1>2

(* The callbacks s alternate and leave the buttons of "after" down. *)
Alternate(s, after) ==
    /\ s \in Seq(Host!Callback)
    /\ \A i \in 1 .. Len(s) : s[i].press <=> ~Host!DownAfter(s, i - 1, s[i].button)
    /\ after = {b \in 1 .. 3 : Host!DownAfter(s, Len(s), b)}

(* One callback of an alternating sequence: a press of a button that is    *)
(* up, or a release of one that is down.                                   *)
LEMMA PressAlternates ==
    ASSUME NEW s, NEW i \in Nat, NEW j, j = i - 1, NEW n \in 1 .. 3,
           s[i] = Press(n), ~Host!DownAfter(s, j, n)
    PROVE  s[i].press <=> ~Host!DownAfter(s, i - 1, s[i].button)
BY CallbackParts

LEMMA ReleaseAlternates ==
    ASSUME NEW s, NEW i \in Nat, NEW j, j = i - 1, NEW n \in 1 .. 3,
           s[i] = Release(n), Host!DownAfter(s, j, n)
    PROVE  s[i].press <=> ~Host!DownAfter(s, i - 1, s[i].button)
BY CallbackParts

LEMMA PressAlone ==
    ASSUME HeldNow = {},
           NEW s \in Seq(Host!Callback), Len(s) = 1, s[1] = Press(1)
    PROVE  Alternate(s, {1})
<1>1. 1 \in 1 .. 3 /\ 0 = 1 - 1 /\ 1 \in 1 .. Len(s)
  OBVIOUS
<1>2. \A b \in 1 .. 3 : Host!DownAfter(s, 0, b) <=> b \in HeldNow
  BY DownAfterNone
<1>3. \A b \in 1 .. 3 : Host!DownAfter(s, 1, b) <=> b = 1 \/ Host!DownAfter(s, 0, b)
  BY <1>1, PressedBy
<1>4. s[1].press <=> ~Host!DownAfter(s, 1 - 1, s[1].button)
  <2>1. ~Host!DownAfter(s, 0, 1)
    BY <1>1, <1>2
  <2> QED
    BY <1>1, <2>1, PressAlternates
<1>5. {1} = {b \in 1 .. 3 : Host!DownAfter(s, Len(s), b)}
  BY <1>2, <1>3
<1>6. \A i \in 1 .. Len(s) : i = 1
  OBVIOUS
<1> QED
  BY <1>4, <1>5, <1>6 DEF Alternate

LEMMA ReleaseAlone ==
    ASSUME HeldNow = {1},
           NEW s \in Seq(Host!Callback), Len(s) = 1, s[1] = Release(1)
    PROVE  Alternate(s, {})
<1>1. 1 \in 1 .. 3 /\ 0 = 1 - 1 /\ 1 \in 1 .. Len(s)
  OBVIOUS
<1>2. \A b \in 1 .. 3 : Host!DownAfter(s, 0, b) <=> b \in HeldNow
  BY DownAfterNone
<1>3. \A b \in 1 .. 3 : Host!DownAfter(s, 1, b) <=> b # 1 /\ Host!DownAfter(s, 0, b)
  BY <1>1, ReleasedBy
<1>4. s[1].press <=> ~Host!DownAfter(s, 1 - 1, s[1].button)
  <2>1. Host!DownAfter(s, 0, 1)
    BY <1>1, <1>2
  <2> QED
    BY <1>1, <2>1, ReleaseAlternates
<1>5. {} = {b \in 1 .. 3 : Host!DownAfter(s, Len(s), b)}
  BY <1>2, <1>3
<1>6. \A i \in 1 .. Len(s) : i = 1
  OBVIOUS
<1> QED
  BY <1>4, <1>5, <1>6 DEF Alternate

LEMMA ClickAlone ==
    ASSUME HeldNow = {}, NEW n \in 1 .. 3,
           NEW s \in Seq(Host!Callback), Len(s) = 2, s[1] = Press(n), s[2] = Release(n)
    PROVE  Alternate(s, {})
<1>1. 1 \in 1 .. 3 /\ 0 = 1 - 1 /\ 1 = 2 - 1 /\ 1 \in 1 .. Len(s) /\ 2 \in 1 .. Len(s)
  OBVIOUS
<1>2. \A b \in 1 .. 3 : Host!DownAfter(s, 0, b) <=> b \in HeldNow
  BY DownAfterNone
<1>3. \A b \in 1 .. 3 : Host!DownAfter(s, 1, b) <=> b = n \/ Host!DownAfter(s, 0, b)
  BY <1>1, PressedBy
<1>4. \A b \in 1 .. 3 : Host!DownAfter(s, 2, b) <=> b # n /\ Host!DownAfter(s, 1, b)
  BY <1>1, ReleasedBy
<1>5. s[1].press <=> ~Host!DownAfter(s, 1 - 1, s[1].button)
  <2>1. ~Host!DownAfter(s, 0, n)
    BY <1>1, <1>2
  <2> QED
    BY <1>1, <2>1, PressAlternates
<1>6. s[2].press <=> ~Host!DownAfter(s, 2 - 1, s[2].button)
  <2>1. Host!DownAfter(s, 1, n)
    BY <1>1, <1>2, <1>3
  <2> QED
    BY <1>1, <2>1, ReleaseAlternates
<1>7. {} = {b \in 1 .. 3 : Host!DownAfter(s, Len(s), b)}
  BY <1>2, <1>3, <1>4
<1>8. \A i \in 1 .. Len(s) : i = 1 \/ i = 2
  OBVIOUS
<1> QED
  BY <1>5, <1>6, <1>7, <1>8 DEF Alternate

LEMMA ReleaseAndClick ==
    ASSUME HeldNow = {1},
           NEW s \in Seq(Host!Callback), Len(s) = 3,
           s[1] = Release(1), s[2] = Press(1), s[3] = Release(1)
    PROVE  Alternate(s, {})
<1>1. /\ 1 \in 1 .. 3 /\ 0 = 1 - 1 /\ 1 = 2 - 1 /\ 2 = 3 - 1
      /\ 1 \in 1 .. Len(s) /\ 2 \in 1 .. Len(s) /\ 3 \in 1 .. Len(s)
  OBVIOUS
<1>2. \A b \in 1 .. 3 : Host!DownAfter(s, 0, b) <=> b \in HeldNow
  BY DownAfterNone
<1>3. \A b \in 1 .. 3 : Host!DownAfter(s, 1, b) <=> b # 1 /\ Host!DownAfter(s, 0, b)
  BY <1>1, ReleasedBy
<1>4. \A b \in 1 .. 3 : Host!DownAfter(s, 2, b) <=> b = 1 \/ Host!DownAfter(s, 1, b)
  BY <1>1, PressedBy
<1>5. \A b \in 1 .. 3 : Host!DownAfter(s, 3, b) <=> b # 1 /\ Host!DownAfter(s, 2, b)
  BY <1>1, ReleasedBy
<1>6. s[1].press <=> ~Host!DownAfter(s, 1 - 1, s[1].button)
  <2>1. Host!DownAfter(s, 0, 1)
    BY <1>1, <1>2
  <2> QED
    BY <1>1, <2>1, ReleaseAlternates
<1>7. s[2].press <=> ~Host!DownAfter(s, 2 - 1, s[2].button)
  <2>1. ~Host!DownAfter(s, 1, 1)
    BY <1>1, <1>2, <1>3
  <2> QED
    BY <1>1, <2>1, PressAlternates
<1>8. s[3].press <=> ~Host!DownAfter(s, 3 - 1, s[3].button)
  <2>1. Host!DownAfter(s, 2, 1)
    BY <1>1, <1>2, <1>3, <1>4
  <2> QED
    BY <1>1, <2>1, ReleaseAlternates
<1>9. {} = {b \in 1 .. 3 : Host!DownAfter(s, Len(s), b)}
  BY <1>2, <1>3, <1>4, <1>5
<1>10. \A i \in 1 .. Len(s) : i = 1 \/ i = 2 \/ i = 3
  OBVIOUS
<1> QED
  BY <1>6, <1>7, <1>8, <1>9, <1>10 DEF Alternate

(* Every shape is a step of the host's specification. *)
LEMMA ShapeIsHostStep == Shape => Host!Next
<1> SUFFICES ASSUME Shape, NEW s, s = out' PROVE Host!Next
  OBVIOUS
<1>1. CASE s = <<>> /\ HeldNow' = HeldNow
  BY <1>1 DEF Host!Next, Host!Quiet, HeldNow
<1>2. CASE Alternate(s, HeldNow') /\ HeldNow' \subseteq {1}
  BY <1>2 DEF Alternate, Host!Next, Host!Post, Host!DownAfter, HeldNow
<1>3. CASE HeldNow = {} /\ s = <<Press(1)>> /\ HeldNow' = {1}
  <2>1. s \in Seq(Host!Callback) /\ Len(s) = 1 /\ s[1] = Press(1)
    BY <1>3, CallbackParts
  <2> QED
    BY <1>2, <1>3, <2>1, PressAlone
<1>4. CASE HeldNow = {1} /\ s = <<Release(1)>> /\ HeldNow' = {}
  <2>1. s \in Seq(Host!Callback) /\ Len(s) = 1 /\ s[1] = Release(1)
    BY <1>4, CallbackParts
  <2> QED
    BY <1>2, <1>4, <2>1, ReleaseAlone
<1>5. ASSUME HeldNow = {}, HeldNow' = {}, NEW n \in {2, 3}, s = Click(n) PROVE Host!Next
  <2>1. n \in 1 .. 3
    BY <1>5
  <2>2. /\ s \in Seq(Host!Callback) /\ Len(s) = 2
        /\ s[1] = Press(n) /\ s[2] = Release(n)
    BY <1>5, <2>1, CallbackParts DEF Click
  <2> QED
    BY <1>2, <1>5, <2>1, <2>2, ClickAlone
<1>6. CASE HeldNow = {1} /\ s = <<Release(1), Press(1), Release(1)>> /\ HeldNow' = {}
  <2>1. /\ s \in Seq(Host!Callback) /\ Len(s) = 3
        /\ s[1] = Release(1) /\ s[2] = Press(1) /\ s[3] = Release(1)
    BY <1>6, CallbackParts
  <2> QED
    BY <1>2, <1>6, <2>1, ReleaseAndClick
<1> QED
  BY <1>1, <1>3, <1>4, <1>5, <1>6 DEF Shape

----------------------------------------------------------------------------
(* Every event has one of the shapes. *)
LEMMA EventShape ==
    ASSUME NEW ev \in TapEvents, TapHandleEvent(ev)
    PROVE  Shape
<1> USE DEF Goto, Stay, Shape, HeldNow, HeldStates
<1>1. CASE ~enabled
  BY <1>1 DEF TapHandleEvent, TapQuiet
<1>2. CASE TapIdle(ev)
  BY <1>2 DEF TapIdle
<1>3. CASE TapTouch(ev)
  BY <1>3 DEF TapTouch
<1>4. CASE TapHold(ev)
  BY <1>4 DEF TapHold
<1>5. CASE TapTapped(ev)
  BY <1>5 DEF TapTapped
<1>6. CASE TapTouch2(ev)
  BY <1>6 DEF TapTouch2
<1>7. CASE TapTouch2Hold(ev)
  BY <1>7 DEF TapTouch2Hold
<1>8. CASE TapTouch3(ev)
  BY <1>8 DEF TapTouch3
<1>9. CASE TapTouch3Hold(ev)
  BY <1>9 DEF TapTouch3Hold
<1>10. CASE TapDraggingOrDoubletap(ev)
  BY <1>10 DEF TapDraggingOrDoubletap
<1>11. CASE TapDragging(ev)
  BY <1>11 DEF TapDragging
<1>12. CASE TapDraggingWait(ev)
  BY <1>12 DEF TapDraggingWait
<1>13. CASE TapDragging2(ev)
  BY <1>13 DEF TapDragging2
<1>14. CASE TapDead(ev)
  BY <1>14 DEF TapDead
<1> QED
  BY <1>1, <1>2, <1>3, <1>4, <1>5, <1>6, <1>7, <1>8, <1>9, <1>10, <1>11, <1>12, <1>13,
     <1>14
  DEF TapHandleEvent

(* So have the timeouts. *)
LEMMA TimeoutsShape ==
    ASSUME NEW n, HandleTimeouts(n)
    PROVE  Shape
<1>1. TapHandleEvent("TIMEOUT") \/ (out' = <<>> /\ tap_state' = tap_state)
  BY DEF HandleTimeouts, TapQuiet
<1> QED
  BY <1>1, EventShape DEF TapEvents, Shape, HeldNow

LEMMA StepShape ==
    ASSUME fd_changes = MaxFdChanges, [TapNext]_allVars
    PROVE  Shape \/ UNCHANGED <<tap_state, out>>
<1>1. CASE KernelEvent \/ TapPostProcess
  BY <1>1 DEF KernelEvent, TapPostProcess, TapQuiet, Shape, HeldNow
<1>2. ASSUME NEW e \in Time, TapSynReport(e) \/ TapSynIgnored(e) PROVE Shape
  BY <1>2, TimeoutsShape DEF TapSynReport, TapSynIgnored
<1>3. CASE TapHandleState
  <2>1. TapQuiet \/ \E ev \in TapEvents : TapHandleEvent(ev)
    BY <1>3 DEF TapHandleState, TapButtons, TapTouchBegins, TapTouchEnds, TapTouchMoves,
                TapTouchSkipped, TapLoop, TapEvents
  <2> QED
    BY <2>1, EventShape DEF TapQuiet, Shape, HeldNow
<1>4. CASE TapAgain
  BY <1>4, TimeoutsShape DEF TapAgain
<1>5. CASE TapHandleEvents \/ TapTick \/ TapConfigSetEnable
  BY <1>5 DEF TapHandleEvents, TapTick, TapConfigSetEnable, Shape, HeldNow
<1>6. ~TapChangeFd
  BY FdChangesAssumption DEF TapChangeFd, ChangeFd
<1>7. CASE UNCHANGED allVars
  BY <1>7 DEF allVars, tapVars
<1> QED
  BY <1>1, <1>2, <1>3, <1>4, <1>5, <1>6, <1>7 DEF TapNext

(* The tap callbacks implement the abstract host: for every finger count    *)
(* press and release alternate, and only a one-finger tap is held.         *)
THEOREM TapImplementsHost ==
    ASSUME MaxFdChanges = 0
    PROVE  TapSpec => ButtonsAlternate
<1>1. TapInit => Host!Init
  BY DEF TapInit, Host!Init, HeldStates
<1>2. TypeOK /\ [TapNext]_allVars => [Host!Next]_(Host!vars)
  <2> SUFFICES ASSUME TypeOK, [TapNext]_allVars PROVE [Host!Next]_(Host!vars)
    OBVIOUS
  <2>1. fd_changes = MaxFdChanges
    BY DEF TypeOK
  <2>2. CASE Shape
    BY <2>2, ShapeIsHostStep
  <2>3. CASE UNCHANGED <<tap_state, out>>
    BY <2>3 DEF Host!vars
  <2> QED
    BY <2>1, <2>2, <2>3, StepShape
<1>3. TapSpec => []TypeOK
  BY TapImplementsTouches, TypeCorrect, PTL
<1> QED
  BY <1>1, <1>2, <1>3, PTL DEF TapSpec, ButtonsAlternate, Host!Spec

----------------------------------------------------------------------------
(* Types *)

LEMMA NextTimeoutType ==
    ASSUME NEW d \in Nat
    PROVE  NextTimeout(0, d) \in Nat
<1>1. AsInt(d) \in Int /\ (AsInt(d) < 0 => AsInt(d) + 2 * (INT_MAX + 1) = d)
  BY TimeAssumption DEF AsInt
<1>2. AsUnsigned(AsInt(d)) \in Nat
  BY <1>1, TimeAssumption DEF AsUnsigned
<1> QED
  BY <1>1, <1>2 DEF NextTimeout

LEMMA RequestType ==
    ASSUME ms \in Nat, next_timeout \in Nat, timerfd \in Nat, RequestTimer(TapTimeout)
    PROVE  next_timeout' \in Nat /\ timerfd' \in Nat
BY TapTimeoutAssumption DEF RequestTimer, fdVars

(* Every event leads to a state of the machine and makes callbacks of the   *)
(* types it should.                                                        *)
LEMMA GotoType ==
    ASSUME NEW ev, NEW next \in TapStates, NEW timer, NEW callbacks, ms \in Nat,
           tap_timeout \in Nat, next_timeout \in Nat, timerfd \in Nat,
           callbacks \in Seq(Host!Callback), Goto(ev, next, timer, callbacks)
    PROVE  /\ tap_state' \in TapStates /\ tap_timeout' \in Nat
           /\ out' \in Seq(Host!Callback)
           /\ ev # "TIMEOUT" => next_timeout' \in Nat /\ timerfd' \in Nat
<1>1. tap_timeout' \in Nat
  BY TapTimeoutAssumption DEF Goto
<1>2. ev # "TIMEOUT" => next_timeout' \in Nat /\ timerfd' \in Nat
  BY RequestType DEF Goto, fdVars
<1> QED
  BY <1>1, <1>2 DEF Goto

LEMMA CallbacksType ==
    /\ <<>> \in Seq(Host!Callback)
    /\ <<Press(1)>> \in Seq(Host!Callback) /\ <<Release(1)>> \in Seq(Host!Callback)
    /\ Click(2) \in Seq(Host!Callback) /\ Click(3) \in Seq(Host!Callback)
    /\ <<Release(1), Press(1), Release(1)>> \in Seq(Host!Callback)
BY CallbackParts DEF Click

LEMMA EventType ==
    ASSUME ms \in Nat, tap_state \in TapStates, tap_timeout \in Nat, next_timeout \in Nat,
           timerfd \in Nat, NEW ev \in TapEvents, TapHandleEvent(ev)
    PROVE  /\ tap_state' \in TapStates /\ tap_timeout' \in Nat
           /\ out' \in Seq(Host!Callback)
           /\ ev # "TIMEOUT" => next_timeout' \in Nat /\ timerfd' \in Nat
<1>0. \A s \in {"IDLE", "TOUCH", "HOLD", "TAPPED", "TOUCH_2", "TOUCH_2_HOLD",
              "TOUCH_3", "TOUCH_3_HOLD", "DRAGGING_OR_DOUBLETAP", "DRAGGING",
              "DRAGGING_WAIT", "DRAGGING_2", "DEAD"} : s \in TapStates
  BY DEF TapStates
<1>1. ASSUME TapQuiet
      PROVE  /\ tap_state' \in TapStates /\ tap_timeout' \in Nat
             /\ out' \in Seq(Host!Callback) /\ next_timeout' \in Nat /\ timerfd' \in Nat
  BY <1>1, CallbacksType DEF TapQuiet, fdVars
<1>2. ASSUME NEW next \in TapStates, NEW timer \in {"set", "clear", "keep"},
             NEW c \in {<<>>, <<Press(1)>>, <<Release(1)>>, Click(2), Click(3),
                        <<Release(1), Press(1), Release(1)>>},
             Goto(ev, next, timer, c)
      PROVE  /\ tap_state' \in TapStates /\ tap_timeout' \in Nat
             /\ out' \in Seq(Host!Callback)
             /\ ev # "TIMEOUT" => next_timeout' \in Nat /\ timerfd' \in Nat
  BY <1>2, CallbacksType, GotoType
<1>3. CASE enabled
  <2>1. \E next \in TapStates : \E timer \in {"set", "clear", "keep"} :
        \E c \in {<<>>, <<Press(1)>>, <<Release(1)>>, Click(2), Click(3),
                        <<Release(1), Press(1), Release(1)>>} : Goto(ev, next, timer, c)
    <3>1. CASE TapIdle(ev) \/ TapTouch(ev) \/ TapHold(ev) \/ TapTapped(ev)
      BY <1>0, <3>1, Zenon DEF TapIdle, TapTouch, TapHold, TapTapped, Stay
    <3>2. CASE \/ TapTouch2(ev) \/ TapTouch2Hold(ev) \/ TapTouch3(ev) \/ TapTouch3Hold(ev)
      BY <1>0, <3>2, Zenon DEF TapTouch2, TapTouch2Hold, TapTouch3, TapTouch3Hold, Stay
    <3>3. CASE TapDraggingOrDoubletap(ev) \/ TapDragging(ev)
      BY <1>0, <3>3, Zenon DEF TapDraggingOrDoubletap, TapDragging, Stay
    <3>4. CASE TapDraggingWait(ev) \/ TapDragging2(ev) \/ TapDead(ev)
      BY <1>0, <3>4, Zenon DEF TapDraggingWait, TapDragging2, TapDead, Stay
    <3> QED
      BY <1>3, <3>1, <3>2, <3>3, <3>4 DEF TapHandleEvent
  <2> QED
    BY <1>2, <2>1
<1>4. CASE ~enabled
  BY <1>1, <1>4 DEF TapHandleEvent
<1> QED
  BY <1>3, <1>4

LEMMA TimeoutsType ==
    ASSUME TapTypeOK, NEW n \in Time, HandleTimeouts(n)
    PROVE  /\ tap_state' \in TapStates /\ tap_timeout' \in Nat
           /\ out' \in Seq(Host!Callback)
           /\ next_timeout' \in Nat /\ timerfd' \in Nat
<1>0. /\ ms \in Nat /\ tap_state \in TapStates /\ tap_timeout \in Nat
      /\ next_timeout \in Nat /\ timerfd \in Nat
  BY TimeAssumption DEF TapTypeOK, TimersTypeOK, Time
<1>1. CASE ~Due(n)
  BY <1>0, <1>1, CallbacksType DEF HandleTimeouts, TapQuiet, fdVars
<1>2. CASE Due(n)
  <2>1. /\ \/ TapHandleEvent("TIMEOUT")
           \/ out' = <<>> /\ UNCHANGED <<tap_state, tap_timeout>>
        /\ next_timeout' = NextTimeout(0, IF enabled THEN tap_timeout' ELSE 0)
        /\ timerfd' = timerfd
    BY <1>2 DEF HandleTimeouts
  <2>2. tap_state' \in TapStates /\ tap_timeout' \in Nat /\ out' \in Seq(Host!Callback)
    BY <1>0, <2>1, EventType, CallbacksType DEF TapEvents
  <2>3. next_timeout' \in Nat
    BY <2>1, <2>2, NextTimeoutType
  <2> QED
    BY <1>0, <2>1, <2>2, <2>3
<1> QED
  BY <1>1, <1>2

LEMMA TapTypeStep ==
    ASSUME TapTypeOK, TypeOK', [TapNext]_allVars
    PROVE  TapTypeOK'
<1>0. /\ TimersTypeOK /\ tap_state \in TapStates /\ tap_timeout \in Nat
      /\ enabled \in BOOLEAN /\ ti \in -1 .. ntouches /\ ntouches \in Nat
      /\ out \in Seq(Host!Callback) /\ <<>> \in Seq(Host!Callback)
  BY LiveFinite, CallbacksType DEF TapTypeOK, Host!Callback
<1>1. ASSUME TimersTypeOK', tap_state' \in TapStates, tap_timeout' \in Nat,
             enabled' \in BOOLEAN, ti' \in -1 .. ntouches, out' \in Seq(Host!Callback)
      PROVE  TapTypeOK'
  BY <1>1 DEF TapTypeOK, Host!Callback
<1>2. ASSUME TapQuiet, UNCHANGED <<clockVars, enabled>>, ti' \in -1 .. ntouches
      PROVE  TapTypeOK'
  BY <1>0, <1>1, <1>2 DEF TapQuiet, TimersTypeOK, clockVars, fdVars
<1>3. ASSUME NEW n \in Time, HandleTimeouts(n), UNCHANGED <<now, enabled, ti>>,
             floor' = n, ms' \in {ms, n}
      PROVE  TapTypeOK'
  <2>1. /\ tap_state' \in TapStates /\ tap_timeout' \in Nat
        /\ out' \in Seq(Host!Callback) /\ next_timeout' \in Nat /\ timerfd' \in Nat
    BY <1>3, TimeoutsType
  <2>2. TimersTypeOK'
    BY <1>0, <1>3, <2>1 DEF TimersTypeOK
  <2> QED
    BY <1>0, <1>1, <1>3, <2>1, <2>2
<1>4. CASE KernelEvent \/ TapPostProcess
  BY <1>0, <1>2, <1>4 DEF KernelEvent, TapPostProcess
<1>5. ASSUME NEW e \in Time, TapSynReport(e) \/ TapSynIgnored(e) PROVE TapTypeOK'
  BY <1>3, <1>5 DEF TapSynReport, TapSynIgnored
<1>6. CASE TapHandleState
  <2>1. /\ TapQuiet \/ \E ev \in TapEvents \ {"TIMEOUT"} : TapHandleEvent(ev)
        /\ ti' = 0 \/ (ti \in Touch /\ ti' = ti + 1)
        /\ UNCHANGED <<clockVars, enabled>>
    BY <1>6 DEF TapHandleState, TapButtons, TapTouchBegins, TapTouchEnds, TapTouchMoves,
                TapTouchSkipped, TapLoop, TapEvents
  <2>2. ti' \in -1 .. ntouches
    BY <1>0, <2>1 DEF Touch
  <2>3. ASSUME NEW ev \in TapEvents \ {"TIMEOUT"}, TapHandleEvent(ev) PROVE TapTypeOK'
    <3>1. ms \in Nat /\ next_timeout \in Nat /\ timerfd \in Nat
      BY <1>0, TimeAssumption DEF TimersTypeOK, Time
    <3>2. /\ tap_state' \in TapStates /\ tap_timeout' \in Nat
          /\ out' \in Seq(Host!Callback) /\ next_timeout' \in Nat /\ timerfd' \in Nat
      BY <1>0, <2>3, <3>1, EventType
    <3>3. TimersTypeOK'
      BY <1>0, <2>1, <3>2 DEF TimersTypeOK, clockVars
    <3> QED
      BY <1>0, <1>1, <2>1, <2>2, <3>2, <3>3
  <2> QED
    BY <1>2, <2>1, <2>2, <2>3
<1>7. CASE TapHandleEvents
  <2>1. TimersTypeOK'
    BY <1>0, <1>7 DEF TapHandleEvents, Drain, TimersTypeOK, clockVars
  <2> QED
    BY <1>0, <1>1, <1>7, <2>1 DEF TapHandleEvents
<1>8. CASE TapAgain
  <2>1. now \in Time
    BY <1>0 DEF TimersTypeOK
  <2> QED
    BY <1>3, <1>8, <2>1 DEF TapAgain
<1>9. CASE TapTick
  <2>1. TimersTypeOK'
    BY <1>0, <1>9, TimeAssumption DEF TapTick, Tick, TimersTypeOK, Time, fdVars
  <2> QED
    BY <1>0, <1>1, <1>9, <2>1 DEF TapTick
<1>10. CASE TapChangeFd \/ TapConfigSetEnable
  <2>1. TimersTypeOK'
    BY <1>0, <1>10
    DEF TapChangeFd, TapConfigSetEnable, TimersTypeOK, timerVars, clockVars, fdVars
  <2>2. tap_state' \in TapStates
    BY <1>0, <1>10 DEF TapChangeFd, TapConfigSetEnable, TapStates
  <2> QED
    BY <1>0, <1>1, <1>10, <2>1, <2>2 DEF TapChangeFd, TapConfigSetEnable
<1>11. CASE UNCHANGED allVars
  <2>1. TimersTypeOK'
    BY <1>0, <1>11 DEF allVars, TimersTypeOK, timerVars, clockVars, fdVars
  <2> QED
    BY <1>0, <1>1, <1>11, <2>1 DEF allVars, tapVars
<1> QED
  BY <1>4, <1>5, <1>6, <1>7, <1>8, <1>9, <1>10, <1>11 DEF TapNext

(* Type correctness, with a next_timeout that goes through an int and back. *)
THEOREM TapTypeCorrect == TapSpec => []TapTypeOK
<1>1. TapInit /\ TypeOK => TapTypeOK
  <2> SUFFICES ASSUME TapInit, TypeOK PROVE TapTypeOK
    OBVIOUS
  <2>1. TimersTypeOK
    BY TimeAssumption DEF TapInit, TimersInit, TimersTypeOK, Time
  <2>2. ti \in -1 .. ntouches
    BY LiveFinite DEF TapInit
  <2> QED
    BY <2>1, <2>2 DEF TapInit, TapTypeOK, TapStates
<1>2. TapTypeOK /\ TypeOK' /\ [TapNext]_allVars => TapTypeOK'
  BY TapTypeStep
<1>3. TapSpec => []TypeOK
  BY TapImplementsTouches, TypeCorrect, PTL
<1> QED
  BY <1>1, <1>2, <1>3, PTL DEF TapSpec

----------------------------------------------------------------------------
(* Counting fingers *)

(* The fingers of every state but DEAD. *)
LEMMA FingersType ==
    ASSUME NEW s \in TapStates \ {"DEAD"}
    PROVE  FingersOf(s) \in 0 .. 3 /\ (s = "IDLE" => FingersOf(s) = 0)
BY DEF TapStates, FingersOf

(* What one event does to the fingers the machine believes in: a touch adds *)
(* one, a release takes one away if there is one, the button ends it all.   *)
Counts(ev) ==
    /\ tap_state' \in TapStates
    /\ tap_state = "DEAD" => \/ tap_state' = "DEAD"
                             \/ tap_state' = "IDLE" /\ ev = "RELEASE" /\ fingers_down = 0
    /\ tap_state # "DEAD" =>
          /\ ev = "BUTTON" => tap_state' = "DEAD"
          /\ ev = "TOUCH" => \/ tap_state' = "DEAD"
                             \/ FingersOf(tap_state') = FingersOf(tap_state) + 1
          /\ ev = "RELEASE" =>
                /\ tap_state' # "DEAD"
                /\ FingersOf(tap_state) = 0 => tap_state' = tap_state
                /\ FingersOf(tap_state) # 0 =>
                      FingersOf(tap_state') = FingersOf(tap_state) - 1
          /\ ev \in {"MOTION", "TIMEOUT"} =>
                /\ tap_state' # "DEAD" /\ FingersOf(tap_state') = FingersOf(tap_state)
                /\ tap_state = "IDLE" => tap_state' = "IDLE"

LEMMA MachineCounts ==
    ASSUME enabled = TRUE, tap_state \in TapStates, NEW ev \in TapEvents, TapHandleEvent(ev)
    PROVE  Counts(ev)
<1> USE DEF Goto, Stay, TapStates, FingersOf, Counts
<1>1. CASE TapIdle(ev)
  BY <1>1 DEF TapIdle
<1>2. CASE TapTouch(ev)
  BY <1>2 DEF TapTouch
<1>3. CASE TapHold(ev)
  BY <1>3 DEF TapHold
<1>4. CASE TapTapped(ev)
  BY <1>4 DEF TapTapped
<1>5. CASE TapTouch2(ev)
  BY <1>5 DEF TapTouch2
<1>6. CASE TapTouch2Hold(ev)
  BY <1>6 DEF TapTouch2Hold
<1>7. CASE TapTouch3(ev)
  BY <1>7 DEF TapTouch3
<1>8. CASE TapTouch3Hold(ev)
  BY <1>8 DEF TapTouch3Hold
<1>9. CASE TapDraggingOrDoubletap(ev)
  BY <1>9 DEF TapDraggingOrDoubletap
<1>10. CASE TapDragging(ev)
  BY <1>10 DEF TapDragging
<1>11. CASE TapDraggingWait(ev)
  BY <1>11 DEF TapDraggingWait
<1>12. CASE TapDragging2(ev)
  BY <1>12 DEF TapDragging2
<1>13. CASE TapDead(ev)
  BY <1>13 DEF TapDead
<1> QED
  BY <1>1, <1>2, <1>3, <1>4, <1>5, <1>6, <1>7, <1>8, <1>9, <1>10, <1>11, <1>12, <1>13
  DEF TapHandleEvent

(* The driver reports a slot once per frame. *)
OncePerFrame == "same_frame" \notin Quirks

(* The fingers the machine has been told of: those of the last frame, and   *)
(* up to the loop's place in this one, those of this frame.                 *)
Known == {t \in Touch : IF t < ti THEN state[t] \in {"BEGIN", "UPDATE"}
                                   ELSE state[t] \in {"UPDATE", "END"}}

(* Where a frame is: the loop runs only when one is handled, and a touch    *)
(* has begun or ended only if it was reported in this frame.                *)
FrameInv ==
    /\ enabled = TRUE
    /\ tap_state \in TapStates
    /\ ti \in -1 .. ntouches
    /\ pc # "post_events" => ti = -1
    /\ pc = "post_events" => queued # {}
    /\ \A t \in Touch : state[t] \in {"BEGIN", "END"} => pc = "post_events" \/ t \in reported

(* The machine counts the fingers it has been told of.  A machine that was  *)
(* DEAD is IDLE once fingers_down is zero, which is before it is told of    *)
(* the other fingers that left in the same frame.                           *)
CountInv ==
    \/ tap_state = "DEAD"
    \/ FingersOf(tap_state) = Cardinality(Known)
    \/ tap_state = "IDLE" /\ Live = {} /\ ti >= 0

LEMMA KnownFinite == IsFiniteSet(Known) /\ Cardinality(Known) \in Nat
<1>1. IsFiniteSet(Touch)
  BY LiveFinite, FS_Interval DEF Touch
<1>2. IsFiniteSet(Known)
  BY <1>1, FS_Subset DEF Known
<1> QED
  BY <1>2, FS_CardinalityType

(* A step after which the machine knows as many fingers as before. *)
LEMMA SameCount ==
    ASSUME CountInv, FrameInv, Known' = Known, Live' = Live,
           ti' >= 0 \/ ti < 0,
           \/ tap_state' = tap_state
           \/ tap_state' = "DEAD"
           \/ tap_state # "DEAD" /\ FingersOf(tap_state') = FingersOf(tap_state)
              /\ (tap_state = "IDLE" => tap_state' = "IDLE")
    PROVE  CountInv'
BY DEF CountInv, FrameInv

(* A kernel event: a touch begins that was not known, or a known one ends. *)
LEMMA KernelKnown ==
    ASSUME OncePerFrame, IInv, FrameInv, CountInv, KernelEvent
    PROVE  FrameInv' /\ CountInv'
<1>0. /\ UNCHANGED <<tap_state, enabled, ti>> /\ pc = "read" /\ pc' = "read" /\ ti = -1
      /\ state \in [Touch -> TouchStates]
  BY DEF KernelEvent, TapQuiet, FrameInv, AbsMtSlot, AbsMtPosition, AbsMtTrackingIdBegin,
         AbsMtTrackingIdEnd, ButtonPress, ButtonRelease, IInv, TypeOK
<1>1. \A t \in Touch : /\ state'[t] \in {"UPDATE", "END"} <=> state[t] \in {"UPDATE", "END"}
                       /\ state'[t] \in {"BEGIN", "END"} => t \in reported'
  <2>0. \A t \in Touch : state[t] \in {"BEGIN", "END"} => t \in reported
    BY <1>0 DEF FrameInv
  <2>1. CASE state' = state /\ reported' = reported
    BY <2>0, <2>1
  <2>2. CASE AbsMtTrackingIdBegin
    <3>1. reported' = reported \cup {slot} /\ slot \notin reported
      BY <2>2 DEF AbsMtTrackingIdBegin, MayReport, OncePerFrame
    <3>2. CASE NoTouch
      BY <2>0, <2>2, <3>1, <3>2 DEF AbsMtTrackingIdBegin, touchVars
    <3>3. CASE ~NoTouch
      BY <1>0, <2>0, <2>2, <3>1, <3>3
      DEF AbsMtTrackingIdBegin, BeginTouch, NoTouch, TouchStates
    <3> QED
      BY <3>2, <3>3
  <2>3. CASE AbsMtTrackingIdEnd
    <3>1. reported' = reported \cup {slot} /\ slot \notin reported
      BY <2>3 DEF AbsMtTrackingIdEnd, MayReport, OncePerFrame
    <3>2. CASE NoTouch
      BY <2>0, <2>3, <3>1, <3>2 DEF AbsMtTrackingIdEnd, touchVars
    <3>3. CASE ~NoTouch
      BY <1>0, <2>0, <2>3, <3>1, <3>3
      DEF AbsMtTrackingIdEnd, EndTouch, NoTouch, TouchStates, touchVars
    <3> QED
      BY <3>2, <3>3
  <2>4. CASE AbsMtPosition \/ \E s \in Slots : AbsMtSlot(s)
    BY <2>1, <2>4 DEF AbsMtPosition, AbsMtSlot, kernelVars, touchVars
  <2>5. CASE \E b \in Buttons : ButtonPress(b) \/ ButtonRelease(b)
    BY <2>1, <2>5 DEF ButtonPress, ButtonRelease
  <2> QED
    BY <2>2, <2>3, <2>4, <2>5 DEF KernelEvent
<1>2. Known' = Known
  <2>1. \A t \in Touch : t \in Nat
    BY DEF Touch
  <2>2. Known = {t \in Touch : state[t] \in {"UPDATE", "END"}}
    BY <1>0, <2>1 DEF Known
  <2>3. Known' = {t \in Touch : state'[t] \in {"UPDATE", "END"}}
    BY <1>0, <2>1 DEF Known
  <2> QED
    BY <1>1, <2>2, <2>3
<1>3. FrameInv'
  BY <1>0, <1>1 DEF FrameInv
<1>4. CountInv'
  BY <1>0, <1>2 DEF CountInv
<1> QED
  BY <1>3, <1>4

(* The loop, one touch further. *)
LEMMA LoopKnown ==
    ASSUME FrameInv, UNCHANGED state, ti \in Touch, ti' = ti + 1
    PROVE  /\ state[ti] = "BEGIN" => ti \notin Known /\ Known' = Known \cup {ti}
           /\ state[ti] = "END" => ti \in Known /\ Known' = Known \ {ti}
           /\ state[ti] \in {"NONE", "UPDATE"} => Known' = Known
<1>0. ti \in Nat /\ \A t \in Touch : t \in Nat /\ (t < ti + 1 <=> t < ti \/ t = ti)
  BY DEF Touch
<1>1. \A t \in Touch : t \in Known <=> IF t < ti THEN state[t] \in {"BEGIN", "UPDATE"}
                                                 ELSE state[t] \in {"UPDATE", "END"}
  BY DEF Known
<1>2. \A t \in Touch : t \in Known' <=> IF t < ti + 1 THEN state[t] \in {"BEGIN", "UPDATE"}
                                                      ELSE state[t] \in {"UPDATE", "END"}
  BY DEF Known
<1>3. Known \subseteq Touch /\ Known' \subseteq Touch
  BY DEF Known
<1>4. \A t \in Touch \ {ti} : t \in Known' <=> t \in Known
  BY <1>0, <1>1, <1>2
<1>5. /\ ti \in Known <=> state[ti] \in {"UPDATE", "END"}
      /\ ti \in Known' <=> state[ti] \in {"BEGIN", "UPDATE"}
  BY <1>0, <1>1, <1>2
<1>6. CASE state[ti] = "BEGIN"
  BY <1>3, <1>4, <1>5, <1>6
<1>7. CASE state[ti] = "END"
  BY <1>3, <1>4, <1>5, <1>7
<1>8. CASE state[ti] \in {"NONE", "UPDATE"}
  BY <1>3, <1>4, <1>5, <1>8
<1> QED
  BY <1>6, <1>7, <1>8

LEMMA LoopCounts ==
    ASSUME IInv, ChangesAreQueued, FrameInv, CountInv, TapHandleState
    PROVE  FrameInv' /\ CountInv'
<1>0. /\ enabled = TRUE /\ tap_state \in TapStates /\ ntouches \in Nat
      /\ UNCHANGED <<state, dirty, queued, reported, fingers_down, pc, enabled>>
      /\ pc = "post_events" /\ ti \in -1 .. ntouches
  BY LiveFinite DEF FrameInv, TapHandleState, TapButtons, TapTouchBegins, TapTouchEnds,
         TapTouchMoves, TapTouchSkipped, TapLoop, vars, kernelVars, touchVars
<1>1. Live' = Live /\ IsFiniteSet(Live)
  BY <1>0, LiveFinite DEF Live
<1>2. ASSUME tap_state' \in TapStates, ti' \in -1 .. ntouches
      PROVE  FrameInv'
  BY <1>0, <1>2 DEF FrameInv
<1>3. CASE TapButtons
  <2>1. ti = -1 /\ ti' = 0 /\ \A t \in Touch : ~(t < ti) /\ ~(t < ti')
    BY <1>3 DEF TapButtons, Touch
  <2>2. Known' = Known
    BY <1>0, <2>1 DEF Known
  <2>3. tap_state' = tap_state \/ Counts("BUTTON")
    BY <1>0, <1>3, MachineCounts DEF TapButtons, TapQuiet, TapEvents
  <2>4. tap_state' \in TapStates /\ (tap_state' = tap_state \/ tap_state' = "DEAD")
    BY <1>0, <2>3 DEF Counts
  <2>5. CountInv'
    BY <1>1, <2>1, <2>2, <2>4, SameCount
  <2>6. ti' \in -1 .. ntouches
    BY <1>0, <2>1
  <2> QED
    BY <1>2, <2>4, <2>5, <2>6
<1>4. CASE TapTouchBegins
  <2>1. ti \in Touch /\ ti' = ti + 1 /\ state[ti] = "BEGIN" /\ Counts("TOUCH")
    BY <1>0, <1>4, MachineCounts DEF TapTouchBegins, TapLoop, TapEvents
  <2>2. ti \notin Known /\ Known' = Known \cup {ti}
    BY <1>0, <2>1, LoopKnown
  <2>3. Cardinality(Known') = Cardinality(Known) + 1
    BY <2>2, KnownFinite, FS_AddElement
  <2>4. Live # {}
    BY <2>1 DEF Live
  <2>5. CountInv'
    BY <2>1, <2>3, <2>4 DEF CountInv, Counts
  <2>6. ti' \in -1 .. ntouches
    BY <1>0, <2>1 DEF Touch
  <2> QED
    BY <1>2, <2>1, <2>5, <2>6 DEF Counts
<1>5. CASE TapTouchEnds
  <2>1. ti \in Touch /\ ti' = ti + 1 /\ state[ti] = "END" /\ Counts("RELEASE")
    BY <1>0, <1>5, MachineCounts DEF TapTouchEnds, TapLoop, TapEvents
  <2>2. ti \in Known /\ Known' = Known \ {ti}
    BY <1>0, <2>1, LoopKnown
  <2>3. Cardinality(Known') = Cardinality(Known) - 1
    BY <2>2, KnownFinite, FS_RemoveElement
  <2>4. Cardinality(Known) # 0
    BY <2>2, KnownFinite, FS_EmptySet
  <2>5. ti' \in -1 .. ntouches /\ ti' >= 0
    BY <1>0, <2>1 DEF Touch
  <2>6. fingers_down = 0 => Live = {}
    <3>1. fingers_down >= Cardinality(Live) /\ Cardinality(Live) \in Nat
      BY LiveFinite DEF IInv, CountCovers
    <3>2. fingers_down = 0 => Cardinality(Live) = 0
      BY <3>1
    <3> QED
      BY <1>1, <3>2, FS_EmptySet
  <2>7. CountInv'
    <3>1. CASE tap_state = "DEAD"
      BY <1>1, <2>1, <2>5, <2>6, <3>1 DEF CountInv, Counts
    <3>2. CASE tap_state # "DEAD" /\ FingersOf(tap_state) = Cardinality(Known)
      BY <2>1, <2>3, <2>4, <3>2 DEF CountInv, Counts
    <3>3. CASE tap_state = "IDLE" /\ Live = {}
      <4>1. FingersOf(tap_state) = 0 /\ tap_state # "DEAD"
        BY <3>3 DEF FingersOf
      <4> QED
        BY <1>1, <2>1, <2>5, <3>3, <4>1 DEF CountInv, Counts
    <3> QED
      BY <3>1, <3>2, <3>3 DEF CountInv
  <2> QED
    BY <1>2, <2>1, <2>5, <2>7 DEF Counts
<1>6. CASE TapTouchMoves \/ TapTouchSkipped
  <2>1. /\ ti \in Touch /\ ti' = ti + 1 /\ state[ti] \in {"NONE", "UPDATE"}
        /\ tap_state' = tap_state \/ Counts("MOTION")
    <3>1. ti \in Touch /\ ti' = ti + 1
      BY <1>6 DEF TapTouchMoves, TapTouchSkipped, TapLoop
    <3>2. state[ti] \in {"NONE", "UPDATE"} \/ ~dirty[ti]
      BY <1>6 DEF TapTouchMoves, TapTouchSkipped, TapLoop
    <3>3. state[ti] \in TouchStates
      BY <3>1 DEF IInv, TypeOK
    <3>4. tap_state' = tap_state \/ Counts("MOTION")
      BY <1>0, <1>6, MachineCounts
      DEF TapTouchMoves, TapTouchSkipped, TapLoop, TapQuiet, TapEvents
    <3> QED
      BY <3>1, <3>2, <3>3, <3>4 DEF ChangesAreQueued, TouchStates
  <2>2. Known' = Known
    BY <1>0, <2>1, LoopKnown
  <2>3. ti' \in -1 .. ntouches /\ ti' >= 0
    BY <1>0, <2>1 DEF Touch
  <2>4. tap_state' \in TapStates
    BY <1>0, <2>1 DEF Counts
  <2>5. CountInv'
    BY <1>1, <2>1, <2>2, <2>3, SameCount DEF Counts
  <2> QED
    BY <1>2, <2>3, <2>4, <2>5
<1> QED
  BY <1>3, <1>4, <1>5, <1>6 DEF TapHandleState

(* The timeouts run where no touch is in the middle of the loop. *)
LEMMA TimeoutsCount ==
    ASSUME FrameInv, CountInv, NEW n, HandleTimeouts(n), ti = -1, ti' = -1,
           UNCHANGED <<state, enabled>>
    PROVE  tap_state' \in TapStates /\ CountInv'
<1>1. enabled = TRUE /\ tap_state \in TapStates
  BY DEF FrameInv
<1>2. tap_state' = tap_state \/ Counts("TIMEOUT")
  BY <1>1, MachineCounts DEF HandleTimeouts, TapQuiet, TapEvents
<1>3. Known' = Known /\ Live' = Live
  BY DEF Known, Live
<1>4. tap_state' \in TapStates
  BY <1>1, <1>2 DEF Counts
<1>5. CountInv'
  BY <1>2, <1>3, SameCount DEF Counts
<1> QED
  BY <1>4, <1>5

(* The fingers known when the loop is over are those known at the next one. *)
LEMMA FrameCloses ==
    ASSUME IInv, FrameInv, CountInv, TapPostProcess
    PROVE  FrameInv' /\ CountInv'
<1>1. /\ ti = ntouches /\ ti' = -1 /\ pc' = "read"
      /\ UNCHANGED <<tap_state, enabled>> /\ ntouches \in Nat
      /\ state \in [Touch -> TouchStates]
      /\ state' = [t \in Touch |-> CASE state[t] = "END"   -> "NONE"
                                     [] state[t] = "BEGIN" -> "UPDATE"
                                     [] OTHER              -> state[t]]
  BY LiveFinite DEF TapPostProcess, PostProcess, TapQuiet, IInv, TypeOK
<1>2. \A t \in Touch : t < ti /\ ~(t < ti') /\ t \in Nat
  BY <1>1 DEF Touch
<1>3. \A t \in Touch : /\ state'[t] \in {"UPDATE", "END"} <=> state[t] \in {"BEGIN", "UPDATE"}
                       /\ state'[t] \notin {"BEGIN", "END"}
  BY <1>1 DEF TouchStates
<1>4. Known' = Known
  BY <1>2, <1>3 DEF Known
<1>5. Known = Live
  BY <1>2 DEF Known, Live
<1>6. FrameInv'
  BY <1>1, <1>3 DEF FrameInv
<1>7. CountInv'
  <2>1. Cardinality({}) = 0
    BY FS_EmptySet
  <2>2. CASE tap_state = "IDLE" /\ Live = {}
    <3>1. FingersOf(tap_state') = 0 /\ Known' = {}
      BY <1>1, <1>4, <1>5, <2>2 DEF FingersOf
    <3> QED
      BY <2>1, <3>1 DEF CountInv
  <2>3. CASE tap_state = "DEAD" \/ FingersOf(tap_state) = Cardinality(Known)
    BY <1>1, <1>4, <2>3 DEF CountInv
  <2> QED
    BY <2>2, <2>3 DEF CountInv
<1> QED
  BY <1>6, <1>7

(* touchpad_reset forgets every touch and restarts the machine. *)
LEMMA ResetCounts ==
    ASSUME FrameInv, TapChangeFd
    PROVE  FrameInv' /\ CountInv'
<1>1. /\ pc = "poll" /\ pc' = "poll" /\ ti = -1 /\ ti' = -1 /\ enabled' = TRUE
      /\ tap_state' = "IDLE" /\ state' = [t \in Touch |-> "NONE"] /\ ntouches \in Nat
  BY LiveFinite DEF TapChangeFd, ChangeFd, FrameInv
<1>2. Known' = {}
  BY <1>1 DEF Known
<1>3. FingersOf(tap_state') = 0
  BY <1>1 DEF FingersOf
<1>4. FrameInv'
  BY <1>1 DEF FrameInv, TapStates
<1> QED
  BY <1>2, <1>3, <1>4, FS_EmptySet DEF CountInv

LEMMA CountStep ==
    ASSUME OncePerFrame, NeverDisabled, IInv, ChangesAreQueued, FrameInv, CountInv,
           [TapNext]_allVars
    PROVE  FrameInv' /\ CountInv'
<1>0. pc = "read" => ti = -1
  BY DEF FrameInv
<1>1. CASE KernelEvent
  BY <1>1, KernelKnown
<1>2. ASSUME NEW e \in Time, TapSynReport(e) \/ TapSynIgnored(e)
      PROVE  FrameInv' /\ CountInv'
  <2>1. /\ pc = "read" /\ UNCHANGED <<state, enabled, ti, queued>> /\ HandleTimeouts(e)
        /\ \/ pc' = "post_events" /\ queued # {}
           \/ pc' = "read" /\ queued = {}
    BY <1>2 DEF TapSynReport, TapSynIgnored, SynReport, SynIgnored, touchVars
  <2>2. tap_state' \in TapStates /\ CountInv'
    BY <1>0, <2>1, TimeoutsCount
  <2>3. FrameInv'
    BY <1>0, <2>1, <2>2 DEF FrameInv, ChangesAreQueued
  <2> QED
    BY <2>2, <2>3
<1>3. CASE TapHandleState
  BY <1>3, LoopCounts
<1>4. CASE TapPostProcess
  BY <1>4, FrameCloses
<1>5. CASE TapAgain
  <2>1. /\ pc = "read" /\ pc' = "poll" /\ reported = {} /\ HandleTimeouts(now)
        /\ UNCHANGED <<state, enabled, ti, queued, reported>>
    BY <1>5 DEF TapAgain, Again, touchVars, kernelVars
  <2>2. tap_state' \in TapStates /\ CountInv'
    BY <1>0, <2>1, TimeoutsCount
  <2>3. FrameInv'
    BY <1>0, <2>1, <2>2 DEF FrameInv
  <2> QED
    BY <2>2, <2>3
<1>6. CASE TapHandleEvents \/ TapTick \/ UNCHANGED allVars
  <2>1. /\ UNCHANGED <<tap_state, enabled, ti, state, reported, queued>>
        /\ pc' = pc \/ (pc = "poll" /\ pc' = "read")
    BY <1>6 DEF TapHandleEvents, HandleEvents, TapTick, allVars, vars, tapVars, kernelVars,
                touchVars
  <2>2. Known' = Known /\ Live' = Live
    BY <2>1 DEF Known, Live
  <2>3. FrameInv'
    BY <2>1 DEF FrameInv
  <2> QED
    BY <2>1, <2>2, <2>3 DEF CountInv
<1>7. CASE TapChangeFd
  BY <1>7, ResetCounts
<1>8. CASE TapConfigSetEnable
  BY <1>8 DEF TapConfigSetEnable, NeverDisabled
<1> QED
  BY <1>1, <1>2, <1>3, <1>4, <1>5, <1>6, <1>7, <1>8 DEF TapNext

THEOREM CountInductive ==
    ASSUME OncePerFrame, NeverDisabled
    PROVE  TapSpec => [](FrameInv /\ CountInv)
<1>1. TapInit => FrameInv /\ CountInv
  <2> SUFFICES ASSUME TapInit PROVE FrameInv /\ CountInv
    OBVIOUS
  <2>1. /\ pc = "poll" /\ ti = -1 /\ enabled = TRUE /\ tap_state = "IDLE"
        /\ state = [t \in Touch |-> "NONE"] /\ ntouches \in Nat
    BY LiveFinite DEF TapInit, Init
  <2>2. Known = {} /\ FingersOf(tap_state) = 0
    BY <2>1 DEF Known, FingersOf
  <2>3. FrameInv
    BY <2>1 DEF FrameInv, TapStates
  <2> QED
    BY <2>2, <2>3, FS_EmptySet DEF CountInv
<1>2. IInv /\ ChangesAreQueued /\ FrameInv /\ CountInv /\ [TapNext]_allVars
      => FrameInv' /\ CountInv'
  BY CountStep
<1>3. TapSpec => []IInv /\ []ChangesAreQueued
  BY TapImplementsTouches, Inductive, NothingSkipped, PTL
<1> QED
  BY <1>1, <1>2, <1>3, PTL DEF TapSpec

(* Between frames the tap state stands for exactly as many fingers as the   *)
(* library counts touches, for any number of fingers arriving and leaving   *)
(* in one frame, fingers that were down when the device was opened, and     *)
(* changes of the fd.                                                       *)
THEOREM TapAlwaysCountsFingers ==
    ASSUME OncePerFrame, NeverDisabled
    PROVE  TapSpec => []TapCountsFingers
<1>1. FrameInv /\ CountInv /\ ChangesAreQueued => TapCountsFingers
  <2> SUFFICES ASSUME FrameInv, CountInv, ChangesAreQueued, queued = {}
               PROVE  tap_state # "DEAD" => FingersOf(tap_state) = Cardinality(Live)
    BY DEF TapCountsFingers
  <2>1. ti = -1 /\ \A t \in Touch : state[t] \notin {"BEGIN", "END"}
    BY DEF FrameInv, ChangesAreQueued
  <2>2. \A t \in Touch : ~(t < ti)
    BY <2>1 DEF Touch
  <2>3. Known = Live
    BY <2>1, <2>2 DEF Known, Live
  <2> QED
    BY <2>1, <2>3 DEF CountInv
<1>2. TapSpec => []ChangesAreQueued
  BY TapImplementsTouches, NothingSkipped, PTL
<1> QED
  BY <1>1, <1>2, CountInductive, PTL

(* The loop never reports a touch that moved to a machine that believes no  *)
(* finger is on the touchpad, and never one that left, in any slot order;   *)
(* only the others of the fingers that leave a DEAD machine in one frame    *)
(* are reported to IDLE.                                                    *)
THEOREM NeverEventWithoutFinger ==
    ASSUME OncePerFrame, NeverDisabled
    PROVE  TapSpec => []NoEventWithoutFinger
<1>1. FrameInv /\ CountInv => NoEventWithoutFinger
  <2> SUFFICES ASSUME FrameInv, CountInv, ti \in Touch, state[ti] \in {"UPDATE", "END"}
               PROVE  /\ tap_state \notin {"TAPPED", "DRAGGING_WAIT"}
                      /\ tap_state = "IDLE" => state[ti] = "END" /\ Live = {}
    BY DEF NoEventWithoutFinger
  <2>1. ti \in Known
    <3>1. ~(ti < ti)
      BY DEF Touch
    <3> QED
      BY <3>1 DEF Known
  <2>2. Cardinality(Known) # 0
    BY <2>1, KnownFinite, FS_EmptySet
  <2>3. CASE tap_state \in {"TAPPED", "DRAGGING_WAIT"}
    <3>1. FingersOf(tap_state) = 0 /\ tap_state # "DEAD" /\ tap_state # "IDLE"
      BY <2>3 DEF FingersOf
    <3> QED
      BY <2>2, <3>1 DEF CountInv
  <2>4. CASE tap_state = "IDLE"
    <3>1. FingersOf(tap_state) = 0 /\ tap_state # "DEAD"
      BY <2>4 DEF FingersOf
    <3>2. Live = {}
      BY <2>2, <3>1 DEF CountInv
    <3>3. state[ti] # "UPDATE"
      BY <3>2 DEF Live
    <3> QED
      BY <2>4, <3>2, <3>3
  <2> QED
    BY <2>3, <2>4
<1> QED
  BY <1>1, CountInductive, PTL
=============================================================================

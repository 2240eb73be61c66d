-------------------------- MODULE SoftButtonProofs --------------------------
(***************************************************************************)
(* Proofs about the software buttons for any touchpad: timers and button   *)
(* states match, no deadline is missed, no touch stays pressed after the   *)
(* click, a right click needs the right area, and the host sees every      *)
(* click as the press and the release of the same button.                  *)
(*                                                                         *)
(* A button state can end up in t->state, and then nothing proved about    *)
(* Touches holds: the invariants below are about the touches as this       *)
(* module leaves them, and need no count of the fingers.  The last section *)
(* says when the count is right after all.                                 *)
(***************************************************************************)
EXTENDS SoftButtonHistory, TouchesProofs, InductionLemmas

----------------------------------------------------------------------------
(* What touchpad_button_handle_event does with each kind of event *)

AreaEvents == {"IN_R", "IN_L", "IN_AREA"}
Events     == AreaEvents \cup {"UP", "RELEASE", "PRESS", "TIMEOUT"}

LEMMA HandleType ==
    ASSUME NEW bs \in ButtonStates, NEW ev \in Events
    PROVE  LET r == ButtonHandleEvent(bs, ev)
           IN  /\ r.next \in ButtonStates
               /\ r.timer \in {"enter", "leave", "keep", "clear"}
               /\ r.corrupts \in BOOLEAN
BY DEF ButtonStates, Events, AreaEvents, ButtonHandleEvent, ButtonNone, ButtonArea, ButtonLeft,
       ButtonLeftNew, ButtonRight, ButtonRightNew, ButtonLeftToArea, ButtonRightToArea,
       ButtonLeftToRight, ButtonRightToLeft, ButtonPressed, Go, Spoil

(* A position: a timer is set or kept only by a state that waits, and the   *)
(* states of the right area are entered only in the right area.            *)
LEMMA HandleArea ==
    ASSUME NEW bs \in ButtonStates, NEW a \in AreaEvents
    PROVE  LET r == ButtonHandleEvent(bs, a)
           IN  /\ r.next \in PressedStates <=> bs \in PressedStates
               /\ bs \in PressedStates => r.next = bs
               /\ r.timer \in {"enter", "leave"} => r.next \in WaitingStates
               /\ r.timer = "keep" => /\ bs \in WaitingStates \cup {"NONE"}
                                      /\ bs # "NONE" => r.next \in WaitingStates
               /\ r.next \in {"RIGHT", "RIGHT_NEW", "LEFT_TO_RIGHT"} => a = "IN_R"
               /\ bs = "AREA" => r.next = "AREA"
               /\ bs = "NONE" /\ a = "IN_AREA" => r.next = "AREA"
               /\ bs \in {"NONE", "RIGHT", "RIGHT_NEW"} /\ a = "IN_R" =>
                      r.next \in {"RIGHT", "RIGHT_NEW"}
BY DEF ButtonStates, AreaEvents, PressedStates, WaitingStates, ButtonHandleEvent, ButtonNone,
       ButtonArea, ButtonLeft, ButtonLeftNew, ButtonRight, ButtonRightNew, ButtonLeftToArea,
       ButtonRightToArea, ButtonLeftToRight, ButtonRightToLeft, ButtonPressed, Go, Spoil

(* A finger that lifts: its timer is cleared, and it leaves the right area. *)
LEMMA HandleUp ==
    ASSUME NEW bs \in ButtonStates
    PROVE  LET r == ButtonHandleEvent(bs, "UP")
           IN  /\ r.next \in PressedStates <=> bs \in PressedStates
               /\ bs \in PressedStates => r.next = bs
               /\ r.next \notin {"RIGHT", "RIGHT_NEW", "AREA"}
               /\ r.timer = "clear" \/ (bs = "NONE" /\ r.timer = "keep" /\ r.next = "NONE")
BY DEF ButtonStates, PressedStates, ButtonHandleEvent, ButtonNone, ButtonArea, ButtonLeft,
       ButtonLeftNew, ButtonRight, ButtonRightNew, ButtonLeftToArea, ButtonRightToArea,
       ButtonLeftToRight, ButtonRightToLeft, ButtonPressed, Go, Spoil

(* The release ends a press and changes no other state. *)
LEMMA HandleRelease ==
    ASSUME NEW bs \in ButtonStates
    PROVE  LET r == ButtonHandleEvent(bs, "RELEASE")
           IN  /\ r.next = IF bs \in PressedStates THEN "NONE" ELSE bs
               /\ r.timer \in {"keep", "clear"}
               /\ r.timer = "keep" => bs \in WaitingStates \cup {"NONE"}
BY DEF ButtonStates, PressedStates, WaitingStates, ButtonHandleEvent, ButtonNone, ButtonArea,
       ButtonLeft, ButtonLeftNew, ButtonRight, ButtonRightNew, ButtonLeftToArea,
       ButtonRightToArea, ButtonLeftToRight, ButtonRightToLeft, ButtonPressed, Go, Spoil

(* The press presses every touch that has a state, right or left. *)
LEMMA HandlePress ==
    ASSUME NEW bs \in ButtonStates
    PROVE  LET r == ButtonHandleEvent(bs, "PRESS")
           IN  /\ bs = "NONE" => r.next = "NONE" /\ r.timer = "keep"
               /\ bs # "NONE" => r.next \in PressedStates /\ r.timer = "clear"
               /\ r.next = "PRESSED_RIGHT" <=>
                      bs \in {"RIGHT", "RIGHT_NEW", "RIGHT_TO_AREA", "RIGHT_TO_LEFT",
                              "PRESSED_RIGHT"}
BY DEF ButtonStates, PressedStates, ButtonHandleEvent, ButtonNone, ButtonArea,
       ButtonLeft, ButtonLeftNew, ButtonRight, ButtonRightNew, ButtonLeftToArea,
       ButtonRightToArea, ButtonLeftToRight, ButtonRightToLeft, ButtonPressed, Go, Spoil

(* A timeout settles a touch where it is and presses or releases nothing. *)
LEMMA HandleTimeout ==
    ASSUME NEW bs \in ButtonStates
    PROVE  LET r == ButtonHandleEvent(bs, "TIMEOUT")
           IN  /\ r.next \in ButtonStates
               /\ r.next \in PressedStates <=> bs \in PressedStates
               /\ r.next \notin {"RIGHT_NEW", "LEFT_TO_RIGHT"}
               /\ r.next = "RIGHT" => bs \in {"RIGHT", "RIGHT_NEW", "LEFT_TO_RIGHT"}
               /\ bs \in {"NONE", "AREA"} => r.next = bs
               /\ bs \in {"RIGHT", "RIGHT_NEW"} => r.next = "RIGHT"
BY ZenonT(30) DEF ButtonStates, PressedStates, ButtonHandleEvent, ButtonNone, ButtonArea,
       ButtonLeft, ButtonLeftNew, ButtonRight, ButtonRightNew, ButtonLeftToArea,
       ButtonRightToArea, ButtonLeftToRight, ButtonRightToLeft, ButtonPressed, Go, Spoil

----------------------------------------------------------------------------
(* Types *)

(* What the proofs need of the types.  Nothing is said of fingers_down,     *)
(* which can drop below zero, nor of the timerfd.                           *)
Typed ==
    /\ now \in Time /\ floor \in Time /\ ms \in Time
    /\ next_timeout \in Nat
    /\ pc \in {"poll", "read", "post_events"}
    /\ slot \in Slots
    /\ buttons_state \subseteq Buttons
    /\ state \in [Touch -> TouchStates \cup {Corrupt}]
    /\ dirty \in [Touch -> BOOLEAN]
    /\ area \in [Touch -> Areas]
    /\ button_state \in [Touch -> ButtonStates]
    /\ button_timeout \in [Touch -> Nat]
    /\ fd_changes \in Nat
    /\ handled \in BOOLEAN
    /\ handled => pc = "post_events"

LEMMA AreasAreEvents == Areas \subseteq AreaEvents
BY AreasAssumption DEF AreaEvents

(* A frame: what its three events leave. *)
LEMMA FrameType ==
    ASSUME Typed, NEW t \in Touch
    PROVE  /\ MoveEvent(t).next \in ButtonStates
           /\ MoveEvent(t).timer \in {"enter", "leave", "keep", "clear"}
           /\ ReleaseEvent(t).next \in ButtonStates
           /\ PressEvent(t).next \in ButtonStates
<1>0. button_state[t] \in ButtonStates /\ area[t] \in AreaEvents
  BY AreasAreEvents DEF Typed
<1>1. /\ MoveEvent(t).next \in ButtonStates
      /\ MoveEvent(t).timer \in {"enter", "leave", "keep", "clear"}
  BY <1>0, HandleType DEF MoveEvent, Events, Go
<1>2. ReleaseEvent(t).next \in ButtonStates
  BY <1>1, HandleType DEF ReleaseEvent, Events, Go
<1>3. PressEvent(t).next \in ButtonStates
  BY <1>2, HandleType DEF PressEvent, Events, Go
<1> QED
  BY <1>1, <1>2, <1>3

(* The least element of a set of natural numbers. *)
LEMMA MinIsLeast ==
    ASSUME NEW T \in SUBSET Nat, T # {}
    PROVE  Min(T) \in T /\ \A m \in T : Min(T) <= m
BY LeastNatural DEF Min

(* The button deadline alone is the next one. *)
LEMMA NextTimeoutIsButton ==
    ASSUME NEW d \in Nat, d < INT_MAX
    PROVE  NextTimeout(d, 0) = d
BY TimeAssumption DEF NextTimeout, AsInt, AsUnsigned

LEMMA EarliestIsLeast ==
    ASSUME NEW f \in [Touch -> Nat]
    PROVE  LET d == EarliestTimeout(f)
           IN  /\ NextTimeout(d, 0) = d
               /\ d \in Nat
               /\ \A t \in Touch : f[t] # 0 /\ f[t] < INT_MAX => d # 0 /\ d <= f[t]
<1> DEFINE T == ({f[t] : t \in Touch} \ {0}) \cup {INT_MAX}
           m == Min(T)
<1>1. {f[t] : t \in Touch} \in SUBSET Nat
  OBVIOUS
<1>2. T \in SUBSET Nat /\ T # {} /\ INT_MAX \in T /\ INT_MAX \in Nat \ {0}
  BY <1>1, TimeAssumption
<1>3. \A t \in Touch : f[t] # 0 => f[t] \in T
  OBVIOUS
<1>4. 0 \notin T
  BY TimeAssumption
<1>5. EarliestTimeout(f) = IF m = INT_MAX THEN 0 ELSE m
  BY DEF EarliestTimeout
<1> HIDE DEF T
<1>6. m \in T /\ \A k \in T : m <= k
  BY <1>2, MinIsLeast
<1>7. m \in Nat /\ m # 0 /\ m <= INT_MAX
  BY <1>2, <1>4, <1>6
<1> HIDE DEF m
<1>8. EarliestTimeout(f) \in Nat /\ EarliestTimeout(f) < INT_MAX
  BY <1>2, <1>5, <1>7
<1>9. NextTimeout(EarliestTimeout(f), 0) = EarliestTimeout(f)
  BY <1>8, NextTimeoutIsButton
<1>10. ASSUME NEW t \in Touch, f[t] # 0, f[t] < INT_MAX
       PROVE  EarliestTimeout(f) # 0 /\ EarliestTimeout(f) <= f[t]
  <2>1. f[t] \in Nat /\ m <= f[t]
    BY <1>3, <1>6, <1>10
  <2> QED
    BY <1>2, <1>5, <1>7, <1>10, <2>1
<1> QED
  BY <1>8, <1>9, <1>10

(* What a kernel event does to the touches: one that begins or moves is     *)
(* dirty, and none is forgotten.                                            *)
TouchesMove ==
    /\ pc = "read" /\ pc' = "read" /\ slot' \in Slots
    /\ state' \in [Touch -> TouchStates \cup {Corrupt}]
    /\ dirty' \in [Touch -> BOOLEAN]
    /\ area' \in [Touch -> Areas]
    /\ \A t \in Touch :
          /\ state'[t] = "NONE" => state[t] = "NONE"
          /\ state'[t] = "UPDATE" => state[t] = "UPDATE"
          /\ state'[t] = "BEGIN" => dirty'[t] \/ state[t] = "BEGIN"
          /\ dirty[t] => dirty'[t]
          /\ area'[t] = area[t] \/ dirty'[t]

(* What it does to the button. *)
ButtonMoves ==
    \/ /\ UNCHANGED <<pressed, clicked, buttons_state>>
       /\ queued' \in {queued, queued \cup {"MOTION"}}
    \/ \E b \in Buttons : ButtonPress(b) \/ ButtonRelease(b)

LEMMA KernelLeaves ==
    ASSUME Typed, ButtonKernelEvent
    PROVE  /\ out' = <<>>
           /\ UNCHANGED <<button_state, button_timeout, active_softbutton, handled, timerVars,
                          fd_changes>>
           /\ TouchesMove
           /\ ButtonMoves
<1>0. /\ out' = <<>> /\ UNCHANGED <<button_state, button_timeout, active_softbutton>>
      /\ UNCHANGED <<timerVars, handled>>
  BY DEF ButtonKernelEvent, ButtonQuiet
<1>1. ASSUME NEW a \in Areas, ButtonPosition(a)
      PROVE  TouchesMove /\ ButtonMoves /\ fd_changes' = fd_changes
  <2>1. CASE NoTouch
    BY <1>1, <2>1 DEF ButtonPosition, AbsMtPosition, Typed, TouchesMove, ButtonMoves, kernelVars
  <2>2. CASE ~NoTouch
    BY <1>1, <2>2 DEF ButtonPosition, AbsMtPosition, Typed, TouchesMove, ButtonMoves,
                      kernelVars, NoTouch
  <2> QED
    BY <2>1, <2>2
<1>2. ASSUME NEW s \in Slots, AbsMtSlot(s), UNCHANGED area
      PROVE  TouchesMove /\ ButtonMoves /\ fd_changes' = fd_changes
  BY <1>2 DEF AbsMtSlot, Typed, TouchesMove, ButtonMoves, kernelVars, touchVars
<1>3. ASSUME AbsMtTrackingIdBegin, UNCHANGED area
      PROVE  TouchesMove /\ ButtonMoves /\ fd_changes' = fd_changes
  <2>1. CASE NoTouch
    BY <1>3, <2>1 DEF AbsMtTrackingIdBegin, Typed, TouchesMove, ButtonMoves, touchVars
  <2>2. CASE ~NoTouch
    BY <1>3, <2>2 DEF AbsMtTrackingIdBegin, BeginTouch, Typed, TouchesMove, ButtonMoves,
                      NoTouch, TouchStates, Corrupt
  <2> QED
    BY <2>1, <2>2
<1>4. ASSUME AbsMtTrackingIdEnd, UNCHANGED area
      PROVE  TouchesMove /\ ButtonMoves /\ fd_changes' = fd_changes
  <2>1. CASE NoTouch \/ state[slot] = "NONE"
    BY <1>4, <2>1 DEF AbsMtTrackingIdEnd, EndTouch, Typed, TouchesMove, ButtonMoves, touchVars
  <2>2. CASE ~NoTouch /\ state[slot] # "NONE"
    BY <1>4, <2>2 DEF AbsMtTrackingIdEnd, EndTouch, Typed, TouchesMove, ButtonMoves,
                      NoTouch, TouchStates, Corrupt
  <2> QED
    BY <2>1, <2>2
<1>5. ASSUME NEW b \in Buttons, ButtonPress(b) \/ ButtonRelease(b), UNCHANGED area
      PROVE  TouchesMove /\ ButtonMoves /\ fd_changes' = fd_changes
  BY <1>5 DEF ButtonPress, ButtonRelease, Typed, TouchesMove, ButtonMoves
<1> QED
  BY <1>0, <1>1, <1>2, <1>3, <1>4, <1>5 DEF ButtonKernelEvent

(* touchpad_handle_timeouts at time n: a touch is left alone, or its timer  *)
(* has passed and it gets TIMEOUT.                                          *)
TimeoutsLeave(n) ==
    /\ next_timeout' \in Nat
    /\ button_timeout' \in [Touch -> Nat]
    /\ button_state' \in [Touch -> ButtonStates]
    /\ out' = <<>> /\ active_softbutton' = active_softbutton
    /\ \A t \in Touch :
          \/ /\ button_state'[t] = button_state[t] /\ button_timeout'[t] = button_timeout[t]
             /\ \/ button_timeout[t] = 0 \/ button_timeout[t] > n
                \/ next_timeout = 0 \/ next_timeout > n
          \/ /\ button_timeout[t] # 0 /\ button_timeout'[t] = 0
             /\ button_state'[t] = ButtonHandleEvent(button_state[t], "TIMEOUT").next
    /\ \/ next_timeout' = next_timeout /\ button_timeout' = button_timeout
       \/ \A t \in Touch : button_timeout'[t] # 0 /\ button_timeout'[t] < INT_MAX =>
             next_timeout' # 0 /\ next_timeout' <= button_timeout'[t]

LEMMA TimeoutsDo ==
    ASSUME Typed, NEW n \in Time, HandleTimeouts(n)
    PROVE  TimeoutsLeave(n)
<1>1. CASE ~Due(n)
  BY <1>1, TimeAssumption
  DEF HandleTimeouts, ButtonQuiet, fdVars, Typed, TimeoutsLeave, Due, Time
<1>2. CASE Due(n)
  <2>1. \A t \in Touch : /\ button_state[t] \in ButtonStates
                         /\ button_timeout[t] \in Nat
    BY DEF Typed
  <2>2. /\ button_state' = [t \in Touch |->
              IF t \in TimedOut(n) THEN ButtonHandleEvent(button_state[t], "TIMEOUT").next
                                   ELSE button_state[t]]
        /\ button_timeout' = [t \in Touch |-> IF t \in TimedOut(n) THEN 0
                                                                  ELSE button_timeout[t]]
        /\ next_timeout' = NextTimeout(EarliestTimeout(button_timeout'), 0)
        /\ out' = <<>> /\ active_softbutton' = active_softbutton
    BY <1>2 DEF HandleTimeouts
  <2>3. button_state' \in [Touch -> ButtonStates] /\ button_timeout' \in [Touch -> Nat]
    BY <2>1, <2>2, HandleTimeout
  <2>4. /\ next_timeout' \in Nat
        /\ \A t \in Touch : button_timeout'[t] # 0 /\ button_timeout'[t] < INT_MAX =>
              next_timeout' # 0 /\ next_timeout' <= button_timeout'[t]
    BY <2>2, <2>3, EarliestIsLeast
  <2>5. ASSUME NEW t \in Touch
        PROVE  \/ /\ button_state'[t] = button_state[t]
                  /\ button_timeout'[t] = button_timeout[t]
                  /\ button_timeout[t] = 0 \/ button_timeout[t] > n
               \/ /\ button_timeout[t] # 0 /\ button_timeout'[t] = 0
                  /\ button_state'[t] = ButtonHandleEvent(button_state[t], "TIMEOUT").next
    <3>1. CASE t \in TimedOut(n)
      BY <2>2, <3>1 DEF TimedOut
    <3>2. CASE t \notin TimedOut(n)
      BY <2>1, <2>2, <3>2, TimeAssumption DEF TimedOut, Time
    <3> QED
      BY <3>1, <3>2
  <2> QED
    BY <2>2, <2>3, <2>4, <2>5 DEF TimeoutsLeave
<1> QED
  BY <1>1, <1>2

(* The requests of a frame: next_timeout is no later than it was, nor than  *)
(* any of the deadlines requested.                                          *)
LEMMA RequestsLeave ==
    ASSUME Typed, NEW S \in SUBSET Touch, RequestTimers(S)
    PROVE  /\ next_timeout' \in Nat
           /\ next_timeout # 0 => next_timeout' # 0 /\ next_timeout' <= next_timeout
           /\ \A t \in Requesting(S) :
                 next_timeout' # 0 /\ next_timeout' <= ms + Delta(MoveEvent(t).timer)
<1>1. CASE Requesting(S) = {}
  BY <1>1 DEF RequestTimers, fdVars, Typed
<1>2. CASE Requesting(S) # {}
  <2> DEFINE At(t) == ms + Delta(MoveEvent(t).timer)
             T == {At(t) : t \in Requesting(S)} \cup ({next_timeout} \ {0})
  <2>1. next_timeout' = Min(T)
    BY <1>2 DEF RequestTimers
  <2>2. \A t \in Requesting(S) : At(t) \in Nat \ {0}
    <3> SUFFICES ASSUME NEW t \in Requesting(S) PROVE At(t) \in Nat \ {0}
      OBVIOUS
    <3>1. Delta(MoveEvent(t).timer) \in Nat \ {0}
      BY ButtonTimeoutAssumption DEF Requesting, Delta
    <3>2. ms \in Nat
      BY TimeAssumption DEF Typed, Time
    <3> QED
      BY <3>1, <3>2
  <2>3. T \in SUBSET Nat /\ 0 \notin T
    <3>1. {At(t) : t \in Requesting(S)} \subseteq Nat \ {0}
      BY <2>2
    <3>2. ({next_timeout} \ {0}) \subseteq Nat \ {0}
      BY DEF Typed
    <3> QED
      BY <3>1, <3>2
  <2>4. T # {}
    BY <1>2
  <2>5. \A t \in Requesting(S) : At(t) \in T
    OBVIOUS
  <2>6. next_timeout # 0 => next_timeout \in T
    OBVIOUS
  <2> HIDE DEF T
  <2>7. Min(T) \in T /\ \A m \in T : Min(T) <= m
    BY <2>3, <2>4, MinIsLeast
  <2> QED
    BY <2>1, <2>3, <2>5, <2>6, <2>7
<1> QED
  BY <1>1, <1>2

(* What a frame leaves of the timer of a touch: it was set by this frame,   *)
(* or it is kept; and then the touch is not pressed.                        *)
LEMMA TimerAfter ==
    ASSUME Typed, NEW t \in Touch, TimeoutAfter(t) # 0
    PROVE  /\ \/ /\ MoveEvent(t).timer \in {"enter", "leave"}
                 /\ TimeoutAfter(t) = ms + Delta(MoveEvent(t).timer)
              \/ /\ MoveEvent(t).timer = "keep"
                 /\ TimeoutAfter(t) = button_timeout[t]
           /\ ReleaseEvent(t).timer # "clear" /\ PressEvent(t).timer # "clear"
BY FrameType DEF TimeoutAfter

LEMMA TimeoutAfterType ==
    ASSUME Typed, NEW t \in Touch
    PROVE  TimeoutAfter(t) \in Nat
<1>1. ms \in Nat /\ button_timeout[t] \in Nat
  BY TimeAssumption DEF Typed, Time
<1>2. Delta("enter") \in Nat /\ Delta("leave") \in Nat
  BY ButtonTimeoutAssumption DEF Delta
<1>3. CASE TimeoutAfter(t) = 0
  BY <1>3
<1>4. CASE TimeoutAfter(t) # 0
  BY <1>1, <1>2, <1>4, TimerAfter
<1> QED
  BY <1>3, <1>4

LEMMA TypedInit == ButtonInit => Typed
<1> SUFFICES ASSUME ButtonInit PROVE Typed
  OBVIOUS
<1>1. Init /\ TimersInit /\ handled = FALSE
  BY DEF ButtonInit
<1>2. now \in Time /\ floor \in Time /\ ms \in Time /\ next_timeout \in Nat
  BY <1>1, TimeAssumption DEF TimersInit, Time
<1>3. area \in [Touch -> Areas]
  BY DEF ButtonInit
<1>4. button_state \in [Touch -> ButtonStates] /\ button_timeout \in [Touch -> Nat]
  BY DEF ButtonInit, ButtonStates
<1>5. /\ buttons_state \subseteq Buttons
      /\ state \in [Touch -> TouchStates \cup {Corrupt}] /\ dirty \in [Touch -> BOOLEAN]
      /\ pc = "poll" /\ slot \in Slots /\ fd_changes \in Nat
  BY <1>1 DEF Init, TouchStates
<1> QED
  BY <1>1, <1>2, <1>3, <1>4, <1>5 DEF Typed

LEMMA TypedStep == Typed /\ [ButtonNext]_allVars => Typed'
<1> SUFFICES ASSUME Typed, [ButtonNext]_allVars PROVE Typed'
  OBVIOUS
<1>1. CASE ButtonKernelEvent
  <2>1. /\ UNCHANGED <<button_state, button_timeout, handled, timerVars, fd_changes>>
        /\ TouchesMove /\ ButtonMoves
    BY <1>1, KernelLeaves
  <2>2. buttons_state' \subseteq Buttons
    BY <2>1 DEF Typed, ButtonMoves, ButtonPress, ButtonRelease
  <2> QED
    BY <2>1, <2>2 DEF Typed, TouchesMove, timerVars, clockVars, fdVars
<1>2. ASSUME NEW e \in Time, ButtonSynReport(e) \/ ButtonSynIgnored(e) PROVE Typed'
  <2>1. /\ HandleTimeouts(e) /\ floor' = e /\ now' = now /\ ms' \in {ms, e}
        /\ UNCHANGED <<area, handled, state, dirty, slot, buttons_state, fd_changes>>
        /\ pc = "read" /\ pc' \in {"read", "post_events"}
    BY <1>2 DEF ButtonSynReport, ButtonSynIgnored, SynReport, SynIgnored, touchVars
  <2>2. TimeoutsLeave(e)
    BY <2>1, TimeoutsDo
  <2> QED
    BY <2>1, <2>2 DEF Typed, TimeoutsLeave
<1>3. CASE ButtonHandleState
  <2> DEFINE S == {t \in Touch : state[t] # "NONE"}
  <2>1. RequestTimers(S) /\ S \in SUBSET Touch
    BY <1>3 DEF ButtonHandleState
  <2>2. next_timeout' \in Nat
    BY <2>1, RequestsLeave
  <2>3. button_state' \in [Touch -> ButtonStates] /\ button_timeout' \in [Touch -> Nat]
        /\ state' \in [Touch -> TouchStates \cup {Corrupt}]
    BY <1>3, FrameType, TimeoutAfterType DEF ButtonHandleState, Typed
  <2>4. UNCHANGED <<now, floor, ms, slot, dirty, area, buttons_state, fd_changes, pc>>
        /\ handled' = TRUE /\ pc = "post_events"
    BY <1>3 DEF ButtonHandleState, clockVars
  <2> QED
    BY <2>2, <2>3, <2>4 DEF Typed
<1>4. CASE ButtonPostProcess
  BY <1>4 DEF ButtonPostProcess, PostProcess, Typed, timerVars, clockVars, fdVars, TouchStates,
              ButtonStates
<1>5. CASE ButtonHandleEvents
  BY <1>5 DEF ButtonHandleEvents, HandleEvents, ButtonQuiet, Typed, clockVars, touchVars
<1>6. CASE ButtonAgain
  <2>1. /\ HandleTimeouts(now) /\ floor' = now /\ now' = now /\ ms' = ms /\ now \in Time
        /\ UNCHANGED <<area, handled, state, dirty, slot, buttons_state, fd_changes>>
        /\ pc = "read" /\ pc' = "poll"
    BY <1>6 DEF ButtonAgain, Again, touchVars, Typed
  <2>2. TimeoutsLeave(now)
    BY <2>1, TimeoutsDo
  <2> QED
    BY <2>1, <2>2 DEF Typed, TimeoutsLeave
<1>7. CASE ButtonTick
  BY <1>7, TimeAssumption
  DEF ButtonTick, Tick, ButtonQuiet, Typed, Time, vars, touchVars, fdVars
<1>8. CASE ButtonChangeFd
  BY <1>8 DEF ButtonChangeFd, ChangeFd, Typed, timerVars, clockVars, fdVars, TouchStates,
              ButtonStates
<1>9. CASE UNCHANGED allVars
  BY <1>9 DEF allVars, vars, touchVars, timerVars, clockVars, fdVars, buttonVars, Typed
<1> QED
  BY <1>1, <1>2, <1>3, <1>4, <1>5, <1>6, <1>7, <1>8, <1>9 DEF ButtonNext

LEMMA TypedAlways == ButtonSpec => []Typed
<1> QED
  BY TypedInit, TypedStep, PTL DEF ButtonSpec

----------------------------------------------------------------------------
(* Timers and button states *)

(* A frame: a touch that keeps or gets a timer waits for it, and stays. *)
LEMMA TimerOfFrame ==
    ASSUME Typed, NEW t \in Touch, TimeoutAfter(t) # 0,
           button_timeout[t] # 0 => button_state[t] \in WaitingStates
    PROVE  PressEvent(t).next \in WaitingStates /\ state[t] # "END"
<1>0. button_state[t] \in ButtonStates /\ area[t] \in AreaEvents
  BY AreasAreEvents DEF Typed
<1>1. /\ \/ MoveEvent(t).timer \in {"enter", "leave"}
         \/ MoveEvent(t).timer = "keep" /\ button_state[t] \in WaitingStates
      /\ ReleaseEvent(t).timer # "clear" /\ PressEvent(t).timer # "clear"
  BY TimerAfter
<1>2. MoveEvent(t).next \in WaitingStates /\ state[t] # "END"
  <2>1. CASE state[t] = "END"
    BY <1>0, <1>1, <2>1, HandleUp DEF MoveEvent, WaitingStates
  <2>2. CASE state[t] # "END" /\ dirty[t]
    BY <1>0, <1>1, <2>2, HandleArea DEF MoveEvent, WaitingStates
  <2>3. CASE state[t] # "END" /\ ~dirty[t]
    BY <1>1, <2>3 DEF MoveEvent, Go
  <2> QED
    BY <2>1, <2>2, <2>3
<1>3. ReleaseEvent(t).next = MoveEvent(t).next
  BY <1>2, FrameType, HandleRelease DEF ReleaseEvent, Go, WaitingStates, PressedStates
<1>4. PressEvent(t).next = ReleaseEvent(t).next
  BY <1>1, <1>2, <1>3, FrameType, HandlePress DEF PressEvent, Go, WaitingStates
<1> QED
  BY <1>2, <1>3, <1>4

(* A touch that ends with its frame has no timer left to lose. *)
MatchInv ==
    fd_changes = 0 =>
        \A t \in Touch : button_timeout[t] # 0 =>
            /\ button_state[t] \in WaitingStates
            /\ handled => state[t] # "END"

LEMMA MatchStep ==
    ASSUME Typed, MatchInv, [ButtonNext]_allVars
    PROVE  MatchInv'
<1> SUFFICES ASSUME fd_changes' = 0, NEW t \in Touch, button_timeout'[t] # 0
             PROVE  button_state'[t] \in WaitingStates /\ (handled' => state'[t] # "END")
  BY DEF MatchInv
<1>0. fd_changes = 0 /\ ~ButtonChangeFd
  <2>1. fd_changes \in Nat
    BY DEF Typed
  <2>2. ~ChangeFd
    BY <2>1 DEF ChangeFd
  <2>3. fd_changes' = fd_changes
    BY <2>2 DEF ButtonNext, ButtonKernelEvent, ButtonPosition, AbsMtSlot, AbsMtPosition,
                AbsMtTrackingIdBegin, AbsMtTrackingIdEnd, ButtonPress, ButtonRelease,
                ButtonSynReport, ButtonSynIgnored, SynReport, SynIgnored, ButtonHandleState,
                ButtonPostProcess, PostProcess, ButtonHandleEvents, HandleEvents,
                ButtonAgain, Again, ButtonTick, ButtonChangeFd, allVars, vars
  <2> QED
    BY <2>2, <2>3 DEF ButtonChangeFd
<1>1. button_timeout[t] # 0 => /\ button_state[t] \in WaitingStates
                               /\ handled => state[t] # "END"
  BY <1>0 DEF MatchInv
<1>2. CASE ButtonKernelEvent
  <2>1. UNCHANGED <<button_state, button_timeout, handled>> /\ TouchesMove
    BY <1>2, KernelLeaves
  <2>2. ~handled
    BY <2>1 DEF TouchesMove, Typed
  <2> QED
    BY <1>1, <2>1, <2>2
<1>3. ASSUME NEW n \in Time, HandleTimeouts(n), handled' = handled, state' = state
      PROVE  button_state'[t] \in WaitingStates /\ (handled' => state'[t] # "END")
  BY <1>1, <1>3, TimeoutsDo DEF TimeoutsLeave
<1>4. ASSUME NEW e \in Time, ButtonSynReport(e) \/ ButtonSynIgnored(e)
      PROVE  button_state'[t] \in WaitingStates /\ (handled' => state'[t] # "END")
  BY <1>3, <1>4 DEF ButtonSynReport, ButtonSynIgnored, SynReport, SynIgnored, touchVars
<1>5. CASE ButtonHandleState
  <2>1. CASE state[t] = "NONE"
    BY <1>1, <1>5, <2>1 DEF ButtonHandleState, Corrupt
  <2>2. CASE state[t] # "NONE"
    <3>1. /\ button_timeout'[t] = TimeoutAfter(t)
          /\ button_state'[t] = PressEvent(t).next
          /\ state'[t] \in {state[t], Corrupt}
      BY <1>5, <2>2 DEF ButtonHandleState
    <3> QED
      BY <1>1, <3>1, TimerOfFrame DEF Corrupt
  <2> QED
    BY <2>1, <2>2
<1>6. CASE ButtonPostProcess
  BY <1>1, <1>6 DEF ButtonPostProcess
<1>7. CASE ButtonAgain
  <2>1. now \in Time
    BY DEF Typed
  <2> QED
    BY <1>3, <1>7, <2>1 DEF ButtonAgain, Again, touchVars
<1>8. CASE ButtonHandleEvents \/ ButtonTick
  BY <1>1, <1>8 DEF ButtonHandleEvents, HandleEvents, ButtonTick, ButtonQuiet, vars, touchVars
<1>9. CASE UNCHANGED allVars
  BY <1>1, <1>9 DEF allVars, vars, touchVars, buttonVars
<1> QED
  BY <1>0, <1>2, <1>4, <1>5, <1>6, <1>7, <1>8, <1>9 DEF ButtonNext

(* A touch has a timer only in a state that handles its timeout, however    *)
(* the fingers move and whatever the timeouts are set to, as long as the fd *)
(* is not changed.                                                          *)
THEOREM TimersAlwaysMatch == ButtonSpec => []TimerMatchesState
<1>1. ButtonInit => MatchInv
  BY DEF ButtonInit, MatchInv
<1>2. MatchInv => TimerMatchesState
  BY DEF MatchInv, TimerMatchesState
<1>3. Typed /\ MatchInv /\ [ButtonNext]_allVars => MatchInv'
  BY MatchStep
<1> QED
  BY <1>1, <1>2, <1>3, TypedAlways, PTL DEF ButtonSpec

----------------------------------------------------------------------------
(* Deadlines *)

(* The deadlines fit into an int, and a timeout is not zero (a zero delta   *)
(* is not requested, and leaves a deadline that has passed).                *)
ButtonDeadlinesFit == MaxTime + EnterTimeout < INT_MAX /\ MaxTime + LeaveTimeout < INT_MAX
TimeoutsSet == EnterTimeout # 0 /\ LeaveTimeout # 0

(* The one next_timeout of the library lets every deadline through. *)
SharedInv ==
    /\ \A t \in Touch : button_timeout[t] # 0 =>
          /\ button_timeout[t] < INT_MAX
          /\ next_timeout # 0 /\ next_timeout <= button_timeout[t]
    /\ NoExpiredButtonTimer

(* After touchpad_handle_timeouts only later deadlines remain. *)
LEMMA SharedTimeouts ==
    ASSUME Typed, SharedInv, NEW n \in Time, HandleTimeouts(n), NEW t \in Touch,
           button_timeout'[t] # 0
    PROVE  /\ button_timeout'[t] < INT_MAX
           /\ next_timeout' # 0 /\ next_timeout' <= button_timeout'[t]
           /\ button_timeout'[t] > n
<1>0. TimeoutsLeave(n)
  BY TimeoutsDo
<1>1. button_timeout'[t] = button_timeout[t] /\ button_timeout[t] \in Nat
  BY <1>0 DEF TimeoutsLeave, Typed
<1>2. /\ button_timeout[t] < INT_MAX
      /\ next_timeout # 0 /\ next_timeout <= button_timeout[t]
  BY <1>1 DEF SharedInv
<1>3. button_timeout[t] > n
  <2>1. \/ button_timeout[t] = 0 \/ button_timeout[t] > n
        \/ next_timeout = 0 \/ next_timeout > n
    BY <1>0, <1>1 DEF TimeoutsLeave
  <2> QED
    BY <1>1, <1>2, <2>1, TimeAssumption DEF Typed, Time
<1>4. next_timeout' # 0 /\ next_timeout' <= button_timeout'[t]
  BY <1>0, <1>1, <1>2 DEF TimeoutsLeave
<1> QED
  BY <1>1, <1>2, <1>3, <1>4

(* A frame sets only deadlines that lie after it and that it requests. *)
LEMMA SharedFrame ==
    ASSUME ButtonDeadlinesFit, TimeoutsSet, Typed, SharedInv, ButtonHandleState,
           NEW t \in Touch, button_timeout'[t] # 0
    PROVE  /\ button_timeout'[t] < INT_MAX
           /\ next_timeout' # 0 /\ next_timeout' <= button_timeout'[t]
<1> DEFINE S == {u \in Touch : state[u] # "NONE"}
<1>1. RequestTimers(S) /\ S \in SUBSET Touch
  BY DEF ButtonHandleState
<1>2. /\ next_timeout' \in Nat
      /\ next_timeout # 0 => next_timeout' # 0 /\ next_timeout' <= next_timeout
      /\ \A u \in Requesting(S) :
            next_timeout' # 0 /\ next_timeout' <= ms + Delta(MoveEvent(u).timer)
  BY <1>1, RequestsLeave
<1>3. /\ next_timeout \in Nat /\ button_timeout[t] \in Nat
      /\ button_timeout[t] # 0 => /\ button_timeout[t] < INT_MAX
                                  /\ next_timeout # 0 /\ next_timeout <= button_timeout[t]
  BY DEF Typed, SharedInv
<1>4. CASE button_timeout'[t] = button_timeout[t]
  BY <1>2, <1>3, <1>4
<1>5. CASE button_timeout'[t] # button_timeout[t]
  <2>1. t \in S /\ button_timeout'[t] = TimeoutAfter(t)
    BY <1>5 DEF ButtonHandleState
  <2>2. /\ MoveEvent(t).timer \in {"enter", "leave"}
        /\ TimeoutAfter(t) = ms + Delta(MoveEvent(t).timer)
    BY <1>5, <2>1, TimerAfter
  <2>3. /\ Delta(MoveEvent(t).timer) # 0
        /\ ms + Delta(MoveEvent(t).timer) < INT_MAX
    <3>1. ms \in Nat /\ ms <= MaxTime /\ MaxTime \in Nat
      BY TimeAssumption DEF Typed, Time
    <3>2. Delta(MoveEvent(t).timer) \in {EnterTimeout, LeaveTimeout}
      BY DEF Delta
    <3> QED
      BY <3>1, <3>2, ButtonTimeoutAssumption, TimeAssumption
      DEF ButtonDeadlinesFit, TimeoutsSet
  <2>4. t \in Requesting(S)
    BY <2>1, <2>2, <2>3 DEF Requesting
  <2> QED
    BY <1>2, <2>1, <2>2, <2>3, <2>4
<1> QED
  BY <1>4, <1>5

LEMMA SharedStep ==
    ASSUME ButtonDeadlinesFit, TimeoutsSet, Typed, SharedInv, [ButtonNext]_allVars
    PROVE  SharedInv'
<1>0. ASSUME UNCHANGED <<button_timeout, next_timeout, ms, handled>>,
             pc' = pc \/ pc' # "post_events"
      PROVE  SharedInv'
  BY <1>0 DEF SharedInv, NoExpiredButtonTimer
<1>1. CASE ButtonKernelEvent
  <2>1. /\ UNCHANGED <<button_timeout, timerVars, handled>> /\ TouchesMove
    BY <1>1, KernelLeaves
  <2> QED
    BY <1>0, <2>1 DEF TouchesMove, timerVars, clockVars, fdVars
<1>2. ASSUME NEW e \in Time, ButtonSynReport(e) \/ ButtonSynIgnored(e) PROVE SharedInv'
  <2>1. HandleTimeouts(e) /\ (ms' = e \/ pc' = "read")
    BY <1>2 DEF ButtonSynReport, ButtonSynIgnored, SynReport, SynIgnored
  <2>2. \A t \in Touch : button_timeout'[t] # 0 =>
           /\ button_timeout'[t] < INT_MAX
           /\ next_timeout' # 0 /\ next_timeout' <= button_timeout'[t]
           /\ button_timeout'[t] > e
    BY <2>1, SharedTimeouts
  <2> QED
    BY <2>1, <2>2 DEF SharedInv, NoExpiredButtonTimer
<1>3. CASE ButtonHandleState
  <2>1. \A t \in Touch : button_timeout'[t] # 0 =>
           /\ button_timeout'[t] < INT_MAX
           /\ next_timeout' # 0 /\ next_timeout' <= button_timeout'[t]
    BY <1>3, SharedFrame
  <2>2. handled' = TRUE
    BY <1>3 DEF ButtonHandleState
  <2> QED
    BY <2>1, <2>2 DEF SharedInv, NoExpiredButtonTimer
<1>4. CASE ButtonPostProcess
  <2>1. UNCHANGED <<button_timeout, next_timeout>> /\ pc' = "read"
    BY <1>4 DEF ButtonPostProcess, PostProcess, timerVars, fdVars
  <2> QED
    BY <2>1 DEF SharedInv, NoExpiredButtonTimer
<1>5. CASE ButtonHandleEvents
  BY <1>0, <1>5 DEF ButtonHandleEvents, HandleEvents, ButtonQuiet, clockVars
<1>6. CASE ButtonAgain
  <2>1. HandleTimeouts(now) /\ now \in Time /\ pc' = "poll"
    BY <1>6 DEF ButtonAgain, Again, Typed
  <2>2. \A t \in Touch : button_timeout'[t] # 0 =>
           /\ button_timeout'[t] < INT_MAX
           /\ next_timeout' # 0 /\ next_timeout' <= button_timeout'[t]
    BY <2>1, SharedTimeouts
  <2> QED
    BY <2>1, <2>2 DEF SharedInv, NoExpiredButtonTimer
<1>7. CASE ButtonTick \/ ButtonChangeFd
  BY <1>0, <1>7 DEF ButtonTick, Tick, ButtonQuiet, vars, ButtonChangeFd, ChangeFd, timerVars,
                    clockVars, fdVars
<1>8. CASE UNCHANGED allVars
  BY <1>0, <1>8 DEF allVars, vars, timerVars, clockVars, fdVars, buttonVars
<1> QED
  BY <1>1, <1>2, <1>3, <1>4, <1>5, <1>6, <1>7, <1>8 DEF ButtonNext

(* No finger is judged with a button deadline that had passed when its      *)
(* frame happened, although all touches share one next_timeout, whenever    *)
(* the fd is changed.                                                       *)
THEOREM ButtonTimersAreCurrent ==
    ASSUME ButtonDeadlinesFit, TimeoutsSet
    PROVE  ButtonSpec => []NoExpiredButtonTimer
<1>1. ButtonInit => SharedInv
  BY DEF ButtonInit, Init, SharedInv, NoExpiredButtonTimer
<1>2. SharedInv => NoExpiredButtonTimer
  BY DEF SharedInv
<1>3. Typed /\ SharedInv /\ [ButtonNext]_allVars => SharedInv'
  BY SharedStep
<1> QED
  BY <1>1, <1>2, <1>3, TypedAlways, PTL DEF ButtonSpec

----------------------------------------------------------------------------
(* Pressed states *)

(* The driver reports a button once per frame; the clickpad has one button. *)
OncePerFrame == "same_frame" \notin Quirks
OneButton    == \A b, c \in Buttons : b = c

(* A touch the library has forgotten has no button state. *)
ForgottenInv == \A t \in Touch : state[t] = "NONE" => button_state[t] = "NONE"

LEMMA ForgottenStep ==
    ASSUME Typed, ForgottenInv, [ButtonNext]_allVars
    PROVE  ForgottenInv'
<1> SUFFICES ASSUME NEW t \in Touch, state'[t] = "NONE" PROVE button_state'[t] = "NONE"
  BY DEF ForgottenInv
<1>0. state[t] = "NONE" => button_state[t] = "NONE"
  BY DEF ForgottenInv
<1>1. CASE ButtonKernelEvent
  BY <1>0, <1>1, KernelLeaves DEF TouchesMove
<1>2. ASSUME NEW n \in Time, HandleTimeouts(n), state' = state
      PROVE  button_state'[t] = "NONE"
  <2>1. button_state[t] = "NONE"
    BY <1>0, <1>2
  <2>2. ButtonHandleEvent(button_state[t], "TIMEOUT").next = "NONE"
    BY <2>1, HandleTimeout DEF ButtonStates
  <2> QED
    BY <1>2, <2>1, <2>2, TimeoutsDo DEF TimeoutsLeave
<1>3. ASSUME NEW e \in Time, ButtonSynReport(e) \/ ButtonSynIgnored(e)
      PROVE  button_state'[t] = "NONE"
  BY <1>2, <1>3 DEF ButtonSynReport, ButtonSynIgnored, SynReport, SynIgnored, touchVars
<1>4. CASE ButtonHandleState
  BY <1>0, <1>4 DEF ButtonHandleState, Corrupt
<1>5. CASE ButtonPostProcess
  BY <1>0, <1>5 DEF ButtonPostProcess, PostProcess
<1>6. CASE ButtonAgain
  <2>1. now \in Time
    BY DEF Typed
  <2> QED
    BY <1>2, <1>6, <2>1 DEF ButtonAgain, Again, touchVars
<1>7. CASE ButtonHandleEvents \/ ButtonTick
  BY <1>0, <1>7 DEF ButtonHandleEvents, HandleEvents, ButtonTick, ButtonQuiet, vars, touchVars
<1>8. CASE ButtonChangeFd
  BY <1>8 DEF ButtonChangeFd
<1>9. CASE UNCHANGED allVars
  BY <1>0, <1>9 DEF allVars, vars, touchVars, buttonVars
<1> QED
  BY <1>1, <1>3, <1>4, <1>5, <1>6, <1>7, <1>8, <1>9 DEF ButtonNext

(* A button that went down in the frame being read is still down. *)
Struck == \E b \in pressed \cap buttons_state : pc = "read" => b \in clicked

(* A touch is in a pressed state only while a button is down, or until the  *)
(* release that is queued is handled.                                       *)
PressInv ==
    /\ pc = "poll" => queued = {}
    /\ "BUTTON_PRESS" \in queued => Struck
    /\ \A t \in Touch : button_state[t] \in PressedStates =>
          \/ pressed \cap buttons_state # {}
          \/ "BUTTON_RELEASE" \in queued /\ ~handled

(* A kernel event and a pressed touch. *)
LEMMA PressKernel ==
    ASSUME OncePerFrame, Typed, PressInv, ButtonKernelEvent
    PROVE  PressInv'
<1>0. /\ UNCHANGED <<button_state, handled>> /\ pc = "read" /\ pc' = "read" /\ ~handled
      /\ ButtonMoves
  BY KernelLeaves DEF TouchesMove, Typed
<1>1. CASE /\ UNCHANGED <<pressed, clicked, buttons_state>>
           /\ queued' \in {queued, queued \cup {"MOTION"}}
  BY <1>0, <1>1 DEF PressInv, Struck
<1>2. ASSUME NEW b \in Buttons, ButtonPress(b) PROVE PressInv'
  BY <1>0, <1>2 DEF PressInv, Struck, ButtonPress
<1>3. ASSUME NEW b \in Buttons, ButtonRelease(b) PROVE PressInv'
  <2>1. /\ pressed' = pressed \ {b} /\ buttons_state' = buttons_state \ {b}
        /\ queued' = queued \cup {"BUTTON_RELEASE"} /\ clicked' = clicked \cup {b}
        /\ b \notin clicked
    BY <1>3 DEF ButtonRelease, MayClick, OncePerFrame
  <2>2. "BUTTON_PRESS" \in queued' => Struck'
    BY <1>0, <2>1 DEF PressInv, Struck
  <2> QED
    BY <1>0, <2>1, <2>2 DEF PressInv
<1> QED
  BY <1>0, <1>1, <1>2, <1>3 DEF ButtonMoves

(* A frame: the release leaves no pressed touch, the press has struck. *)
LEMMA PressFrame ==
    ASSUME Typed, ForgottenInv, PressInv, ButtonHandleState
    PROVE  PressInv'
<1>0. /\ UNCHANGED <<pressed, clicked, buttons_state, queued, pc>> /\ pc = "post_events"
      /\ ~handled
  BY DEF ButtonHandleState, kernelVars
<1>1. ASSUME NEW t \in Touch, button_state'[t] \in PressedStates
      PROVE  pressed \cap buttons_state # {}
  <2>1. state[t] # "NONE" /\ button_state'[t] = PressEvent(t).next
    BY <1>1 DEF ButtonHandleState, ForgottenInv, PressedStates
  <2>2. CASE "BUTTON_PRESS" \in queued
    BY <2>2 DEF PressInv, Struck
  <2>3. CASE "BUTTON_PRESS" \notin queued
    <3>1. ReleaseEvent(t).next \in PressedStates
      BY <1>1, <2>1, <2>3 DEF PressEvent, Go
    <3>2. "BUTTON_RELEASE" \notin queued /\ MoveEvent(t).next \in PressedStates
      BY <3>1, FrameType, HandleRelease DEF ReleaseEvent, Go, PressedStates
    <3>3. button_state[t] \in PressedStates
      BY <3>2, HandleUp, HandleArea, AreasAreEvents DEF MoveEvent, Go, Typed
    <3> QED
      BY <3>2, <3>3 DEF PressInv
  <2> QED
    BY <2>2, <2>3
<1> QED
  BY <1>0, <1>1 DEF PressInv, Struck

LEMMA PressStep ==
    ASSUME OncePerFrame, Typed, ForgottenInv, PressInv, [ButtonNext]_allVars
    PROVE  PressInv'
<1>0. ASSUME UNCHANGED <<pressed, buttons_state, queued, handled>>,
             pc' = "read" => (clicked' = clicked /\ pc = "read") \/ queued = {},
             pc' = "poll" => queued = {},
             \A t \in Touch : button_state'[t] \in PressedStates =>
                                  button_state[t] \in PressedStates
      PROVE  PressInv'
  BY <1>0 DEF PressInv, Struck
<1>1. ASSUME NEW n \in Time, HandleTimeouts(n), NEW t \in Touch,
             button_state'[t] \in PressedStates
      PROVE  button_state[t] \in PressedStates
  <2>1. button_state[t] \in ButtonStates
    BY DEF Typed
  <2> QED
    BY <1>1, <2>1, TimeoutsDo, HandleTimeout DEF TimeoutsLeave
<1>2. ASSUME NEW e \in Time, ButtonSynReport(e) \/ ButtonSynIgnored(e) PROVE PressInv'
  <2>1. \A t \in Touch : button_state'[t] \in PressedStates =>
                             button_state[t] \in PressedStates
    BY <1>1, <1>2 DEF ButtonSynReport, ButtonSynIgnored
  <2>2. /\ UNCHANGED <<pressed, buttons_state, queued, handled>>
        /\ pc' = "post_events" \/ (pc' = "read" /\ queued = {})
    BY <1>2 DEF ButtonSynReport, ButtonSynIgnored, SynReport, SynIgnored, touchVars
  <2> QED
    BY <1>0, <2>1, <2>2
<1>3. CASE ButtonPostProcess
  <2>1. /\ queued' = {} /\ pc' = "read" /\ UNCHANGED <<pressed, buttons_state>> /\ handled
        /\ \A t \in Touch : button_state'[t] \in PressedStates =>
                                button_state[t] \in PressedStates
    BY <1>3 DEF ButtonPostProcess, PostProcess, kernelVars, PressedStates
  <2> QED
    BY <2>1 DEF PressInv
<1>4. CASE ButtonHandleEvents
  <2>1. /\ UNCHANGED <<pressed, buttons_state, queued, handled, button_state>>
        /\ queued = {}
    BY <1>4 DEF ButtonHandleEvents, HandleEvents, ButtonQuiet, kernelVars, touchVars, PressInv
  <2> QED
    BY <1>0, <2>1
<1>5. CASE ButtonAgain
  <2>1. now \in Time /\ HandleTimeouts(now)
    BY <1>5 DEF ButtonAgain, Typed
  <2>2. UNCHANGED <<pressed, buttons_state, queued, handled>> /\ queued = {}
    BY <1>5 DEF ButtonAgain, Again, kernelVars, touchVars
  <2> QED
    BY <1>0, <1>1, <2>1, <2>2
<1>6. CASE ButtonTick
  BY <1>0, <1>6 DEF ButtonTick, ButtonQuiet, vars, kernelVars, touchVars, PressInv
<1>7. CASE ButtonChangeFd
  <2>1. queued' = {} /\ \A t \in Touch : button_state'[t] = "NONE"
    BY <1>7 DEF ButtonChangeFd, ChangeFd, PressInv
  <2> QED
    BY <2>1 DEF PressInv, PressedStates
<1>8. CASE UNCHANGED allVars
  BY <1>8 DEF allVars, vars, kernelVars, touchVars, buttonVars, PressInv, Struck
<1> QED
  BY <1>2, <1>3, <1>4, <1>5, <1>6, <1>7, <1>8, PressKernel, PressFrame DEF ButtonNext

LEMMA PressAlways ==
    ASSUME OncePerFrame
    PROVE  ButtonSpec => [](ForgottenInv /\ PressInv)
<1>1. ButtonInit => ForgottenInv /\ PressInv
  BY DEF ButtonInit, Init, ForgottenInv, PressInv, PressedStates
<1>2. /\ Typed /\ ForgottenInv /\ PressInv /\ [ButtonNext]_allVars
      => ForgottenInv' /\ PressInv'
  BY ForgottenStep, PressStep
<1> QED
  BY <1>1, <1>2, TypedAlways, PTL DEF ButtonSpec

(* Once every button is up and its release handled, no touch is left in a   *)
(* pressed state, also with several buttons, with fingers or buttons down   *)
(* when the device is opened, and when the fd is changed.                   *)
THEOREM NeverStalePressed ==
    ASSUME OncePerFrame
    PROVE  ButtonSpec => []NoStalePressed
<1>1. PressInv => NoStalePressed
  BY DEF PressInv, NoStalePressed
<1> QED
  BY <1>1, PressAlways, PTL

----------------------------------------------------------------------------
(* Right clicks *)

(* On a clickpad, a touch that is still pressed when the button goes down   *)
(* sees the release first.                                                  *)
OneClickInv ==
    \A t \in Touch :
        button_state[t] \in PressedStates /\ "BUTTON_PRESS" \in queued /\ ~handled
            => "BUTTON_RELEASE" \in queued

LEMMA OneClickStep ==
    ASSUME OneButton, Typed, PressInv, OneClickInv, [ButtonNext]_allVars
    PROVE  OneClickInv'
<1> SUFFICES ASSUME NEW t \in Touch, button_state'[t] \in PressedStates,
                    "BUTTON_PRESS" \in queued', ~handled'
             PROVE  "BUTTON_RELEASE" \in queued'
  BY DEF OneClickInv
<1>0. ASSUME button_state[t] \in PressedStates, ~handled, queued' = queued
      PROVE  "BUTTON_RELEASE" \in queued'
  BY <1>0 DEF OneClickInv
<1>1. CASE ButtonKernelEvent
  <2>1. button_state'[t] = button_state[t] /\ handled' = handled /\ ButtonMoves
    BY <1>1, KernelLeaves
  <2>2. ASSUME NEW b \in Buttons, ButtonPress(b) PROVE "BUTTON_RELEASE" \in queued'
    <3>1. pressed \cap buttons_state = {}
      <4>1. buttons_state \subseteq Buttons /\ b \notin pressed
        BY <2>2 DEF ButtonPress, Typed
      <4> QED
        BY <4>1 DEF OneButton
    <3> QED
      BY <2>1, <2>2, <3>1 DEF PressInv, ButtonPress
  <2> QED
    BY <1>0, <2>1, <2>2 DEF ButtonMoves, OneClickInv, ButtonRelease
<1>2. ASSUME NEW n \in Time, HandleTimeouts(n), queued' = queued, handled' = handled
      PROVE  "BUTTON_RELEASE" \in queued'
  <2>1. button_state[t] \in ButtonStates
    BY DEF Typed
  <2>2. button_state[t] \in PressedStates
    BY <1>2, <2>1, TimeoutsDo, HandleTimeout DEF TimeoutsLeave
  <2> QED
    BY <1>0, <1>2, <2>2
<1>3. ASSUME NEW e \in Time, ButtonSynReport(e) \/ ButtonSynIgnored(e)
      PROVE  "BUTTON_RELEASE" \in queued'
  BY <1>2, <1>3 DEF ButtonSynReport, ButtonSynIgnored, SynReport, SynIgnored, touchVars
<1>4. ~ButtonHandleState /\ ~ButtonPostProcess
  BY DEF ButtonHandleState, ButtonPostProcess, PostProcess
<1>5. CASE ButtonAgain
  <2>1. now \in Time
    BY DEF Typed
  <2> QED
    BY <1>2, <1>5, <2>1 DEF ButtonAgain, Again, touchVars
<1>6. CASE ButtonHandleEvents \/ ButtonTick
  BY <1>0, <1>6 DEF ButtonHandleEvents, HandleEvents, ButtonTick, ButtonQuiet, vars, touchVars
<1>7. CASE ButtonChangeFd
  BY <1>7 DEF ButtonChangeFd, PressedStates
<1>8. CASE UNCHANGED allVars
  BY <1>0, <1>8 DEF allVars, vars, touchVars, buttonVars
<1> QED
  BY <1>1, <1>3, <1>4, <1>5, <1>6, <1>7, <1>8 DEF ButtonNext

(* A touch in a state of the right area is there, or has moved in the frame *)
(* that is not handled yet.  LEFT_TO_RIGHT without its timer is what is     *)
(* left of a finger that lifted.                                            *)
RightState(t) ==
    \/ button_state[t] \in {"RIGHT", "RIGHT_NEW"}
    \/ button_state[t] = "LEFT_TO_RIGHT" /\ button_timeout[t] # 0
RightInv ==
    \A t \in Touch : RightState(t) => area[t] = "IN_R" \/ (dirty[t] /\ ~handled)

(* A frame that leaves a touch in a state of the right area. *)
LEMMA RightFrame ==
    ASSUME Typed, RightInv, ~handled, NEW t \in Touch,
           \/ MoveEvent(t).next \in {"RIGHT", "RIGHT_NEW"}
           \/ MoveEvent(t).next = "LEFT_TO_RIGHT" /\ TimeoutAfter(t) # 0
    PROVE  area[t] = "IN_R"
<1>0. button_state[t] \in ButtonStates /\ area[t] \in AreaEvents
  BY AreasAreEvents DEF Typed
<1>1. CASE state[t] = "END"
  <2>1. MoveEvent(t).timer = "clear" \/ MoveEvent(t).next = "NONE"
    BY <1>0, <1>1, HandleUp DEF MoveEvent
  <2>2. MoveEvent(t).next \notin {"RIGHT", "RIGHT_NEW"}
    BY <1>0, <1>1, HandleUp DEF MoveEvent
  <2> QED
    BY <2>1, <2>2, TimerAfter
<1>2. CASE state[t] # "END" /\ dirty[t]
  BY <1>0, <1>2, HandleArea DEF MoveEvent
<1>3. CASE state[t] # "END" /\ ~dirty[t]
  <2>1. MoveEvent(t) = Go(button_state[t], "keep")
    BY <1>3 DEF MoveEvent
  <2>2. RightState(t)
    BY <2>1, TimerAfter DEF Go, RightState
  <2> QED
    BY <1>3, <2>2 DEF RightInv
<1> QED
  BY <1>1, <1>2, <1>3

LEMMA RightStep ==
    ASSUME Typed, ForgottenInv, RightInv, [ButtonNext]_allVars
    PROVE  RightInv'
<1> SUFFICES ASSUME NEW t \in Touch, RightState(t)'
             PROVE  area'[t] = "IN_R" \/ (dirty'[t] /\ ~handled')
  BY DEF RightInv
<1>0. RightState(t) => area[t] = "IN_R" \/ (dirty[t] /\ ~handled)
  BY DEF RightInv
<1>1. ASSUME button_state'[t] = button_state[t], button_timeout'[t] = button_timeout[t]
      PROVE  RightState(t)
  BY <1>1 DEF RightState
<1>2. CASE ButtonKernelEvent
  BY <1>0, <1>1, <1>2, KernelLeaves DEF TouchesMove, Typed
<1>3. ASSUME NEW n \in Time, HandleTimeouts(n), UNCHANGED <<area, dirty, handled>>
      PROVE  area'[t] = "IN_R" \/ (dirty'[t] /\ ~handled')
  <2>1. button_state[t] \in ButtonStates
    BY DEF Typed
  <2>2. TimeoutsLeave(n)
    BY <1>3, TimeoutsDo
  <2>3. RightState(t)
    <3>1. CASE /\ button_state'[t] = button_state[t]
               /\ button_timeout'[t] = button_timeout[t]
      BY <1>1, <3>1
    <3>2. CASE /\ button_timeout[t] # 0 /\ button_timeout'[t] = 0
               /\ button_state'[t] = ButtonHandleEvent(button_state[t], "TIMEOUT").next
      BY <2>1, <3>2, HandleTimeout DEF RightState
    <3> QED
      BY <2>2, <3>1, <3>2 DEF TimeoutsLeave
  <2> QED
    BY <1>0, <1>3, <2>3
<1>4. ASSUME NEW e \in Time, ButtonSynReport(e) \/ ButtonSynIgnored(e)
      PROVE  area'[t] = "IN_R" \/ (dirty'[t] /\ ~handled')
  BY <1>3, <1>4 DEF ButtonSynReport, ButtonSynIgnored, SynReport, SynIgnored, touchVars
<1>5. CASE ButtonHandleState
  <2>1. state[t] # "NONE"
    BY <1>5 DEF ButtonHandleState, ForgottenInv, RightState
  <2>2. /\ button_state'[t] = PressEvent(t).next /\ button_timeout'[t] = TimeoutAfter(t)
        /\ area' = area /\ ~handled
    BY <1>5, <2>1 DEF ButtonHandleState
  <2>3. /\ MoveEvent(t).next \in ButtonStates
        /\ ReleaseEvent(t).next \in ButtonStates
    BY FrameType
  <2>4. PressEvent(t).next = ReleaseEvent(t).next
    BY <2>2, <2>3, HandlePress DEF PressEvent, Go, RightState, PressedStates
  <2>5. ReleaseEvent(t).next = MoveEvent(t).next
    BY <2>2, <2>3, <2>4, HandleRelease DEF ReleaseEvent, Go, RightState
  <2>6. \/ MoveEvent(t).next \in {"RIGHT", "RIGHT_NEW"}
        \/ MoveEvent(t).next = "LEFT_TO_RIGHT" /\ TimeoutAfter(t) # 0
    BY <2>2, <2>4, <2>5 DEF RightState
  <2> QED
    BY <2>2, <2>6, RightFrame
<1>6. CASE ButtonPostProcess
  <2>1. /\ handled /\ area' = area /\ button_timeout' = button_timeout
        /\ button_state'[t] = button_state[t]
    BY <1>6 DEF ButtonPostProcess, RightState
  <2> QED
    BY <1>0, <1>1, <2>1
<1>7. CASE ButtonAgain
  <2>1. now \in Time
    BY DEF Typed
  <2> QED
    BY <1>3, <1>7, <2>1 DEF ButtonAgain, Again, touchVars
<1>8. CASE ButtonHandleEvents \/ ButtonTick
  BY <1>0, <1>1, <1>8
  DEF ButtonHandleEvents, HandleEvents, ButtonTick, ButtonQuiet, vars, touchVars
<1>9. CASE ButtonChangeFd
  BY <1>9 DEF ButtonChangeFd, RightState
<1>10. CASE UNCHANGED allVars
  BY <1>0, <1>1, <1>10 DEF allVars, vars, touchVars, buttonVars
<1> QED
  BY <1>2, <1>4, <1>5, <1>6, <1>7, <1>8, <1>9, <1>10 DEF ButtonNext

(* A touch takes part in a right click only in the right area, or in the    *)
(* two states that remember it, on any clickpad and however long the touch  *)
(* has been there.                                                          *)
THEOREM RightAlwaysNeedsArea ==
    ASSUME OncePerFrame, OneButton
    PROVE  ButtonSpec => []RightNeedsArea
<1>1. ButtonInit => OneClickInv /\ RightInv
  BY DEF ButtonInit, OneClickInv, RightInv, RightState, PressedStates
<1>2. /\ Typed /\ ForgottenInv /\ PressInv /\ OneClickInv /\ RightInv
      /\ [ButtonNext]_allVars
      => OneClickInv' /\ RightInv'
  BY OneClickStep, RightStep
<1>3. Typed /\ OneClickInv /\ RightInv => RightNeedsArea
  <2> SUFFICES ASSUME Typed, OneClickInv, RightInv, ~handled, "BUTTON_PRESS" \in queued,
                      NEW t \in Touch, PressEvent(t).next = "PRESSED_RIGHT"
               PROVE  \/ area[t] = "IN_R"
                      \/ MoveEvent(t).next \in {"RIGHT_TO_AREA", "RIGHT_TO_LEFT"}
    BY DEF RightNeedsArea
  <2>1. /\ MoveEvent(t).next \in ButtonStates
        /\ ReleaseEvent(t).next \in ButtonStates
    BY FrameType
  <2>2. ReleaseEvent(t).next \in {"RIGHT", "RIGHT_NEW", "RIGHT_TO_AREA", "RIGHT_TO_LEFT",
                                  "PRESSED_RIGHT"}
    BY <2>1, HandlePress DEF PressEvent
  <2>3. MoveEvent(t).next \notin PressedStates
    <3> SUFFICES ASSUME MoveEvent(t).next \in PressedStates PROVE FALSE
      OBVIOUS
    <3>1. button_state[t] \in PressedStates
      BY HandleUp, HandleArea, AreasAreEvents DEF MoveEvent, Go, Typed
    <3>2. "BUTTON_RELEASE" \in queued
      BY <3>1 DEF OneClickInv
    <3> QED
      BY <2>1, <2>2, <3>2, HandleRelease DEF ReleaseEvent
  <2>4. ReleaseEvent(t).next = MoveEvent(t).next
    BY <2>1, <2>3, HandleRelease DEF ReleaseEvent, Go
  <2> QED
    BY <2>2, <2>3, <2>4, RightFrame DEF PressedStates
<1> QED
  BY <1>1, <1>2, <1>3, TypedAlways, PressAlways, PTL DEF ButtonSpec

----------------------------------------------------------------------------
(* The clicks the host sees *)

(* The button is up when the device is opened. *)
NothingAtOpen == "fingers_at_open" \notin Quirks

ClickFlags == {"BUTTON_PRESS", "BUTTON_RELEASE"}
Codes      == {"BTN_LEFT", "BTN_RIGHT"}

(* The library knows the button of the kernel, a frame has one change of it *)
(* at most, and what was posted as a press is known until the release.      *)
ClickInv ==
    /\ buttons_state = pressed
    /\ pc = "read" /\ queued \cap ClickFlags # {} => Buttons \subseteq clicked
    /\ pc = "poll" => queued = {}
    /\ "BUTTON_PRESS" \in queued => buttons_state # {} /\ "BUTTON_RELEASE" \notin queued
    /\ "BUTTON_RELEASE" \in queued => buttons_state = {}
    /\ Posted => active_softbutton \in Codes

(* A step without a callback that leaves what the host sees. *)
LEMMA QuietClick ==
    ASSUME out' = <<>>, Posted' <=> Posted, active_softbutton' = active_softbutton
    PROVE  Host!Next
BY DEF Host!Next, Host!Quiet

(* One callback: a press while nothing is down ... *)
LEMMA PressClick ==
    ASSUME ~Posted, Posted', NEW c \in Codes, active_softbutton' = c,
           out' = <<[button |-> c, press |-> TRUE]>>
    PROVE  Host!Next
<1> DEFINE s == <<[button |-> c, press |-> TRUE]>>
<1>1. s \in Seq(Host!Callback) /\ Len(s) = 1 /\ s[1] = [button |-> c, press |-> TRUE]
  BY DEF Host!Callback, Codes
<1> HIDE DEF s
<1>2. \A b : ~Host!DownAfter(s, 0, b)
  BY DEF Host!DownAfter
<1>3. \A b \in Codes : Host!DownAfter(s, 1, b) <=> b = c
  BY <1>1, <1>2 DEF Host!DownAfter, Codes
<1>4. \A i \in 1 .. Len(s) : s[i].press <=> ~Host!DownAfter(s, i - 1, s[i].button)
  <2>1. s[1].press /\ ~Host!DownAfter(s, 1 - 1, s[1].button)
    BY <1>1, <1>2
  <2>2. \A i \in 1 .. Len(s) : i = 1
    BY <1>1
  <2> QED
    BY <2>1, <2>2
<1>5. {active_softbutton'} = {b \in Codes : Host!DownAfter(s, Len(s), b)}
  BY <1>1, <1>3
<1> QED
  BY <1>1, <1>4, <1>5 DEF Host!Next, Host!Post, Codes, s

(* ... or the release of the button that is. *)
LEMMA ReleaseClick ==
    ASSUME Posted, ~Posted', NEW c \in Codes, active_softbutton = c,
           out' = <<[button |-> c, press |-> FALSE]>>
    PROVE  Host!Next
<1> DEFINE s == <<[button |-> c, press |-> FALSE]>>
<1>1. s \in Seq(Host!Callback) /\ Len(s) = 1 /\ s[1] = [button |-> c, press |-> FALSE]
  BY DEF Host!Callback, Codes
<1> HIDE DEF s
<1>2. \A b : Host!DownAfter(s, 0, b) <=> b = c
  BY DEF Host!DownAfter
<1>3. \A b \in Codes : ~Host!DownAfter(s, 1, b)
  <2>1. s[1] # [button |-> c, press |-> TRUE] /\ s[1].button = c /\ ~s[1].press
    BY <1>1
  <2>2. \A b : s[1] # [button |-> b, press |-> TRUE]
    BY <2>1
  <2>3. \A b : b # c => ~(b \in {active_softbutton})
    OBVIOUS
  <2> QED
    BY <1>1, <1>2, <2>1, <2>2, <2>3 DEF Host!DownAfter
<1>4. \A i \in 1 .. Len(s) : s[i].press <=> ~Host!DownAfter(s, i - 1, s[i].button)
  <2>1. ~s[1].press /\ Host!DownAfter(s, 1 - 1, s[1].button)
    BY <1>1, <1>2
  <2>2. \A i \in 1 .. Len(s) : i = 1
    BY <1>1
  <2> QED
    BY <2>1, <2>2
<1>5. {} = {b \in Codes : Host!DownAfter(s, Len(s), b)}
  BY <1>1, <1>3
<1> QED
  BY <1>1, <1>4, <1>5 DEF Host!Next, Host!Post, Codes, s

LEMMA ClickKernel ==
    ASSUME OncePerFrame, OneButton, Typed, ClickInv, ButtonKernelEvent
    PROVE  ClickInv' /\ Host!Next
<1>0. /\ UNCHANGED <<handled, active_softbutton>> /\ out' = <<>>
      /\ pc = "read" /\ pc' = "read" /\ ~handled /\ ButtonMoves
  BY KernelLeaves DEF TouchesMove, Typed
<1>1. CASE /\ UNCHANGED <<pressed, clicked, buttons_state>>
           /\ queued' \in {queued, queued \cup {"MOTION"}}
  <2>1. Posted' = Posted
    BY <1>0, <1>1 DEF Posted
  <2> QED
    BY <1>0, <1>1, <2>1, QuietClick DEF ClickInv, ClickFlags
<1>2. ASSUME NEW b \in Buttons, ButtonPress(b) \/ ButtonRelease(b)
      PROVE  ClickInv' /\ Host!Next
  <2>1. b \notin clicked /\ clicked' = clicked \cup {b}
    BY <1>2 DEF ButtonPress, ButtonRelease, MayClick, OncePerFrame
  <2>2. queued \cap ClickFlags = {} /\ Buttons \subseteq clicked'
    BY <1>0, <2>1 DEF ClickInv, OneButton
  <2>3. buttons_state \subseteq {b} /\ buttons_state = pressed
    BY DEF OneButton, Typed, ClickInv
  <2>4. CASE ButtonPress(b)
    <3>1. buttons_state = {} /\ buttons_state' = {b} /\ pressed' = {b}
          /\ queued' = queued \cup {"BUTTON_PRESS"}
      BY <2>3, <2>4 DEF ButtonPress
    <3>2. ~Posted /\ ~Posted'
      BY <1>0, <2>2, <3>1 DEF Posted, ClickFlags
    <3>3. "BUTTON_RELEASE" \notin queued'
      BY <2>2, <3>1 DEF ClickFlags
    <3>4. ClickInv'
      BY <1>0, <2>2, <3>1, <3>2, <3>3 DEF ClickInv
    <3> QED
      BY <1>0, <3>2, <3>4, QuietClick
  <2>5. CASE ButtonRelease(b)
    <3>1. buttons_state = {b} /\ buttons_state' = {} /\ pressed' = {}
          /\ queued' = queued \cup {"BUTTON_RELEASE"}
      BY <2>3, <2>5 DEF ButtonRelease
    <3>2. Posted /\ Posted'
      BY <1>0, <2>2, <3>1 DEF Posted, ClickFlags
    <3> QED
      BY <1>0, <2>2, <3>1, <3>2, QuietClick DEF ClickInv, ClickFlags
  <2> QED
    BY <1>2, <2>4, <2>5
<1> QED
  BY <1>0, <1>1, <1>2 DEF ButtonMoves

(* A callback and nothing before or after it. *)
LEMMA ConcatNothing == \A e : <<>> \o <<e>> = <<e>> /\ <<e>> \o <<>> = <<e>>
OBVIOUS

LEMMA ClickFrame ==
    ASSUME ClickInv, ButtonHandleState
    PROVE  ClickInv' /\ Host!Next
<1> DEFINE S == {t \in Touch : state[t] # "NONE"}
           c == PostedButton(S)
<1>0. /\ UNCHANGED <<pressed, clicked, buttons_state, queued, pc>> /\ pc = "post_events"
      /\ ~handled /\ handled' = TRUE
      /\ active_softbutton' = ActiveAfter(S) /\ out' = Callbacks(S)
  BY DEF ButtonHandleState, kernelVars
<1>1. c \in Codes
  BY DEF PostedButton, Codes
<1>2. Posted' <=> buttons_state # {}
  BY <1>0 DEF Posted
<1> HIDE DEF S
<1>3. CASE "BUTTON_PRESS" \in queued
  <2>1. "BUTTON_RELEASE" \notin queued /\ buttons_state # {} /\ ~Posted
    BY <1>0, <1>3 DEF ClickInv, Posted
  <2>2. active_softbutton' = c /\ out' = <<[button |-> c, press |-> TRUE]>>
    <3>1. Callbacks(S) = <<>> \o <<[button |-> c, press |-> TRUE]>>
      BY <1>3, <2>1 DEF Callbacks
    <3>2. Callbacks(S) = <<[button |-> c, press |-> TRUE]>>
      BY <3>1, ConcatNothing, Zenon
    <3> QED
      BY <1>0, <1>3, <3>2 DEF ActiveAfter
  <2> HIDE DEF c
  <2> QED
    BY <1>0, <1>1, <1>2, <1>3, <2>1, <2>2, PressClick DEF ClickInv
<1>4. CASE "BUTTON_PRESS" \notin queued /\ "BUTTON_RELEASE" \in queued
  <2>1. buttons_state = {} /\ Posted /\ active_softbutton \in Codes
    BY <1>0, <1>4 DEF ClickInv, Posted
  <2>2. /\ active_softbutton' = active_softbutton
        /\ out' = <<[button |-> active_softbutton, press |-> FALSE]>>
    <3>1. Callbacks(S) = <<[button |-> active_softbutton, press |-> FALSE]>> \o <<>>
      BY <1>4 DEF Callbacks
    <3>2. Callbacks(S) = <<[button |-> active_softbutton, press |-> FALSE]>>
      BY <3>1, ConcatNothing, Zenon
    <3> QED
      BY <1>0, <1>4, <3>2 DEF ActiveAfter
  <2> QED
    BY <1>0, <1>2, <1>4, <2>1, <2>2, ReleaseClick DEF ClickInv
<1>5. CASE "BUTTON_PRESS" \notin queued /\ "BUTTON_RELEASE" \notin queued
  <2>1. Posted' = Posted
    BY <1>0, <1>5 DEF Posted
  <2>2. active_softbutton' = active_softbutton /\ out' = <<>>
    BY <1>0, <1>5 DEF ActiveAfter, Callbacks
  <2> QED
    BY <1>0, <1>5, <2>1, <2>2, QuietClick DEF ClickInv
<1> QED
  BY <1>3, <1>4, <1>5

LEMMA ClickStep ==
    ASSUME MaxFdChanges = 0, OncePerFrame, OneButton, Typed, ClickInv, [ButtonNext]_allVars
    PROVE  ClickInv' /\ [Host!Next]_(Host!vars)
<1>0. ASSUME UNCHANGED <<pressed, buttons_state, queued, handled, active_softbutton>>,
             pc' = "read" => (clicked' = clicked /\ pc = "read") \/ queued = {},
             pc' = "poll" => queued = {}
      PROVE  ClickInv' /\ Posted' = Posted
  BY <1>0 DEF ClickInv, Posted
<1>1. ASSUME NEW n \in Time, HandleTimeouts(n)
      PROVE  active_softbutton' = active_softbutton /\ out' = <<>>
  BY <1>1, TimeoutsDo DEF TimeoutsLeave
<1>2. ASSUME NEW e \in Time, ButtonSynReport(e) \/ ButtonSynIgnored(e)
      PROVE  ClickInv' /\ Host!Next
  <2>1. active_softbutton' = active_softbutton /\ out' = <<>>
    BY <1>1, <1>2 DEF ButtonSynReport, ButtonSynIgnored
  <2>2. /\ UNCHANGED <<pressed, buttons_state, queued, handled>>
        /\ pc' = "post_events" \/ (pc' = "read" /\ queued = {})
    BY <1>2 DEF ButtonSynReport, ButtonSynIgnored, SynReport, SynIgnored, touchVars
  <2> QED
    BY <1>0, <2>1, <2>2, QuietClick
<1>3. CASE ButtonPostProcess
  <2>1. /\ queued' = {} /\ pc' = "read" /\ UNCHANGED <<pressed, buttons_state>> /\ handled
        /\ active_softbutton' = active_softbutton /\ out' = <<>>
    BY <1>3 DEF ButtonPostProcess, PostProcess, kernelVars
  <2>2. Posted' = Posted
    BY <2>1 DEF Posted
  <2> QED
    BY <2>1, <2>2, QuietClick DEF ClickInv
<1>4. CASE ButtonHandleEvents
  <2>1. /\ UNCHANGED <<pressed, buttons_state, queued, handled, active_softbutton>>
        /\ queued = {} /\ out' = <<>>
    BY <1>4 DEF ButtonHandleEvents, HandleEvents, ButtonQuiet, kernelVars, touchVars, ClickInv
  <2> QED
    BY <1>0, <2>1, QuietClick
<1>5. CASE ButtonAgain
  <2>1. active_softbutton' = active_softbutton /\ out' = <<>>
    BY <1>1, <1>5 DEF ButtonAgain, Typed
  <2>2. UNCHANGED <<pressed, buttons_state, queued, handled>> /\ queued = {}
    BY <1>5 DEF ButtonAgain, Again, kernelVars, touchVars
  <2> QED
    BY <1>0, <2>1, <2>2, QuietClick
<1>6. CASE ButtonTick
  <2>1. /\ UNCHANGED <<pressed, clicked, buttons_state, queued, handled, active_softbutton, pc>>
        /\ out' = <<>>
    BY <1>6 DEF ButtonTick, ButtonQuiet, vars, kernelVars, touchVars
  <2>2. ClickInv' /\ Posted' = Posted
    BY <2>1 DEF ClickInv, Posted
  <2> QED
    BY <2>1, <2>2, QuietClick
<1>7. ~ButtonChangeFd
  BY DEF ButtonChangeFd, ChangeFd, Typed
<1>8. CASE UNCHANGED allVars
  <2>1. /\ UNCHANGED <<pressed, clicked, buttons_state, queued, handled, active_softbutton, pc>>
        /\ UNCHANGED out
    BY <1>8 DEF allVars, vars, kernelVars, touchVars, buttonVars
  <2>2. ClickInv' /\ Posted' = Posted
    BY <2>1 DEF ClickInv, Posted
  <2> QED
    BY <2>1, <2>2 DEF Host!vars
<1> QED
  BY <1>2, <1>3, <1>4, <1>5, <1>6, <1>7, <1>8, ClickKernel, ClickFrame DEF ButtonNext

(* The clicks of a clickpad implement the abstract host: every press that   *)
(* is posted is followed by the release of the same button, whatever the    *)
(* fingers do in between.                                                   *)
THEOREM ClicksAlwaysAlternate ==
    ASSUME MaxFdChanges = 0, NothingAtOpen, OncePerFrame, OneButton
    PROVE  ButtonSpec => ClicksAlternate
<1>1. ButtonInit => Host!Init /\ ClickInv
  BY DEF ButtonInit, Init, NothingAtOpen, Host!Init, Posted, ClickInv
<1>2. Typed /\ ClickInv /\ [ButtonNext]_allVars => ClickInv' /\ [Host!Next]_(Host!vars)
  BY ClickStep
<1> QED
  BY <1>1, <1>2, TypedAlways, PTL DEF ButtonSpec, ClicksAlternate, Host!Spec

----------------------------------------------------------------------------
(* The path of a finger and its first click *)

(* The frame in which the finger of t arrived has been handled. *)
Entered(t) == state[t] = "UPDATE" \/ (state[t] = "BEGIN" /\ handled)

(* What the path of a finger that has not seen a click says of its state. *)
Expected(t, where) ==
    /\ where = "outside" => button_state[t] = "AREA"
    /\ where = "right" => button_state[t] \in {"RIGHT", "RIGHT_NEW"}

PathInv ==
    \A t \in Touch :
        /\ state[t] = "BEGIN" => dirty[t] \/ handled
        /\ Entered(t) /\ fresh[t] => Expected(t, path[t])

(* A frame without a click, and what the path then says. *)
LEMMA MoveExpected ==
    ASSUME Typed, PathInv, ~handled, NEW t \in Touch, Down(t), Fresh(t)
    PROVE  /\ Path(t) = "outside" => MoveEvent(t).next = "AREA"
           /\ Path(t) = "right" => MoveEvent(t).next \in {"RIGHT", "RIGHT_NEW"}
<1>0. button_state[t] \in ButtonStates /\ area[t] \in AreaEvents
  BY AreasAreEvents DEF Typed
<1>1. CASE state[t] = "BEGIN"
  <2>1. button_state[t] = "NONE" /\ dirty[t]
    BY <1>1 DEF Fresh, PathInv
  <2>2. MoveEvent(t) = ButtonHandleEvent(button_state[t], area[t])
    BY <1>1, <2>1 DEF MoveEvent
  <2>3. /\ Path(t) = "outside" => area[t] = "IN_AREA"
        /\ Path(t) = "right" => area[t] = "IN_R"
    BY <1>1 DEF Path
  <2> QED
    BY <1>0, <2>1, <2>2, <2>3, HandleArea
<1>2. CASE state[t] = "UPDATE"
  <2>1. /\ Path(t) = "outside" => path[t] = "outside"
        /\ Path(t) = "right" => path[t] = "right" /\ area[t] = "IN_R"
    BY <1>2 DEF Path
  <2>2. Expected(t, path[t])
    BY <1>2 DEF Fresh, PathInv, Entered
  <2>3. CASE dirty[t]
    <3>1. MoveEvent(t) = ButtonHandleEvent(button_state[t], area[t])
      BY <1>2, <2>3 DEF MoveEvent
    <3> QED
      BY <1>0, <2>1, <2>2, <3>1, HandleArea DEF Expected
  <2>4. CASE ~dirty[t]
    <3>1. MoveEvent(t).next = button_state[t]
      BY <1>2, <2>4 DEF MoveEvent, Go
    <3> QED
      BY <2>1, <2>2, <3>1 DEF Expected
  <2> QED
    BY <2>3, <2>4
<1> QED
  BY <1>1, <1>2 DEF Down

(* The release of an earlier click changes nothing of it. *)
LEMMA ReleaseExpected ==
    ASSUME Typed, PathInv, ~handled, NEW t \in Touch, Down(t), Fresh(t)
    PROVE  /\ Path(t) = "outside" => ReleaseEvent(t).next = "AREA"
           /\ Path(t) = "right" => ReleaseEvent(t).next \in {"RIGHT", "RIGHT_NEW"}
<1>1. MoveEvent(t).next \in ButtonStates
  BY FrameType
<1>2. ReleaseEvent(t).next = MoveEvent(t).next \/ MoveEvent(t).next \in PressedStates
  BY <1>1, HandleRelease DEF ReleaseEvent, Go
<1> QED
  BY <1>2, MoveExpected DEF PressedStates

LEMMA PathFrame ==
    ASSUME Typed, PathInv, ButtonHandleState, Remember
    PROVE  PathInv'
<1>0. /\ ~handled /\ handled' = TRUE /\ queued' = queued
  BY DEF ButtonHandleState
<1> SUFFICES ASSUME NEW t \in Touch, Entered(t)', fresh'[t] PROVE Expected(t, path[t])'
  BY <1>0 DEF PathInv
<1>1. Down(t) /\ Fresh(t) /\ ~Clicking /\ path'[t] \in {"other", Path(t)}
  <2>1. /\ fresh'[t] = ((Down(t) /\ Fresh(t) /\ ~Clicking) /\ Path(t) # "other")
        /\ path'[t] \in {"other", Path(t)}
    BY DEF Remember
  <2> QED
    BY <2>1
<1>2. button_state'[t] = PressEvent(t).next
  BY <1>1 DEF ButtonHandleState, Down
<1>3. PressEvent(t).next = ReleaseEvent(t).next
  BY <1>1 DEF Clicking, PressEvent, Go
<1> QED
  BY <1>0, <1>1, <1>2, <1>3, ReleaseExpected DEF Expected

(* A step that is not the frame. *)
LEMMA PathOther ==
    ASSUME Typed, PathInv, [ButtonNext]_allVars, ~ButtonHandleState, UNCHANGED <<path, fresh>>
    PROVE  PathInv'
<1> SUFFICES ASSUME NEW t \in Touch
             PROVE  /\ state'[t] = "BEGIN" => dirty'[t] \/ handled'
                    /\ Entered(t)' /\ fresh[t] => Expected(t, path[t])'
  BY DEF PathInv
<1>0. /\ state[t] = "BEGIN" => dirty[t] \/ handled
      /\ Entered(t) /\ fresh[t] => Expected(t, path[t])
  BY DEF PathInv
<1>1. CASE ButtonKernelEvent
  <2>1. UNCHANGED <<button_state, handled>> /\ TouchesMove /\ ~handled
    BY <1>1, KernelLeaves DEF TouchesMove, Typed
  <2> QED
    BY <1>0, <2>1 DEF TouchesMove, Entered, Expected
<1>2. ASSUME NEW n \in Time, HandleTimeouts(n), UNCHANGED <<state, dirty, handled>>
      PROVE  /\ state'[t] = "BEGIN" => dirty'[t] \/ handled'
             /\ Entered(t)' /\ fresh[t] => Expected(t, path[t])'
  <2>1. button_state[t] \in ButtonStates
    BY DEF Typed
  <2>2. Expected(t, path[t]) => Expected(t, path[t])'
    BY <1>2, <2>1, TimeoutsDo, HandleTimeout DEF TimeoutsLeave, Expected
  <2> QED
    BY <1>0, <1>2, <2>2 DEF Entered
<1>3. ASSUME NEW e \in Time, ButtonSynReport(e) \/ ButtonSynIgnored(e)
      PROVE  /\ state'[t] = "BEGIN" => dirty'[t] \/ handled'
             /\ Entered(t)' /\ fresh[t] => Expected(t, path[t])'
  BY <1>2, <1>3 DEF ButtonSynReport, ButtonSynIgnored, SynReport, SynIgnored, touchVars
<1>4. CASE ButtonPostProcess
  <2>1. /\ state'[t] # "BEGIN" /\ handled
        /\ state'[t] = "UPDATE" =>
              state[t] \in {"BEGIN", "UPDATE"} /\ button_state'[t] = button_state[t]
    BY <1>4 DEF ButtonPostProcess, PostProcess
  <2> QED
    BY <1>0, <2>1 DEF Entered, Expected
<1>5. CASE ButtonAgain
  <2>1. now \in Time
    BY DEF Typed
  <2> QED
    BY <1>2, <1>5, <2>1 DEF ButtonAgain, Again, touchVars
<1>6. CASE ButtonHandleEvents \/ ButtonTick
  BY <1>0, <1>6 DEF ButtonHandleEvents, HandleEvents, ButtonTick, ButtonQuiet, vars, touchVars,
                    Entered, Expected
<1>7. CASE ButtonChangeFd
  BY <1>7 DEF ButtonChangeFd, ChangeFd, Entered
<1>8. CASE UNCHANGED allVars
  BY <1>0, <1>8 DEF allVars, vars, touchVars, buttonVars, Entered, Expected
<1> QED
  BY <1>1, <1>3, <1>4, <1>5, <1>6, <1>7, <1>8 DEF ButtonNext

LEMMA PathStep ==
    ASSUME Typed, PathInv, [HistoryNext]_<<allVars, path, fresh>>
    PROVE  PathInv'
<1>1. CASE FrameHandled /\ HistoryNext
  <2>1. ButtonNext /\ Remember
    BY <1>1 DEF HistoryNext
  <2>2. ButtonHandleState
    <3>1. pc = "post_events" /\ ~handled
      BY <1>1 DEF FrameHandled
    <3>2. ~ButtonKernelEvent
      BY <3>1, KernelLeaves DEF TouchesMove
    <3>3. \A e \in Time : ~ButtonSynReport(e) /\ ~ButtonSynIgnored(e)
      BY <3>1 DEF ButtonSynReport, ButtonSynIgnored, SynReport, SynIgnored
    <3>4. ~ButtonPostProcess /\ ~ButtonHandleEvents /\ ~ButtonAgain
      BY <3>1 DEF ButtonPostProcess, ButtonHandleEvents, HandleEvents, ButtonAgain, Again
    <3>5. ~ButtonTick /\ ~ButtonChangeFd
      BY <3>1 DEF ButtonTick, ButtonChangeFd, ChangeFd
    <3> QED
      BY <2>1, <3>2, <3>3, <3>4, <3>5 DEF ButtonNext
  <2> QED
    BY <2>1, <2>2, PathFrame
<1>2. CASE ~(FrameHandled /\ HistoryNext)
  <2>1. [ButtonNext]_allVars /\ UNCHANGED <<path, fresh>> /\ ~ButtonHandleState
    BY <1>2 DEF HistoryNext, FrameHandled, ButtonHandleState, allVars, buttonVars
  <2> QED
    BY <2>1, PathOther
<1> QED
  BY <1>1, <1>2

LEMMA PathAlways == HistorySpec => [](Typed /\ PathInv)
<1>1. HistoryInit => Typed /\ PathInv
  BY TypedInit DEF HistoryInit, ButtonInit, Init, PathInv, Entered
<1>2. [HistoryNext]_<<allVars, path, fresh>> => [ButtonNext]_allVars
  BY DEF HistoryNext
<1>3. /\ Typed /\ PathInv /\ [HistoryNext]_<<allVars, path, fresh>>
      => Typed' /\ PathInv'
  BY <1>2, TypedStep, PathStep
<1> QED
  BY <1>1, <1>3, PTL DEF HistorySpec

(* A finger that arrived outside of the button area does not make its first *)
(* click a right click, wherever it goes and however long it stays there.   *)
THEOREM OutsideAlwaysClicksLeft == HistorySpec => []OutsideClicksLeft
<1>1. Typed /\ PathInv => OutsideClicksLeft
  <2> SUFFICES ASSUME Typed, PathInv, NEW t \in Touch, Clicks(t), Fresh(t),
                      Path(t) = "outside"
               PROVE  PressEvent(t).next # "PRESSED_RIGHT"
    BY DEF OutsideClicksLeft
  <2>1. ReleaseEvent(t).next = "AREA"
    BY ReleaseExpected DEF Clicks, FrameHandled
  <2> QED
    BY <2>1, HandlePress DEF Clicks, PressEvent, ButtonStates
<1> QED
  BY <1>1, PathAlways, PTL

(* A finger that arrived in the right area and has never left it makes its  *)
(* first click a right click, at whatever time.                             *)
THEOREM RightAreaAlwaysClicksRight == HistorySpec => []RightAreaClicksRight
<1>1. Typed /\ PathInv => RightAreaClicksRight
  <2> SUFFICES ASSUME Typed, PathInv, NEW t \in Touch, Clicks(t), Fresh(t),
                      Path(t) = "right"
               PROVE  PressEvent(t).next = "PRESSED_RIGHT"
    BY DEF RightAreaClicksRight
  <2>1. ReleaseEvent(t).next \in {"RIGHT", "RIGHT_NEW"}
    BY ReleaseExpected DEF Clicks, FrameHandled
  <2> QED
    BY <2>1, HandlePress DEF Clicks, PressEvent, ButtonStates
<1> QED
  BY <1>1, PathAlways, PTL
----------------------------------------------------------------------------
(* The touch layer under the soft buttons *)

Uncorrupted == \A t \in Touch : state[t] # Corrupt

(* The steps other than the handler's are steps of Touches. *)
LEMMA OtherStepsTouches ==
    ASSUME [ButtonNext]_allVars, ~ButtonHandleState
    PROVE  [Next]_vars
<1>1. CASE ButtonKernelEvent
  BY <1>1 DEF ButtonKernelEvent, ButtonPosition, Next
<1>2. ASSUME NEW e \in Time, ButtonSynReport(e) \/ ButtonSynIgnored(e) PROVE [Next]_vars
  BY <1>2 DEF ButtonSynReport, ButtonSynIgnored, Next
<1>3. CASE ButtonPostProcess \/ ButtonHandleEvents \/ ButtonAgain
  BY <1>3 DEF ButtonPostProcess, ButtonHandleEvents, ButtonAgain, Next
<1>4. CASE ButtonTick
  BY <1>4 DEF ButtonTick
<1>5. CASE ButtonChangeFd
  BY <1>5 DEF ButtonChangeFd, Next
<1>6. CASE UNCHANGED allVars
  BY <1>6 DEF allVars
<1> QED
  BY <1>1, <1>2, <1>3, <1>4, <1>5, <1>6 DEF ButtonNext

(* A frame that assigns no button state to t->state leaves the touches alone. *)
LEMMA FrameLeavesTouches ==
    ASSUME Typed, Uncorrupted', ButtonHandleState
    PROVE  UNCHANGED vars
<1>1. /\ state' = [t \in Touch |-> IF state[t] # "NONE" /\ MoveEvent(t).corrupts
                                   THEN Corrupt ELSE state[t]]
      /\ UNCHANGED <<kernelVars, dirty, fingers_down, queued, slot, buttons_state,
                     fd_changes, pc>>
  BY DEF ButtonHandleState
<1>2. \A t \in Touch : state'[t] = state[t]
  BY <1>1 DEF Uncorrupted
<1>3. state' = state
  BY <1>1, <1>2 DEF Typed
<1> QED
  BY <1>1, <1>3 DEF vars, kernelVars, touchVars

(* The only harm the soft buttons do to the touches is a button state in    *)
(* t->state (touchpad-button.c:340, 371, 392, 398 and 402): until one is    *)
(* assigned there, a clickpad implements the specification of the touches   *)
(* alone, so that everything proved in TouchesProofs holds of it.           *)
THEOREM ButtonImplementsTouches == ButtonSpec /\ []Uncorrupted => Spec
<1>1. ButtonInit => Init
  BY DEF ButtonInit
<1>2. Typed /\ Uncorrupted' /\ [ButtonNext]_allVars => [Next]_vars
  BY OtherStepsTouches, FrameLeavesTouches
<1> QED
  BY <1>1, <1>2, TypedAlways, PTL DEF ButtonSpec, Spec

(* A clickpad without a right button: the area is set past the edge.        *)
NoRightArea == "IN_R" \notin Areas

LeftStates == {"NONE", "AREA", "LEFT", "LEFT_NEW", "LEFT_TO_AREA", "PRESSED_LEFT"}

LeftInv == Uncorrupted /\ \A t \in Touch : button_state[t] \in LeftStates

(* None of the assignments to t->state is in a state of the left button.    *)
LEMMA HandleLeft ==
    ASSUME NEW bs \in LeftStates, NEW ev \in Events \ {"IN_R"}
    PROVE  LET r == ButtonHandleEvent(bs, ev)
           IN  r.next \in LeftStates /\ r.corrupts = FALSE
BY DEF LeftStates, Events, AreaEvents, ButtonHandleEvent, ButtonNone, ButtonArea, ButtonLeft,
       ButtonLeftNew, ButtonLeftToArea, ButtonPressed, Go

LEMMA LeftFrame ==
    ASSUME NoRightArea, Typed, LeftInv, NEW t \in Touch
    PROVE  PressEvent(t).next \in LeftStates /\ MoveEvent(t).corrupts = FALSE
<1>1. button_state[t] \in LeftStates /\ area[t] \in AreaEvents \ {"IN_R"}
  BY AreasAreEvents DEF LeftInv, NoRightArea, Typed
<1>2. MoveEvent(t).next \in LeftStates /\ MoveEvent(t).corrupts = FALSE
  <2>1. CASE state[t] = "END"
    BY <1>1, <2>1, HandleLeft DEF MoveEvent, Events
  <2>2. CASE state[t] # "END" /\ dirty[t]
    BY <1>1, <2>2, HandleLeft DEF MoveEvent, Events
  <2>3. CASE state[t] # "END" /\ ~dirty[t]
    BY <1>1, <2>3 DEF MoveEvent, Go
  <2> QED
    BY <2>1, <2>2, <2>3
<1>3. ReleaseEvent(t).next \in LeftStates
  BY <1>2, HandleLeft DEF ReleaseEvent, Events, Go
<1>4. PressEvent(t).next \in LeftStates
  BY <1>3, HandleLeft DEF PressEvent, Events, Go
<1> QED
  BY <1>2, <1>4

(* A step of Touches writes no button state. *)
LEMMA TouchesStayUncorrupted ==
    ASSUME Typed, Uncorrupted, [Next]_vars
    PROVE  Uncorrupted'
<1> USE DEF Uncorrupted, Typed, Corrupt
<1>1. CASE AbsMtPosition \/ \E s \in Slots : AbsMtSlot(s)
  BY <1>1 DEF AbsMtPosition, AbsMtSlot, touchVars
<1>2. CASE AbsMtTrackingIdBegin
  BY <1>2 DEF AbsMtTrackingIdBegin, BeginTouch, NoTouch, touchVars
<1>3. CASE AbsMtTrackingIdEnd
  BY <1>3 DEF AbsMtTrackingIdEnd, EndTouch, NoTouch, touchVars
<1>4. CASE \E b \in Buttons : ButtonPress(b) \/ ButtonRelease(b)
  BY <1>4 DEF ButtonPress, ButtonRelease
<1>5. CASE SynIgnored \/ SynReport \/ HandleEvents \/ Again
  BY <1>5 DEF SynIgnored, SynReport, HandleEvents, Again, touchVars
<1>6. CASE PostProcess
  BY <1>6 DEF PostProcess
<1>7. CASE ChangeFd
  BY <1>7 DEF ChangeFd
<1>8. CASE UNCHANGED vars
  BY <1>8 DEF vars, touchVars
<1> QED
  BY <1>1, <1>2, <1>3, <1>4, <1>5, <1>6, <1>7, <1>8 DEF Next

LEMMA LeftStep ==
    ASSUME NoRightArea, Typed, LeftInv, [ButtonNext]_allVars
    PROVE  LeftInv'
<1>0. Uncorrupted /\ \A t \in Touch : button_state[t] \in LeftStates
  BY DEF LeftInv
<1>1. CASE ButtonHandleState
  <2>1. /\ state' = [t \in Touch |-> IF state[t] # "NONE" /\ MoveEvent(t).corrupts
                                     THEN Corrupt ELSE state[t]]
        /\ button_state' = [t \in Touch |-> IF state[t] # "NONE" THEN PressEvent(t).next
                                                                 ELSE button_state[t]]
    BY <1>1 DEF ButtonHandleState
  <2>2. Uncorrupted'
    BY <1>0, <2>1, LeftFrame DEF Uncorrupted
  <2>3. \A t \in Touch : button_state'[t] \in LeftStates
    BY <1>0, <2>1, LeftFrame
  <2> QED
    BY <2>2, <2>3 DEF LeftInv
<1>2. CASE ~ButtonHandleState
  <2>1. Uncorrupted'
    BY <1>0, <1>2, OtherStepsTouches, TouchesStayUncorrupted
  <2>2. \A t \in Touch : button_state'[t] \in LeftStates
    <3>1. CASE ButtonKernelEvent
      BY <1>0, <3>1, KernelLeaves
    <3>2. ASSUME NEW n \in Time, HandleTimeouts(n)
          PROVE  \A t \in Touch : button_state'[t] \in LeftStates
      <4>1. \A t \in Touch : \/ button_state'[t] = button_state[t]
                            \/ button_state'[t] =
                                   ButtonHandleEvent(button_state[t], "TIMEOUT").next
        BY <3>2, TimeoutsDo DEF TimeoutsLeave
      <4> QED
        BY <1>0, <4>1, HandleLeft DEF Events
    <3>3. CASE \E e \in Time : ButtonSynReport(e) \/ ButtonSynIgnored(e)
      BY <3>2, <3>3 DEF ButtonSynReport, ButtonSynIgnored
    <3>4. CASE ButtonAgain
      BY <3>2, <3>4 DEF ButtonAgain, Typed
    <3>5. CASE ButtonPostProcess
      BY <1>0, <3>5 DEF ButtonPostProcess, LeftStates
    <3>6. CASE ButtonHandleEvents \/ ButtonTick
      BY <1>0, <3>6 DEF ButtonHandleEvents, ButtonTick, ButtonQuiet
    <3>7. CASE ButtonChangeFd
      BY <3>7 DEF ButtonChangeFd, LeftStates
    <3>8. CASE UNCHANGED allVars
      BY <1>0, <3>8 DEF allVars, buttonVars
    <3> QED
      BY <1>2, <3>1, <3>3, <3>4, <3>5, <3>6, <3>7, <3>8 DEF ButtonNext
  <2> QED
    BY <2>1, <2>2 DEF LeftInv
<1> QED
  BY <1>1, <1>2

(* Without a right button no button state is assigned to t->state, and the  *)
(* clickpad implements the touches: the wrong assignments are all in states *)
(* that remember the right area or move towards it.                         *)
THEOREM LeftOnlyImplementsTouches == ASSUME NoRightArea PROVE ButtonSpec => Spec
<1>1. ButtonInit => LeftInv
  BY DEF ButtonInit, Init, LeftInv, LeftStates, Uncorrupted, Corrupt
<1>2. Typed /\ LeftInv /\ [ButtonNext]_allVars => LeftInv'
  BY LeftStep
<1>3. LeftInv => Uncorrupted
  BY DEF LeftInv
<1> QED
  BY <1>1, <1>2, <1>3, TypedAlways, ButtonImplementsTouches, PTL DEF ButtonSpec

(* fingers_down is the number of touches until the fd changes, and the      *)
(* assertion of touchpad_end_touch holds, that it does not drop below zero, *)
(* as long as no button state is in t->state.                               *)
THEOREM UncorruptedCounts ==
    ButtonSpec /\ []Uncorrupted => [](FingersDownCount /\ FingersDownNotNegative)
<1>1. TypeOK => FingersDownNotNegative
  BY DEF TypeOK, FingersDownNotNegative
<1> QED
  BY <1>1, ButtonImplementsTouches, TypeCorrect, CounterIsExact, PTL
=============================================================================

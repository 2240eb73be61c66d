------------------------------ MODULE Gestures -----------------------------
(***************************************************************************)
(* A touchpad with physical buttons: the touches of Touches with the       *)
(* pointer, the buttons and two-finger scrolling of touchpad_post_events,  *)
(* in the order of the source.  Tapping is independent of them (Tap).      *)
(***************************************************************************)
EXTENDS Pointer, Scroll

CONSTANT MaxChanges     \* bound: how often the caller changes the methods or the fd

ASSUME ChangesAssumption == MaxChanges \in Nat

gestureVars == <<vars, pointerVars, scrollVars>>

GesturesTypeOK ==
    /\ TypeOK
    /\ PointerTypeOK
    /\ ScrollTypeOK

GesturesInit == Init /\ PointerInit /\ ScrollInit

(* The touches whose motion the handlers look at. *)
Watched == Moving \cup First(pointer')

(* Those of them with no motion in either direction. *)
Still(u) == {t \in Watched : \A dir \in Directions : u[dir][t] = 0}

\* Mutant: the pointer moves during a scroll, too.
HandleMotionAlways(u) ==
    /\ ScrollReturns0(u) \/ ScrollReturns1(u)
    /\ PostMotion(Still(u))

(* The end of touchpad_post_events: pointer motion unless scrolling. *)
HandleMotion(u) ==
    \/ ScrollReturns0(u) /\ PostMotion(Still(u))
    \/ ScrollReturns1(u) /\ moved' = {}

GesturesSyn ==
    /\ SynReport
    /\ PointerSyn
    /\ \E u \in [Directions -> [Watched -> Units]] : HandleMotion(u)
    /\ UNCHANGED <<methods, method_changes>>

ScrollKept ==
    /\ scrolled' = {}
    /\ UNCHANGED <<scroll_state, scroll_direction, methods, method_changes>>

GesturesPosition == AbsMtPosition /\ PointerPosition /\ ScrollKept

GesturesPostProcess == PostProcess /\ PointerPost /\ ScrollKept

GesturesChangeFd ==
    /\ method_changes + fd_changes < MaxChanges
    /\ ChangeFd
    /\ PointerReset
    /\ ScrollReset
    /\ UNCHANGED <<methods, method_changes>>

GesturesConfigSet ==
    /\ method_changes + fd_changes < MaxChanges
    /\ ConfigSetMethods
    /\ PointerIdle

(* The steps that run no handler of this module. *)
GesturesOther ==
    /\ \/ \E s \in Slots : AbsMtSlot(s)
       \/ AbsMtTrackingIdBegin
       \/ AbsMtTrackingIdEnd
       \/ \E b \in Buttons : ButtonPress(b) \/ ButtonRelease(b)
       \/ SynIgnored
       \/ HandleEvents
       \/ Again
    /\ PointerIdle
    /\ ScrollKept

GesturesNext ==
    \/ GesturesOther
    \/ GesturesPosition
    \/ GesturesSyn
    \/ GesturesPostProcess
    \/ GesturesChangeFd
    \/ GesturesConfigSet

GesturesSpec == GesturesInit /\ [][GesturesNext]_gestureVars

----------------------------------------------------------------------------
(* Properties *)

(* The scroll callbacks follow the protocol the X driver and the header     *)
(* rely on: one direction from start to the terminating event, never a new  *)
(* scroll before the last one was terminated.  Only a change of fd ends one *)
(* without a callback.                                                     *)
Host == INSTANCE HostScroll WITH
    Units  <- Units,
    active <- IF scroll_state = "SCROLLING" THEN scroll_direction ELSE "NONE",
    fd_changes <- fd_changes

ScrollProtocol == Host!Spec

(* The button callbacks alternate per button, whatever presses and releases *)
(* share a frame and whenever the fd changes: no button is left pressed or  *)
(* pressed twice, and the host sees the state of the device after a frame.  *)
HostB == INSTANCE HostButtons WITH Button <- Buttons, Sticky <- Buttons, down <- old_state

ButtonsFollow == HostB!Spec

(* A frame never closes with a scroll in progress and other than two        *)
(* fingers, unless a button is down or the caller changed the methods or    *)
(* the fd: a scroll that lost a finger has had its terminating event.       *)
ScrollHasTwoFingers ==
    /\ queued = {} /\ buttons_state = {} /\ scroll_state = "SCROLLING"
    /\ method_changes = 0 /\ fd_changes = 0
    => fingers_down = 2

(* The pointer stays with its finger: as long as no button event is queued  *)
(* and the finger is down, no other finger coming, going or moving takes    *)
(* the pointer from it.                                                     *)
PointerStable ==
    [][ \A t \in First(pointer) :
           /\ queued \cap {"BUTTON_PRESS", "BUTTON_RELEASE"} = {}
           /\ Down(t) /\ Down(t)'
           => First(pointer') = {t} ]_gestureVars

(* A finger that was pinned is let go with the button, however the button   *)
(* and the fingers change: none stays pinned once no button is down.        *)
NoPinWithoutButton == queued = {} /\ buttons_state = {} => pinned = {}

(* The pointer does not move while fingers scroll; a button that goes down  *)
(* suspends the scroll, and only then do they move the pointer.             *)
NoMotionDuringScroll ==
    moved # {} /\ scroll_state = "SCROLLING" => buttons_state # {}

(* As long as buttons are only pressed with one finger on the touchpad, at  *)
(* most one touch is flagged to move the pointer and it is one that has     *)
(* not gone.                                                                *)
PointerIsOneFinger ==
    ~odd_press /\ fd_changes = 0 =>
        /\ Cardinality(pointer) <= 1
        /\ \A t \in pointer : state[t] # "NONE"

(* touchpad_pointer_touch asserts that a touch flagged as the pointer is    *)
(* in use.                                                                  *)
PointerIsLive == fd_changes = 0 => \A t \in First(pointer) : state[t] # "NONE"
=============================================================================

------------------------------- MODULE Scroll -------------------------------
(***************************************************************************)
(* Two-finger scrolling (touchpad-scroll.c) on the touches of a frame.     *)
(* How far a touch has moved is given to the actions: u[dir][t] is the     *)
(* filtered motion of touch t in direction dir, in fractions of a unit.    *)
(* Edge scrolling does nothing in the source and is left out.              *)
(***************************************************************************)
EXTENDS Touches

CONSTANTS
    Units,              \* the motions of a touch, in 1/Unit
    Unit,               \* one unit: config.vdelta or config.hdelta
    MethodChoices,      \* the sets of directions the caller may enable
    MaxMethodChanges    \* bound: how often the caller changes the methods

ASSUME UnitsAssumption == Unit \in Nat \ {0} /\ Units \subseteq Int
ASSUME MethodChoicesAssumption == MethodChoices \subseteq SUBSET {"VERTICAL", "HORIZONTAL"}
ASSUME MethodChangesAssumption == MaxMethodChanges \in Nat

Directions == {"VERTICAL", "HORIZONTAL"}

VARIABLES
    scroll_state,       \* tp->scroll.state
    scroll_direction,   \* tp->scroll.direction
    methods,            \* the directions two-finger scrolling is enabled for
    method_changes,     \* how often the methods have changed
    scrolled            \* the scroll callbacks of the last step: at most one

scrollVars == <<scroll_state, scroll_direction, methods, method_changes, scrolled>>

ScrollTypeOK ==
    /\ scroll_state \in {"NONE", "SCROLLING"}
    /\ scroll_direction \in Directions
    /\ methods \in SUBSET Directions
    /\ method_changes \in 0 .. MaxMethodChanges
    /\ scrolled \in SUBSET [direction : Directions, units : Int]

ScrollInit ==
    /\ scroll_state = "NONE"
    /\ scroll_direction = "VERTICAL"
    /\ methods \in MethodChoices
    /\ method_changes = 0
    /\ scrolled = {}

----------------------------------------------------------------------------
(* A double in 1/Unit, its absolute value, and that cut to whole units. *)
Absolute(u) == IF u < 0 THEN -u ELSE u
Whole(u)    == (Absolute(u) \div Unit) * Unit

(* The touches that count: those that were down before this frame. *)
Moving == {t \in Touch : dirty[t] /\ state[t] = "UPDATE"}

(* The delta the loop of touchpad_scroll_handle_2fg ends with: a touch wins *)
(* that moved further than the whole units of the winner before it.         *)
Farther(motion, t, winner) ==
    IF t \in Moving /\ Absolute(motion[t]) > Whole(winner) THEN motion[t] ELSE winner

(* The winner of the first n touches. *)
Winner(motion) ==
    LET won[n \in 0 .. ntouches] == IF n = 0 THEN 0 ELSE Farther(motion, n - 1, won[n - 1])
    IN  won

Delta(motion) == Winner(motion)[ntouches]

\* Mutant: half a unit is enough to start a scroll.
StartsEarly(motion) == Delta(motion) # 0

(* A first scroll event takes a unit. *)
Starts(motion) == Absolute(Delta(motion)) >= Unit

TwoFingers == fingers_down = 2

ScrollQuiet == scrolled' = {} /\ UNCHANGED <<scroll_state, scroll_direction>>

PostScroll(dir, units) == scrolled' = {[direction |-> dir, units |-> units]}

(* No scroll, and this frame starts none. *)
ScrollIdle(u) ==
    /\ scroll_state = "NONE"
    /\ TwoFingers => \A dir \in methods : ~Starts(u[dir])
    /\ ScrollQuiet

\* Mutant: the locked direction is not recorded.
ScrollStartUnlocked(u, dir) ==
    /\ scroll_state = "NONE"
    /\ TwoFingers /\ dir \in methods /\ Starts(u[dir])
    /\ dir = "HORIZONTAL" => ~("VERTICAL" \in methods /\ Starts(u["VERTICAL"]))
    /\ PostScroll(dir, Delta(u[dir]))
    /\ scroll_state' = "SCROLLING"
    /\ UNCHANGED scroll_direction

(* Vertical motion is looked at first. *)
ScrollStart(u, dir) ==
    /\ scroll_state = "NONE"
    /\ TwoFingers /\ dir \in methods /\ Starts(u[dir])
    /\ dir = "HORIZONTAL" => ~("VERTICAL" \in methods /\ Starts(u["VERTICAL"]))
    /\ PostScroll(dir, Delta(u[dir]))
    /\ scroll_state' = "SCROLLING"
    /\ scroll_direction' = dir

(* touchpad_scroll_continue, in the locked direction. *)
ScrollContinue(u) ==
    /\ scroll_state = "SCROLLING" /\ scroll_direction \in methods
    /\ TwoFingers
    /\ LET delta == Delta(u[scroll_direction])
       IN  IF delta = 0 THEN scrolled' = {} ELSE PostScroll(scroll_direction, delta)
    /\ UNCHANGED <<scroll_state, scroll_direction>>

\* Mutant: a third finger does not end the scroll.
ScrollStopBelowTwo ==
    /\ scroll_state = "SCROLLING" /\ scroll_direction \in methods
    /\ ~TwoFingers
    /\ IF fingers_down < 2
       THEN PostScroll(scroll_direction, 0) /\ scroll_state' = "NONE"
       ELSE scrolled' = {} /\ UNCHANGED scroll_state
    /\ UNCHANGED scroll_direction

ScrollStop ==
    /\ scroll_state = "SCROLLING" /\ scroll_direction \in methods
    /\ ~TwoFingers
    /\ PostScroll(scroll_direction, 0)
    /\ scroll_state' = "NONE"
    /\ UNCHANGED scroll_direction

(* The method of the scroll in progress has been switched off. *)
ScrollStuck ==
    /\ scroll_state = "SCROLLING" /\ scroll_direction \notin methods
    /\ ScrollQuiet

(***************************************************************************)
(* touchpad_scroll_handle_state returns 0, and the motion of the pointer   *)
(* is posted, or it returns 1.  It does nothing while a button is down.    *)
(***************************************************************************)
ScrollReturns0(u) ==
    \/ buttons_state # {} /\ ScrollQuiet
    \/ buttons_state = {} /\ ScrollIdle(u)

ScrollReturns1(u) ==
    /\ buttons_state = {}
    /\ \/ \E dir \in Directions : ScrollStart(u, dir)
       \/ ScrollContinue(u)
       \/ ScrollStop
       \/ ScrollStuck

(* touchpad_config_set with TOUCHPAD_CONFIG_SCROLL_METHOD, between frames. *)
ConfigSetMethods ==
    /\ pc = "poll"
    /\ method_changes < MaxMethodChanges
    /\ method_changes' = method_changes + 1
    /\ methods' \in MethodChoices
    /\ scrolled' = {}
    /\ UNCHANGED <<vars, scroll_state, scroll_direction>>

(* touchpad_reset: no callback is made. *)
ScrollReset == scroll_state' = "NONE" /\ scrolled' = {} /\ UNCHANGED scroll_direction
=============================================================================

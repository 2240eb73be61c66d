----------------------------- MODULE HostScroll -----------------------------
(***************************************************************************)
(* What a host may rely on when it turns scroll callbacks into scroll      *)
(* events (touchpad.h, "Scroll Direction Lock" and the callback            *)
(* interface): a scroll starts with at least one unit, stays in its        *)
(* direction, and a unit count of 0 ends it before another one starts; or  *)
(* the host itself ends it by changing the fd.                             *)
(***************************************************************************)
EXTENDS Integers

CONSTANTS
    Directions,     \* the scroll directions
    Units,          \* the unit counts a callback may carry, in 1/Unit
    Unit            \* what one unit is

VARIABLES
    active,         \* the direction of the scroll in progress, or "NONE"
    scrolled,       \* the callbacks of the last step: at most one
    fd_changes      \* how often the host has changed the fd

vars == <<active, scrolled, fd_changes>>

Call(dir, units) == {[direction |-> dir, units |-> units]}

Init == active = "NONE" /\ scrolled = {} /\ fd_changes = 0

Quiet == scrolled' = {} /\ UNCHANGED <<active, fd_changes>>

Start ==
    /\ active = "NONE"
    /\ \E dir \in Directions, u \in Units :
          /\ u >= Unit \/ -u >= Unit
          /\ scrolled' = Call(dir, u)
          /\ active' = dir
    /\ UNCHANGED fd_changes

Continue ==
    /\ active # "NONE"
    /\ \E u \in Units \ {0} : scrolled' = Call(active, u)
    /\ UNCHANGED <<active, fd_changes>>

Terminate ==
    /\ active # "NONE"
    /\ scrolled' = Call(active, 0)
    /\ active' = "NONE"
    /\ UNCHANGED fd_changes

ChangeFd ==
    /\ fd_changes' = fd_changes + 1
    /\ active' = "NONE"
    /\ scrolled' = {}

Next == Quiet \/ Start \/ Continue \/ Terminate \/ ChangeFd

Spec == Init /\ [][Next]_vars
=============================================================================

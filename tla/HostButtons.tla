---------------------------- MODULE HostButtons ----------------------------
(***************************************************************************)
(* What a host may rely on when it turns button callbacks into button      *)
(* events (touchpad.h, "Callback interface"): the callbacks for one button *)
(* alternate between press and release, and only the buttons in Sticky     *)
(* stay down when the library returns from a handler.                      *)
(***************************************************************************)
EXTENDS Integers, Sequences

CONSTANTS
    Button,     \* what the callback names: a button code, a finger count
    Sticky      \* the buttons that may stay down between two handlers

VARIABLES
    down,       \* the buttons the host sees pressed
    out         \* the callbacks of the last handler, in order

vars == <<down, out>>

Callback == [button : Button, press : BOOLEAN]

(* Button b is down after the first n callbacks of s. *)
DownAfter(s, n, b) ==
    \/ \E i \in 1 .. n : /\ s[i] = [button |-> b, press |-> TRUE]
                         /\ \A j \in i + 1 .. n : s[j].button # b
    \/ b \in down /\ \A j \in 1 .. n : s[j].button # b

Init == down = {} /\ out = <<>>

(* The handler returns without a callback. *)
Quiet == out' = <<>> /\ UNCHANGED down

(* The handler makes the callbacks out'. *)
Post ==
    /\ out' \in Seq(Callback)
    /\ \A i \in 1 .. Len(out') :
          out'[i].press <=> ~DownAfter(out', i - 1, out'[i].button)
    /\ down' = {b \in Button : DownAfter(out', Len(out'), b)}
    /\ down' \subseteq Sticky

Next == Quiet \/ Post

Spec == Init /\ [][Next]_vars
=============================================================================

------------------------------- MODULE Timers -------------------------------
(***************************************************************************)
(* The one timer of a touchpad (touchpad.c): a timerfd in the host's poll  *)
(* set and next_timeout, the earliest deadline the library knows of.       *)
(*                                                                         *)
(* Time is CLOCK_MONOTONIC in abstract milliseconds.  Kernel events carry  *)
(* the time they happened, which may be long before they are read; an      *)
(* event that is read after the device was found empty happened after      *)
(* that.  "floor" is the earliest time the next SYN_REPORT can carry.      *)
(***************************************************************************)
EXTENDS Integers

CONSTANTS
    MaxTime,    \* bound: the clock stops here
    Horizon,    \* bound: the device is silent after this time
    INT_MAX     \* the largest value of an int

ASSUME TimeAssumption ==
    /\ MaxTime \in Nat \ {0}
    /\ Horizon \in 1 .. MaxTime
    /\ INT_MAX \in Nat \ {0}

Time == 0 .. MaxTime

VARIABLES
    now,            \* the clock
    floor,          \* the time of the next SYN_REPORT is at least this
    ms,             \* tp->ms, the time of the last SYN_REPORT handled
    next_timeout,   \* tp->next_timeout, 0 if none
    timerfd         \* when the timerfd expires, 0 if disarmed or drained

clockVars == <<now, floor, ms>>
fdVars    == <<next_timeout, timerfd>>
timerVars == <<clockVars, fdVars>>

TimersTypeOK ==
    /\ now \in Time
    /\ floor \in Time
    /\ ms \in Time
    /\ next_timeout \in Nat
    /\ timerfd \in Nat

TimersInit == now = 1 /\ floor = 1 /\ ms = 0 /\ next_timeout = 0 /\ timerfd = 0

Tick == now < MaxTime /\ now' = now + 1 /\ UNCHANGED <<floor, ms, fdVars>>

(* When the next SYN_REPORT may have happened. *)
EventTimes == {e \in floor .. now : e <= Horizon}

(***************************************************************************)
(* touchpad_request_timer(tp, tp->ms, delta).  timerfd_settime takes the   *)
(* absolute time from a signed int and fails on a negative one, which      *)
(* leaves the timer as it was.                                             *)
(***************************************************************************)
\* Mutant: the first request is not taken for the earliest one.
RequestTimerKeepsZero(delta) ==
    IF delta = 0 THEN UNCHANGED fdVars
    ELSE /\ next_timeout' = IF ms + delta < next_timeout THEN ms + delta ELSE next_timeout
         /\ timerfd' = IF ms + delta <= INT_MAX THEN ms + delta ELSE timerfd

RequestTimer(delta) ==
    IF delta = 0 THEN UNCHANGED fdVars
    ELSE /\ next_timeout' = IF next_timeout = 0 \/ ms + delta < next_timeout
                            THEN ms + delta ELSE next_timeout
         /\ timerfd' = IF ms + delta <= INT_MAX THEN ms + delta ELSE timerfd

(* touchpad_handle_timeouts returns early unless a deadline has passed. *)
Due(n) == next_timeout # 0 /\ next_timeout <= n

(* The unsigned deadlines, compared and stored as ints of the same width. *)
AsInt(t)      == IF t <= INT_MAX THEN t ELSE t - 2 * (INT_MAX + 1)
AsUnsigned(i) == IF i >= 0 THEN i ELSE i + 2 * (INT_MAX + 1)

(* What touchpad_handle_timeouts leaves in next_timeout, from the deadlines *)
(* the button and tap handlers return (0: none).                            *)
NextTimeout(button, tap) ==
    LET b == IF button = 0 THEN INT_MAX ELSE AsInt(button)
        m == IF tap # 0 /\ AsInt(tap) < b THEN AsInt(tap) ELSE b
    IN  IF m = INT_MAX THEN 0 ELSE AsUnsigned(m)

(* The timerfd is readable, which wakes the host; handle_events drains it. *)
Expired == timerfd # 0 /\ timerfd <= now
Drain   == timerfd' = IF Expired THEN 0 ELSE timerfd
=============================================================================

-------------------------------- MODULE Config --------------------------------
(***************************************************************************)
(* The configuration of a touchpad (touchpad-config.c).                    *)
(* touchpad_config_set is given a list of key/value pairs and stops at the *)
(* first bad one.  The soft-button areas are set in percent of an axis,    *)
(* kept in coordinates and read back in percent.                           *)
(***************************************************************************)
EXTENDS Integers, Sequences, SequencesExt

CONSTANTS
    AxisMin,                    \* libevdev_get_abs_minimum of ABS_X and ABS_Y
    AxisMax,                    \* libevdev_get_abs_maximum
    INT_MAX,                    \* the largest value of an int
    MAX_MOTION_HISTORY_SIZE     \* 10 in the source

Axes == {"ABS_X", "ABS_Y"}
Width(axis) == AxisMax[axis] - AxisMin[axis] + 1

ASSUME IntAssumption == INT_MAX \in Nat /\ MAX_MOTION_HISTORY_SIZE \in Nat

(* Narrower axes have fewer coordinates than it takes to tell percents. *)
ASSUME AxisAssumption ==
    /\ AxisMin \in [Axes -> Int] /\ AxisMax \in [Axes -> Int]
    /\ \A axis \in Axes : /\ Width(axis) >= 200
                          /\ AxisMax[axis] < INT_MAX /\ -AxisMin[axis] <= INT_MAX

INT_MIN     == -INT_MAX - 1
USE_DEFAULT == INT_MAX

(***************************************************************************)
(* The member of the configuration a key stands for.  Two of the keys set  *)
(* the timeout of a third one.                                             *)
(***************************************************************************)
Field ==
    [TAP_ENABLE               |-> "enabled",
     TAP_TIMEOUT              |-> "timeout_period",
     TAP_DOUBLETAP_TIMEOUT    |-> "timeout_period",
     TAP_MOVE_THRESHOLD       |-> "timeout_period",
     SCROLL_METHOD            |-> "methods",
     SCROLL_DELTA_VERT        |-> "vdelta",
     SCROLL_DELTA_HORIZ       |-> "hdelta",
     MOTION_HISTORY_SIZE      |-> "motion_history_size",
     SOFTBUTTON_LEAVE_TIMEOUT |-> "leave_timeout",
     SOFTBUTTON_ENTER_TIMEOUT |-> "enter_timeout",
     SOFTBUTTON_TOP           |-> "top",
     SOFTBUTTON_BOTTOM        |-> "bottom",
     SOFTBUTTON_RBTN_LEFT     |-> "right_left",
     SOFTBUTTON_RBTN_RIGHT    |-> "right_right"]

Keys == DOMAIN Field

(* The keys of the soft-button areas, and their axes. *)
Axis ==
    [SOFTBUTTON_TOP |-> "ABS_Y", SOFTBUTTON_BOTTOM |-> "ABS_Y",
     SOFTBUTTON_RBTN_LEFT |-> "ABS_X", SOFTBUTTON_RBTN_RIGHT |-> "ABS_X"]

SoftButtonKeys == DOMAIN Axis

(* enum touchpad_scroll_methods *)
VERTICAL   == 4
HORIZONTAL == 8

(* What USE_DEFAULT stands for; the areas in percent. *)
Default ==
    [enabled |-> 1, timeout_period |-> 180, methods |-> VERTICAL,
     vdelta |-> 100, hdelta |-> 100, motion_history_size |-> 10,
     leave_timeout |-> 300, enter_timeout |-> 150,
     top |-> 82, bottom |-> 100, right_left |-> 50, right_right |-> 100]

----------------------------------------------------------------------------
(* C's conversion of n/d to an int. *)
Truncated(n, d) == IF n < 0 THEN -((-n) \div d) ELSE n \div d

(* The area of config_set_softbutton: the ends of an axis are everywhere. *)
Scale(axis, percent) ==
    CASE percent = 100 -> INT_MAX
      [] percent = 0   -> INT_MIN
      [] OTHER         -> Truncated(Width(axis) * percent + 100 * AxisMin[axis], 100)

(* config_get_softbutton *)
Unscale(axis, v) ==
    CASE v = INT_MAX -> 100
      [] v = INT_MIN -> 0
      [] OTHER       -> Truncated((v - AxisMin[axis]) * 200 + Width(axis), 2 * Width(axis))

(* The values the areas and the history size accept. *)
Bounds ==
    [key \in SoftButtonKeys \cup {"MOTION_HISTORY_SIZE"} |->
        IF key \in SoftButtonKeys THEN [low |-> 0, high |-> 100]
                                  ELSE [low |-> 1, high |-> MAX_MOTION_HISTORY_SIZE - 1]]

(* The error a pair is refused with.  The bounds are checked before the     *)
(* value is compared with USE_DEFAULT, so that the areas and the history    *)
(* size refuse it.  As a key, USE_DEFAULT is refused without an error.      *)
ErrorOf(key, value) ==
    CASE key = "USE_DEFAULT" -> "UNCHANGED"
      [] key \notin Keys \cup {"USE_DEFAULT"} -> "KEY_INVALID"
      [] key \in DOMAIN Bounds /\ value < Bounds[key].low  -> "VALUE_TOO_LOW"
      [] key \in DOMAIN Bounds /\ value > Bounds[key].high -> "VALUE_TOO_HIGH"
      [] OTHER -> "NO_ERROR"

(* apply_value *)
Value(key, value) == IF value = USE_DEFAULT THEN Default[Field[key]] ELSE value

(* touchpad_config_set_key_value of a good pair. *)
Apply(config, key, value) ==
    LET v == Value(key, value)
    IN  [config EXCEPT ![Field[key]] =
            IF key \in SoftButtonKeys THEN Scale(Axis[key], v)
            ELSE IF key = "TAP_ENABLE" THEN (IF v = 0 THEN 0 ELSE 1)
            ELSE v]

\* Mutant: a bad pair is skipped and the ones after it are applied.
SetPairSkips(s, pair) ==
    LET error == ErrorOf(pair[1], pair[2])
    IN  IF error # "NO_ERROR"
        THEN [s EXCEPT !.failed = TRUE, !.error = IF error = "UNCHANGED" THEN @ ELSE error]
        ELSE [s EXCEPT !.config = Apply(@, pair[1], pair[2]),
                       !.processed = IF s.failed THEN @ ELSE @ + 1,
                       !.error = IF s.failed THEN @ ELSE error]

(* One pair of touchpad_config_set: the loop ends at the first bad one. *)
SetPair(s, pair) ==
    LET error == ErrorOf(pair[1], pair[2])
    IN  IF s.failed THEN s
        ELSE IF error # "NO_ERROR"
        THEN [s EXCEPT !.failed = TRUE, !.error = IF error = "UNCHANGED" THEN @ ELSE error]
        ELSE [s EXCEPT !.config = Apply(@, pair[1], pair[2]),
                       !.processed = @ + 1, !.error = error]

(* The loop after each number of pairs. *)
SetPairs(config, pairs) ==
    LET after[n \in 0 .. Len(pairs)] ==
            IF n = 0
            THEN [config |-> config, processed |-> 1, error |-> "UNSET", failed |-> FALSE]
            ELSE SetPair(after[n - 1], pairs[n])
    IN  after

(* touchpad_config_set: the configuration after the call, the return value  *)
(* and the caller's error variable.                                        *)
ConfigSet(config, pairs) ==
    LET end == SetPairs(config, pairs)[Len(pairs)]
    IN  [config |-> end.config, error |-> end.error,
         rc |-> IF end.failed THEN end.processed ELSE 0]

(* touchpad_config_get_key_value *)
GetKeyValue(config, key) ==
    LET v == config[Field[key]]
    IN  IF key \in SoftButtonKeys THEN Unscale(Axis[key], v) ELSE v

(* touchpad_config_get: the values up to the first bad key, and the return  *)
(* value.  (A NULL pointer for a value makes it the negative index.)        *)
ConfigGet(config, keys) ==
    LET bad == SelectInSeq(keys, LAMBDA key : key \notin Keys)
        n   == IF bad = 0 THEN Len(keys) ELSE bad - 1
    IN  [values |-> [i \in 1 .. n |-> GetKeyValue(config, keys[i])], rc |-> bad]

(* touchpad_config_set_static_defaults and _dynamic_defaults. *)
Defaults ==
    ConfigSet([Default EXCEPT !.top = 0, !.bottom = 0, !.right_left = 0, !.right_right = 0],
              <<<<"SOFTBUTTON_TOP", Default.top>>,
                <<"SOFTBUTTON_BOTTOM", Default.bottom>>,
                <<"SOFTBUTTON_RBTN_LEFT", Default.right_left>>,
                <<"SOFTBUTTON_RBTN_RIGHT", Default.right_right>>>>).config
=============================================================================

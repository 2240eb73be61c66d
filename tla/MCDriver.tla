------------------------------ MODULE MCDriver ------------------------------
(***************************************************************************)
(* A device whose x axis is as narrow as the configuration allows and      *)
(* begins below 0, and an int that is just large enough for its axes.      *)
(***************************************************************************)
EXTENDS Driver

MCAxisMin == [axis \in Axes |-> IF axis = "ABS_X" THEN -120 ELSE 1408]
MCAxisMax == [axis \in Axes |-> IF axis = "ABS_X" THEN 79 ELSE 4448]

NoOptions == [tap_time |-> INT_MAX, tap_move |-> INT_MAX, vdelta |-> INT_MAX,
              hdelta |-> INT_MAX, vert |-> TRUE, horiz |-> TRUE]

MCOptions ==
    {NoOptions,
     [NoOptions EXCEPT !.vdelta = 3, !.hdelta = 2, !.vert = FALSE],
     [NoOptions EXCEPT !.tap_time = 100, !.tap_move = 20, !.vdelta = -3, !.horiz = FALSE]}

MCMotions == {-2, 0, 5}

(* Every percentage of both axes, and lists of two of the pairs that differ. *)
Percents == {<<<<key, p>>>> : key \in {"SOFTBUTTON_TOP", "SOFTBUTTON_RBTN_LEFT"},
                              p \in -1 .. 101}

Pairs == {<<"SOFTBUTTON_TOP", 37>>, <<"SOFTBUTTON_TOP", INT_MAX>>,
          <<"TAP_ENABLE", INT_MAX>>, <<"TAP_ENABLE", 2>>, <<"TAP_TIMEOUT", 100>>,
          <<"TAP_MOVE_THRESHOLD", INT_MAX>>,
          <<"MOTION_HISTORY_SIZE", 0>>, <<"MOTION_HISTORY_SIZE", 9>>,
          <<"USE_DEFAULT", 1>>, <<"LAST", 1>>}

MCCalls == Percents \cup [1 .. 2 -> Pairs]
=============================================================================

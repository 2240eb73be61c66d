---------------------------- MODULE MotionFilter ----------------------------
(***************************************************************************)
(* The motion of one touch (touchpad-filter.c): its coordinate is smoothed *)
(* with a hysteresis, kept in a ring buffer, and the pointer motion of a   *)
(* frame is computed from the points of the ring.  The source does the     *)
(* same for x and for y; the model has one of them.                        *)
(*                                                                         *)
(* The kernel reports a coordinate only when it changes, whichever finger  *)
(* is in the slot, and a slot once per frame.                              *)
(***************************************************************************)
EXTENDS Integers, Sequences

CONSTANTS
    Positions,                  \* the coordinates of the device
    Margin,                     \* hysteresis_margin (8 in the source)
    MAX_MOTION_HISTORY_SIZE,    \* room in a ring, and its default size (10)
    MaxConfig,                  \* bound: how often the size is configured
    MaxFdChanges                \* bound: how often the caller changes the fd

ASSUME PositionsAssumption == Positions \subseteq Int
ASSUME MarginAssumption == Margin \in Nat
ASSUME HistoryAssumption == MAX_MOTION_HISTORY_SIZE \in Nat \ {0, 1}
ASSUME BoundsAssumption == MaxConfig \in Nat /\ MaxFdChanges \in Nat

Sizes == 1 .. MAX_MOTION_HISTORY_SIZE

VARIABLES
    raw,            \* kernel: the coordinate last reported for the slot
    known,          \* history: raw was reported since the touch was zeroed
    state,          \* t->state
    dirty,          \* t->dirty
    x,              \* t->x
    history,        \* t->history
    history_size,   \* tp->config.motion_history_size
    delta,          \* the pointer motion of the last frame
    recent,         \* history: the points pushed since the ring was reset
    first,          \* history: where the touch was in its first frame
    still,          \* history: its finger stayed within Margin of first
    configs,        \* how often the size has been configured
    fd_changes      \* how often the caller has changed the fd

filterVars  == <<x, history, delta, recent, first>>
boundedVars == <<configs, fd_changes>>
vars == <<raw, known, state, dirty, filterVars, history_size, still, boundedVars>>

MotionTypeOK ==
    /\ raw \in Positions
    /\ known \in BOOLEAN
    /\ state \in {"NONE", "BEGIN", "UPDATE", "END"}
    /\ dirty \in BOOLEAN
    /\ x \in Int
    /\ history.points \in [0 .. MAX_MOTION_HISTORY_SIZE - 1 -> Int]
    /\ history.size \in Sizes
    /\ history.index \in 0 .. history.size - 1
    /\ history.valid \in 0 .. history.size
    /\ history_size \in Sizes
    /\ delta \in Int
    /\ first \in Int
    /\ still \in BOOLEAN
    /\ configs \in 0 .. MaxConfig
    /\ fd_changes \in 0 .. MaxFdChanges

----------------------------------------------------------------------------
(* The ring buffer *)

(* touchpad_history_reset; the points stay. *)
HistoryReset(points, size) == [points |-> points, index |-> 0, valid |-> 0, size |-> size]

\* Mutant: the ring wraps at its room and not at its size.
HistoryPushWide(h, point) ==
    [h EXCEPT !.points[h.index] = point,
              !.valid = IF @ < h.size THEN @ + 1 ELSE @,
              !.index = (@ + 1) % MAX_MOTION_HISTORY_SIZE]

(* touchpad_history_push *)
HistoryPush(h, point) ==
    [h EXCEPT !.points[h.index] = point,
              !.valid = IF @ < h.size THEN @ + 1 ELSE @,
              !.index = (@ + 1) % h.size]

(* touchpad_history_get, for "when" points ago: defined if there are so many. *)
HistoryHas(h, when) == when <= h.valid
HistoryGet(h, when) == h.points[(h.index - when + h.size) % h.size]

----------------------------------------------------------------------------
(* The filter *)

Absolute(n) == IF n < 0 THEN -n ELSE n

\* Mutant: small motions are let through.
HysteresisOff(in, center, margin) ==
    LET diff == in - center
    IN  CASE Absolute(diff) < margin -> center
          [] diff >= margin          -> center + (diff - margin + 1)
          [] OTHER                   -> center + (diff + margin - 1)

\* Mutant: the margin is taken off twice.
HysteresisTwice(in, center, margin) ==
    LET diff == in - center
    IN  CASE Absolute(diff) <= margin -> center
          [] diff > margin            -> center + (diff - 2 * margin)
          [] diff < -margin           -> center + (diff + 2 * margin)

Hysteresis(in, center, margin) ==
    LET diff == in - center
    IN  CASE Absolute(diff) <= margin -> center
          [] diff > margin            -> center + (diff - margin)
          [] diff < -margin           -> center + (diff + margin)

(* touchpad_motion_dejitter, when the touch has a last point. *)
Dejitter(h, in) == Hysteresis(in, HistoryGet(h, 1), Margin)

(* C's integer division. *)
Quotient(n, d) == IF n < 0 THEN -((-n) \div d) ELSE n \div d

(* f[1] + ... + f[n] *)
SumTo(f, n) == LET sum[i \in 0 .. n] == IF i = 0 THEN 0 ELSE sum[i - 1] + f[i] IN sum[n]

\* Mutant: the middle point counts as one of the old ones.
SignedUneven(h, npoints) ==
    [i \in 1 .. npoints - 1 |->
        IF i + 1 < npoints \div 2 THEN HistoryGet(h, i) ELSE -HistoryGet(h, i)]

(* The newer half of npoints counts for the motion, the older one against it; *)
(* the newest point is not in the ring yet.                                  *)
Signed(h, npoints) ==
    [i \in 1 .. npoints - 1 |->
        IF i + 1 <= npoints \div 2 THEN HistoryGet(h, i) ELSE -HistoryGet(h, i)]

(* touchpad_motion_to_delta *)
MotionToDelta(h, in) ==
    LET npoints == ((1 + h.valid) \div 2) * 2
    IN  IF h.valid < h.size THEN 0
        ELSE Quotient(in + SumTo(Signed(h, npoints), npoints - 1), npoints)

----------------------------------------------------------------------------
(* The touch *)

(* touchpad_alloc: the device may have any last coordinate. *)
Init ==
    /\ raw \in Positions
    /\ known = FALSE
    /\ state = "NONE"
    /\ dirty = FALSE
    /\ x = 0
    /\ history = HistoryReset([i \in 0 .. MAX_MOTION_HISTORY_SIZE - 1 |-> 0],
                              MAX_MOTION_HISTORY_SIZE)
    /\ history_size = MAX_MOTION_HISTORY_SIZE
    /\ delta = 0
    /\ recent = <<>>
    /\ first = 0
    /\ still = TRUE
    /\ configs = 0
    /\ fd_changes = 0

(* ABS_MT_POSITION_X, which is sent if the coordinate has changed. *)
Report(p) ==
    /\ raw' = p
    /\ x' = IF p = raw THEN x ELSE p
    /\ known' = (known \/ p # raw)
    /\ dirty' = TRUE

(* A finger arrives in the slot. *)
FingerDown(p) ==
    /\ state = "NONE"
    /\ state' = "BEGIN"
    /\ Report(p)
    /\ still' = TRUE
    /\ UNCHANGED <<history, delta, recent, first, history_size, boundedVars>>

(* The finger moves (in the other coordinate if p = raw), or another finger *)
(* replaces it: begin_touch lets the touch go on.  The touch of a finger    *)
(* that rests there since the fd has changed stays unused.                  *)
FingerMove(p) ==
    /\ state = "UPDATE" \/ (state = "NONE" /\ fd_changes > 0)
    /\ Report(p)
    /\ still' = (still /\ Absolute(p - first) <= Margin)
    /\ UNCHANGED <<state, history, delta, recent, first, history_size, boundedVars>>

FingerUp ==
    /\ state = "UPDATE"
    /\ state' = "END"
    /\ dirty' = TRUE
    /\ UNCHANGED <<raw, known, filterVars, history_size, still, boundedVars>>

\* Mutant: the first point is only pushed when the frame closes.
OpenedLate == history

(***************************************************************************)
(* What a frame does with the touch: it is dejittered before the handlers  *)
(* and pushed after them.  Its first point is pushed before it is          *)
(* dejittered, too.                                                        *)
(***************************************************************************)
Opened == IF state = "BEGIN" THEN HistoryPush(history, x) ELSE history
Smooth == IF dirty THEN Dejitter(Opened, x) ELSE x
Closed == HistoryPush(Opened, Smooth)

Pushed == IF state = "BEGIN" THEN <<Smooth, x>> ELSE <<Smooth>>
Keep(points) == SubSeq(points, 1, IF Len(points) <= history.size + 1 THEN Len(points)
                                  ELSE history.size + 1)

\* Mutant: the points of a touch that ended are kept for the next one.
SynReportNoReset ==
    /\ state # "NONE"
    /\ x' = Smooth
    /\ delta' = MotionToDelta(Opened, Smooth)
    /\ dirty' = FALSE
    /\ history' = Closed
    /\ recent' = IF state = "END" THEN <<>> ELSE Keep(Pushed \o recent)
    /\ state' = IF state = "END" THEN "NONE" ELSE "UPDATE"
    /\ first' = IF state = "BEGIN" THEN Smooth ELSE first
    /\ UNCHANGED <<raw, known, history_size, still, boundedVars>>

(* SYN_REPORT, of this touch's events or of another touch's. *)
SynReport ==
    /\ state # "NONE"
    /\ x' = Smooth
    /\ delta' = MotionToDelta(Opened, Smooth)
    /\ dirty' = FALSE
    /\ history' = IF state = "END" THEN HistoryReset(Closed.points, history_size)
                                   ELSE Closed
    /\ recent' = IF state = "END" THEN <<>> ELSE Keep(Pushed \o recent)
    /\ state' = IF state = "END" THEN "NONE" ELSE "UPDATE"
    /\ first' = IF state = "BEGIN" THEN Smooth ELSE first
    /\ UNCHANGED <<raw, known, history_size, still, boundedVars>>

(* touchpad_config_set, between frames: touches take the size when they end. *)
ConfigSet(size) ==
    /\ state \in {"NONE", "UPDATE"} /\ ~(dirty /\ state = "UPDATE")
    /\ configs < MaxConfig
    /\ configs' = configs + 1
    /\ size < MAX_MOTION_HISTORY_SIZE
    /\ history_size' = size
    /\ UNCHANGED <<raw, known, state, dirty, filterVars, still, fd_changes>>

(* touchpad_change_fd with touch_init, between frames. *)
ChangeFd ==
    /\ state \in {"NONE", "UPDATE"} /\ ~(dirty /\ state = "UPDATE")
    /\ fd_changes < MaxFdChanges
    /\ fd_changes' = fd_changes + 1
    /\ state' = "NONE"
    /\ x' = 0
    /\ known' = FALSE
    /\ history' = HistoryReset(history.points, history_size)
    /\ recent' = <<>>
    /\ UNCHANGED <<raw, dirty, history_size, delta, first, still, configs>>

Next ==
    \/ \E p \in Positions : FingerDown(p) \/ FingerMove(p)
    \/ FingerUp
    \/ SynReport
    \/ \E size \in Sizes : ConfigSet(size)
    \/ ChangeFd

Spec == Init /\ [][Next]_vars

----------------------------------------------------------------------------
(* Properties *)

(* The ring gives back the points that were pushed, the most recent first,  *)
(* however often it has wrapped and whatever an earlier touch or another    *)
(* size left in it; and the points that get lost are the oldest.            *)
RingIsRecent ==
    /\ history.valid = IF Len(recent) < history.size THEN Len(recent) ELSE history.size
    /\ \A i \in 1 .. history.valid : HistoryGet(history, i) = recent[i]

(* What the comment of touchpad_motion_to_delta promises: of the last N     *)
(* points, the current one included, the newer half minus the older half,   *)
(* divided by N; nothing until the ring is full.                            *)
AverageOf(points, half) ==
    LET older == SubSeq(points, half + 1, 2 * half)
    IN  Quotient(SumTo(points, half) - SumTo(older, half), 2 * half)

DeltaIsAverage ==
    state = "UPDATE" /\ ~dirty /\ recent # <<>> =>
        delta = IF Len(recent) <= history.size THEN 0
                ELSE AverageOf(recent, (history.size + 1) \div 2)

(* A frame that smooths or measures a touch finds a last point: only a      *)
(* touch that begins in the frame may have none, and it is given one first. *)
HasLastPoint == state # "NONE" => HistoryHas(Opened, 1)

(* The touch is never further from its finger than the hysteresis allows,   *)
(* unless the library was never told where the finger is: the coordinate is *)
(* zeroed when the device is opened, and a finger in the same place as the  *)
(* last one is not reported.                                                *)
WithinMargin == known => Absolute(x - raw) <= Margin

(* A finger that jitters within the margin of where it landed never moves   *)
(* the pointer.                                                             *)
JitterIsStill == state = "UPDATE" /\ ~dirty /\ still => delta = 0 /\ x = first
=============================================================================

---------------------------- MODULE MotionProofs ----------------------------
(***************************************************************************)
(* Theorems about MotionFilter, for every ring size, margin and range of   *)
(* coordinates: the ring gives back what was pushed, a frame always finds  *)
(* a last point, and the hysteresis never leads a touch astray.            *)
(***************************************************************************)
EXTENDS MotionFilter, InductionLemmas

(* A ring buffer: its index and its points lie within its size. *)
Rings ==
    {h \in [points : [0 .. MAX_MOTION_HISTORY_SIZE - 1 -> Int], index : Nat, valid : Nat,
            size : Sizes] :
        h.index < h.size /\ h.valid <= h.size}

(* The ring holds the first points of a sequence, as many as it has room for. *)
Holds(h, points) ==
    /\ h.valid = IF Len(points) < h.size THEN Len(points) ELSE h.size
    /\ \A i \in 1 .. h.valid : HistoryGet(h, i) = points[i]

----------------------------------------------------------------------------
(* The ring buffer *)

(* Going on by one cell and back by "when": the cell that was when - 1 back, *)
(* and another one than the cell just written unless when is 1.              *)
LEMMA AroundTheRing ==
    ASSUME NEW size \in Nat \ {0}, NEW i \in 0 .. size - 1, NEW when \in 1 .. size
    PROVE  /\ (i + 1) % size \in 0 .. size - 1
           /\ (((i + 1) % size) - when + size) % size = (i - (when - 1) + size) % size
           /\ (i - (when - 1) + size) % size \in 0 .. size - 1
           /\ (i - (when - 1) + size) % size = i <=> when = 1
<1>1. CASE i + 1 < size
  <2>1. (i + 1) % size = i + 1
    BY <1>1, SMT
  <2>2. (i + 1) - when + size = i - (when - 1) + size
    OBVIOUS
  <2> QED
    BY <1>1, <2>1, <2>2, SMT
<1>2. CASE i + 1 = size
  <2>1. (i + 1) % size = 0
    BY <1>2, SMT
  <2>2. (0 - when + size) % size = (i - (when - 1) + size) % size
    BY <1>2, SMT
  <2> QED
    BY <1>2, <2>1, <2>2, SMT
<1> QED
  BY <1>1, <1>2

(* A push keeps a ring a ring, is read back first, and moves the others on. *)
LEMMA PushIsReadBack ==
    ASSUME NEW h \in Rings, NEW p \in Int
    PROVE  /\ HistoryPush(h, p) \in Rings
           /\ HistoryPush(h, p).size = h.size
           /\ HistoryPush(h, p).valid = IF h.valid < h.size THEN h.valid + 1 ELSE h.valid
           /\ HistoryGet(HistoryPush(h, p), 1) = p
           /\ \A when \in 2 .. h.size :
                 HistoryGet(HistoryPush(h, p), when) = HistoryGet(h, when - 1)
<1> DEFINE g == HistoryPush(h, p)
<1>1. /\ h.size \in Nat \ {0}
      /\ h.index \in 0 .. h.size - 1
      /\ h.valid \in 0 .. h.size
      /\ 0 .. h.size - 1 \subseteq 0 .. MAX_MOTION_HISTORY_SIZE - 1
      /\ h.points \in [0 .. MAX_MOTION_HISTORY_SIZE - 1 -> Int]
      /\ h.size \in Sizes
  BY HistoryAssumption DEF Rings, Sizes
<1>2. /\ g.points = [h.points EXCEPT ![h.index] = p]
      /\ g.index = (h.index + 1) % h.size
      /\ g.valid = IF h.valid < h.size THEN h.valid + 1 ELSE h.valid
      /\ g.size = h.size
  BY DEF HistoryPush, Rings
<1>4. g \in Rings
  <2>1. [h.points EXCEPT ![h.index] = p] \in [0 .. MAX_MOTION_HISTORY_SIZE - 1 -> Int]
    BY <1>1
  <2>2. (h.index + 1) % h.size \in 0 .. h.size - 1
    BY <1>1
  <2>3. g \in [points : [0 .. MAX_MOTION_HISTORY_SIZE - 1 -> Int], index : Nat, valid : Nat,
               size : Sizes]
    <3> DEFINE R == [points : [0 .. MAX_MOTION_HISTORY_SIZE - 1 -> Int], index : Nat,
                     valid : Nat, size : Sizes]
               q == [h.points EXCEPT ![h.index] = p]
               v == IF h.valid < h.size THEN h.valid + 1 ELSE h.valid
               j == (h.index + 1) % h.size
    <3>1. h \in R /\ q \in [0 .. MAX_MOTION_HISTORY_SIZE - 1 -> Int] /\ v \in Nat /\ j \in Nat
      BY <1>1, <2>1, <2>2 DEF Rings
    <3>2. g = [h EXCEPT !.points = q, !.valid = v, !.index = j]
      BY <3>1 DEF HistoryPush, Rings
    <3> HIDE DEF g, q, v, j
    <3>3. [h EXCEPT !.points = q, !.valid = v, !.index = j] \in R
      BY <3>1
    <3> QED
      BY <3>2, <3>3
  <2> HIDE DEF g
  <2> QED
    BY <1>1, <1>2, <2>2, <2>3 DEF Rings
<1> HIDE DEF g
<1>3. ASSUME NEW when \in 1 .. h.size
      PROVE  /\ (h.index + 1) % h.size \in 0 .. h.size - 1
             /\ (((h.index + 1) % h.size) - when + h.size) % h.size
                   = (h.index - (when - 1) + h.size) % h.size
             /\ (h.index - (when - 1) + h.size) % h.size \in 0 .. h.size - 1
             /\ (h.index - (when - 1) + h.size) % h.size = h.index <=> when = 1
  <2> DEFINE size == h.size
             i == h.index
  <2>1. size \in Nat \ {0} /\ i \in 0 .. size - 1 /\ when \in 1 .. size
    BY <1>1
  <2> HIDE DEF size, i
  <2>2. /\ (i + 1) % size \in 0 .. size - 1
        /\ (((i + 1) % size) - when + size) % size = (i - (when - 1) + size) % size
        /\ (i - (when - 1) + size) % size \in 0 .. size - 1
        /\ (i - (when - 1) + size) % size = i <=> when = 1
    BY <2>1, AroundTheRing, SMTT(30)
  <2> QED
    BY <2>2, SMTT(30) DEF size, i
<1>5. ASSUME NEW when \in 1 .. h.size
      PROVE  HistoryGet(g, when) =
                IF when = 1 THEN p ELSE h.points[(h.index - (when - 1) + h.size) % h.size]
  <2> DEFINE cell == (h.index - (when - 1) + h.size) % h.size
  <2>0. /\ (((h.index + 1) % h.size) - when + h.size) % h.size = cell
        /\ cell \in 0 .. h.size - 1
        /\ cell = h.index <=> when = 1
    BY <1>3, Zenon
  <2>1. HistoryGet(g, when) = g.points[(((h.index + 1) % h.size) - when + h.size) % h.size]
    BY <1>2 DEF HistoryGet
  <2> HIDE DEF cell
  <2>2. HistoryGet(g, when) = [h.points EXCEPT ![h.index] = p][cell]
    BY <1>2, <2>0, <2>1, Zenon
  <2>3. cell \in DOMAIN h.points
    BY <1>1, <2>0
  <2>4. [h.points EXCEPT ![h.index] = p][cell] =
            IF cell = h.index THEN p ELSE h.points[cell]
    BY <1>1, <2>3, Zenon
  <2>5. HistoryGet(g, when) = IF when = 1 THEN p ELSE h.points[cell]
    BY <2>0, <2>2, <2>4, Zenon
  <2> QED
    BY <2>5 DEF cell
<1>6. HistoryGet(g, 1) = p
  <2>1. 1 \in 1 .. h.size
    BY <1>1
  <2> QED
    BY <1>5, <2>1
<1>7. ASSUME NEW when \in 2 .. h.size
      PROVE  HistoryGet(g, when) = HistoryGet(h, when - 1)
  <2>1. when \in 1 .. h.size /\ when # 1
    BY <1>1
  <2>2. HistoryGet(h, when - 1) = h.points[(h.index - (when - 1) + h.size) % h.size]
    BY DEF HistoryGet
  <2> QED
    BY <1>5, <2>1, <2>2
<1> QED
  BY <1>2, <1>4, <1>6, <1>7 DEF g

(* So a ring that holds some points holds one more after a push ... *)
LEMMA PushHolds ==
    ASSUME NEW h \in Rings, NEW points \in Seq(Int), Holds(h, points), NEW p \in Int
    PROVE  Holds(HistoryPush(h, p), <<p>> \o points)
<1> DEFINE g == HistoryPush(h, p)
           more == <<p>> \o points
<1>1. /\ h.size \in Nat \ {0} /\ h.valid \in 0 .. h.size
  BY HistoryAssumption DEF Rings, Sizes
<1>2. Len(more) = Len(points) + 1 /\ more[1] = p
      /\ \A i \in 2 .. Len(more) : more[i] = points[i - 1]
  OBVIOUS
<1>3. g.size = h.size /\ g.valid = IF h.valid < h.size THEN h.valid + 1 ELSE h.valid
  BY PushIsReadBack
<1>4. g.valid = IF Len(more) < g.size THEN Len(more) ELSE g.size
  BY <1>1, <1>2, <1>3 DEF Holds
<1>5. ASSUME NEW i \in 1 .. g.valid
      PROVE  HistoryGet(g, i) = more[i]
  <2>1. CASE i = 1
    BY <1>2, <2>1, PushIsReadBack
  <2>2. CASE i # 1
    <3>1. i \in 2 .. h.size /\ i - 1 \in 1 .. h.valid /\ i \in 2 .. Len(more)
      BY <1>1, <1>2, <1>3, <1>4, <2>2, SMTT(30)
    <3>2. HistoryGet(g, i) = HistoryGet(h, i - 1)
      BY <3>1, PushIsReadBack
    <3>3. HistoryGet(h, i - 1) = points[i - 1]
      BY <3>1 DEF Holds
    <3> QED
      BY <1>2, <3>1, <3>2, <3>3
  <2> QED
    BY <2>1, <2>2
<1> QED
  BY <1>4, <1>5 DEF Holds

(* ... and does not depend on points it has no room for. *)
LEMMA HoldsTheFirst ==
    ASSUME NEW h \in Rings, NEW points \in Seq(Int), Holds(h, points),
           NEW n \in Nat, n <= Len(points), n = Len(points) \/ n >= h.size
    PROVE  Holds(h, SubSeq(points, 1, n))
<1>1. h.size \in Nat \ {0} /\ h.valid \in 0 .. h.size
  BY HistoryAssumption DEF Rings, Sizes
<1>2. Len(SubSeq(points, 1, n)) = n /\ \A i \in 1 .. n : SubSeq(points, 1, n)[i] = points[i]
  OBVIOUS
<1> QED
  BY <1>1, <1>2 DEF Holds

----------------------------------------------------------------------------
(* The hysteresis *)

(* A point that is smoothed around the one before it moves towards it, by   *)
(* the margin at most, and not at all from where it is the point before.    *)
LEMMA HysteresisIsNear ==
    ASSUME NEW in \in Int, NEW center \in Int
    PROVE  /\ Hysteresis(in, center, Margin) \in Int
           /\ Absolute(Hysteresis(in, center, Margin) - in) <= Margin
           /\ Hysteresis(in, in, Margin) = in
<1>1. Margin \in Nat
  BY MarginAssumption
<1> QED
  BY <1>1 DEF Hysteresis, Absolute

LEMMA LastPointIsInteger ==
    ASSUME NEW h \in Rings
    PROVE  HistoryGet(h, 1) \in Int
<1>1. /\ h.size \in Nat \ {0} /\ h.index \in 0 .. h.size - 1
      /\ 0 .. h.size - 1 \subseteq 0 .. MAX_MOTION_HISTORY_SIZE - 1
      /\ h.points \in [0 .. MAX_MOTION_HISTORY_SIZE - 1 -> Int]
  BY HistoryAssumption DEF Rings, Sizes
<1> DEFINE cell == (h.index - 1 + h.size) % h.size
<1>2. cell \in 0 .. h.size - 1
  BY <1>1
<1> HIDE DEF cell
<1>3. h.points[cell] \in Int
  BY <1>1, <1>2
<1> QED
  BY <1>3 DEF HistoryGet, cell

----------------------------------------------------------------------------
(* Sums *)

(* What SumTo chooses: the running sums of f up to n. *)
Sums(g, f, n) == g = [i \in 0 .. n |-> IF i = 0 THEN 0 ELSE g[i - 1] + f[i]]

(* There are running sums ... *)
LEMMA SumsExist ==
    ASSUME NEW f, NEW n \in Nat
    PROVE  \E g : Sums(g, f, n)
<1> DEFINE T == {k \in Nat : \E g : Sums(g, f, k)}
<1>1. 0 \in T
  <2>1. Sums([i \in 0 .. 0 |-> 0], f, 0)
    BY DEF Sums
  <2> QED
    BY <2>1
<1>2. ASSUME NEW k \in Nat, k \in T PROVE k + 1 \in T
  <2>1. PICK g : Sums(g, f, k)
    BY <1>2
  <2> DEFINE h == [i \in 0 .. k + 1 |-> IF i <= k THEN g[i] ELSE g[k] + f[k + 1]]
  <2>2. \A i \in 0 .. k : h[i] = g[i]
    OBVIOUS
  <2>3. \A i \in 0 .. k : g[i] = IF i = 0 THEN 0 ELSE g[i - 1] + f[i]
    BY <2>1 DEF Sums
  <2>4. ASSUME NEW i \in 0 .. k + 1
        PROVE  h[i] = IF i = 0 THEN 0 ELSE h[i - 1] + f[i]
    <3>1. CASE i \in 1 .. k
      <4>1. i - 1 \in 0 .. k /\ i \in 0 .. k /\ i # 0
        BY <3>1
      <4> HIDE DEF h
      <4> QED
        BY <2>2, <2>3, <4>1
    <3>2. CASE i = 0
      BY <2>2, <2>3, <3>2
    <3>3. CASE i = k + 1
      <4>1. h[i] = g[k] + f[k + 1] /\ i - 1 = k /\ i # 0
        BY <3>3
      <4> HIDE DEF h
      <4> QED
        BY <2>2, <3>3, <4>1
    <3> QED
      BY <3>1, <3>2, <3>3
  <2>5. Sums(h, f, k + 1)
    <3>1. h = [i \in 0 .. k + 1 |-> h[i]]
      OBVIOUS
    <3> HIDE DEF h
    <3> QED
      BY <2>4, <3>1 DEF Sums
  <2> QED
    BY <2>5
<1> HIDE DEF T
<1>3. n \in T
  BY <1>1, <1>2, SetInduction
<1> QED
  BY <1>3 DEF T

(* ... and they do not depend on how far they run. *)
LEMMA SumsAgree ==
    ASSUME NEW f, NEW n \in Nat, NEW g, NEW h, Sums(g, f, n), Sums(h, f, n + 1)
    PROVE  g[n] = h[n]
<1> DEFINE T == {k \in Nat : k <= n => g[k] = h[k]}
<1>1. \A i \in 0 .. n : g[i] = IF i = 0 THEN 0 ELSE g[i - 1] + f[i]
  BY DEF Sums
<1>2. \A i \in 0 .. n : h[i] = IF i = 0 THEN 0 ELSE h[i - 1] + f[i]
  BY DEF Sums
<1>3. 0 \in T
  BY <1>1, <1>2
<1>4. ASSUME NEW k \in Nat, k \in T PROVE k + 1 \in T
  <2> SUFFICES ASSUME k + 1 <= n PROVE g[k + 1] = h[k + 1]
    OBVIOUS
  <2>1. k + 1 \in 0 .. n /\ k + 1 # 0 /\ (k + 1) - 1 = k /\ g[k] = h[k]
    BY <1>4
  <2> QED
    BY <1>1, <1>2, <2>1
<1> HIDE DEF T
<1>5. n \in T
  BY <1>3, <1>4, SetInduction
<1> QED
  BY <1>5 DEF T

LEMMA SumToIs ==
    ASSUME NEW f, NEW n \in Nat
    PROVE  \E g : Sums(g, f, n) /\ SumTo(f, n) = g[n]
<1> DEFINE G == CHOOSE g : g = [i \in 0 .. n |-> IF i = 0 THEN 0 ELSE g[i - 1] + f[i]]
<1>1. Sums(G, f, n)
  BY SumsExist DEF Sums
<1>2. SumTo(f, n) = G[n]
  BY DEF SumTo
<1> QED
  BY <1>1, <1>2

(* A sum, one summand at a time. *)
LEMMA SumToStep ==
    ASSUME NEW f, NEW n \in Nat
    PROVE  SumTo(f, 0) = 0 /\ SumTo(f, n + 1) = SumTo(f, n) + f[n + 1]
<1>1. SumTo(f, 0) = 0
  <2>1. PICK g : Sums(g, f, 0) /\ SumTo(f, 0) = g[0]
    BY SumToIs
  <2> QED
    BY <2>1 DEF Sums
<1>2. SumTo(f, n + 1) = SumTo(f, n) + f[n + 1]
  <2>1. PICK g : Sums(g, f, n) /\ SumTo(f, n) = g[n]
    BY SumToIs
  <2>2. PICK h : Sums(h, f, n + 1) /\ SumTo(f, n + 1) = h[n + 1]
    <3>1. n + 1 \in Nat
      OBVIOUS
    <3> QED
      BY <3>1, SumToIs
  <2>3. h[n + 1] = h[n] + f[n + 1]
    <3>1. n + 1 \in 0 .. n + 1 /\ n + 1 # 0 /\ (n + 1) - 1 = n
      OBVIOUS
    <3> QED
      BY <2>2, <3>1 DEF Sums
  <2>4. g[n] = h[n]
    BY <2>1, <2>2, SumsAgree
  <2> QED
    BY <2>1, <2>2, <2>3, <2>4
<1> QED
  BY <1>1, <1>2

(* A sum of integers is an integer. *)
LEMMA SumToInt ==
    ASSUME NEW f, NEW n \in Nat, \A i \in 1 .. n : f[i] \in Int
    PROVE  SumTo(f, n) \in Int
<1> DEFINE T == {k \in Nat : k <= n => SumTo(f, k) \in Int}
<1>1. 0 \in T
  BY SumToStep
<1>2. ASSUME NEW k \in Nat, k \in T PROVE k + 1 \in T
  <2> SUFFICES ASSUME k + 1 <= n PROVE SumTo(f, k + 1) \in Int
    OBVIOUS
  <2>1. SumTo(f, k) \in Int /\ k + 1 \in 1 .. n
    BY <1>2
  <2>2. SumTo(f, k + 1) = SumTo(f, k) + f[k + 1]
    BY SumToStep
  <2> QED
    BY <2>1, <2>2
<1> HIDE DEF T
<1>3. n \in T
  BY <1>1, <1>2, SetInduction
<1> QED
  BY <1>3 DEF T

(* Equal summands, equal sums. *)
LEMMA SumToEqual ==
    ASSUME NEW f, NEW g, NEW n \in Nat, \A i \in 1 .. n : f[i] = g[i]
    PROVE  SumTo(f, n) = SumTo(g, n)
<1> DEFINE T == {k \in Nat : k <= n => SumTo(f, k) = SumTo(g, k)}
<1>1. 0 \in T
  BY SumToStep
<1>2. ASSUME NEW k \in Nat, k \in T PROVE k + 1 \in T
  <2> SUFFICES ASSUME k + 1 <= n PROVE SumTo(f, k + 1) = SumTo(g, k + 1)
    OBVIOUS
  <2>1. SumTo(f, k) = SumTo(g, k) /\ f[k + 1] = g[k + 1]
    BY <1>2
  <2>2. /\ SumTo(f, k + 1) = SumTo(f, k) + f[k + 1]
        /\ SumTo(g, k + 1) = SumTo(g, k) + g[k + 1]
    BY SumToStep
  <2> QED
    BY <2>1, <2>2
<1> HIDE DEF T
<1>3. n \in T
  BY <1>1, <1>2, SetInduction
<1> QED
  BY <1>3 DEF T

(* The sum the loop of touchpad_motion_to_delta runs over: the newer half of *)
(* the points, less the older half.                                         *)
LEMMA SignedSum ==
    ASSUME NEW half \in Nat \ {0}, NEW points, NEW older, NEW f,
           \A i \in 1 .. 2 * half : points[i] \in Int,
           \A i \in 1 .. half : older[i] = points[half + i],
           \A i \in 1 .. 2 * half - 1 :
              f[i] = IF i + 1 <= half THEN points[i + 1] ELSE -points[i + 1]
    PROVE  points[1] + SumTo(f, 2 * half - 1) = SumTo(points, half) - SumTo(older, half)
<1> DEFINE Newer == {k \in Nat : k < half => points[1] + SumTo(f, k) = SumTo(points, k + 1)}
           Older == {k \in Nat : k <= half =>
                        points[1] + SumTo(f, half - 1 + k)
                            = SumTo(points, half) - SumTo(older, k)}
<1>0. \A k \in 0 .. 2 * half - 1 : SumTo(f, k) \in Int
  <2> TAKE k \in 0 .. 2 * half - 1
  <2>1. \A i \in 1 .. k : f[i] \in Int
    OBVIOUS
  <2> QED
    BY <2>1, SumToInt
<1>1. \A k \in 0 .. half : SumTo(points, k) \in Int
  <2> TAKE k \in 0 .. half
  <2>1. \A i \in 1 .. k : points[i] \in Int
    OBVIOUS
  <2> QED
    BY <2>1, SumToInt
<1>2. \A k \in 0 .. half : SumTo(older, k) \in Int
  <2> TAKE k \in 0 .. half
  <2>1. \A i \in 1 .. k : older[i] \in Int
    OBVIOUS
  <2> QED
    BY <2>1, SumToInt
<1>3. 0 \in Newer
  <2>1. SumTo(f, 0) = 0 /\ SumTo(points, 0) = 0 /\ SumTo(points, 0 + 1) = 0 + points[0 + 1]
    BY SumToStep
  <2> QED
    BY <2>1
<1>4. ASSUME NEW k \in Nat, k \in Newer PROVE k + 1 \in Newer
  <2> SUFFICES ASSUME k + 1 < half
               PROVE  points[1] + SumTo(f, k + 1) = SumTo(points, k + 1 + 1)
    OBVIOUS
  <2>1. points[1] + SumTo(f, k) = SumTo(points, k + 1) /\ f[k + 1] = points[k + 1 + 1]
    BY <1>4
  <2>2. SumTo(f, k + 1) = SumTo(f, k) + f[k + 1]
    BY SumToStep
  <2>3. SumTo(points, k + 1 + 1) = SumTo(points, k + 1) + points[k + 1 + 1]
    BY SumToStep
  <2>4. SumTo(f, k) \in Int /\ points[1] \in Int /\ points[k + 1 + 1] \in Int
    BY <1>0
  <2> QED
    BY <2>1, <2>2, <2>3, <2>4
<1>5. half - 1 \in Newer
  <2> HIDE DEF Newer
  <2> QED
    BY <1>3, <1>4, SetInduction
<1>6. 0 \in Older
  <2>1. points[1] + SumTo(f, half - 1) = SumTo(points, half)
    BY <1>5
  <2>2. SumTo(older, 0) = 0
    BY SumToStep
  <2> QED
    BY <1>1, <2>1, <2>2
<1>7. ASSUME NEW k \in Nat, k \in Older PROVE k + 1 \in Older
  <2> SUFFICES ASSUME k + 1 <= half
               PROVE  points[1] + SumTo(f, half - 1 + (k + 1))
                          = SumTo(points, half) - SumTo(older, k + 1)
    OBVIOUS
  <2>1. points[1] + SumTo(f, half - 1 + k) = SumTo(points, half) - SumTo(older, k)
    BY <1>7
  <2>2. f[half - 1 + k + 1] = -points[half + (k + 1)] /\ older[k + 1] = points[half + (k + 1)]
    <3>1. half - 1 + k + 1 \in 1 .. 2 * half - 1 /\ ~(half - 1 + k + 1 + 1 <= half)
          /\ half - 1 + k + 1 + 1 = half + (k + 1) /\ k + 1 \in 1 .. half
      OBVIOUS
    <3> QED
      BY <3>1
  <2>3. SumTo(f, half - 1 + (k + 1)) = SumTo(f, half - 1 + k) + f[half - 1 + k + 1]
    <3>1. half - 1 + k \in Nat /\ half - 1 + (k + 1) = half - 1 + k + 1
      OBVIOUS
    <3> QED
      BY <3>1, SumToStep
  <2>4. SumTo(older, k + 1) = SumTo(older, k) + older[k + 1]
    BY SumToStep
  <2>5. /\ SumTo(f, half - 1 + k) \in Int /\ points[1] \in Int /\ SumTo(points, half) \in Int
        /\ SumTo(older, k) \in Int /\ points[half + (k + 1)] \in Int
    BY <1>0, <1>1, <1>2
  <2> QED
    BY <2>1, <2>2, <2>3, <2>4, <2>5
<1>8. half \in Older
  <2> HIDE DEF Older
  <2> QED
    BY <1>6, <1>7, SetInduction
<1>9. half - 1 + half = 2 * half - 1
  OBVIOUS
<1> QED
  BY <1>8, <1>9

----------------------------------------------------------------------------
(* The inductive invariant *)

(* The properties need two facts of a touch that is on: its ring has a      *)
(* point, and its coordinate is the finger's or the point last pushed.      *)
FilterTypes ==
    /\ history \in Rings
    /\ history_size \in Sizes
    /\ raw \in Int
    /\ x \in Int
    /\ recent \in Seq(Int)
    /\ state \in {"NONE", "BEGIN", "UPDATE", "END"}

On == state \in {"UPDATE", "END"}

FilterInv ==
    /\ FilterTypes
    /\ On => history.valid >= 1
    /\ known => Absolute(x - raw) <= Margin
    /\ known /\ On => x = raw \/ x = HistoryGet(history, 1)
    /\ Holds(history, recent)

(* A ring that was just reset holds nothing. *)
LEMMA ResetHoldsNothing ==
    ASSUME NEW points \in [0 .. MAX_MOTION_HISTORY_SIZE - 1 -> Int], NEW size \in Sizes
    PROVE  /\ HistoryReset(points, size) \in Rings
           /\ Holds(HistoryReset(points, size), <<>>)
<1>1. size \in Nat \ {0}
  BY HistoryAssumption DEF Sizes
<1> QED
  BY <1>1 DEF HistoryReset, Rings, Holds

LEMMA FilterInit == Init => FilterInv
<1> SUFFICES ASSUME Init PROVE FilterInv
  OBVIOUS
<1>1. [i \in 0 .. MAX_MOTION_HISTORY_SIZE - 1 |-> 0]
          \in [0 .. MAX_MOTION_HISTORY_SIZE - 1 -> Int]
  OBVIOUS
<1>2. MAX_MOTION_HISTORY_SIZE \in Sizes
  BY HistoryAssumption DEF Sizes
<1>3. history \in Rings /\ Holds(history, <<>>)
  BY <1>1, <1>2, ResetHoldsNothing DEF Init
<1> QED
  BY <1>2, <1>3, PositionsAssumption DEF Init, FilterInv, FilterTypes, On

(* What the kernel reports leaves the ring alone, and takes the touch to its *)
(* finger if it says anything.                                               *)
LEMMA ReportKeepsInv ==
    ASSUME FilterInv, NEW p \in Positions, Report(p),
           UNCHANGED <<history, recent, history_size>>,
           state' \in {"NONE", "BEGIN", "UPDATE", "END"},
           state' = state \/ state' = "BEGIN"
    PROVE  FilterInv'
<1>1. p \in Int /\ Margin \in Nat
  BY PositionsAssumption, MarginAssumption
<1>2. FilterTypes'
  BY <1>1 DEF FilterInv, FilterTypes, Report
<1>3. On' => On
  BY DEF On
<1>4. (On => history.valid >= 1)' /\ Holds(history, recent)'
  BY <1>3 DEF FilterInv, Holds, HistoryGet
<1>5. CASE p = raw
  <2>1. x' = x /\ raw' = raw /\ (known' => known)
    BY <1>5 DEF Report
  <2> QED
    BY <1>2, <1>3, <1>4, <2>1 DEF FilterInv, HistoryGet
<1>6. CASE p # raw
  <2>1. x' = p /\ raw' = p
    BY <1>6 DEF Report
  <2>2. Absolute(p - p) <= Margin
    BY <1>1 DEF Absolute
  <2> QED
    BY <1>2, <1>4, <2>1, <2>2 DEF FilterInv
<1> QED
  BY <1>5, <1>6

(* A frame pushes the point it smoothed, and the touch is there. *)
LEMMA SynReportKeepsInv ==
    ASSUME FilterInv, SynReport
    PROVE  FilterInv'
<1> DEFINE more == Pushed \o recent
           n == IF Len(more) <= history.size + 1 THEN Len(more) ELSE history.size + 1
<1>1. /\ history \in Rings /\ history_size \in Sizes
      /\ x \in Int /\ raw \in Int /\ recent \in Seq(Int)
      /\ Holds(history, recent)
  BY DEF FilterInv, FilterTypes
<1>2. /\ Opened \in Rings /\ Opened.size = history.size
      /\ Holds(Opened, IF state = "BEGIN" THEN <<x>> \o recent ELSE recent)
  <2>1. CASE state = "BEGIN"
    BY <1>1, <2>1, PushIsReadBack, PushHolds DEF Opened
  <2>2. CASE state # "BEGIN"
    BY <1>1, <2>2 DEF Opened
  <2> QED
    BY <2>1, <2>2
<1>3. Smooth \in Int
  <2>1. HistoryGet(Opened, 1) \in Int
    BY <1>2, LastPointIsInteger
  <2> QED
    BY <1>1, <2>1, HysteresisIsNear DEF Smooth, Dejitter
<1>4. /\ Closed \in Rings /\ Closed.size = history.size
      /\ Closed.valid >= 1 /\ HistoryGet(Closed, 1) = Smooth
      /\ Holds(Closed, more)
  <2>1. /\ Closed \in Rings /\ Closed.size = history.size
        /\ HistoryGet(Closed, 1) = Smooth
        /\ Closed.valid = IF Opened.valid < Opened.size THEN Opened.valid + 1
                          ELSE Opened.valid
    BY <1>2, <1>3, PushIsReadBack DEF Closed
  <2>2. Closed.valid >= 1
    BY <1>2, <2>1, HistoryAssumption DEF Rings, Sizes
  <2>3. CASE state = "BEGIN"
    <3>1. <<x>> \o recent \in Seq(Int)
      BY <1>1
    <3>2. Holds(Closed, <<Smooth>> \o (<<x>> \o recent))
      BY <1>2, <1>3, <2>3, <3>1, PushHolds DEF Closed
    <3>3. more = <<Smooth>> \o (<<x>> \o recent)
      BY <1>1, <1>3, <2>3 DEF Pushed
    <3> QED
      BY <2>1, <2>2, <3>2, <3>3
  <2>4. CASE state # "BEGIN"
    <3>1. Holds(Closed, <<Smooth>> \o recent)
      BY <1>1, <1>2, <1>3, <2>4, PushHolds DEF Closed
    <3> QED
      BY <2>1, <2>2, <2>4, <3>1 DEF Pushed
  <2> QED
    BY <2>3, <2>4
<1>5. more \in Seq(Int)
  BY <1>1, <1>3 DEF Pushed
<1>6. Keep(more) \in Seq(Int) /\ Holds(Closed, Keep(more))
  <2>1. history.size \in Nat
    BY <1>1, HistoryAssumption DEF Rings, Sizes
  <2>2. n \in Nat /\ n <= Len(more) /\ (n = Len(more) \/ n >= Closed.size)
    BY <1>4, <1>5, <2>1
  <2>3. Keep(more) = SubSeq(more, 1, n)
    BY DEF Keep
  <2> HIDE DEF more, n
  <2> QED
    BY <1>4, <1>5, <2>2, <2>3, HoldsTheFirst
<1> HIDE DEF more
<1>7. known' => Absolute(Smooth - raw) <= Margin
  <2> SUFFICES ASSUME known PROVE Absolute(Smooth - raw) <= Margin
    BY DEF SynReport
  <2>1. Absolute(x - raw) <= Margin
    BY DEF FilterInv
  <2>2. CASE ~dirty
    BY <2>1, <2>2 DEF Smooth
  <2>3. CASE dirty /\ x = HistoryGet(Opened, 1)
    <3>1. Smooth = x
      BY <1>1, <2>3, HysteresisIsNear DEF Smooth, Dejitter
    <3> QED
      BY <2>1, <3>1
  <2>4. CASE dirty /\ x = raw
    <3>1. HistoryGet(Opened, 1) \in Int
      BY <1>2, LastPointIsInteger
    <3> QED
      BY <1>1, <2>4, <3>1, HysteresisIsNear DEF Smooth, Dejitter
  <2>5. x = raw \/ x = HistoryGet(Opened, 1)
    <3>1. CASE state = "BEGIN"
      BY <1>1, <3>1, PushIsReadBack DEF Opened
    <3>2. CASE state # "BEGIN"
      BY <3>2 DEF Opened, FilterInv, FilterTypes, On, SynReport
    <3> QED
      BY <3>1, <3>2
  <2> QED
    BY <2>2, <2>3, <2>4, <2>5
<1>8. CASE state = "END"
  <2>1. history' = HistoryReset(Closed.points, history_size)
    BY <1>8 DEF SynReport
  <2>2. Closed.points \in [0 .. MAX_MOTION_HISTORY_SIZE - 1 -> Int]
    BY <1>4 DEF Rings
  <2>3. history' \in Rings /\ Holds(history', <<>>)
    BY <1>1, <2>1, <2>2, ResetHoldsNothing
  <2>4. recent' = <<>> /\ state' = "NONE" /\ x' = Smooth /\ raw' = raw
        /\ history_size' = history_size
    BY <1>8 DEF SynReport
  <2> QED
    BY <1>1, <1>3, <1>7, <2>3, <2>4 DEF FilterInv, FilterTypes, On
<1>9. CASE state # "END"
  <2>1. history' = Closed /\ recent' = Keep(more) /\ state' = "UPDATE" /\ x' = Smooth
        /\ raw' = raw /\ history_size' = history_size
    BY <1>9 DEF SynReport, more
  <2> QED
    BY <1>1, <1>3, <1>4, <1>6, <1>7, <2>1 DEF FilterInv, FilterTypes, On
<1> QED
  BY <1>8, <1>9

LEMMA FilterNext == FilterInv /\ [Next]_vars => FilterInv'
<1> SUFFICES ASSUME FilterInv, [Next]_vars PROVE FilterInv'
  OBVIOUS
<1> USE DEF filterVars, boundedVars
<1>1. ASSUME NEW p \in Positions, FingerDown(p) PROVE FilterInv'
  BY <1>1, ReportKeepsInv DEF FingerDown
<1>2. ASSUME NEW p \in Positions, FingerMove(p) PROVE FilterInv'
  BY <1>2, ReportKeepsInv DEF FingerMove, FilterInv, FilterTypes
<1>3. CASE FingerUp
  BY <1>3 DEF FingerUp, FilterInv, FilterTypes, On, Holds, HistoryGet
<1>4. CASE SynReport
  BY <1>4, SynReportKeepsInv
<1>5. ASSUME NEW size \in Sizes, ConfigSet(size) PROVE FilterInv'
  BY <1>5 DEF ConfigSet, FilterInv, FilterTypes, On, Holds, HistoryGet
<1>6. CASE ChangeFd
  <2>1. history.points \in [0 .. MAX_MOTION_HISTORY_SIZE - 1 -> Int] /\ history_size \in Sizes
    BY DEF FilterInv, FilterTypes, Rings
  <2>2. history' \in Rings /\ Holds(history', <<>>)
    BY <1>6, <2>1, ResetHoldsNothing DEF ChangeFd
  <2> QED
    BY <1>6, <2>2 DEF ChangeFd, FilterInv, FilterTypes, On
<1>7. CASE UNCHANGED vars
  BY <1>7 DEF vars, FilterInv, FilterTypes, On, Holds, HistoryGet
<1> QED
  BY <1>1, <1>2, <1>3, <1>4, <1>5, <1>6, <1>7 DEF Next

(* The ring, the last point and the coordinate of a touch, in every state. *)
THEOREM FilterIsInvariant == Spec => []FilterInv
  BY FilterInit, FilterNext, PTL DEF Spec

----------------------------------------------------------------------------
(* The properties *)

(* The ring gives back the points that were pushed, the most recent first,  *)
(* whatever its size was before and however often it wrapped                *)
(* (touchpad_history_push, touchpad_history_get).                           *)
THEOREM RingAlwaysRecent == Spec => []RingIsRecent
<1>1. FilterInv => RingIsRecent
  BY DEF FilterInv, Holds, RingIsRecent
<1> QED
  BY <1>1, FilterIsInvariant, PTL

(* touchpad_motion_dejitter and touchpad_motion_to_delta never ask an empty *)
(* ring for its last point, which get would answer with NULL.               *)
THEOREM AlwaysHasLastPoint == Spec => []HasLastPoint
<1>1. FilterInv => HasLastPoint
  <2> SUFFICES ASSUME FilterInv, state # "NONE" PROVE 1 <= Opened.valid
    BY DEF HasLastPoint, HistoryHas
  <2>1. history \in Rings /\ x \in Int
    BY DEF FilterInv, FilterTypes
  <2>2. CASE state = "BEGIN"
    <3>1. Opened.valid = IF history.valid < history.size THEN history.valid + 1
                         ELSE history.valid
      BY <2>1, <2>2, PushIsReadBack DEF Opened
    <3> QED
      BY <2>1, <3>1, HistoryAssumption DEF Rings, Sizes
  <2>3. CASE state # "BEGIN"
    BY <2>1, <2>3 DEF Opened, FilterInv, FilterTypes, On, Rings
  <2> QED
    BY <2>2, <2>3
<1> QED
  BY <1>1, FilterIsInvariant, PTL

(* The hysteresis never adds up: after any number of frames the touch is    *)
(* within the margin of the finger the kernel reported (hysteresis).        *)
THEOREM AlwaysWithinMargin == Spec => []WithinMargin
<1>1. FilterInv => WithinMargin
  BY DEF FilterInv, WithinMargin
<1> QED
  BY <1>1, FilterIsInvariant, PTL

----------------------------------------------------------------------------
(* The motion of a frame *)

(* What the ring and the point of the frame give, in terms of the points    *)
(* that were pushed: their average once the ring is full.                   *)
LEMMA DeltaOfPoints ==
    ASSUME NEW h \in Rings, NEW points \in Seq(Int), Holds(h, points), NEW in \in Int
    PROVE  MotionToDelta(h, in) = IF Len(points) < h.size THEN 0
                                  ELSE AverageOf(<<in>> \o points, (h.size + 1) \div 2)
<1> DEFINE half == (h.size + 1) \div 2
           all == <<in>> \o points
           older == SubSeq(all, half + 1, 2 * half)
           npoints == ((1 + h.valid) \div 2) * 2
<1>1. h.size \in Nat \ {0} /\ Len(points) \in Nat
  BY HistoryAssumption DEF Rings, Sizes
<1>2. CASE Len(points) < h.size
  <2>1. h.valid < h.size
    BY <1>1, <1>2 DEF Holds
  <2> QED
    BY <1>2, <2>1 DEF MotionToDelta
<1>3. CASE ~(Len(points) < h.size)
  <2>1. h.valid = h.size /\ \A i \in 1 .. h.size : HistoryGet(h, i) = points[i]
    BY <1>3 DEF Holds
  <2>2. /\ half \in Nat \ {0} /\ npoints = 2 * half /\ npoints - 1 <= h.size
        /\ npoints \div 2 = half
    BY <1>1, <2>1
  <2>3. /\ all \in Seq(Int) /\ Len(all) = Len(points) + 1 /\ all[1] = in
        /\ \A i \in 1 .. Len(points) : all[i + 1] = points[i]
    OBVIOUS
  <2>4. Len(all) \in Nat /\ 2 * half <= Len(all)
    BY <1>1, <1>3, <2>3, SMTT(30)
  <2> HIDE DEF half, npoints, all
  <2>5. ASSUME NEW i \in 1 .. 2 * half PROVE all[i] \in Int
    <3>1. i \in 1 .. Len(all)
      BY <2>2, <2>4
    <3> QED
      BY <2>3, <3>1
  <2>6. ASSUME NEW i \in 1 .. half PROVE older[i] = all[half + i]
    <3>1. /\ half + 1 \in 1 .. 2 * half /\ half + 1 \in Nat \ {0} /\ 2 * half \in Nat
          /\ i \in 1 .. 2 * half - (half + 1) + 1 /\ half + 1 + i - 1 = half + i
      BY <2>2
    <3>2. SubSeq(all, half + 1, 2 * half)[i] = all[half + 1 + i - 1]
      BY <2>5, <3>1, SubSeqProperties
    <3> QED
      BY <3>1, <3>2
  <2>7. ASSUME NEW i \in 1 .. 2 * half - 1
        PROVE  Signed(h, npoints)[i] = IF i + 1 <= half THEN all[i + 1] ELSE -all[i + 1]
    <3>1. i \in 1 .. h.size /\ i \in 1 .. Len(points)
      BY <1>1, <1>3, <2>2
    <3>2. HistoryGet(h, i) = all[i + 1]
      BY <2>1, <2>3, <3>1
    <3> QED
      BY <2>2, <3>2 DEF Signed
  <2>8. all[1] + SumTo(Signed(h, npoints), 2 * half - 1) = SumTo(all, half) - SumTo(older, half)
    <3> HIDE DEF older
    <3> QED
      BY <2>2, <2>5, <2>6, <2>7, SignedSum, ZenonT(30)
  <2>9. MotionToDelta(h, in)
           = Quotient(in + SumTo(Signed(h, npoints), npoints - 1), npoints)
    BY <1>1, <2>1 DEF MotionToDelta, npoints
  <2>10. MotionToDelta(h, in) = Quotient(SumTo(all, half) - SumTo(older, half), 2 * half)
    BY <2>2, <2>3, <2>8, <2>9
  <2>11. AverageOf(all, half) = Quotient(SumTo(all, half) - SumTo(older, half), 2 * half)
    BY DEF AverageOf
  <2> QED
    BY <1>3, <2>10, <2>11 DEF half, all
<1> QED
  BY <1>2, <1>3

(* An average depends on the points it is of. *)
LEMMA AverageOfEqual ==
    ASSUME NEW p \in Seq(Int), NEW q \in Seq(Int), NEW half \in Nat,
           2 * half <= Len(p), 2 * half <= Len(q), \A i \in 1 .. 2 * half : p[i] = q[i]
    PROVE  AverageOf(p, half) = AverageOf(q, half)
<1>1. SumTo(p, half) = SumTo(q, half)
  <2>1. \A i \in 1 .. half : p[i] = q[i]
    OBVIOUS
  <2> QED
    BY <2>1, SumToEqual
<1>2. SumTo(SubSeq(p, half + 1, 2 * half), half) = SumTo(SubSeq(q, half + 1, 2 * half), half)
  <2>1. \A i \in 1 .. half : SubSeq(p, half + 1, 2 * half)[i] = p[half + i]
    OBVIOUS
  <2>2. \A i \in 1 .. half : SubSeq(q, half + 1, 2 * half)[i] = q[half + i]
    OBVIOUS
  <2>3. \A i \in 1 .. half : half + i \in 1 .. 2 * half
    OBVIOUS
  <2>4. \A i \in 1 .. half : SubSeq(p, half + 1, 2 * half)[i] = SubSeq(q, half + 1, 2 * half)[i]
    BY <2>1, <2>2, <2>3
  <2> QED
    BY <2>4, SumToEqual
<1> QED
  BY <1>1, <1>2 DEF AverageOf

(* Points that are all the same have no motion. *)
LEMMA StandsStill ==
    ASSUME NEW points \in Seq(Int), NEW half \in Nat \ {0}, 2 * half <= Len(points),
           NEW c, \A i \in 1 .. Len(points) : points[i] = c
    PROVE  AverageOf(points, half) = 0
<1> DEFINE older == SubSeq(points, half + 1, 2 * half)
<1>1. \A i \in 1 .. half : older[i] = points[half + i]
  OBVIOUS
<1>2. \A i \in 1 .. half : i \in 1 .. Len(points) /\ half + i \in 1 .. Len(points)
  OBVIOUS
<1> HIDE DEF older
<1>3. \A i \in 1 .. half : points[i] = older[i] /\ points[i] \in Int
  BY <1>1, <1>2
<1>4. SumTo(points, half) = SumTo(older, half) /\ SumTo(points, half) \in Int
  BY <1>3, SumToEqual, SumToInt
<1>5. SumTo(points, half) - SumTo(older, half) = 0
  BY <1>4
<1>6. 0 \div (2 * half) = 0
  OBVIOUS
<1>7. Quotient(0, 2 * half) = 0
  BY <1>6 DEF Quotient
<1> QED
  BY <1>5, <1>7 DEF AverageOf, older

(* What SYN_REPORT does with the touch, in terms of the points pushed.      *)
SeenPoints == IF state = "BEGIN" THEN <<x>> \o recent ELSE recent

LEMMA FrameOpens ==
    ASSUME FilterInv
    PROVE  /\ SeenPoints \in Seq(Int) /\ x \in Int
           /\ Opened \in Rings /\ Opened.size = history.size /\ history.size \in Nat \ {0}
           /\ Holds(Opened, SeenPoints) /\ Smooth \in Int
           /\ Pushed \o recent = <<Smooth>> \o SeenPoints
<1>1. history \in Rings /\ x \in Int /\ recent \in Seq(Int) /\ Holds(history, recent)
  BY DEF FilterInv, FilterTypes
<1>2. history.size \in Nat \ {0}
  BY <1>1, HistoryAssumption DEF Rings, Sizes
<1>3. /\ Opened \in Rings /\ Opened.size = history.size
      /\ SeenPoints \in Seq(Int) /\ Holds(Opened, SeenPoints)
  <2>1. CASE state = "BEGIN"
    BY <1>1, <2>1, PushIsReadBack, PushHolds DEF Opened, SeenPoints
  <2>2. CASE state # "BEGIN"
    BY <1>1, <2>2 DEF Opened, SeenPoints
  <2> QED
    BY <2>1, <2>2
<1>4. Smooth \in Int
  <2>1. HistoryGet(Opened, 1) \in Int
    BY <1>3, LastPointIsInteger
  <2> QED
    BY <1>1, <2>1, HysteresisIsNear DEF Smooth, Dejitter
<1>5. Pushed \o recent = <<Smooth>> \o SeenPoints
  <2>1. CASE state = "BEGIN"
    BY <1>1, <1>4, <2>1 DEF Pushed, SeenPoints
  <2>2. CASE state # "BEGIN"
    BY <2>2 DEF Pushed, SeenPoints
  <2> QED
    BY <2>1, <2>2
<1> QED
  BY <1>1, <1>2, <1>3, <1>4, <1>5

LEMMA KeepsTheFirst ==
    ASSUME NEW points \in Seq(Int), history.size \in Nat \ {0}
    PROVE  /\ Keep(points) \in Seq(Int)
           /\ Len(Keep(points)) = IF Len(points) <= history.size + 1 THEN Len(points)
                                  ELSE history.size + 1
           /\ \A i \in 1 .. Len(Keep(points)) : Keep(points)[i] = points[i]
<1> DEFINE n == IF Len(points) <= history.size + 1 THEN Len(points) ELSE history.size + 1
<1>1. n \in Nat /\ n <= Len(points)
  OBVIOUS
<1>2. Keep(points) = SubSeq(points, 1, n)
  BY DEF Keep
<1> HIDE DEF n
<1>3. /\ SubSeq(points, 1, n) \in Seq(Int) /\ Len(SubSeq(points, 1, n)) = n
      /\ \A i \in 1 .. n : SubSeq(points, 1, n)[i] = points[i]
  BY <1>1
<1> QED
  BY <1>2, <1>3 DEF n

(* The motion of a frame that does not end the touch. *)
LEMMA FrameDelta ==
    ASSUME FilterInv, SynReport, state # "END"
    PROVE  delta' = IF Len(recent') <= history'.size THEN 0
                    ELSE AverageOf(recent', (history'.size + 1) \div 2)
<1> DEFINE size == history.size
           half == (size + 1) \div 2
           all == <<Smooth>> \o SeenPoints
<1>1. /\ SeenPoints \in Seq(Int) /\ Opened \in Rings /\ Opened.size = size
      /\ size \in Nat \ {0} /\ Holds(Opened, SeenPoints) /\ Smooth \in Int
      /\ Pushed \o recent = all
  BY FrameOpens
<1>2. /\ all \in Seq(Int) /\ Len(all) = Len(SeenPoints) + 1 /\ Len(SeenPoints) \in Nat
  BY <1>1
<1>3. delta' = IF Len(SeenPoints) < size THEN 0 ELSE AverageOf(all, half)
  <2>1. delta' = MotionToDelta(Opened, Smooth)
    BY DEF SynReport
  <2> QED
    BY <1>1, <2>1, DeltaOfPoints
<1>4. history'.size = size /\ recent' = Keep(all)
  <2>1. history' = Closed /\ recent' = Keep(Pushed \o recent)
    BY DEF SynReport
  <2>2. Closed.size = size
    BY <1>1, PushIsReadBack DEF Closed
  <2> QED
    BY <1>1, <2>1, <2>2
<1> HIDE DEF all
<1>5. /\ recent' \in Seq(Int)
      /\ Len(recent') = IF Len(all) <= size + 1 THEN Len(all) ELSE size + 1
      /\ \A i \in 1 .. Len(recent') : recent'[i] = all[i]
  BY <1>1, <1>2, <1>4, KeepsTheFirst
<1>6. CASE Len(SeenPoints) < size
  BY <1>1, <1>2, <1>3, <1>4, <1>5, <1>6
<1>7. CASE ~(Len(SeenPoints) < size)
  <2>1. half \in Nat /\ 2 * half <= size + 1
    BY <1>1
  <2>2. Len(recent') = size + 1 /\ Len(all) >= size + 1 /\ Len(all) \in Nat
    BY <1>1, <1>2, <1>5, <1>7
  <2> HIDE DEF half, size
  <2>3. \A i \in 1 .. 2 * half : recent'[i] = all[i]
    BY <1>1, <1>5, <2>1, <2>2
  <2>4. 2 * half <= Len(all) /\ 2 * half <= Len(recent')
    BY <1>1, <2>1, <2>2
  <2>5. AverageOf(recent', half) = AverageOf(all, half)
    BY <1>2, <1>5, <2>1, <2>3, <2>4, AverageOfEqual
  <2> QED
    BY <1>1, <1>3, <1>4, <1>7, <2>2, <2>5 DEF half
<1> QED
  BY <1>6, <1>7

(* The motion of a frame is an integer: the average is one of integers, of  *)
(* at least two points.                                                     *)
LEMMA DeltaIsInteger ==
    ASSUME FilterInv
    PROVE  MotionToDelta(Opened, Smooth) \in Int
<1> DEFINE all == <<Smooth>> \o SeenPoints
           half == (Opened.size + 1) \div 2
           older == SubSeq(all, half + 1, 2 * half)
<1>1. /\ SeenPoints \in Seq(Int) /\ Opened \in Rings /\ Opened.size \in Nat \ {0}
      /\ Holds(Opened, SeenPoints) /\ Smooth \in Int
  BY FrameOpens
<1>2. MotionToDelta(Opened, Smooth) =
          IF Len(SeenPoints) < Opened.size THEN 0 ELSE AverageOf(all, half)
  BY <1>1, DeltaOfPoints
<1>3. ASSUME ~(Len(SeenPoints) < Opened.size) PROVE AverageOf(all, half) \in Int
  <2>1. /\ all \in Seq(Int) /\ Len(all) = Len(SeenPoints) + 1
        /\ half \in Nat \ {0} /\ 2 * half <= Opened.size + 1
    BY <1>1
  <2>2. 2 * half <= Len(all)
    BY <1>1, <1>3, <2>1
  <2> HIDE DEF all, half
  <2>3. \A i \in 1 .. half : all[i] \in Int /\ older[i] \in Int
    BY <2>1, <2>2
  <2>4. SumTo(all, half) - SumTo(older, half) \in Int
    <3>1. SumTo(all, half) \in Int /\ SumTo(older, half) \in Int
      <4> HIDE DEF older
      <4> QED
        BY <2>1, <2>3, SumToInt
    <3> QED
      BY <3>1
  <2>5. \A n \in Int, d \in Nat \ {0} : Quotient(n, d) \in Int
    BY DEF Quotient
  <2>6. 2 * half \in Nat \ {0}
    BY <2>1
  <2> QED
    BY <2>4, <2>5, <2>6 DEF AverageOf, older
<1> QED
  BY <1>2, <1>3

(* What FilterInv does not say of the types. *)
Flags == known \in BOOLEAN /\ dirty \in BOOLEAN /\ still \in BOOLEAN

OtherTypes ==
    /\ raw \in Positions
    /\ Flags
    /\ delta \in Int /\ first \in Int
    /\ configs \in 0 .. MaxConfig
    /\ fd_changes \in 0 .. MaxFdChanges

LEMMA OtherTypesStep == FilterInv /\ OtherTypes /\ [Next]_vars => OtherTypes'
<1> SUFFICES ASSUME FilterInv, OtherTypes, [Next]_vars PROVE OtherTypes'
  OBVIOUS
<1> USE DEF filterVars, boundedVars
<1>1. ASSUME NEW p \in Positions, FingerDown(p) PROVE OtherTypes'
  BY <1>1 DEF FingerDown, Report, OtherTypes, Flags
<1>2. ASSUME NEW p \in Positions, FingerMove(p) PROVE OtherTypes'
  BY <1>2 DEF FingerMove, Report, OtherTypes, Flags
<1>3. CASE FingerUp
  BY <1>3 DEF FingerUp, OtherTypes, Flags
<1>4. CASE SynReport
  <2>1. Smooth \in Int /\ MotionToDelta(Opened, Smooth) \in Int
    BY FrameOpens, DeltaIsInteger
  <2> QED
    BY <1>4, <2>1 DEF SynReport, OtherTypes, Flags
<1>5. ASSUME NEW size \in Sizes, ConfigSet(size) PROVE OtherTypes'
  BY <1>5, BoundsAssumption DEF ConfigSet, OtherTypes, Flags
<1>6. CASE ChangeFd
  <2>1. Flags'
    BY <1>6 DEF ChangeFd, OtherTypes, Flags
  <2> QED
    BY <1>6, <2>1, BoundsAssumption DEF ChangeFd, OtherTypes
<1>7. CASE UNCHANGED vars
  BY <1>7 DEF vars, OtherTypes, Flags
<1> QED
  BY <1>1, <1>2, <1>3, <1>4, <1>5, <1>6, <1>7 DEF Next

(* Types, for every size of the ring and any number of frames: the index    *)
(* stays in the ring, no more points are valid than it holds, and the motion *)
(* is an integer.                                                           *)
THEOREM MotionTypeCorrect == Spec => []MotionTypeOK
<1>1. Init => OtherTypes
  <2> SUFFICES ASSUME Init PROVE OtherTypes
    OBVIOUS
  <2>1. Flags
    BY DEF Init, Flags
  <2> QED
    BY <2>1, BoundsAssumption DEF Init, OtherTypes
<1>2. FilterInv /\ OtherTypes => MotionTypeOK
  <2> SUFFICES ASSUME FilterInv, OtherTypes PROVE MotionTypeOK
    OBVIOUS
  <2>1. /\ history.points \in [0 .. MAX_MOTION_HISTORY_SIZE - 1 -> Int]
        /\ history.size \in Sizes
        /\ history.index \in 0 .. history.size - 1
        /\ history.valid \in 0 .. history.size
    BY HistoryAssumption DEF FilterInv, FilterTypes, Rings, Sizes
  <2> QED
    BY <2>1 DEF FilterInv, FilterTypes, OtherTypes, Flags, MotionTypeOK
<1> QED
  BY <1>1, <1>2, OtherTypesStep, FilterIsInvariant, PTL DEF Spec

(* The motion of every frame is the average that the comment of             *)
(* touchpad_motion_to_delta promises, for every size of the ring, odd ones  *)
(* and one included, and wherever in the ring the points are.               *)
THEOREM DeltaAlwaysAverage == Spec => []DeltaIsAverage
<1>1. Init => DeltaIsAverage
  BY DEF Init, DeltaIsAverage
<1>2. FilterInv /\ DeltaIsAverage /\ [Next]_vars => DeltaIsAverage'
  <2> SUFFICES ASSUME FilterInv, DeltaIsAverage, [Next]_vars PROVE DeltaIsAverage'
    OBVIOUS
  <2>1. CASE SynReport
    <3>1. CASE state = "END"
      BY <2>1, <3>1 DEF SynReport, DeltaIsAverage
    <3>2. CASE state # "END"
      BY <2>1, <3>2, FrameDelta DEF DeltaIsAverage
    <3> QED
      BY <3>1, <3>2
  <2>2. CASE \E p \in Positions : FingerDown(p) \/ FingerMove(p)
    BY <2>2 DEF FingerDown, FingerMove, Report, DeltaIsAverage
  <2>3. CASE FingerUp \/ ChangeFd
    BY <2>3 DEF FingerUp, ChangeFd, DeltaIsAverage
  <2>4. CASE UNCHANGED vars \/ \E size \in Sizes : ConfigSet(size)
    <3>1. UNCHANGED <<state, dirty, delta, recent, history>>
      BY <2>4 DEF ConfigSet, vars, filterVars
    <3> QED
      BY <3>1, ZenonT(30) DEF DeltaIsAverage, AverageOf, SumTo
  <2> QED
    BY <2>1, <2>2, <2>3, <2>4 DEF Next
<1> QED
  BY <1>1, <1>2, FilterIsInvariant, PTL DEF Spec

----------------------------------------------------------------------------
(* Jitter *)

(* A finger that stays within the margin of where it landed: so does the    *)
(* touch, and every point of its ring is the first one.                     *)
StillInv ==
    /\ first \in Int
    /\ state \in {"NONE", "BEGIN"} => recent = <<>>
    /\ state = "UPDATE" /\ still =>
          /\ Absolute(x - first) <= Margin
          /\ ~dirty => x = first /\ delta = 0
          /\ \A i \in 1 .. Len(recent) : recent[i] = first

(* Within the margin the hysteresis does not let go. *)
LEMMA WithinTheMargin ==
    ASSUME NEW in \in Int, NEW center \in Int, Absolute(in - center) <= Margin
    PROVE  Hysteresis(in, center, Margin) = center
<1>1. in - center \in Int /\ Margin \in Nat
  BY MarginAssumption
<1>2. ~(in - center > Margin) /\ ~(in - center < -Margin)
  BY <1>1 DEF Absolute
<1> QED
  BY <1>2 DEF Hysteresis

(* A frame of such a touch: all its points are the same again. *)
LEMMA FrameIsStill ==
    ASSUME FilterInv, StillInv, SynReport, state # "END", still
    PROVE  /\ x' = first' /\ delta' = 0 /\ first' \in Int
           /\ \A i \in 1 .. Len(recent') : recent'[i] = first'
<1> DEFINE all == <<Smooth>> \o SeenPoints
<1>1. /\ SeenPoints \in Seq(Int) /\ x \in Int /\ Opened \in Rings
      /\ Opened.size = history.size /\ history.size \in Nat \ {0}
      /\ Holds(Opened, SeenPoints) /\ Smooth \in Int /\ Pushed \o recent = all
  BY FrameOpens
<1>2. /\ state \in {"BEGIN", "UPDATE"} /\ x' = Smooth /\ recent' = Keep(all)
      /\ first' = IF state = "BEGIN" THEN Smooth ELSE first
  BY <1>1 DEF SynReport, FilterInv, FilterTypes
<1>3. Smooth = first' /\ \A i \in 1 .. Len(SeenPoints) : SeenPoints[i] = first'
  <2>1. CASE state = "BEGIN"
    <3>1. SeenPoints = <<x>>
      BY <1>1, <2>1 DEF SeenPoints, StillInv
    <3>2. HistoryGet(Opened, 1) = x
      BY <1>1, <2>1, PushIsReadBack DEF Opened, FilterInv, FilterTypes
    <3>3. Smooth = x
      BY <1>1, <3>2, HysteresisIsNear DEF Smooth, Dejitter
    <3> QED
      BY <1>2, <2>1, <3>1, <3>3
  <2>2. CASE state = "UPDATE"
    <3>1. /\ Absolute(x - first) <= Margin /\ first \in Int /\ (~dirty => x = first)
          /\ SeenPoints = recent /\ \A i \in 1 .. Len(recent) : recent[i] = first
      BY <2>2 DEF StillInv, SeenPoints
    <3>2. HistoryGet(Opened, 1) = first
      <4>1. Opened.valid >= 1 /\ Opened.valid \in Nat
        BY <2>2, <1>1 DEF Opened, FilterInv, On, Rings
      <4>2. 1 \in 1 .. Opened.valid /\ 1 \in 1 .. Len(SeenPoints)
        BY <1>1, <4>1 DEF Holds
      <4> QED
        BY <1>1, <3>1, <4>2 DEF Holds
    <3>3. Hysteresis(x, first, Margin) = first
      <4>1. x \in Int /\ first \in Int /\ Margin \in Nat /\ Absolute(x - first) <= Margin
        BY <1>1, <3>1, MarginAssumption
      <4> QED
        BY <4>1, WithinTheMargin
    <3>4. Smooth = first
      <4>1. ~dirty => x = first
        BY <3>1
      <4> QED
        BY <3>2, <3>3, <4>1 DEF Smooth, Dejitter
    <3> QED
      BY <1>2, <2>2, <3>1, <3>4
  <2> QED
    BY <1>2, <2>1, <2>2
<1>4. /\ all \in Seq(Int) /\ Len(all) = Len(SeenPoints) + 1
      /\ \A i \in 1 .. Len(all) : all[i] = first'
  <2>1. all \in Seq(Int) /\ Len(all) = Len(SeenPoints) + 1 /\ all[1] = Smooth
    BY <1>1
  <2>2. \A i \in 2 .. Len(all) : all[i] = SeenPoints[i - 1] /\ i - 1 \in 1 .. Len(SeenPoints)
    BY <1>1
  <2>3. \A i \in 1 .. Len(all) : i = 1 \/ i \in 2 .. Len(all)
    BY <2>1
  <2> HIDE DEF all
  <2> QED
    BY <1>3, <2>1, <2>2, <2>3
<1> HIDE DEF all
<1>5. /\ recent' \in Seq(Int) /\ \A i \in 1 .. Len(recent') : recent'[i] = first'
      /\ Len(recent') = IF Len(all) <= history.size + 1 THEN Len(all) ELSE history.size + 1
  <2>1. /\ recent' \in Seq(Int) /\ \A i \in 1 .. Len(recent') : recent'[i] = all[i]
        /\ Len(recent') = IF Len(all) <= history.size + 1 THEN Len(all) ELSE history.size + 1
    BY <1>1, <1>2, <1>4, KeepsTheFirst
  <2>2. \A i \in 1 .. Len(recent') : i \in 1 .. Len(all)
    BY <1>1, <1>4, <2>1
  <2> QED
    BY <1>4, <2>1, <2>2
<1>6. delta' = 0
  <2>1. history'.size = history.size
    BY <1>1, PushIsReadBack DEF SynReport, Closed
  <2>2. CASE Len(recent') <= history.size
    BY <2>1, <2>2, FrameDelta
  <2>3. CASE ~(Len(recent') <= history.size)
    <3> DEFINE half == (history.size + 1) \div 2
    <3>1. half \in Nat \ {0} /\ 2 * half <= history.size + 1
      BY <1>1
    <3>2. Len(recent') = history.size + 1
      BY <1>1, <1>4, <1>5, <2>3
    <3>3. 2 * half <= Len(recent')
      BY <3>1, <3>2
    <3>4. delta' = AverageOf(recent', half)
      BY <2>1, <2>3, FrameDelta
    <3> HIDE DEF half
    <3> QED
      BY <1>5, <3>1, <3>3, <3>4, StandsStill
  <2> QED
    BY <2>2, <2>3
<1> QED
  BY <1>1, <1>2, <1>3, <1>5, <1>6

LEMMA StillNext == FilterInv /\ StillInv /\ [Next]_vars => StillInv'
<1> SUFFICES ASSUME FilterInv, StillInv, [Next]_vars PROVE StillInv'
  OBVIOUS
<1>1. CASE SynReport
  <2>1. CASE state = "END"
    BY <1>1, <2>1 DEF SynReport, StillInv
  <2>2. CASE state # "END"
    <3>1. state' = "UPDATE" /\ still' = still /\ first' \in Int
      BY <1>1, <2>2, FrameOpens DEF SynReport, StillInv
    <3>2. CASE still
      <4>1. /\ x' = first' /\ delta' = 0
            /\ \A i \in 1 .. Len(recent') : recent'[i] = first'
        BY <1>1, <2>2, <3>2, FrameIsStill
      <4>2. Absolute(x' - first') <= Margin
        <5>1. \A a \in Int : Absolute(a - a) <= Margin
          BY MarginAssumption DEF Absolute
        <5> QED
          BY <3>1, <4>1, <5>1
      <4> QED
        BY <3>1, <4>1, <4>2 DEF StillInv
    <3>3. CASE ~still
      BY <3>1, <3>3 DEF StillInv
    <3> QED
      BY <3>2, <3>3
  <2> QED
    BY <2>1, <2>2
<1>2. ASSUME NEW p \in Positions, FingerDown(p) PROVE StillInv'
  BY <1>2 DEF FingerDown, StillInv
<1>3. ASSUME NEW p \in Positions, FingerMove(p) PROVE StillInv'
  <2>1. UNCHANGED <<state, recent, first, delta>> /\ dirty' = TRUE /\ (still' => still)
    BY <1>3 DEF FingerMove, Report
  <2>2. x' = x \/ x' = p
    BY <1>3 DEF FingerMove, Report
  <2>3. still' => Absolute(p - first) <= Margin
    BY <1>3 DEF FingerMove
  <2> QED
    BY <2>1, <2>2, <2>3 DEF StillInv
<1>4. CASE FingerUp \/ ChangeFd
  BY <1>4 DEF FingerUp, ChangeFd, StillInv, filterVars
<1>5. CASE UNCHANGED vars \/ \E size \in Sizes : ConfigSet(size)
  BY <1>5 DEF ConfigSet, vars, filterVars, StillInv
<1> QED
  BY <1>1, <1>2, <1>3, <1>4, <1>5 DEF Next

(* A finger that rests, and jitters no further from where it landed than    *)
(* the margin of the hysteresis, never moves the pointer: the points of the *)
(* ring are all the same, whatever another finger or size left in it.       *)
THEOREM JitterAlwaysStill == Spec => []JitterIsStill
<1>1. Init => StillInv
  BY DEF Init, StillInv
<1>2. StillInv => JitterIsStill
  BY DEF StillInv, JitterIsStill
<1> QED
  BY <1>1, <1>2, StillNext, FilterIsInvariant, PTL DEF Spec
=============================================================================

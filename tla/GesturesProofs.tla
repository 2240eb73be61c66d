--------------------------- MODULE GesturesProofs ---------------------------
(***************************************************************************)
(* Proofs about a touchpad with physical buttons, for any number of        *)
(* touches, any finite set of buttons and any motions: the touches behave  *)
(* as Touches says; the button and scroll callbacks are those HostButtons  *)
(* and HostScroll allow; the pointer stays with one finger, no finger      *)
(* stays pinned, and the pointer rests while fingers scroll.               *)
(*                                                                         *)
(* The loops of the source need an induction: NthEnumerates (the mask of   *)
(* the buttons is walked from its lowest bit) and DeltaIsMotion (the touch *)
(* that moved furthest is looked for).  Each invariant of a part is its    *)
(* own inductive invariant on top of the types: PinInv, FlagInv, ScrollInv. *)
(***************************************************************************)
EXTENDS Gestures, TouchesProofs, InductionLemmas

(* A non-empty set of touches has a first and a last one. *)
LEMMA FirstAndLast ==
    ASSUME NEW S \in SUBSET Touch, S # {}
    PROVE  /\ \E t \in S : \A other \in S : t <= other
           /\ \E t \in S : \A other \in S : other <= t
<1>1. ntouches \in Nat /\ S \subseteq Nat /\ \A t \in S : t < ntouches
  BY LiveFinite DEF Touch
<1>2. \E t \in S : \A other \in S : t <= other
  BY <1>1, LeastNatural
<1>3. \E t \in S : \A other \in S : t >= other
  <2>1. S \in SUBSET (0 .. ntouches)
    BY <1>1
  <2> QED
    BY <1>1, <2>1, GreatestNatural
<1> QED
  BY <1>1, <1>2, <1>3

----------------------------------------------------------------------------
(* The callbacks of a frame name every changed button once, so that each    *)
(* press and release alternates with the one before it.                     *)
LEMMA CallbacksFollow ==
    ASSUME buttons_state \in SUBSET Buttons, old_state \in SUBSET Buttons, PhysButtons
    PROVE  /\ HostB!Post
           /\ out' \in Seq([button : Buttons, press : BOOLEAN])
<1> DEFINE n == Cardinality(Changed)
           b(i) == Nth(Changed, i)
<1>1. Changed \in SUBSET Nat /\ Changed \subseteq Buttons /\ IsFiniteSet(Changed)
  BY ButtonNumbers, FS_Subset DEF Changed
<1>2. /\ n \in Nat
      /\ \A i \in 1 .. n : b(i) \in Changed
      /\ \A i, j \in 1 .. n : b(i) = b(j) => i = j
      /\ \A c \in Changed : \E i \in 1 .. n : b(i) = c
  BY <1>1, NthEnumerates
<1>3. out' = [i \in 1 .. n |-> [button |-> b(i), press |-> b(i) \in buttons_state]]
  BY DEF PhysButtons, Callbacks
<1> HIDE DEF n, b
<1>4. out' \in [1 .. n -> [button : Buttons, press : BOOLEAN]]
  <2>1. ASSUME NEW i \in 1 .. n
        PROVE  [button |-> b(i), press |-> b(i) \in buttons_state]
                   \in [button : Buttons, press : BOOLEAN]
    <3>1. b(i) \in Buttons
      BY <1>1, <1>2
    <3>2. (b(i) \in buttons_state) \in BOOLEAN
      OBVIOUS
    <3> QED
      BY <3>1, <3>2, Zenon
  <2> QED
    BY <1>3, <2>1, Zenon
<1>5. out' \in Seq([button : Buttons, press : BOOLEAN]) /\ Len(out') = n
  BY <1>2, <1>4, FunctionIsSeq
<1>6. \A i \in 1 .. n : out'[i].button = b(i) /\ (out'[i].press <=> b(i) \in buttons_state)
  BY <1>3
<1>7. \A c \in Changed : c \in buttons_state <=> c \notin old_state
  BY DEF Changed
<1>8. ASSUME NEW i \in 1 .. n
      PROVE  out'[i].press <=> ~HostB!DownAfter(out', i - 1, out'[i].button)
  <2>1. \A j \in 1 .. i - 1 : j \in 1 .. n /\ out'[j].button # b(i)
    BY <1>2, <1>6
  <2>2. HostB!DownAfter(out', i - 1, b(i)) <=> b(i) \in old_state
    <3>1. \A j \in 1 .. i - 1 : out'[j] # [button |-> b(i), press |-> TRUE]
      BY <2>1
    <3> QED
      BY <2>1, <3>1 DEF HostB!DownAfter
  <2> QED
    BY <1>2, <1>6, <1>7, <2>2
<1>9. \A c \in Buttons : HostB!DownAfter(out', n, c) <=> c \in buttons_state
  <2> SUFFICES ASSUME NEW c \in Buttons
               PROVE  HostB!DownAfter(out', n, c) <=> c \in buttons_state
    OBVIOUS
  <2>1. CASE c \notin Changed
    <3>1. \A j \in 1 .. n : out'[j].button # c
      BY <1>2, <1>6, <2>1
    <3>2. \A j \in 1 .. n : out'[j] # [button |-> c, press |-> TRUE]
      BY <3>1
    <3>3. c \in old_state <=> c \in buttons_state
      BY <2>1 DEF Changed
    <3> QED
      BY <3>1, <3>2, <3>3 DEF HostB!DownAfter
  <2>2. CASE c \in Changed
    <3>1. PICK i \in 1 .. n : b(i) = c
      BY <1>2, <2>2
    <3>2. \A j \in 1 .. n : j # i => out'[j].button # c
      BY <1>2, <1>6, <3>1
    <3>3. out'[i] = [button |-> c, press |-> c \in buttons_state]
      BY <1>3, <3>1
    <3>4. \A j \in i + 1 .. n : out'[j].button # c
      BY <1>2, <3>2
    <3>5. CASE c \in buttons_state
      <4>1. out'[i] = [button |-> c, press |-> TRUE]
        BY <3>3, <3>5
      <4> QED
        BY <3>4, <3>5, <4>1 DEF HostB!DownAfter
    <3>6. CASE c \notin buttons_state
      <4>1. \A j \in 1 .. n : out'[j] # [button |-> c, press |-> TRUE]
        <5>1. ~out'[i].press
          BY <1>6, <3>1, <3>6
        <5>2. ASSUME out'[i] = [button |-> c, press |-> TRUE] PROVE FALSE
          BY <5>1, <5>2
        <5> QED
          BY <3>2, <5>2
      <4>2. out'[i].button = c
        BY <3>3
      <4> QED
        BY <3>6, <4>1, <4>2 DEF HostB!DownAfter
    <3> QED
      BY <3>5, <3>6
  <2> QED
    BY <2>1, <2>2
<1>10. old_state' = {c \in Buttons : HostB!DownAfter(out', n, c)}
  BY <1>9 DEF PhysButtons
<1> QED
  BY <1>5, <1>8, <1>10 DEF HostB!Post, HostB!Callback

----------------------------------------------------------------------------
(* The loop of touchpad_scroll_handle_2fg: the recursion of Winner is       *)
(* defined for every number of touches.                                     *)
LEMMA WinnerStep ==
    ASSUME NEW motion
    PROVE  \A n \in 0 .. ntouches :
              Winner(motion)[n] = IF n = 0 THEN 0
                                  ELSE Farther(motion, n - 1, Winner(motion)[n - 1])
<1> DEFINE Steps(k, f) == f = [n \in 0 .. k |-> IF n = 0 THEN 0
                                                ELSE Farther(motion, n - 1, f[n - 1])]
           T == {k \in Nat : \E f : Steps(k, f)}
<1>1. 0 \in T
  <2> DEFINE g == [n \in 0 .. 0 |-> 0]
  <2>1. Steps(0, g)
    OBVIOUS
  <2> QED
    BY <2>1
<1>2. ASSUME NEW k \in Nat, k \in T PROVE k + 1 \in T
  <2>1. PICK f : Steps(k, f)
    BY <1>2
  <2> DEFINE g == [n \in 0 .. k + 1 |-> IF n = k + 1 THEN Farther(motion, k, f[k]) ELSE f[n]]
             h == [n \in 0 .. k + 1 |-> IF n = 0 THEN 0 ELSE Farther(motion, n - 1, g[n - 1])]
  <2>2. \A n \in 0 .. k : f[n] = IF n = 0 THEN 0 ELSE Farther(motion, n - 1, f[n - 1])
    BY <2>1
  <2>3. \A n \in 0 .. k : g[n] = f[n]
    OBVIOUS
  <2>4. ASSUME NEW n \in 0 .. k + 1 PROVE g[n] = h[n]
    <3>1. CASE n = 0
      BY <2>2, <2>3, <3>1
    <3>2. CASE n # 0
      <4>1. n - 1 \in 0 .. k /\ h[n] = Farther(motion, n - 1, g[n - 1])
        BY <3>2
      <4>2. g[n - 1] = f[n - 1]
        BY <2>3, <4>1
      <4>3. CASE n = k + 1
        BY <4>1, <4>2, <4>3
      <4>4. CASE n # k + 1
        <5>1. n \in 0 .. k
          BY <4>4
        <5> QED
          BY <2>2, <2>3, <3>2, <4>1, <4>2, <5>1
      <4> QED
        BY <4>3, <4>4
    <3> QED
      BY <3>1, <3>2
  <2>5. g = h
    BY <2>4, Zenon
  <2>6. Steps(k + 1, g)
    BY <2>5
  <2> HIDE DEF Steps, g
  <2> QED
    BY <2>6
<1>3. Nat \subseteq T
  BY <1>1, <1>2, SetInduction
<1>4. \E f : Steps(ntouches, f)
  BY <1>3, LiveFinite
<1>5. Steps(ntouches, Winner(motion))
  BY <1>4, Zenon DEF Winner
<1> QED
  BY <1>5

(* What is posted as a scroll is how far one of the touches has moved.      *)
LEMMA DeltaIsMotion ==
    ASSUME NEW motion
    PROVE  Delta(motion) = 0 \/ \E t \in Moving : Delta(motion) = motion[t]
<1> DEFINE Ok(n) == Winner(motion)[n] = 0 \/ \E t \in Moving : Winner(motion)[n] = motion[t]
           T == {n \in Nat : n <= ntouches => Ok(n)}
<1>1. ntouches \in Nat
  BY LiveFinite
<1>2. 0 \in T
  BY <1>1, WinnerStep
<1>3. ASSUME NEW n \in Nat, n \in T PROVE n + 1 \in T
  <2> SUFFICES ASSUME n + 1 <= ntouches PROVE Ok(n + 1)
    OBVIOUS
  <2>1. Ok(n)
    BY <1>1, <1>3
  <2>2. Winner(motion)[n + 1] = Farther(motion, n, Winner(motion)[n])
    <3>1. n + 1 \in 0 .. ntouches /\ n + 1 # 0 /\ (n + 1) - 1 = n
      BY <1>1
    <3> QED
      BY <3>1, WinnerStep
  <2> QED
    BY <2>1, <2>2 DEF Farther
<1>4. ntouches \in T
  BY <1>1, <1>2, <1>3, SetInduction
<1> QED
  BY <1>1, <1>4 DEF Delta

----------------------------------------------------------------------------
(* The pointer, the buttons and the scroll only add to the touches.         *)
LEMMA StepsTouches == [GesturesNext]_gestureVars => [Next]_vars
<1> SUFFICES ASSUME [GesturesNext]_gestureVars PROVE [Next]_vars
  OBVIOUS
<1>1. CASE GesturesOther
  BY <1>1 DEF GesturesOther, Next
<1>2. CASE GesturesPosition
  BY <1>2 DEF GesturesPosition, Next
<1>3. CASE GesturesSyn
  BY <1>3 DEF GesturesSyn, Next
<1>4. CASE GesturesPostProcess
  BY <1>4 DEF GesturesPostProcess, Next
<1>5. CASE GesturesChangeFd
  BY <1>5 DEF GesturesChangeFd, Next
<1>6. CASE GesturesConfigSet
  BY <1>6 DEF GesturesConfigSet, ConfigSetMethods
<1>7. CASE UNCHANGED gestureVars
  BY <1>7 DEF gestureVars
<1> QED
  BY <1>1, <1>2, <1>3, <1>4, <1>5, <1>6, <1>7 DEF GesturesNext

(* Every behaviour of Gestures is one of Touches: what TouchesProofs shows   *)
(* of the counter and the queue holds with the handlers of this module, too. *)
THEOREM GesturesImplementsTouches == GesturesSpec => Spec
<1>1. GesturesInit => Init
  BY DEF GesturesInit
<1> QED
  BY <1>1, StepsTouches, PTL DEF GesturesSpec, Spec

----------------------------------------------------------------------------
(* The flags *)

AtMostOne(S) == \A a, b \in S : a = b

LEMMA FirstIsOne ==
    ASSUME NEW S \in SUBSET Touch
    PROVE  /\ First(S) \subseteq S
           /\ AtMostOne(First(S))
           /\ S # {} => First(S) # {}
           /\ AtMostOne(S) => First(S) = S
<1>1. S \subseteq Nat
  BY LiveFinite DEF Touch
<1>2. AtMostOne(First(S))
  <2> SUFFICES ASSUME NEW a \in First(S), NEW b \in First(S) PROVE a = b
    BY DEF AtMostOne
  <2>1. a \in Nat /\ b \in Nat /\ a <= b /\ b <= a
    BY <1>1 DEF First
  <2> QED
    BY <2>1
<1>3. S # {} => First(S) # {}
  BY FirstAndLast DEF First
<1>4. AtMostOne(S) => First(S) = S
  <2>1. ASSUME AtMostOne(S), NEW t \in S PROVE t \in First(S)
    BY <1>1, <2>1 DEF AtMostOne, First
  <2> QED
    BY <2>1 DEF First
<1> QED
  BY <1>2, <1>3, <1>4 DEF First

(* touchpad_select_pointer_touch selects one touch, and never an unused one. *)
LEMMA SelectsOne ==
    ASSUME pointer \in SUBSET Touch
    PROVE  /\ SelectPointer \in SUBSET Touch
           /\ pointer # {} => SelectPointer = pointer
           /\ AtMostOne(pointer) => AtMostOne(SelectPointer)
           /\ \A t \in SelectPointer : t \in pointer \/ state[t] # "NONE"
<1> DEFINE used == {t \in Touch : state[t] # "NONE"}
<1>1. First(used) \subseteq used /\ AtMostOne(First(used))
  BY FirstIsOne
<1>2. SelectPointer = IF pointer # {} THEN pointer ELSE First(used)
  BY DEF SelectPointer
<1>3. used \in SUBSET Touch /\ \A t \in used : state[t] # "NONE"
  OBVIOUS
<1> HIDE DEF used
<1> QED
  BY <1>1, <1>2, <1>3

(* touchpad_pin_finger, as four cases. *)
LEMMA FlagsCases ==
    ASSUME pointer \in SUBSET Touch, pinned \in SUBSET Touch
    PROVE  /\ Flags.pointer \in SUBSET Touch
           /\ Flags.pinned \in SUBSET Touch
           /\ "BUTTON_PRESS" \notin queued =>
                 Flags.pointer = SelectPointer /\ Flags.pinned = pinned
           /\ fingers_down = 1 => Flags.pointer \subseteq SelectPointer
           /\ fingers_down = 1 => Flags.pinned \subseteq pinned \cup SelectPointer
           /\ AtMostOne(pinned) => AtMostOne(Flags.pinned)
<1>1. SelectPointer \in SUBSET Touch
  BY SelectsOne
<1>2. First(SelectPointer) \subseteq SelectPointer /\ AtMostOne(First(SelectPointer))
  BY <1>1, FirstIsOne
<1>3. Lowest \subseteq Touch /\ AtMostOne(Lowest)
  BY FirstIsOne DEF Lowest
<1>4. NewPointer \subseteq Touch
  <2> DEFINE candidates == {t \in Touch : Down(t) /\ \E other \in 0 .. t - 1 : y[other] >= y[t]}
             last == CHOOSE t \in candidates : \A other \in candidates : other <= t
  <2>1. candidates \in SUBSET Touch
    OBVIOUS
  <2>2. candidates # {} => last \in Touch
    <3> HIDE DEF candidates
    <3> QED
      BY <2>1, FirstAndLast
  <2>3. 0 \in Touch
    BY LiveFinite DEF Touch
  <2> HIDE DEF last
  <2>4. NewPointer \subseteq {IF candidates = {} THEN 0 ELSE last}
    BY DEF NewPointer, last
  <2> QED
    BY <2>2, <2>3, <2>4
<1>5. CASE "BUTTON_PRESS" \notin queued
  BY <1>1, <1>5 DEF Flags
<1>6. CASE "BUTTON_PRESS" \in queued /\ pinned # {}
  BY <1>1, <1>6 DEF Flags, PinFinger
<1>7. CASE "BUTTON_PRESS" \in queued /\ pinned = {} /\ fingers_down = 1
  <2>1. /\ Flags.pinned = First(SelectPointer)
        /\ Flags.pointer = (SelectPointer \cup {}) \ First(SelectPointer)
    BY <1>7 DEF Flags, PinFinger
  <2> QED
    BY <1>1, <1>2, <1>7, <2>1
<1>8. CASE "BUTTON_PRESS" \in queued /\ pinned = {} /\ fingers_down # 1
  <2>1. /\ Flags.pinned = Lowest
        /\ Flags.pointer = (SelectPointer \cup NewPointer) \ Lowest
    BY <1>8 DEF Flags, PinFinger
  <2> QED
    BY <1>1, <1>3, <1>4, <1>8, <2>1
<1> QED
  BY <1>5, <1>6, <1>7, <1>8

----------------------------------------------------------------------------
(* What the frame's scroll handler does, and that it is done only with two  *)
(* fingers, or with a button down, or once its method has been switched off. *)
LEMMA SynScrolls ==
    ASSUME ScrollTypeOK, GesturesSyn
    PROVE  /\ \/ ScrollQuiet
              \/ /\ scroll_state = "NONE" /\ TwoFingers
                 /\ \E dir \in methods, d \in Units :
                       /\ Absolute(d) >= Unit
                       /\ PostScroll(dir, d)
                       /\ scroll_direction' = dir
                 /\ scroll_state' = "SCROLLING"
              \/ /\ scroll_state = "SCROLLING" /\ TwoFingers
                 /\ \E d \in Units \ {0} : PostScroll(scroll_direction, d)
                 /\ UNCHANGED <<scroll_state, scroll_direction>>
              \/ ScrollStop
           /\ buttons_state = {} /\ scroll_state' = "SCROLLING" =>
                 TwoFingers \/ (scroll_direction \notin methods /\ ScrollQuiet)
           /\ moved' # {} /\ scroll_state' = "SCROLLING" => buttons_state # {}
<1>1. PICK u \in [Directions -> [Watched -> Units]] : HandleMotion(u)
  BY DEF GesturesSyn
<1>2. \A dir \in Directions : Delta(u[dir]) = 0 \/ Delta(u[dir]) \in Units
  <2> SUFFICES ASSUME NEW dir \in Directions PROVE Delta(u[dir]) = 0 \/ Delta(u[dir]) \in Units
    OBVIOUS
  <2>1. \A t \in Moving : u[dir][t] \in Units
    BY <1>1 DEF Watched
  <2>2. Delta(u[dir]) = 0 \/ \E t \in Moving : Delta(u[dir]) = u[dir][t]
    BY DeltaIsMotion
  <2> QED
    BY <2>1, <2>2
<1>3. methods \subseteq Directions /\ scroll_direction \in Directions
  BY DEF ScrollTypeOK
<1>4. CASE ScrollReturns0(u)
  BY <1>4 DEF ScrollReturns0, ScrollIdle, ScrollQuiet
<1>5. CASE ScrollReturns1(u) /\ moved' = {}
  <2>1. ASSUME NEW dir \in Directions, ScrollStart(u, dir)
        PROVE  /\ scroll_state = "NONE" /\ TwoFingers /\ dir \in methods
               /\ Delta(u[dir]) \in Units /\ Absolute(Delta(u[dir])) >= Unit
               /\ PostScroll(dir, Delta(u[dir]))
               /\ scroll_direction' = dir /\ scroll_state' = "SCROLLING"
    <3>1. Absolute(Delta(u[dir])) >= Unit
      BY <2>1 DEF ScrollStart, Starts
    <3>2. Delta(u[dir]) # 0
      BY <3>1, UnitsAssumption DEF Absolute
    <3> QED
      BY <1>2, <2>1, <3>1, <3>2 DEF ScrollStart
  <2>2. ASSUME ScrollContinue(u)
        PROVE  /\ TwoFingers /\ scroll_state = "SCROLLING"
               /\ UNCHANGED <<scroll_state, scroll_direction>>
               /\ \/ ScrollQuiet
                  \/ \E d \in Units \ {0} : PostScroll(scroll_direction, d)
    BY <1>2, <1>3, <2>2 DEF ScrollContinue, ScrollQuiet
  <2>3. CASE \E dir \in Directions : ScrollStart(u, dir)
    BY <1>5, <2>1, <2>3
  <2>4. CASE ScrollContinue(u)
    BY <1>5, <2>2, <2>4
  <2>5. CASE ScrollStop
    BY <1>5, <2>5 DEF ScrollStop
  <2>6. CASE ScrollStuck
    BY <1>5, <2>6 DEF ScrollStuck
  <2> QED
    BY <1>5, <2>3, <2>4, <2>5, <2>6 DEF ScrollReturns1
<1> QED
  BY <1>1, <1>4, <1>5 DEF HandleMotion

(* The types of the pointer and of the scroll.                              *)
LEMMA GesturesTypeInit == GesturesInit => GesturesTypeOK
<1> SUFFICES ASSUME GesturesInit PROVE GesturesTypeOK
  OBVIOUS
<1>1. TypeOK
  BY InitInv DEF GesturesInit, IInv
<1>2. PointerTypeOK
  <2>1. y \in [Touch -> Heights]
    BY HeightsAssumption DEF GesturesInit, PointerInit
  <2>2. out \in Seq([button : Buttons, press : BOOLEAN])
    BY EmptySeq DEF GesturesInit, PointerInit
  <2> QED
    BY <2>1, <2>2 DEF GesturesInit, PointerInit, PointerTypeOK
<1>3. ScrollTypeOK
  BY MethodChoicesAssumption, MethodChangesAssumption
  DEF GesturesInit, ScrollInit, ScrollTypeOK, Directions
<1> QED
  BY <1>1, <1>2, <1>3 DEF GesturesTypeOK

(* A post of a scroll with an integer number of units has its type. *)
LEMMA PostScrollType ==
    ASSUME NEW dir \in Directions, NEW d \in Int, PostScroll(dir, d)
    PROVE  scrolled' \in SUBSET [direction : Directions, units : Int]
BY DEF PostScroll

LEMMA GesturesTypeStep ==
    ASSUME GesturesTypeOK, TypeOK', [GesturesNext]_gestureVars
    PROVE  GesturesTypeOK'
<1>0. TypeOK /\ PointerTypeOK /\ ScrollTypeOK
  BY DEF GesturesTypeOK
<1>a. ASSUME PointerIdle PROVE PointerTypeOK'
  BY <1>0, <1>a DEF PointerIdle, Quiet, flagVars, PointerTypeOK
<1>b. ASSUME ScrollKept PROVE ScrollTypeOK'
  BY <1>0, <1>b DEF ScrollKept, ScrollTypeOK
<1>1. CASE GesturesOther
  BY <1>1, <1>a, <1>b DEF GesturesOther, GesturesTypeOK
<1>2. CASE GesturesPosition
  <2>1. y' \in [Touch -> Heights]
    BY <1>0, <1>2 DEF GesturesPosition, PointerPosition, PointerTypeOK
  <2>2. PointerTypeOK'
    BY <1>0, <1>2, <2>1 DEF GesturesPosition, PointerPosition, Quiet, PointerTypeOK
  <2> QED
    BY <1>2, <1>b, <2>2 DEF GesturesPosition, GesturesTypeOK
<1>3. CASE GesturesSyn
  <2>1. PointerSyn
    BY <1>3 DEF GesturesSyn
  <2>2. pointer' \in SUBSET Touch /\ pinned' \in SUBSET Touch
    BY <1>0, <2>1, FlagsCases DEF PointerSyn, PointerTypeOK
  <2>3. out' \in Seq([button : Buttons, press : BOOLEAN])
    BY <1>0, <2>1, CallbacksFollow DEF PointerSyn, PointerTypeOK, TypeOK
  <2>4. moved' \in SUBSET Touch
    BY <1>3, <2>2, FirstIsOne DEF GesturesSyn, HandleMotion, PostMotion
  <2>5. old_state' \in SUBSET Buttons /\ y' \in [Touch -> Heights]
    BY <1>0, <2>1 DEF PointerSyn, PhysButtons, TypeOK, PointerTypeOK
  <2>6. odd_press' \in BOOLEAN
    BY <1>0, <2>1 DEF PointerSyn, PointerTypeOK
  <2>7. PointerTypeOK'
    BY <2>2, <2>3, <2>4, <2>5, <2>6 DEF PointerTypeOK
  <2>8. scrolled' \in SUBSET [direction : Directions, units : Int]
    <3>1. methods \subseteq Directions /\ scroll_direction \in Directions /\ Units \subseteq Int
      BY <1>0, UnitsAssumption DEF ScrollTypeOK
    <3>2. scrolled' = {} \/ \E dir \in Directions, d \in Int : PostScroll(dir, d)
      BY <1>0, <1>3, <3>1, SynScrolls DEF ScrollQuiet, ScrollStop
    <3> QED
      BY <3>2, PostScrollType
  <2>9. /\ scroll_state' \in {"NONE", "SCROLLING"} /\ scroll_direction' \in Directions
        /\ UNCHANGED <<methods, method_changes>>
    <3>1. UNCHANGED <<methods, method_changes>>
      BY <1>3 DEF GesturesSyn
    <3> QED
      BY <1>0, <1>3, <3>1, SynScrolls DEF ScrollQuiet, ScrollStop, ScrollTypeOK
  <2> QED
    BY <1>0, <2>7, <2>8, <2>9 DEF GesturesTypeOK, ScrollTypeOK
<1>4. CASE GesturesPostProcess
  <2> DEFINE down == {t \in Touch : state[t] # "END"}
             unpinned == IF "BUTTON_RELEASE" \in queued THEN First(pinned \cap down) ELSE {}
  <2>1. unpinned \subseteq Touch
    BY FirstIsOne
  <2>2. pinned' \subseteq pinned /\ pointer' \subseteq pointer \cup unpinned
    BY <1>4 DEF GesturesPostProcess, PointerPost, ReleaseFlags
  <2>3. PointerTypeOK'
    <3> HIDE DEF unpinned
    <3> QED
      BY <1>0, <1>4, <2>1, <2>2 DEF GesturesPostProcess, PointerPost, Quiet, PointerTypeOK
  <2> QED
    BY <1>4, <1>b, <2>3 DEF GesturesPostProcess, GesturesTypeOK
<1>5. CASE GesturesChangeFd
  <2>1. PointerTypeOK'
    BY <1>0, <1>5, HeightsAssumption DEF GesturesChangeFd, PointerReset, Quiet, PointerTypeOK
  <2>2. ScrollTypeOK'
    BY <1>0, <1>5 DEF GesturesChangeFd, ScrollReset, ScrollTypeOK
  <2> QED
    BY <2>1, <2>2 DEF GesturesTypeOK
<1>6. CASE GesturesConfigSet
  <2>1. ScrollTypeOK'
    BY <1>0, <1>6, MethodChoicesAssumption, MethodChangesAssumption
    DEF GesturesConfigSet, ConfigSetMethods, ScrollTypeOK, Directions
  <2> QED
    BY <1>6, <1>a, <2>1 DEF GesturesConfigSet, GesturesTypeOK
<1>7. CASE UNCHANGED gestureVars
  BY <1>0, <1>7
  DEF gestureVars, pointerVars, scrollVars, flagVars, GesturesTypeOK, PointerTypeOK, ScrollTypeOK
<1> QED
  BY <1>1, <1>2, <1>3, <1>4, <1>5, <1>6, <1>7 DEF GesturesNext

(* All the variables of the pointer, the buttons and the scroll keep their  *)
(* types.                                                                   *)
THEOREM GesturesTypeCorrect == GesturesSpec => []GesturesTypeOK
BY GesturesTypeInit, GesturesTypeStep, GesturesImplementsTouches, TypeCorrect, PTL
DEF GesturesSpec

----------------------------------------------------------------------------
(* Pinning.  A frame with a press and no release left behind has a button   *)
(* down, so that the pinned finger always has a release to come; and one    *)
(* release is enough, because one finger is pinned at a time.               *)
PinInv ==
    /\ AtMostOne(pinned)
    /\ buttons_state = {} /\ "BUTTON_RELEASE" \notin queued =>
          pinned = {} /\ "BUTTON_PRESS" \notin queued

LEMMA PinStep ==
    ASSUME GesturesTypeOK, PinInv, [GesturesNext]_gestureVars
    PROVE  PinInv'
<1>0. TypeOK /\ pinned \in SUBSET Touch /\ pointer \in SUBSET Touch
  BY DEF GesturesTypeOK, PointerTypeOK
<1>1. CASE GesturesOther
  <2>1. pinned' = pinned
    BY <1>1 DEF GesturesOther, PointerIdle, flagVars
  <2>2. CASE \E s \in Slots : AbsMtSlot(s)
    BY <2>1, <2>2 DEF PinInv, AbsMtSlot, touchVars
  <2>3. CASE AbsMtTrackingIdBegin \/ AbsMtTrackingIdEnd
    <3>1. buttons_state' = buttons_state /\ queued' \in {queued, queued \cup {"MOTION"}}
      BY <2>3 DEF AbsMtTrackingIdBegin, AbsMtTrackingIdEnd, BeginTouch, EndTouch, touchVars
    <3> QED
      BY <2>1, <3>1 DEF PinInv
  <2>4. CASE \E b \in Buttons : ButtonPress(b) \/ ButtonRelease(b)
    BY <2>1, <2>4 DEF PinInv, ButtonPress, ButtonRelease
  <2>5. CASE SynIgnored \/ HandleEvents \/ Again
    BY <2>1, <2>5 DEF PinInv, SynIgnored, HandleEvents, Again, touchVars
  <2> QED
    BY <1>1, <2>2, <2>3, <2>4, <2>5 DEF GesturesOther
<1>2. CASE GesturesPosition
  <2>1. pinned' = pinned /\ buttons_state' = buttons_state
    BY <1>2 DEF GesturesPosition, PointerPosition, AbsMtPosition
  <2>2. queued' \in {queued, queued \cup {"MOTION"}}
    BY <1>2 DEF GesturesPosition, AbsMtPosition
  <2> QED
    BY <2>1, <2>2 DEF PinInv
<1>3. CASE GesturesSyn
  <2>1. UNCHANGED <<buttons_state, queued>> /\ pinned' = Flags.pinned
    BY <1>3 DEF GesturesSyn, SynReport, PointerSyn, touchVars
  <2> QED
    BY <1>0, <2>1, FlagsCases DEF PinInv
<1>4. CASE GesturesPostProcess
  <2> DEFINE kept == pinned \cap {t \in Touch : state[t] # "END"}
  <2>1. buttons_state' = buttons_state /\ queued' = {}
    BY <1>4 DEF GesturesPostProcess, PostProcess
  <2>2. pinned' = kept \ (IF "BUTTON_RELEASE" \in queued THEN First(kept) ELSE {})
    BY <1>4 DEF GesturesPostProcess, PointerPost, ReleaseFlags
  <2>3. kept \in SUBSET Touch /\ kept \subseteq pinned
    OBVIOUS
  <2>4. AtMostOne(kept) /\ First(kept) = kept
    BY <2>3, FirstIsOne DEF PinInv, AtMostOne
  <2> HIDE DEF kept
  <2> QED
    BY <2>1, <2>2, <2>3, <2>4 DEF PinInv, AtMostOne
<1>5. CASE GesturesChangeFd
  BY <1>5 DEF GesturesChangeFd, ChangeFd, PointerReset, PinInv
<1>6. CASE GesturesConfigSet
  BY <1>6
  DEF GesturesConfigSet, ConfigSetMethods, PointerIdle, flagVars, vars, touchVars, PinInv
<1>7. CASE UNCHANGED gestureVars
  BY <1>7 DEF gestureVars, pointerVars, flagVars, vars, touchVars, PinInv
<1> QED
  BY <1>1, <1>2, <1>3, <1>4, <1>5, <1>6, <1>7 DEF GesturesNext

(* No finger stays pinned once no button is down, for any number of touches *)
(* and buttons, in whatever order fingers and buttons change.               *)
THEOREM NeverPinnedWithoutButton == GesturesSpec => []NoPinWithoutButton
<1>1. GesturesInit => PinInv
  BY DEF GesturesInit, Init, PointerInit, PinInv, AtMostOne
<1>2. PinInv => NoPinWithoutButton
  BY DEF PinInv, NoPinWithoutButton
<1> QED
  BY <1>1, <1>2, PinStep, GesturesTypeCorrect, PTL DEF GesturesSpec

----------------------------------------------------------------------------
(* The pointer.  The flags are only on touches in use, one touch at a time. *)
FlagInv ==
    ~odd_press /\ fd_changes = 0 =>
        /\ AtMostOne(pointer)
        /\ \A t \in pointer \cup pinned : state[t] # "NONE"

(* Only the end of a frame makes a touch unused, until the fd changes.      *)
LEMMA OnlyPostProcessForgets ==
    ASSUME TypeOK, [Next]_vars, ~PostProcess, fd_changes' = fd_changes
    PROVE  \A t \in Touch : state[t] # "NONE" => state'[t] # "NONE"
<1>1. CASE AbsMtTrackingIdBegin
  BY <1>1 DEF AbsMtTrackingIdBegin, BeginTouch, TypeOK, touchVars
<1>2. CASE AbsMtTrackingIdEnd
  BY <1>2 DEF AbsMtTrackingIdEnd, EndTouch, TypeOK, touchVars
<1>3. CASE ChangeFd
  BY <1>3 DEF ChangeFd, TypeOK
<1>4. CASE UNCHANGED state
  BY <1>4
<1>5. CASE \/ \E s \in Slots : AbsMtSlot(s)
           \/ AbsMtPosition
           \/ \E b \in Buttons : ButtonPress(b) \/ ButtonRelease(b)
           \/ SynIgnored \/ SynReport \/ HandleEvents \/ Again
           \/ UNCHANGED vars
  <2>1. UNCHANGED state
    BY <1>5 DEF AbsMtSlot, AbsMtPosition, ButtonPress, ButtonRelease, SynIgnored, SynReport,
                HandleEvents, Again, vars, touchVars
  <2> QED
    BY <2>1
<1> QED
  BY <1>1, <1>2, <1>3, <1>4, <1>5 DEF Next

(* With one live touch, two touches that are used and have not ended are    *)
(* the same.                                                                *)
LEMMA OneFingerIsOneTouch ==
    ASSUME TypeOK, CountCovers, fd_changes = 0, fingers_down = 1
    PROVE  AtMostOne({t \in Touch : state[t] \notin {"NONE", "END"}})
<1>1. {t \in Touch : state[t] \notin {"NONE", "END"}} = Live
  BY DEF Live, TypeOK, TouchStates
<1>2. Cardinality(Live) = 1 /\ IsFiniteSet(Live)
  BY LiveFinite DEF CountCovers
<1>3. PICK t : Live = {t}
  BY <1>2, FS_Singleton
<1> QED
  BY <1>1, <1>3 DEF AtMostOne

LEMMA FlagStep ==
    ASSUME GesturesTypeOK, CountCovers, FlagInv, PinInv, [GesturesNext]_gestureVars
    PROVE  FlagInv'
<1>0. /\ TypeOK /\ pinned \in SUBSET Touch /\ pointer \in SUBSET Touch
      /\ odd_press \in BOOLEAN /\ AtMostOne(pinned)
  BY DEF GesturesTypeOK, PointerTypeOK, PinInv
<1>1. ASSUME UNCHANGED <<pointer, pinned, odd_press, fd_changes>>, ~PostProcess
      PROVE  FlagInv'
  <2>1. \A t \in Touch : state[t] # "NONE" => state'[t] # "NONE"
    BY <1>0, <1>1, StepsTouches, OnlyPostProcessForgets
  <2> QED
    BY <1>0, <1>1, <2>1 DEF FlagInv
<1>2. CASE GesturesOther
  <2>1. UNCHANGED <<pointer, pinned, odd_press>>
    BY <1>2 DEF GesturesOther, PointerIdle, flagVars
  <2>2. UNCHANGED fd_changes /\ ~PostProcess
    BY <1>2 DEF GesturesOther, AbsMtSlot, AbsMtTrackingIdBegin, AbsMtTrackingIdEnd, ButtonPress,
                ButtonRelease, SynIgnored, HandleEvents, Again, PostProcess
  <2> QED
    BY <1>1, <2>1, <2>2
<1>3. CASE GesturesPosition
  <2>1. UNCHANGED <<pointer, pinned, odd_press, fd_changes>> /\ ~PostProcess
    BY <1>3 DEF GesturesPosition, PointerPosition, AbsMtPosition, PostProcess
  <2> QED
    BY <1>1, <2>1
<1>4. CASE GesturesSyn
  <2>1. /\ pointer' = Flags.pointer /\ pinned' = Flags.pinned
        /\ UNCHANGED <<state, fd_changes>>
        /\ odd_press' = (odd_press \/ ("BUTTON_PRESS" \in queued /\ fingers_down # 1))
    BY <1>4 DEF GesturesSyn, SynReport, PointerSyn, touchVars
  <2> SUFFICES ASSUME ~odd_press', fd_changes' = 0
               PROVE  /\ AtMostOne(pointer')
                      /\ \A t \in pointer' \cup pinned' : state'[t] # "NONE"
    BY DEF FlagInv
  <2>2. /\ AtMostOne(pointer)
        /\ \A t \in pointer \cup pinned : state[t] # "NONE"
    BY <2>1 DEF FlagInv
  <2>3. pointer' \subseteq SelectPointer /\ pinned' \subseteq pinned \cup SelectPointer
    BY <1>0, <2>1, FlagsCases
  <2>4. AtMostOne(SelectPointer) /\ \A t \in SelectPointer : state[t] # "NONE"
    BY <1>0, <2>2, SelectsOne
  <2> QED
    BY <2>1, <2>2, <2>3, <2>4 DEF AtMostOne
<1>5. CASE GesturesPostProcess
  <2> DEFINE down == {t \in Touch : state[t] # "END"}
             unpinned == IF "BUTTON_RELEASE" \in queued THEN First(pinned \cap down) ELSE {}
  <2>1. /\ PostProcess /\ odd_press' = odd_press /\ fd_changes' = fd_changes
        /\ pinned' = (pinned \cap down) \ unpinned
        /\ pointer' = IF fingers_down = 1 THEN (pointer \cap down) \cup unpinned
                                          ELSE pointer \cap down
    BY <1>5 DEF GesturesPostProcess, PointerPost, ReleaseFlags, PostProcess
  <2>2. unpinned \subseteq pinned \cap down
    BY FirstIsOne
  <2>3. \A t \in down : state[t] # "NONE" => state'[t] # "NONE"
    BY <1>0, <2>1 DEF PostProcess, TypeOK
  <2> SUFFICES ASSUME ~odd_press', fd_changes' = 0
               PROVE  /\ AtMostOne(pointer')
                      /\ \A t \in pointer' \cup pinned' : state'[t] # "NONE"
    BY DEF FlagInv
  <2>4. /\ AtMostOne(pointer)
        /\ \A t \in pointer \cup pinned : state[t] # "NONE"
    BY <2>1 DEF FlagInv
  <2>5. AtMostOne(pointer')
    <3>1. CASE fingers_down # 1
      BY <2>1, <2>4, <3>1 DEF AtMostOne
    <3>2. CASE fingers_down = 1
      <4>1. AtMostOne({t \in Touch : state[t] \notin {"NONE", "END"}})
        BY <1>0, <2>1, <3>2, OneFingerIsOneTouch
      <4>2. \A t \in pointer' : t \in Touch /\ state[t] \notin {"NONE", "END"}
        BY <1>0, <2>1, <2>2, <2>4, <3>2
      <4> QED
        BY <4>1, <4>2 DEF AtMostOne
    <3> QED
      BY <3>1, <3>2
  <2>6. pointer' \cup pinned' \subseteq (pointer \cup pinned) \cap down
    BY <2>1, <2>2
  <2> QED
    BY <2>3, <2>4, <2>5, <2>6
<1>6. CASE GesturesChangeFd
  BY <1>0, <1>6 DEF GesturesChangeFd, ChangeFd, FlagInv, TypeOK
<1>7. CASE GesturesConfigSet \/ UNCHANGED gestureVars
  <2>1. UNCHANGED <<pointer, pinned, odd_press, fd_changes, state>>
    BY <1>7 DEF GesturesConfigSet, ConfigSetMethods, PointerIdle, gestureVars, pointerVars,
                flagVars, vars, touchVars
  <2> QED
    BY <2>1 DEF FlagInv
<1> QED
  BY <1>2, <1>3, <1>4, <1>5, <1>6, <1>7 DEF GesturesNext

(* Two touches can never be flagged to move the pointer at once, and none   *)
(* that has gone, for any number of touches, as long as buttons are only    *)
(* pressed with one finger on the touchpad.                                 *)
THEOREM PointerAlwaysOneFinger == GesturesSpec => []PointerIsOneFinger
<1>1. GesturesInit => FlagInv /\ PinInv
  BY DEF GesturesInit, Init, PointerInit, FlagInv, PinInv, AtMostOne
<1>2. IInv => CountCovers
  BY DEF IInv
<1>3. GesturesTypeOK /\ FlagInv => PointerIsOneFinger
  <2> SUFFICES ASSUME GesturesTypeOK, FlagInv, ~odd_press, fd_changes = 0
               PROVE  /\ Cardinality(pointer) <= 1
                      /\ \A t \in pointer : state[t] # "NONE"
    BY DEF PointerIsOneFinger
  <2>1. AtMostOne(pointer) /\ \A t \in pointer : state[t] # "NONE"
    BY DEF FlagInv
  <2>2. pointer = {} \/ \E t : pointer = {t}
    BY <2>1 DEF AtMostOne
  <2>3. CASE pointer = {}
    BY <2>1, <2>3, FS_EmptySet
  <2>4. CASE \E t : pointer = {t}
    BY <2>1, <2>4, FS_Singleton
  <2> QED
    BY <2>2, <2>3, <2>4
<1> QED
  BY <1>1, <1>2, <1>3, PinStep, FlagStep, GesturesTypeCorrect, GesturesImplementsTouches,
     Inductive, PTL
  DEF GesturesSpec

(* No finger that comes, goes or moves takes the pointer from the one that  *)
(* has it, in any step of any frame without a button event.                 *)
THEOREM PointerAlwaysStable == GesturesSpec => PointerStable
<1> DEFINE Stable(t) == /\ queued \cap {"BUTTON_PRESS", "BUTTON_RELEASE"} = {}
                        /\ Down(t) /\ Down(t)'
                        => First(pointer') = {t}
<1>1. ASSUME GesturesTypeOK, [GesturesNext]_gestureVars, NEW t \in First(pointer)
      PROVE  Stable(t)
  <2> SUFFICES ASSUME queued \cap {"BUTTON_PRESS", "BUTTON_RELEASE"} = {}, Down(t)
               PROVE  First(pointer') = {t}
    OBVIOUS
  <2>0. pointer \in SUBSET Touch /\ pinned \in SUBSET Touch
    BY <1>1 DEF GesturesTypeOK, PointerTypeOK
  <2>1. First(pointer) = {t}
    BY <2>0, <1>1, FirstIsOne DEF AtMostOne
  <2>2. CASE pointer' = pointer
    BY <2>1, <2>2
  <2>3. CASE GesturesSyn
    <3>1. pointer' = Flags.pointer
      BY <2>3 DEF GesturesSyn, PointerSyn
    <3>2. pointer # {}
      BY <2>1 DEF First
    <3> QED
      BY <2>0, <2>2, <3>1, <3>2, FlagsCases, SelectsOne
  <2>4. CASE GesturesPostProcess
    <3>1. pointer' = pointer \cap {u \in Touch : state[u] # "END"}
      BY <2>4 DEF GesturesPostProcess, PointerPost, ReleaseFlags
    <3>2. t \in pointer' /\ pointer' \in SUBSET Touch
      BY <1>1, <2>0, <3>1 DEF First, Down
    <3>3. t \in First(pointer')
      BY <1>1, <3>1, <3>2 DEF First
    <3> QED
      BY <3>2, <3>3, FirstIsOne DEF AtMostOne
  <2>5. CASE \/ GesturesOther \/ GesturesPosition \/ GesturesChangeFd \/ GesturesConfigSet
             \/ UNCHANGED gestureVars
    <3>1. pointer' = pointer
      BY <2>5 DEF GesturesOther, GesturesPosition, GesturesChangeFd, GesturesConfigSet,
                  PointerIdle, PointerPosition, PointerReset, flagVars, gestureVars, pointerVars
    <3> QED
      BY <2>2, <3>1
  <2> QED
    BY <2>3, <2>4, <2>5, <1>1 DEF GesturesNext
<1>2. GesturesTypeOK /\ [GesturesNext]_gestureVars
      => [\A t \in First(pointer) : Stable(t)]_gestureVars
  BY <1>1
<1> QED
  BY <1>2, GesturesTypeCorrect, PTL DEF GesturesSpec, PointerStable

(* Every button callback alternates with the one before it for that button, *)
(* and the host has seen the state of the device after every frame, for any *)
(* finite set of buttons.                                                   *)
THEOREM GesturesImplementButtons == GesturesSpec => ButtonsFollow
<1>1. GesturesInit => HostB!Init
  BY DEF GesturesInit, PointerInit, HostB!Init
<1>2. GesturesTypeOK /\ [GesturesNext]_gestureVars => [HostB!Next]_HostB!vars
  <2> SUFFICES ASSUME GesturesTypeOK, [GesturesNext]_gestureVars
               PROVE  [HostB!Next]_HostB!vars
    OBVIOUS
  <2>1. CASE GesturesSyn
    <3>1. PhysButtons /\ buttons_state \in SUBSET Buttons /\ old_state \in SUBSET Buttons
      BY <2>1 DEF GesturesSyn, PointerSyn, GesturesTypeOK, TypeOK, PointerTypeOK
    <3> QED
      BY <3>1, CallbacksFollow DEF HostB!Next
  <2>2. CASE \/ GesturesOther \/ GesturesPosition \/ GesturesPostProcess
             \/ GesturesChangeFd \/ GesturesConfigSet
    <3>1. out' = <<>> /\ old_state' = old_state
      BY <2>2 DEF GesturesOther, GesturesPosition, GesturesPostProcess, GesturesChangeFd,
                  GesturesConfigSet, PointerIdle, PointerPosition, PointerPost, PointerReset, Quiet
    <3> QED
      BY <3>1 DEF HostB!Next, HostB!Quiet
  <2>3. CASE UNCHANGED gestureVars
    BY <2>3 DEF gestureVars, pointerVars, HostB!vars
  <2> QED
    BY <2>1, <2>2, <2>3 DEF GesturesNext
<1> QED
  BY <1>1, <1>2, GesturesTypeCorrect, PTL DEF GesturesSpec, ButtonsFollow, HostB!Spec

----------------------------------------------------------------------------
(* Scrolling *)

(* Every frame's scroll callback is one HostScroll allows: a scroll starts  *)
(* with a unit of a touch's motion, keeps its direction and is terminated   *)
(* before the next, for any motions of any number of touches.               *)
THEOREM GesturesImplementScroll == GesturesSpec => ScrollProtocol
<1>1. GesturesInit => Host!Init
  BY DEF GesturesInit, Init, ScrollInit, Host!Init
<1>2. GesturesTypeOK /\ [GesturesNext]_gestureVars => [Host!Next]_Host!vars
  <2> SUFFICES ASSUME GesturesTypeOK, [GesturesNext]_gestureVars
               PROVE  [Host!Next]_Host!vars
    OBVIOUS
  <2>0. /\ ScrollTypeOK /\ methods \subseteq Directions
        /\ scroll_direction \in Directions /\ scroll_direction # "NONE"
    BY DEF GesturesTypeOK, ScrollTypeOK, Directions
  <2>1. CASE GesturesSyn
    <3>0. fd_changes' = fd_changes
      BY <2>1 DEF GesturesSyn, SynReport
    <3>1. CASE ScrollQuiet
      BY <3>0, <3>1 DEF ScrollQuiet, Host!Next, Host!Quiet
    <3>2. CASE /\ scroll_state = "NONE" /\ scroll_state' = "SCROLLING"
               /\ \E dir \in methods, d \in Units :
                     /\ Absolute(d) >= Unit
                     /\ PostScroll(dir, d)
                     /\ scroll_direction' = dir
      <4>1. PICK dir \in methods, d \in Units : /\ Absolute(d) >= Unit
                                              /\ PostScroll(dir, d)
                                              /\ scroll_direction' = dir
        BY <3>2
      <4>2. d >= Unit \/ -d >= Unit
        BY <4>1 DEF Absolute
      <4>3. Host!Start
        BY <2>0, <3>0, <3>2, <4>1, <4>2 DEF Host!Start, Host!Call, PostScroll
      <4> QED
        BY <4>3 DEF Host!Next
    <3>3. CASE /\ scroll_state = "SCROLLING"
               /\ \E d \in Units \ {0} : PostScroll(scroll_direction, d)
               /\ UNCHANGED <<scroll_state, scroll_direction>>
      BY <2>0, <3>0, <3>3 DEF Host!Next, Host!Continue, Host!Call, PostScroll
    <3>4. CASE ScrollStop
      BY <2>0, <3>0, <3>4 DEF ScrollStop, Host!Next, Host!Terminate, Host!Call, PostScroll
    <3> QED
      BY <2>0, <2>1, <3>1, <3>2, <3>3, <3>4, SynScrolls
  <2>2. CASE GesturesChangeFd
    BY <2>2 DEF GesturesChangeFd, ChangeFd, ScrollReset, Host!Next, Host!ChangeFd
  <2>3. CASE GesturesOther \/ GesturesPosition \/ GesturesPostProcess \/ GesturesConfigSet
    <3>1. scrolled' = {} /\ UNCHANGED <<scroll_state, scroll_direction>>
      BY <2>3 DEF GesturesOther, GesturesPosition, GesturesPostProcess, GesturesConfigSet,
                  ScrollKept, ConfigSetMethods
    <3>2. fd_changes' = fd_changes
      BY <2>3 DEF GesturesOther, GesturesPosition, GesturesPostProcess, GesturesConfigSet,
                  ConfigSetMethods, AbsMtSlot, AbsMtTrackingIdBegin, AbsMtTrackingIdEnd,
                  AbsMtPosition, PostProcess, ButtonPress, ButtonRelease, SynIgnored,
                  HandleEvents, Again, vars
    <3> QED
      BY <3>1, <3>2 DEF Host!Next, Host!Quiet
  <2>4. CASE UNCHANGED gestureVars
    BY <2>4 DEF gestureVars, scrollVars, vars, Host!vars
  <2> QED
    BY <2>1, <2>2, <2>3, <2>4 DEF GesturesNext
<1> QED
  BY <1>1, <1>2, GesturesTypeCorrect, PTL DEF GesturesSpec, ScrollProtocol, Host!Spec

(* The pointer is never moved by the fingers of a scroll, only by those of  *)
(* one that a button suspends.                                              *)
THEOREM NeverMotionDuringScroll == GesturesSpec => []NoMotionDuringScroll
<1>1. GesturesInit => NoMotionDuringScroll
  BY DEF GesturesInit, PointerInit, NoMotionDuringScroll
<1>2. ASSUME GesturesTypeOK, NoMotionDuringScroll, [GesturesNext]_gestureVars
      PROVE  NoMotionDuringScroll'
  <2>1. CASE GesturesSyn
    <3>1. buttons_state' = buttons_state /\ ScrollTypeOK
      BY <1>2, <2>1 DEF GesturesSyn, SynReport, GesturesTypeOK
    <3> QED
      BY <2>1, <3>1, SynScrolls DEF NoMotionDuringScroll
  <2>2. CASE \/ GesturesOther \/ GesturesPosition \/ GesturesPostProcess
             \/ GesturesChangeFd \/ GesturesConfigSet
    <3>1. moved' = {}
      BY <2>2 DEF GesturesOther, GesturesPosition, GesturesPostProcess, GesturesChangeFd,
                  GesturesConfigSet, PointerIdle, PointerPosition, PointerPost, PointerReset, Quiet
    <3> QED
      BY <3>1 DEF NoMotionDuringScroll
  <2>3. CASE UNCHANGED gestureVars
    BY <1>2, <2>3 DEF gestureVars, pointerVars, scrollVars, vars, NoMotionDuringScroll
  <2> QED
    BY <1>2, <2>1, <2>2, <2>3 DEF GesturesNext
<1> QED
  BY <1>1, <1>2, GesturesTypeCorrect, PTL DEF GesturesSpec

(* A scroll has its method, until the caller changes the methods, and two   *)
(* fingers whenever its frame has been handled.                             *)
ScrollInv ==
    scroll_state = "SCROLLING" /\ method_changes = 0 =>
        /\ scroll_direction \in methods
        /\ fd_changes = 0 /\ buttons_state = {} /\ (queued = {} \/ pc = "post_events") =>
              TwoFingers

LEMMA ScrollInvStep ==
    ASSUME GesturesTypeOK, ScrollInv, [GesturesNext]_gestureVars
    PROVE  ScrollInv'
<1>0. TypeOK /\ ScrollTypeOK /\ method_changes \in Nat /\ fd_changes \in Nat
  BY DEF GesturesTypeOK, TypeOK, ScrollTypeOK
<1>1. CASE GesturesOther
  <2>1. UNCHANGED <<scroll_state, scroll_direction, methods, method_changes>>
    BY <1>1 DEF GesturesOther, ScrollKept
  <2>2. CASE AbsMtTrackingIdBegin \/ AbsMtTrackingIdEnd
    <3>1. /\ pc' = "read" /\ UNCHANGED <<buttons_state, fd_changes>>
          /\ UNCHANGED <<fingers_down, queued>> \/ "MOTION" \in queued'
      BY <2>2
      DEF AbsMtTrackingIdBegin, AbsMtTrackingIdEnd, BeginTouch, EndTouch, touchVars
    <3>2. queued' = {} => queued = {} /\ UNCHANGED fingers_down
      BY <3>1
    <3> QED
      BY <2>1, <3>1, <3>2 DEF ScrollInv, TwoFingers
  <2>3. CASE \E b \in Buttons : ButtonPress(b) \/ ButtonRelease(b)
    <3>1. queued' # {} /\ pc' # "post_events"
      BY <2>3 DEF ButtonPress, ButtonRelease
    <3> QED
      BY <2>1, <3>1 DEF ScrollInv
  <2>4. CASE (\E s \in Slots : AbsMtSlot(s)) \/ SynIgnored \/ HandleEvents \/ Again
    <3>1. /\ UNCHANGED <<queued, fingers_down, buttons_state, fd_changes>>
          /\ pc' # "post_events"
      BY <2>4 DEF AbsMtSlot, SynIgnored, HandleEvents, Again, touchVars
    <3> QED
      BY <2>1, <3>1 DEF ScrollInv, TwoFingers
  <2> QED
    BY <1>1, <2>2, <2>3, <2>4 DEF GesturesOther
<1>2. CASE GesturesPosition
  <2>1. UNCHANGED <<scroll_state, scroll_direction, methods, method_changes>>
    BY <1>2 DEF GesturesPosition, ScrollKept
  <2>2. /\ UNCHANGED <<fingers_down, buttons_state, fd_changes>>
        /\ pc' # "post_events" /\ (queued' = {} => queued = {})
    BY <1>2 DEF GesturesPosition, AbsMtPosition
  <2> QED
    BY <2>1, <2>2 DEF ScrollInv, TwoFingers
<1>3. CASE GesturesSyn
  <2>1. UNCHANGED <<methods, method_changes, fd_changes, buttons_state, fingers_down>>
    BY <1>3 DEF GesturesSyn, SynReport, touchVars
  <2> SUFFICES ASSUME scroll_state' = "SCROLLING", method_changes' = 0
               PROVE  /\ scroll_direction' \in methods'
                      /\ fd_changes' = 0 /\ buttons_state' = {} => TwoFingers'
    BY DEF ScrollInv
  <2>2. scroll_direction' \in methods
    BY <1>0, <1>3, <2>1, SynScrolls DEF ScrollInv, ScrollQuiet, ScrollStop
  <2>3. buttons_state = {} => TwoFingers
    BY <1>0, <1>3, <2>2, SynScrolls DEF ScrollQuiet
  <2> QED
    BY <2>1, <2>2, <2>3 DEF TwoFingers
<1>4. CASE GesturesPostProcess
  <2>1. UNCHANGED <<scroll_state, scroll_direction, methods, method_changes>>
    BY <1>4 DEF GesturesPostProcess, ScrollKept
  <2>2. UNCHANGED <<fingers_down, buttons_state, fd_changes>> /\ pc = "post_events"
    BY <1>4 DEF GesturesPostProcess, PostProcess
  <2> QED
    BY <2>1, <2>2 DEF ScrollInv, TwoFingers
<1>5. CASE GesturesChangeFd
  BY <1>5 DEF GesturesChangeFd, ScrollReset, ScrollInv
<1>6. CASE GesturesConfigSet
  BY <1>0, <1>6 DEF GesturesConfigSet, ConfigSetMethods, ScrollInv
<1>7. CASE UNCHANGED gestureVars
  BY <1>7 DEF gestureVars, scrollVars, vars, touchVars, ScrollInv, TwoFingers
<1> QED
  BY <1>1, <1>2, <1>3, <1>4, <1>5, <1>6, <1>7 DEF GesturesNext

(* A frame that closes with a scroll in progress and no button down has two *)
(* fingers on the touchpad.                                                 *)
THEOREM ScrollAlwaysTwoFingers == GesturesSpec => []ScrollHasTwoFingers
<1>1. GesturesInit => ScrollInv
  BY DEF GesturesInit, ScrollInit, ScrollInv
<1>2. ScrollInv => ScrollHasTwoFingers
  BY DEF ScrollInv, ScrollHasTwoFingers, TwoFingers
<1> QED
  BY <1>1, <1>2, ScrollInvStep, GesturesTypeCorrect, PTL DEF GesturesSpec
=============================================================================

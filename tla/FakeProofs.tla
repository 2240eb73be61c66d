----------------------------- MODULE FakeProofs -----------------------------
(***************************************************************************)
(* Proofs about the touches the library invents, for every number of slots *)
(* and every set of tools: fingers_down counts the touches, the touches of *)
(* the slots follow the slots, and no touch is left without a finger.      *)
(***************************************************************************)
EXTENDS FakeTouches, InductionLemmas

----------------------------------------------------------------------------
(* Sequences of events *)

Elems(s) == {s[i] : i \in 1 .. Len(s)}
Distinct(s) == \A i, j \in 1 .. Len(s) : s[i] = s[j] => i = j

(* Reading the first of a sequence of different events. *)
LEMMA TailElems ==
    ASSUME NEW E, NEW s \in Seq(E), s # <<>>, Distinct(s)
    PROVE  /\ Tail(s) \in Seq(E) /\ Head(s) \in Elems(s) /\ Distinct(Tail(s))
           /\ Elems(Tail(s)) = Elems(s) \ {Head(s)}
<1>1. /\ Tail(s) \in Seq(E) /\ Len(s) \in Nat \ {0} /\ Len(Tail(s)) = Len(s) - 1
      /\ Head(s) = s[1] /\ \A i \in 1 .. Len(s) - 1 : Tail(s)[i] = s[i + 1]
  OBVIOUS
<1>2. Head(s) \in Elems(s)
  BY <1>1 DEF Elems
<1>3. Distinct(Tail(s))
  <2> SUFFICES ASSUME NEW i \in 1 .. Len(s) - 1, NEW j \in 1 .. Len(s) - 1,
                      Tail(s)[i] = Tail(s)[j]
               PROVE  i = j
    BY <1>1 DEF Distinct
  <2>1. s[i + 1] = s[j + 1] /\ i + 1 \in 1 .. Len(s) /\ j + 1 \in 1 .. Len(s)
    BY <1>1
  <2>2. i + 1 = j + 1
    BY <2>1 DEF Distinct
  <2> QED
    BY <1>1, <2>2
<1>4. ASSUME NEW e \in Elems(Tail(s)) PROVE e \in Elems(s) \ {Head(s)}
  <2>1. PICK i \in 1 .. Len(s) - 1 : e = s[i + 1]
    BY <1>1 DEF Elems
  <2>2. i + 1 \in 1 .. Len(s) /\ 1 \in 1 .. Len(s) /\ i + 1 # 1
    BY <1>1
  <2>3. e # s[1]
    BY <2>1, <2>2 DEF Distinct
  <2> QED
    BY <1>1, <2>1, <2>2, <2>3 DEF Elems
<1>5. ASSUME NEW e \in Elems(s), e # Head(s) PROVE e \in Elems(Tail(s))
  <2>1. PICK i \in 1 .. Len(s) : e = s[i]
    BY DEF Elems
  <2>2. i - 1 \in 1 .. Len(s) - 1 /\ (i - 1) + 1 = i
    BY <1>1, <1>5, <2>1
  <2>3. e = Tail(s)[i - 1]
    BY <1>1, <2>1, <2>2
  <2> QED
    BY <1>1, <2>2, <2>3 DEF Elems
<1> QED
  BY <1>1, <1>2, <1>3, <1>4, <1>5

(* One sequence after the other. *)
LEMMA ConcatElems ==
    ASSUME NEW E, NEW s \in Seq(E), NEW t \in Seq(E)
    PROVE  /\ s \o t \in Seq(E)
           /\ Elems(s \o t) = Elems(s) \cup Elems(t)
           /\ Distinct(s) /\ Distinct(t) /\ Elems(s) \cap Elems(t) = {} => Distinct(s \o t)
<1>1. /\ s \o t \in Seq(E) /\ Len(s) \in Nat /\ Len(t) \in Nat /\ Len(s \o t) = Len(s) + Len(t)
      /\ \A i \in 1 .. Len(s) : (s \o t)[i] = s[i]
      /\ \A i \in 1 .. Len(t) : (s \o t)[Len(s) + i] = t[i]
  OBVIOUS
<1>2. ASSUME NEW i \in 1 .. Len(s) + Len(t)
      PROVE  \/ i \in 1 .. Len(s)
             \/ i - Len(s) \in 1 .. Len(t) /\ Len(s) + (i - Len(s)) = i /\ ~(i \in 1 .. Len(s))
  BY <1>1
<1>3. ASSUME NEW e \in Elems(s \o t) PROVE e \in Elems(s) \cup Elems(t)
  <2>1. PICK i \in 1 .. Len(s) + Len(t) : e = (s \o t)[i]
    BY <1>1 DEF Elems
  <2> QED
    BY <1>1, <1>2, <2>1 DEF Elems
<1>4. ASSUME NEW e \in Elems(s) PROVE e \in Elems(s \o t)
  <2>1. PICK i \in 1 .. Len(s) : e = s[i]
    BY DEF Elems
  <2>2. i \in 1 .. Len(s \o t)
    BY <1>1
  <2> QED
    BY <1>1, <2>1, <2>2 DEF Elems
<1>5. ASSUME NEW e \in Elems(t) PROVE e \in Elems(s \o t)
  <2>1. PICK i \in 1 .. Len(t) : e = t[i]
    BY DEF Elems
  <2>2. Len(s) + i \in 1 .. Len(s \o t)
    BY <1>1
  <2> QED
    BY <1>1, <2>1, <2>2 DEF Elems
<1>6. ASSUME Distinct(s), Distinct(t), Elems(s) \cap Elems(t) = {} PROVE Distinct(s \o t)
  <2> DEFINE u == s \o t
  <2> SUFFICES ASSUME NEW i \in 1 .. Len(s) + Len(t), NEW j \in 1 .. Len(s) + Len(t),
                      u[i] = u[j]
               PROVE  i = j
    BY <1>1 DEF Distinct
  <2>1. \A k \in 1 .. Len(s) : u[k] = s[k] /\ s[k] \in Elems(s)
    BY <1>1 DEF Elems
  <2>2. \A k \in 1 .. Len(t) : u[Len(s) + k] = t[k] /\ t[k] \in Elems(t)
    BY <1>1 DEF Elems
  <2> HIDE DEF u
  <2>3. CASE i \in 1 .. Len(s) /\ j \in 1 .. Len(s)
    BY <1>6, <2>1, <2>3 DEF Distinct
  <2>4. CASE ~(i \in 1 .. Len(s)) /\ ~(j \in 1 .. Len(s))
    <3>1. i - Len(s) \in 1 .. Len(t) /\ j - Len(s) \in 1 .. Len(t)
          /\ u[i] = t[i - Len(s)] /\ u[j] = t[j - Len(s)]
      BY <1>2, <2>2, <2>4
    <3>2. i - Len(s) = j - Len(s)
      BY <1>6, <3>1 DEF Distinct
    <3> QED
      BY <1>1, <3>2
  <2>5. CASE i \in 1 .. Len(s) /\ ~(j \in 1 .. Len(s))
    <3>1. u[i] \in Elems(s) /\ u[j] \in Elems(t)
      BY <1>2, <2>1, <2>2, <2>5
    <3> QED
      BY <1>6, <3>1
  <2>6. CASE ~(i \in 1 .. Len(s)) /\ j \in 1 .. Len(s)
    <3>1. u[j] \in Elems(s) /\ u[i] \in Elems(t)
      BY <1>2, <2>1, <2>2, <2>6
    <3> QED
      BY <1>6, <3>1
  <2> QED
    BY <2>3, <2>4, <2>5, <2>6
<1> QED
  BY <1>1, <1>3, <1>4, <1>5, <1>6

----------------------------------------------------------------------------
(* Sizes *)

DeviceType == maxtouches \in Devices

(* There is a touch for every slot and for every finger of every tool. *)
LEMMA Sizes ==
    ASSUME DeviceType
    PROVE  /\ maxtouches \in Int /\ (maxtouches = -1 \/ maxtouches >= 1)
           /\ ntouches \in Nat \ {0} /\ maxtouches <= ntouches
           /\ \A c \in Tools : c \in 2 .. 4 /\ c <= ntouches /\ c <= MaxFingers
           /\ MaxFingers \in Tools
           /\ Slots \subseteq Touch /\ Touch \subseteq Nat
           /\ IsFiniteSet(Touch) /\ IsFiniteSet(Slots)
           /\ Cardinality(Slots) = IF NoSlots THEN 0 ELSE maxtouches
<1>1. maxtouches \in Int /\ (maxtouches = -1 \/ maxtouches >= 1)
  BY DevicesAssumption DEF DeviceType
<1>2. Tools \subseteq 2 .. 4 /\ Tools # {}
  BY ToolsAssumption
<1>3. PICK m \in Tools : \A c \in Tools : c <= m
  <2>1. CASE 4 \in Tools
    BY <1>2, <2>1
  <2>2. CASE 4 \notin Tools /\ 3 \in Tools
    BY <1>2, <2>2
  <2>3. CASE 4 \notin Tools /\ 3 \notin Tools
    <3>1. \A c \in Tools : c = 2
      BY <1>2, <2>3
    <3>2. 2 \in Tools
      <4>1. PICK c : c \in Tools
        BY <1>2
      <4> QED
        BY <3>1, <4>1
    <3>3. \A c \in Tools : c <= 2
      BY <3>1
    <3> QED
      BY <3>2, <3>3
  <2> QED
    BY <2>1, <2>2, <2>3
<1>4. MaxFingers \in Tools /\ \A c \in Tools : c <= MaxFingers
  BY <1>2, <1>3 DEF MaxFingers, Max
<1>5. \E n \in Tools \cup {maxtouches, 1} : \A k \in Tools \cup {maxtouches, 1} : n >= k
  <2>0. m \in Int /\ m >= 2 /\ \A k \in Tools : k \in Int /\ m >= k
    BY <1>2, <1>3
  <2>1. CASE maxtouches > m
    <3>1. \A k \in Tools \cup {maxtouches, 1} : maxtouches >= k
      BY <1>1, <2>0, <2>1
    <3> QED
      BY <3>1
  <2>2. CASE ~(maxtouches > m)
    <3>1. \A k \in Tools \cup {maxtouches, 1} : m >= k
      BY <1>1, <2>0, <2>2
    <3> QED
      BY <3>1
  <2> QED
    BY <2>1, <2>2
<1>6. ntouches \in Tools \cup {maxtouches, 1} /\ \A k \in Tools \cup {maxtouches, 1} : ntouches >= k
  BY <1>5 DEF ntouches, Max
<1>7. ntouches \in Nat \ {0} /\ maxtouches <= ntouches /\ \A c \in Tools : c <= ntouches
  BY <1>1, <1>2, <1>6
<1>8. Slots \subseteq Touch /\ Touch \subseteq Nat
  BY <1>1, <1>7 DEF Slots, Touch
<1>9. IsFiniteSet(Touch)
  <2>1. 0 \in Int /\ ntouches - 1 \in Int
    BY <1>7
  <2> QED
    BY <2>1, FS_Interval DEF Touch
<1>10. /\ IsFiniteSet(Slots)
       /\ Cardinality(Slots) = IF 0 > maxtouches - 1 THEN 0 ELSE (maxtouches - 1) - 0 + 1
  <2>1. 0 \in Int /\ maxtouches - 1 \in Int
    BY <1>1
  <2> QED
    BY <2>1, FS_Interval DEF Slots
<1> QED
  BY <1>1, <1>2, <1>4, <1>7, <1>8, <1>9, <1>10 DEF NoSlots

----------------------------------------------------------------------------
(* The frames of the kernel *)

Codes  == {"ABS_MT_TRACKING_ID", "BTN_TOUCH", "POSITION", "BTN_TOOL", "BTN_TOOL_FINGER"}
Events == [code : Codes, arg : Int, value : BOOLEAN]

Track(s, down) == Event("ABS_MT_TRACKING_ID", s, down)
Button(down)   == Event("BTN_TOUCH", 0, down)
On(c)          == Event("BTN_TOOL", c, TRUE)
Off(c)         == Event("BTN_TOOL", c, FALSE)

Pending == Elems(frame)

(* The tool of as many fingers as there are follows the one that leaves. *)
OffsFirst(s, n) ==
    \A i \in 1 .. Len(s) : s[i].code = "BTN_TOOL" /\ s[i].value = FALSE =>
        \E j \in i + 1 .. Len(s) : s[j] = On(n)

(* BTN_TOUCH can only be the first of a frame. *)
TouchFirst(s) == \A i \in 2 .. Len(s) : s[i].code # "BTN_TOUCH"

(* What the events of a frame say is what the device has. *)
KernelInv ==
    /\ DeviceType
    /\ fingers \in 0 .. MaxFingers
    /\ contact \in SUBSET Slots
    /\ NoSlots \/ Cardinality(contact) = IF fingers < maxtouches THEN fingers ELSE maxtouches
    /\ frame \in Seq(Events) /\ Distinct(frame)
    /\ \A e \in Pending :
          /\ e.code = "ABS_MT_TRACKING_ID" => e.arg \in Slots /\ e = Track(e.arg, e.arg \in contact)
          /\ e.code = "BTN_TOUCH" => e = Button(fingers > 0)
          /\ e.code = "BTN_TOOL" => e.arg \in Tools /\ e = Event("BTN_TOOL", e.arg, fingers = e.arg)
    /\ NoSlots => TouchFirst(frame)
    /\ pc = "poll" => frame = <<>>

(* An event is read. *)
LEMMA ReadKernel ==
    ASSUME KernelInv, pc = "read", pc' = "read", frame # <<>>, frame' = Tail(frame),
           UNCHANGED <<kernelVars, maxtouches>>
    PROVE  /\ KernelInv'
           /\ Head(frame) \in Pending /\ Pending' = Pending \ {Head(frame)}
           /\ NoSlots => \A e \in Pending' : e.code # "BTN_TOUCH"
           /\ \A n \in Nat : OffsFirst(frame, n) => OffsFirst(frame', n)
<1>0. UNCHANGED <<fingers, contact, one_by_one, maxtouches>>
  BY DEF kernelVars
<1>1. /\ frame' \in Seq(Events) /\ Head(frame) \in Pending /\ Distinct(frame')
      /\ Pending' = Pending \ {Head(frame)}
  BY TailElems DEF KernelInv, Pending
<1>2. /\ Len(frame) \in Nat \ {0} /\ Len(frame') = Len(frame) - 1
      /\ \A i \in 1 .. Len(frame) - 1 : frame'[i] = frame[i + 1]
  BY DEF KernelInv
<1>3. ASSUME NEW n \in Nat, OffsFirst(frame, n) PROVE OffsFirst(frame', n)
  <2> SUFFICES ASSUME NEW i \in 1 .. Len(frame) - 1,
                      frame'[i].code = "BTN_TOOL", frame'[i].value = FALSE
               PROVE  \E j \in i + 1 .. Len(frame) - 1 : frame'[j] = On(n)
    BY <1>2 DEF OffsFirst
  <2>1. frame[i + 1].code = "BTN_TOOL" /\ frame[i + 1].value = FALSE /\ i + 1 \in 1 .. Len(frame)
    BY <1>2
  <2>2. PICK j \in i + 1 + 1 .. Len(frame) : frame[j] = On(n)
    BY <1>3, <2>1 DEF OffsFirst
  <2>3. j - 1 \in i + 1 .. Len(frame) - 1 /\ j - 1 \in 1 .. Len(frame) - 1 /\ (j - 1) + 1 = j
    BY <1>2, <2>2
  <2> QED
    BY <1>2, <2>2, <2>3
<1>4. NoSlots => \A i \in 1 .. Len(frame) - 1 : frame'[i].code # "BTN_TOUCH"
  <2>1. \A i \in 1 .. Len(frame) - 1 : i + 1 \in 2 .. Len(frame)
    BY <1>2
  <2> QED
    BY <1>2, <2>1 DEF KernelInv, TouchFirst
<1>5. NoSlots => TouchFirst(frame')
  <2>1. \A i \in 2 .. Len(frame) - 1 : i \in 1 .. Len(frame) - 1
    BY <1>2
  <2> QED
    BY <1>2, <1>4, <2>1 DEF TouchFirst
<1>6. NoSlots => \A e \in Pending' : e.code # "BTN_TOUCH"
  BY <1>2, <1>4 DEF Pending, Elems
<1>7. NoSlots' = NoSlots /\ Slots' = Slots /\ DeviceType'
  BY <1>0 DEF NoSlots, Slots, DeviceType, KernelInv
<1> QED
  BY <1>0, <1>1, <1>3, <1>5, <1>6, <1>7 DEF KernelInv

(* A part of a frame: the events S, each of them once. *)
IsPart(s, S) == s \in Seq(Events) /\ Distinct(s) /\ Elems(s) = S

(* One part after another. *)
LEMMA PartsJoin ==
    ASSUME NEW s, NEW t, NEW S, NEW T, IsPart(s, S), IsPart(t, T), S \cap T = {}
    PROVE  IsPart(s \o t, S \cup T)
BY ConcatElems DEF IsPart

(* An event for every element of a finite set. *)
LEMMA EventForEach ==
    ASSUME NEW S \in SUBSET Nat, IsFiniteSet(S), NEW f \in [S -> Events],
           \A a, b \in S : f[a] = f[b] => a = b
    PROVE  IsPart([i \in 1 .. Cardinality(S) |-> f[Nth(S, i)]], {f[a] : a \in S})
<1> DEFINE n == Cardinality(S)
           s == [i \in 1 .. n |-> f[Nth(S, i)]]
<1>1. /\ n \in Nat
      /\ \A i \in 1 .. n : Nth(S, i) \in S
      /\ \A i, j \in 1 .. n : Nth(S, i) = Nth(S, j) => i = j
      /\ \A b \in S : \E i \in 1 .. n : Nth(S, i) = b
  BY NthEnumerates
<1> HIDE DEF n
<1>2. s \in [1 .. n -> Events]
  BY <1>1
<1>3. s \in Seq(Events) /\ Len(s) = n
  BY <1>1, <1>2, FunctionIsSeq
<1>4. \A i \in 1 .. n : s[i] = f[Nth(S, i)]
  OBVIOUS
<1> HIDE DEF s
<1>5. Distinct(s)
  <2> SUFFICES ASSUME NEW i \in 1 .. n, NEW j \in 1 .. n, s[i] = s[j] PROVE i = j
    BY <1>3 DEF Distinct
  <2>1. Nth(S, i) \in S /\ Nth(S, j) \in S /\ f[Nth(S, i)] = f[Nth(S, j)]
    BY <1>1, <1>4
  <2> QED
    BY <1>1, <2>1
<1>6. ASSUME NEW e \in Elems(s) PROVE e \in {f[a] : a \in S}
  <2>1. PICK i \in 1 .. n : e = s[i]
    BY <1>3 DEF Elems
  <2>2. Nth(S, i) \in S /\ e = f[Nth(S, i)]
    BY <1>1, <1>4, <2>1
  <2> QED
    BY <2>2
<1>7. ASSUME NEW a \in S PROVE f[a] \in Elems(s)
  <2>1. PICK i \in 1 .. n : Nth(S, i) = a
    BY <1>1
  <2> QED
    BY <1>3, <1>4, <2>1 DEF Elems
<1>8. Elems(s) = {f[a] : a \in S}
  BY <1>6, <1>7
<1> QED
  BY <1>3, <1>5, <1>8 DEF IsPart, s, n

ChangedSlots(now, new) == (contact \ now) \cup (now \ contact) \cup new
SlotSet(now, new) == {Track(s, s \in now) : s \in ChangedSlots(now, new)}
ChangedTools(n) == {c \in Tools : (n = c) # (fingers = c)}
ToolSet(n) == {Event("BTN_TOOL", c, n = c) : c \in ChangedTools(n)}
TouchSet(n) == IF (n > 0) # (fingers > 0) THEN {Button(n > 0)} ELSE {}
PositionSet(n) == IF n > 0 THEN {Event("POSITION", 0, TRUE)} ELSE {}
FingerSet(n) == IF (n = 1) # (fingers = 1) THEN {Event("BTN_TOOL_FINGER", 0, n = 1)} ELSE {}

(* The part of the slots: an event for every slot that has changed. *)
LEMMA SlotPart ==
    ASSUME KernelInv, NEW now \in SUBSET Slots, NEW new \in SUBSET Slots
    PROVE  IsPart(SlotEvents(now, new), SlotSet(now, new))
<1> DEFINE S == ChangedSlots(now, new)
           f == [s \in S |-> Track(s, s \in now)]
<1>1. S \subseteq Slots /\ Slots \subseteq Nat /\ IsFiniteSet(Slots)
  BY Sizes DEF KernelInv, ChangedSlots
<1>2. S \in SUBSET Nat /\ IsFiniteSet(S)
  BY <1>1, FS_Subset
<1>3. f \in [S -> Events] /\ \A a, b \in S : f[a] = f[b] => a = b
  <2>1. \A a \in S : a \in Int /\ (a \in now) \in BOOLEAN
    BY <1>2
  <2>2. \A a \in S : f[a] \in Events /\ f[a].arg = a
    BY <2>1 DEF Events, Codes, Track, Event
  <2> QED
    BY <2>2
<1>4. IsPart([i \in 1 .. Cardinality(S) |-> f[Nth(S, i)]], {f[a] : a \in S})
  BY <1>2, <1>3, EventForEach
<1>5. {f[a] : a \in S} = SlotSet(now, new)
  BY DEF SlotSet
<1>6. [i \in 1 .. Cardinality(S) |-> f[Nth(S, i)]] = SlotEvents(now, new)
  <2>1. \A i \in 1 .. Cardinality(S) : Nth(S, i) \in S
    BY <1>2, NthEnumerates
  <2>2. \A i \in 1 .. Cardinality(S) : f[Nth(S, i)] = Track(Nth(S, i), Nth(S, i) \in now)
    BY <2>1
  <2>3. SlotEvents(now, new)
          = [i \in 1 .. Cardinality(S) |-> Track(Nth(S, i), Nth(S, i) \in now)]
    BY DEF SlotEvents, ChangedSlots, Track
  <2> QED
    BY <2>2, <2>3
<1> QED
  BY <1>4, <1>5, <1>6

(* The part of the tools, which ascend. *)
LEMMA ToolPart ==
    ASSUME KernelInv, NEW n \in Nat
    PROVE  /\ IsPart(ToolEvents(n), ToolSet(n))
           /\ ToolEvents(n) = [i \in 1 .. Cardinality(ChangedTools(n)) |->
                 Event("BTN_TOOL", Nth(ChangedTools(n), i), n = Nth(ChangedTools(n), i))]
           /\ ChangedTools(n) \in SUBSET Nat /\ IsFiniteSet(ChangedTools(n))
<1> DEFINE S == ChangedTools(n)
           f == [c \in S |-> Event("BTN_TOOL", c, n = c)]
<1>1. S \subseteq 2 .. 4
  BY ToolsAssumption DEF ChangedTools
<1>2. S \in SUBSET Nat /\ IsFiniteSet(S)
  <2>1. IsFiniteSet(2 .. 4)
    <3>1. 2 \in Int /\ 4 \in Int
      OBVIOUS
    <3> QED
      BY <3>1, FS_Interval
  <2> QED
    BY <1>1, <2>1, FS_Subset
<1>3. f \in [S -> Events] /\ \A a, b \in S : f[a] = f[b] => a = b
  <2>1. \A a \in S : a \in Int /\ (n = a) \in BOOLEAN
    BY <1>2
  <2>2. \A a \in S : f[a] \in Events /\ f[a].arg = a
    BY <2>1 DEF Events, Codes, Event
  <2> QED
    BY <2>2
<1>4. IsPart([i \in 1 .. Cardinality(S) |-> f[Nth(S, i)]], {f[a] : a \in S})
  BY <1>2, <1>3, EventForEach
<1>5. {f[a] : a \in S} = ToolSet(n)
  BY DEF ToolSet
<1>6. /\ [i \in 1 .. Cardinality(S) |-> f[Nth(S, i)]] = ToolEvents(n)
      /\ ToolEvents(n) = [i \in 1 .. Cardinality(S) |->
                             Event("BTN_TOOL", Nth(S, i), n = Nth(S, i))]
  <2>1. \A i \in 1 .. Cardinality(S) : Nth(S, i) \in S
    BY <1>2, NthEnumerates
  <2>2. \A i \in 1 .. Cardinality(S) : f[Nth(S, i)] = Event("BTN_TOOL", Nth(S, i), n = Nth(S, i))
    BY <2>1
  <2>3. ToolEvents(n) = [i \in 1 .. Cardinality(S) |->
                            Event("BTN_TOOL", Nth(S, i), n = Nth(S, i))]
    BY DEF ToolEvents, ChangedTools
  <2> QED
    BY <2>2, <2>3
<1> QED
  BY <1>2, <1>4, <1>5, <1>6

(* The parts with at most one event. *)
LEMMA SmallPart ==
    ASSUME NEW e \in Events
    PROVE  IsPart(<<e>>, {e}) /\ IsPart(<<>>, {}) /\ Len(<<e>>) \in 0 .. 1 /\ Len(<<>>) \in 0 .. 1
<1>1. <<e>> \in Seq(Events) /\ Len(<<e>>) = 1 /\ <<e>>[1] = e
  OBVIOUS
<1>2. \A i \in 1 .. Len(<<e>>) : i = 1
  OBVIOUS
<1>3. Elems(<<e>>) = {e} /\ Distinct(<<e>>)
  BY <1>1, <1>2 DEF Elems, Distinct
<1>4. IsPart(<<>>, {})
  BY DEF IsPart, Elems, Distinct
<1> QED
  BY <1>1, <1>3, <1>4 DEF IsPart

(* The parts that are at most one event. *)
LEMMA SmallParts ==
    ASSUME NEW n \in Nat
    PROVE  /\ IsPart(TouchEvents(n), TouchSet(n)) /\ Len(TouchEvents(n)) \in 0 .. 1
           /\ IsPart(PositionEvents(n), PositionSet(n)) /\ Len(PositionEvents(n)) \in 0 .. 1
           /\ IsPart(FingerEvents(n), FingerSet(n)) /\ Len(FingerEvents(n)) \in 0 .. 1
<1> DEFINE P(s, S) == IsPart(s, S) /\ Len(s) \in 0 .. 1
<1>1. /\ Event("BTN_TOUCH", 0, n > 0) \in Events /\ Event("POSITION", 0, TRUE) \in Events
      /\ Event("BTN_TOOL_FINGER", 0, n = 1) \in Events
  BY DEF Event, Events, Codes
<1>2. (\A e \in Events : P(<<e>>, {e})) /\ P(<<>>, {})
  BY <1>1, SmallPart
<1> HIDE DEF P
<1>3. P(TouchEvents(n), TouchSet(n))
  BY <1>1, <1>2 DEF TouchEvents, TouchSet, Button
<1>4. P(PositionEvents(n), PositionSet(n))
  BY <1>1, <1>2 DEF PositionEvents, PositionSet
<1>5. P(FingerEvents(n), FingerSet(n))
  BY <1>1, <1>2 DEF FingerEvents, FingerSet
<1> QED
  BY <1>3, <1>4, <1>5 DEF P


(* The events of each part have the code of that part. *)
LEMMA PartCodes ==
    ASSUME NEW n, NEW now, NEW new
    PROVE  /\ \A e \in SlotSet(now, new) : e.code = "ABS_MT_TRACKING_ID"
           /\ \A e \in TouchSet(n) : e.code = "BTN_TOUCH"
           /\ \A e \in PositionSet(n) : e.code = "POSITION"
           /\ \A e \in ToolSet(n) : e.code = "BTN_TOOL"
           /\ \A e \in FingerSet(n) : e.code = "BTN_TOOL_FINGER"
<1>1. \A e \in SlotSet(now, new) : e.code = "ABS_MT_TRACKING_ID"
  BY DEF SlotSet, Track, Event
<1>2. \A e \in TouchSet(n) : e.code = "BTN_TOUCH"
  BY DEF TouchSet, Button, Event
<1>3. \A e \in PositionSet(n) : e.code = "POSITION"
  BY DEF PositionSet, Event
<1>4. \A e \in ToolSet(n) : e.code = "BTN_TOOL"
  BY DEF ToolSet, Event
<1>5. \A e \in FingerSet(n) : e.code = "BTN_TOOL_FINGER"
  BY DEF FingerSet, Event
<1> QED
  BY <1>1, <1>2, <1>3, <1>4, <1>5

(* What is pending after a scan. *)
ScanSet(n, now, new) ==
    ((SlotSet(now, new) \cup TouchSet(n)) \cup PositionSet(n)) \cup ToolSet(n)

(* A scan is made of its parts. *)
LEMMA ScanPart ==
    ASSUME KernelInv, NEW n \in Nat, NEW now \in SUBSET Slots, NEW new \in SUBSET Slots
    PROVE  IsPart(SlotEvents(now, new) \o TouchEvents(n) \o PositionEvents(n) \o ToolEvents(n),
                  ScanSet(n, now, new))
<1> DEFINE a == SlotEvents(now, new)
           b == TouchEvents(n)
           c == PositionEvents(n)
           d == ToolEvents(n)
           A == SlotSet(now, new)
           B == TouchSet(n)
           C == PositionSet(n)
           D == ToolSet(n)
<1>1. IsPart(a, A) /\ IsPart(b, B) /\ IsPart(c, C) /\ IsPart(d, D)
  BY SlotPart, SmallParts, ToolPart
<1>2. A \cap B = {} /\ (A \cup B) \cap C = {} /\ ((A \cup B) \cup C) \cap D = {}
  BY PartCodes
<1> HIDE DEF a, b, c, d, A, B, C, D
<1>3. IsPart(a \o b, A \cup B)
  BY <1>1, <1>2, PartsJoin
<1>4. IsPart((a \o b) \o c, (A \cup B) \cup C)
  BY <1>1, <1>2, <1>3, PartsJoin
<1>5. IsPart(((a \o b) \o c) \o d, ((A \cup B) \cup C) \cup D)
  BY <1>1, <1>2, <1>4, PartsJoin
<1> QED
  BY <1>5 DEF a, b, c, d, A, B, C, D, ScanSet

(* What is pending after the events of a dropped frame, but for their first. *)
KeySet(n) == ((FingerSet(n) \cup TouchSet(n)) \cup ToolSet(n)) \cup PositionSet(n)
KeyEvents(n) == FingerEvents(n) \o TouchEvents(n) \o ToolEvents(n) \o PositionEvents(n)

(* The events after SYN_DROPPED are made of theirs. *)
LEMMA SyncPart ==
    ASSUME KernelInv, NEW n \in Nat, NEW now \in SUBSET Slots, NEW new \in SUBSET Slots
    PROVE  /\ IsPart(KeyEvents(n), KeySet(n))
           /\ IsPart(SlotEvents(now, new), SlotSet(now, new))
           /\ IsPart(SyncEvents(n, now, new), KeySet(n) \cup SlotSet(now, new))
           /\ SyncEvents(n, now, new) = KeyEvents(n) \o SlotEvents(now, new)
<1> DEFINE a == FingerEvents(n)
           b == TouchEvents(n)
           c == ToolEvents(n)
           d == PositionEvents(n)
           e == SlotEvents(now, new)
           A == FingerSet(n)
           B == TouchSet(n)
           C == ToolSet(n)
           D == PositionSet(n)
           E == SlotSet(now, new)
<1>1. IsPart(a, A) /\ IsPart(b, B) /\ IsPart(c, C) /\ IsPart(d, D) /\ IsPart(e, E)
  BY SlotPart, SmallParts, ToolPart
<1>2. /\ A \cap B = {} /\ (A \cup B) \cap C = {} /\ ((A \cup B) \cup C) \cap D = {}
      /\ (((A \cup B) \cup C) \cup D) \cap E = {}
  BY PartCodes
<1> HIDE DEF a, b, c, d, e, A, B, C, D, E
<1>3. IsPart(a \o b, A \cup B)
  BY <1>1, <1>2, PartsJoin
<1>4. IsPart((a \o b) \o c, (A \cup B) \cup C)
  BY <1>1, <1>2, <1>3, PartsJoin
<1>5. IsPart(((a \o b) \o c) \o d, ((A \cup B) \cup C) \cup D)
  BY <1>1, <1>2, <1>4, PartsJoin
<1>6. IsPart((((a \o b) \o c) \o d) \o e, (((A \cup B) \cup C) \cup D) \cup E)
  BY <1>1, <1>2, <1>5, PartsJoin
<1> QED
  BY <1>1, <1>5, <1>6 DEF a, b, c, d, e, A, B, C, D, E, KeySet, KeyEvents, SyncEvents


(* BTN_TOUCH is among the first k events. *)
TouchWithin(s, k) == \A i \in 1 .. Len(s) : s[i].code = "BTN_TOUCH" => i <= k

(* What follows brings no BTN_TOUCH. *)
LEMMA TouchStays ==
    ASSUME NEW s \in Seq(Events), NEW t \in Seq(Events), NEW k \in Nat, TouchWithin(s, k),
           \A e \in Elems(t) : e.code # "BTN_TOUCH"
    PROVE  TouchWithin(s \o t, k)
<1>1. /\ Len(s) \in Nat /\ Len(t) \in Nat /\ Len(s \o t) = Len(s) + Len(t)
      /\ \A i \in 1 .. Len(s) : (s \o t)[i] = s[i]
      /\ \A i \in 1 .. Len(t) : (s \o t)[Len(s) + i] = t[i]
  OBVIOUS
<1> SUFFICES ASSUME NEW i \in 1 .. Len(s) + Len(t), (s \o t)[i].code = "BTN_TOUCH"
             PROVE  i <= k
  BY <1>1 DEF TouchWithin
<1>2. CASE i \in 1 .. Len(s)
  BY <1>1, <1>2 DEF TouchWithin
<1>3. CASE ~(i \in 1 .. Len(s))
  <2>1. i - Len(s) \in 1 .. Len(t) /\ Len(s) + (i - Len(s)) = i
    BY <1>1, <1>3
  <2>2. (s \o t)[i] \in Elems(t)
    BY <1>1, <2>1 DEF Elems
  <2> QED
    BY <2>2
<1> QED
  BY <1>2, <1>3

(* The tools' events come last in a scan. *)
LEMMA OffsStay ==
    ASSUME NEW s \in Seq(Events), NEW t \in Seq(Events), NEW n \in Nat, OffsFirst(t, n),
           \A e \in Elems(s) : e.code # "BTN_TOOL"
    PROVE  OffsFirst(s \o t, n)
<1> DEFINE u == s \o t
<1>1. /\ Len(s) \in Nat /\ Len(t) \in Nat /\ Len(u) = Len(s) + Len(t)
      /\ \A i \in 1 .. Len(s) : u[i] = s[i]
      /\ \A i \in 1 .. Len(t) : u[Len(s) + i] = t[i]
  OBVIOUS
<1>0. OffsFirst(u, n) <=> OffsFirst(s \o t, n)
  BY DEF u
<1> HIDE DEF u
<1> SUFFICES ASSUME NEW i \in 1 .. Len(s) + Len(t),
                    u[i].code = "BTN_TOOL", u[i].value = FALSE
             PROVE  \E j \in i + 1 .. Len(s) + Len(t) : u[j] = On(n)
  BY <1>0, <1>1 DEF OffsFirst
<1>2. CASE i \in 1 .. Len(s)
  <2>1. u[i] \in Elems(s)
    BY <1>1, <1>2 DEF Elems
  <2> QED
    BY <2>1
<1>3. CASE ~(i \in 1 .. Len(s))
  <2>1. i - Len(s) \in 1 .. Len(t) /\ Len(s) + (i - Len(s)) = i
    BY <1>1, <1>3
  <2>2. t[i - Len(s)] = u[i]
    BY <1>1, <2>1
  <2>3. PICK j \in (i - Len(s)) + 1 .. Len(t) : t[j] = On(n)
    BY <2>1, <2>2 DEF OffsFirst
  <2>4. j \in 1 .. Len(t) /\ Len(s) + j \in i + 1 .. Len(s) + Len(t)
    BY <1>1, <2>1, <2>3
  <2>5. u[Len(s) + j] = On(n)
    BY <1>1, <2>3, <2>4
  <2> QED
    BY <2>4, <2>5
<1> QED
  BY <1>2, <1>3

(* A device announces every number of fingers from two on. *)
ToolsInARow == Tools = 2 .. MaxFingers

(* When a finger has come, the tool of one finger less leaves first. *)
LEMMA ToolsOrdered ==
    ASSUME KernelInv, ToolsInARow, NEW n \in 1 .. MaxFingers, n \in fingers .. fingers + 1
    PROVE  OffsFirst(ToolEvents(n), n)
<1> DEFINE S == ChangedTools(n)
           k == Cardinality(S)
<1>1. Tools \subseteq 2 .. 4 /\ MaxFingers \in 2 .. 4 /\ fingers \in Nat /\ n \in Nat
  <2>1. DeviceType /\ fingers \in 0 .. MaxFingers
    BY DEF KernelInv
  <2>2. MaxFingers \in Tools /\ MaxFingers \in 2 .. 4
    BY <2>1, Sizes
  <2> QED
    BY <2>1, <2>2, ToolsAssumption
<1>2. /\ S \in SUBSET Nat /\ IsFiniteSet(S)
      /\ ToolEvents(n) = [i \in 1 .. k |-> Event("BTN_TOOL", Nth(S, i), n = Nth(S, i))]
      /\ IsPart(ToolEvents(n), ToolSet(n))
  BY <1>1, ToolPart
<1>3. /\ k \in Nat
      /\ \A i \in 1 .. k : Nth(S, i) \in S
      /\ \A b \in S : \E i \in 1 .. k : Nth(S, i) = b
      /\ \A i, j \in 1 .. k : i < j => Nth(S, i) < Nth(S, j)
  BY <1>2, NthEnumerates
<1>4. \A c \in S : c \in Tools /\ (c = n \/ c = fingers) /\ n # fingers
  BY DEF ChangedTools
<1>5. n # fingers /\ n \in Tools => n \in S
  BY DEF ChangedTools
<1> HIDE DEF S, k
<1>6. Len(ToolEvents(n)) = k
  BY <1>2, <1>3
<1> SUFFICES ASSUME NEW i \in 1 .. k,
                    ToolEvents(n)[i].code = "BTN_TOOL", ToolEvents(n)[i].value = FALSE
             PROVE  \E j \in i + 1 .. k : ToolEvents(n)[j] = On(n)
  BY <1>6 DEF OffsFirst
<1>7. ToolEvents(n)[i] = Event("BTN_TOOL", Nth(S, i), n = Nth(S, i)) /\ Nth(S, i) \in S
  BY <1>2, <1>3
<1>8. Nth(S, i) # n
  <2> SUFFICES ASSUME n = Nth(S, i) PROVE FALSE
    OBVIOUS
  <2>1. ToolEvents(n)[i] = Event("BTN_TOOL", Nth(S, i), TRUE)
    BY <1>7
  <2> QED
    BY <2>1 DEF Event
<1>9. Nth(S, i) = fingers /\ fingers >= 2 /\ n = fingers + 1
  BY <1>1, <1>4, <1>7, <1>8
<1>10. n \in S
  BY <1>1, <1>5, <1>9 DEF ToolsInARow
<1>11. PICK j \in 1 .. k : Nth(S, j) = n
  BY <1>3, <1>10
<1>12. ~(j < i) /\ j # i
  BY <1>1, <1>3, <1>8, <1>9, <1>11
<1>13. j \in i + 1 .. k
  BY <1>3, <1>12
<1>14. ToolEvents(n)[j] = Event("BTN_TOOL", n, TRUE)
  BY <1>2, <1>11
<1> QED
  BY <1>13, <1>14 DEF On


(* The smaller of two numbers. *)
LEMMA MinOfTwo ==
    ASSUME NEW a \in Int, NEW b \in Int
    PROVE  Min({a, b}) = IF a < b THEN a ELSE b
<1>1. CASE a < b
  <2>1. a \in {a, b} /\ \A y \in {a, b} : a <= y
    BY <1>1
  <2>2. \A x \in {a, b} : (\A y \in {a, b} : x <= y) => x = a
    BY <1>1
  <2>3. (CHOOSE x \in {a, b} : \A y \in {a, b} : x <= y) = a
    BY <2>1, <2>2
  <2> QED
    BY <1>1, <2>3 DEF Min
<1>2. CASE ~(a < b)
  <2>1. b \in {a, b} /\ \A y \in {a, b} : b <= y
    BY <1>2
  <2>2. \A x \in {a, b} : (\A y \in {a, b} : x <= y) => x = b
    BY <1>2
  <2>3. (CHOOSE x \in {a, b} : \A y \in {a, b} : x <= y) = b
    BY <2>1, <2>2
  <2> QED
    BY <1>2, <2>3 DEF Min
<1> QED
  BY <1>1, <1>2

(* A frame made of such parts says what the device has now. *)
LEMMA FrameFits ==
    ASSUME KernelInv, NEW n \in 0 .. MaxFingers,
           NEW now \in SUBSET Slots, NEW new \in SUBSET Slots,
           Cardinality(now) = Min({n, Cardinality(Slots)}),
           contact' = now, fingers' = n, pc' = "read", UNCHANGED maxtouches,
           frame' \in Seq(Events), Distinct(frame'),
           Pending' \subseteq KeySet(n) \cup SlotSet(now, new),
           NoSlots => TouchFirst(frame')
    PROVE  KernelInv'
<1>0. DeviceType
  BY DEF KernelInv
<1>1. DeviceType' /\ NoSlots' = NoSlots /\ Slots' = Slots
  BY <1>0 DEF DeviceType, NoSlots, Slots
<1>2. NoSlots \/ Cardinality(now) = IF n < maxtouches THEN n ELSE maxtouches
  <2>1. MaxFingers \in 2 .. 4 /\ maxtouches \in Int
    BY <1>0, Sizes, ToolsAssumption
  <2>2. n \in Int
    BY <2>1
  <2>3. CASE ~NoSlots
    <3>1. Cardinality(Slots) = maxtouches
      BY <1>0, <2>3, Sizes
    <3>2. Min({n, maxtouches}) = IF n < maxtouches THEN n ELSE maxtouches
      BY <2>1, <2>2, MinOfTwo
    <3> QED
      BY <3>1, <3>2
  <2> QED
    BY <2>3
<1>3. ASSUME NEW e \in Pending'
      PROVE  /\ e.code = "ABS_MT_TRACKING_ID" => e.arg \in Slots /\ e = Track(e.arg, e.arg \in now)
             /\ e.code = "BTN_TOUCH" => e = Button(n > 0)
             /\ e.code = "BTN_TOOL" => e.arg \in Tools /\ e = Event("BTN_TOOL", e.arg, n = e.arg)
  <2>0. contact \subseteq Slots
    BY DEF KernelInv
  <2>1. CASE e \in SlotSet(now, new)
    <3>1. PICK s \in ChangedSlots(now, new) : e = Track(s, s \in now)
      BY <2>1 DEF SlotSet
    <3>2. e.arg = s /\ s \in Slots /\ e.code = "ABS_MT_TRACKING_ID"
      BY <2>0, <3>1 DEF ChangedSlots, Track, Event
    <3> QED
      BY <3>1, <3>2
  <2>2. CASE e \in ToolSet(n)
    <3>1. PICK c \in ChangedTools(n) : e = Event("BTN_TOOL", c, n = c)
      BY <2>2 DEF ToolSet
    <3>2. e.arg = c /\ c \in Tools /\ e.code = "BTN_TOOL"
      BY <3>1 DEF ChangedTools, Event
    <3> QED
      BY <3>1, <3>2
  <2>3. CASE e \in TouchSet(n)
    <3>1. e = Button(n > 0)
      BY <2>3 DEF TouchSet
    <3>2. e.code = "BTN_TOUCH"
      BY <3>1 DEF Button, Event
    <3> QED
      BY <3>1, <3>2
  <2>4. CASE e \in PositionSet(n) \cup FingerSet(n)
    BY <2>4, PartCodes
  <2> QED
    BY <2>1, <2>2, <2>3, <2>4 DEF KeySet
<1>4. \A e \in Pending' :
          /\ e.code = "ABS_MT_TRACKING_ID" =>
                e.arg \in Slots' /\ e = Track(e.arg, e.arg \in contact')
          /\ e.code = "BTN_TOUCH" => e = Button(fingers' > 0)
          /\ e.code = "BTN_TOOL" =>
                e.arg \in Tools /\ e = Event("BTN_TOOL", e.arg, fingers' = e.arg)
  BY <1>1, <1>3
<1>5. fingers' \in 0 .. MaxFingers /\ contact' \in SUBSET (Slots')
  BY <1>1
<1>6. (NoSlots' => TouchFirst(frame')) /\ (pc' = "poll" => frame' = <<>>)
  BY <1>1
<1>7. NoSlots' \/ Cardinality(contact') = IF fingers' < maxtouches' THEN fingers' ELSE maxtouches'
  BY <1>1, <1>2
<1> QED
  BY <1>1, <1>4, <1>5, <1>6, <1>7 DEF KernelInv


(* Every finger that has come to a slot or left one is told. *)
SlotsTold == \A s \in Slots : (s \in contact <=> s \in contact')
                                \/ Track(s, s \in contact') \in Pending'

(* A finger that has left is told by the tool of the fingers there were. *)
LeavingTold == fingers' < fingers => \/ fingers \in Tools /\ Off(fingers) \in Pending'
                                     \/ fingers = 1 /\ Button(FALSE) \in Pending'

(* A finger that has come is told by the tool of the fingers there are. *)
ComingTold == fingers' = fingers + 1 => \/ On(fingers') \in Pending'
                                        \/ fingers = 0 /\ Button(TRUE) \in Pending'

(* A scan tells what the device has. *)
LEMMA ScanKernel ==
    ASSUME KernelInv, NEW n \in 0 .. MaxFingers, Scan(n)
    PROVE  /\ KernelInv' /\ SlotsTold
           /\ ToolsInARow => LeavingTold /\ ComingTold
           /\ ToolsInARow /\ n > 0 /\ n \in fingers .. fingers + 1 => OffsFirst(frame', n)
<1>0. PICK now \in SUBSET Slots : \E new \in SUBSET (contact \cap now) :
          /\ Cardinality(now) = Min({n, Cardinality(Slots)})
          /\ contact' = now
          /\ frame' = SlotEvents(now, new) \o TouchEvents(n) \o PositionEvents(n) \o ToolEvents(n)
  BY DEF Scan
<1>1. PICK new \in SUBSET (contact \cap now) :
          /\ Cardinality(now) = Min({n, Cardinality(Slots)})
          /\ contact' = now
          /\ frame' = SlotEvents(now, new) \o TouchEvents(n) \o PositionEvents(n) \o ToolEvents(n)
  BY <1>0
<1>2. fingers' = n /\ pc' = "read" /\ UNCHANGED maxtouches
  BY DEF Scan
<1>3. DeviceType /\ contact \subseteq Slots /\ new \in SUBSET Slots /\ fingers \in 0 .. MaxFingers
  BY DEF KernelInv
<1>4. MaxFingers \in 2 .. 4 /\ n \in Nat /\ fingers \in Nat
  <2>1. MaxFingers \in 2 .. 4
    BY <1>3, Sizes, ToolsAssumption
  <2> QED
    BY <1>3, <2>1
<1>5. IsPart(frame', ScanSet(n, now, new))
  BY <1>1, <1>3, <1>4, ScanPart
<1>6. frame' \in Seq(Events) /\ Distinct(frame') /\ Pending' = ScanSet(n, now, new)
  BY <1>5 DEF IsPart, Pending
<1>7. Pending' \subseteq KeySet(n) \cup SlotSet(now, new)
  BY <1>6 DEF ScanSet, KeySet
<1> DEFINE a == SlotEvents(now, new)
           b == TouchEvents(n)
           c == PositionEvents(n)
           d == ToolEvents(n)
<1>8. /\ a \in Seq(Events) /\ b \in Seq(Events) /\ c \in Seq(Events) /\ d \in Seq(Events)
      /\ Elems(a) = SlotSet(now, new) /\ Elems(b) = TouchSet(n)
      /\ Elems(c) = PositionSet(n) /\ Elems(d) = ToolSet(n)
      /\ Len(b) \in 0 .. 1
  BY <1>3, <1>4, SlotPart, SmallParts, ToolPart DEF IsPart
<1>9. frame' = ((a \o b) \o c) \o d
  BY <1>1
<1> HIDE DEF a, b, c, d
<1>10. /\ a \o b \in Seq(Events) /\ Elems(a \o b) = Elems(a) \cup Elems(b)
       /\ (a \o b) \o c \in Seq(Events)
       /\ Elems((a \o b) \o c) = (Elems(a) \cup Elems(b)) \cup Elems(c)
  <2>1. a \o b \in Seq(Events) /\ Elems(a \o b) = Elems(a) \cup Elems(b)
    BY <1>8, ConcatElems
  <2>2. /\ (a \o b) \o c \in Seq(Events)
        /\ Elems((a \o b) \o c) = Elems(a \o b) \cup Elems(c)
    <3> DEFINE ab == a \o b
    <3>1. ab \in Seq(Events)
      BY <2>1
    <3> HIDE DEF ab
    <3>2. ab \o c \in Seq(Events) /\ Elems(ab \o c) = Elems(ab) \cup Elems(c)
      BY <1>8, <3>1, ConcatElems
    <3> QED
      BY <3>2 DEF ab
  <2> QED
    BY <2>1, <2>2
<1>11. NoSlots => TouchFirst(frame')
  <2> SUFFICES ASSUME NoSlots PROVE TouchFirst(frame')
    OBVIOUS
  <2>1. Slots = {}
    BY DEF NoSlots, Slots
  <2>2. Elems(a) = {}
    BY <1>3, <1>8, <2>1 DEF SlotSet, ChangedSlots
  <2>3. Len(a) = 0
    <3>1. Len(a) \in Nat /\ (Len(a) >= 1 => 1 \in 1 .. Len(a))
      BY <1>8
    <3>2. Len(a) >= 1 => a[1] \in Elems(a)
      BY <3>1 DEF Elems
    <3> QED
      BY <2>2, <3>1, <3>2
  <2>4. Len(a \o b) \in 0 .. 1
    BY <1>8, <2>3
  <2>5. TouchWithin(a \o b, 1)
    BY <2>4 DEF TouchWithin
  <2>6. TouchWithin((a \o b) \o c, 1)
    <3>1. \A e \in Elems(c) : e.code # "BTN_TOUCH"
      BY <1>8, PartCodes
    <3> QED
      BY <1>8, <1>10, <2>5, <3>1, TouchStays
  <2>7. TouchWithin(((a \o b) \o c) \o d, 1)
    <3>1. \A e \in Elems(d) : e.code # "BTN_TOUCH"
      BY <1>8, PartCodes
    <3> QED
      BY <1>8, <1>10, <2>6, <3>1, TouchStays
  <2>8. \A i \in 2 .. Len(frame') : i \in 1 .. Len(frame') /\ ~(i <= 1)
    BY <1>6
  <2> QED
    BY <1>9, <2>7, <2>8 DEF TouchWithin, TouchFirst
<1>12. KernelInv'
  BY <1>1, <1>2, <1>3, <1>6, <1>7, <1>11, FrameFits
<1>13. SlotsTold
  <2> SUFFICES ASSUME NEW s \in Slots, ~(s \in contact <=> s \in now)
               PROVE  Track(s, s \in now) \in SlotSet(now, new)
    BY <1>1, <1>6 DEF SlotsTold, ScanSet
  <2> QED
    BY DEF SlotSet, ChangedSlots
<1>14. ToolsInARow => LeavingTold
  <2> SUFFICES ASSUME ToolsInARow, n < fingers
               PROVE  \/ fingers \in Tools /\ Off(fingers) \in ToolSet(n)
                      \/ fingers = 1 /\ Button(FALSE) \in TouchSet(n)
    BY <1>2, <1>6 DEF LeavingTold, ScanSet
  <2>1. CASE fingers = 1
    <3>1. (n > 0) = FALSE /\ (fingers > 0) = TRUE
      BY <1>4, <2>1
    <3>2. TouchSet(n) = {Button(FALSE)}
      BY <3>1 DEF TouchSet
    <3> QED
      BY <2>1, <3>2
  <2>2. CASE fingers # 1
    <3>1. fingers \in Tools /\ n # fingers
      BY <1>3, <1>4, <2>2 DEF ToolsInARow
    <3>2. fingers \in ChangedTools(n) /\ Event("BTN_TOOL", fingers, n = fingers) = Off(fingers)
      BY <3>1 DEF ChangedTools, Off
    <3> QED
      BY <3>1, <3>2 DEF ToolSet
  <2> QED
    BY <2>1, <2>2
<1>15. ToolsInARow => ComingTold
  <2> SUFFICES ASSUME ToolsInARow, n = fingers + 1
               PROVE  \/ On(n) \in ToolSet(n)
                      \/ fingers = 0 /\ Button(TRUE) \in TouchSet(n)
    BY <1>2, <1>6 DEF ComingTold, ScanSet
  <2>1. CASE fingers = 0
    <3>1. n > 0 /\ ~(fingers > 0)
      BY <1>4, <2>1
    <3> QED
      BY <2>1, <3>1 DEF TouchSet
  <2>2. CASE fingers # 0
    <3>1. n \in Tools /\ n # fingers
      BY <1>3, <1>4, <2>2 DEF ToolsInARow
    <3>2. n \in ChangedTools(n) /\ Event("BTN_TOOL", n, n = n) = On(n)
      BY <3>1 DEF ChangedTools, On
    <3> QED
      BY <3>2 DEF ToolSet
  <2> QED
    BY <2>1, <2>2
<1>16. ASSUME ToolsInARow, n > 0, n \in fingers .. fingers + 1 PROVE OffsFirst(frame', n)
  <2>1. n \in 1 .. MaxFingers
    BY <1>4, <1>16
  <2>2. OffsFirst(d, n)
    BY <1>16, <2>1, ToolsOrdered DEF d
  <2>3. \A e \in Elems((a \o b) \o c) : e.code # "BTN_TOOL"
    BY <1>8, <1>10, PartCodes
  <2> QED
    BY <1>4, <1>8, <1>9, <1>10, <2>2, <2>3, OffsStay
<1> QED
  BY <1>12, <1>13, <1>14, <1>15, <1>16


(* The first event of two parts. *)
LEMMA FirstOfTwo ==
    ASSUME NEW s \in Seq(Events), NEW t \in Seq(Events)
    PROVE  /\ s \o t \in Seq(Events)
           /\ s # <<>> => s \o t # <<>> /\ Head(s \o t) = Head(s)
           /\ s = <<>> => s \o t = t
<1>1. /\ Len(s) \in Nat /\ Len(t) \in Nat /\ Len(s \o t) = Len(s) + Len(t)
      /\ \A i \in 1 .. Len(s) : (s \o t)[i] = s[i]
      /\ s \o t \in Seq(Events)
  OBVIOUS
<1>2. s # <<>> => s \o t # <<>> /\ Head(s \o t) = Head(s)
  <2> SUFFICES ASSUME s # <<>> PROVE s \o t # <<>> /\ Head(s \o t) = Head(s)
    OBVIOUS
  <2>1. Len(s) >= 1
    BY <1>1
  <2>2. s \o t # <<>> /\ (s \o t)[1] = s[1]
    BY <1>1, <2>1
  <2> QED
    BY <2>2
<1>3. s = <<>> => s \o t = t
  OBVIOUS
<1> QED
  BY <1>1, <1>2, <1>3

(* The event that a dropped frame starts with, which is lost. *)
LEMMA LostEvent ==
    ASSUME KernelInv, NEW n \in Nat, NEW now \in SUBSET Slots, NEW new \in SUBSET Slots
    PROVE  LET s == SyncEvents(n, now, new)
           IN  /\ FingerSet(n) # {} => s # <<>> /\ Head(s) \in FingerSet(n)
               /\ FingerSet(n) = {} /\ TouchSet(n) # {} => s # <<>> /\ Head(s) \in TouchSet(n)
               /\ FingerSet(n) = {} /\ TouchSet(n) = {} /\ ToolSet(n) # {} =>
                      s # <<>> /\ Head(s) = ToolEvents(n)[1] /\ Head(s) \in ToolSet(n)
               /\ KeySet(n) # {} => s # <<>> /\ Head(s) \in KeySet(n)
               /\ NoSlots => TouchWithin(s, 2)
<1> DEFINE a == FingerEvents(n)
           b == TouchEvents(n)
           c == ToolEvents(n)
           d == PositionEvents(n)
           e == SlotEvents(now, new)
<1>1. /\ IsPart(a, FingerSet(n)) /\ IsPart(b, TouchSet(n)) /\ IsPart(c, ToolSet(n))
      /\ IsPart(d, PositionSet(n)) /\ IsPart(e, SlotSet(now, new))
      /\ Len(a) \in 0 .. 1 /\ Len(b) \in 0 .. 1
  BY SlotPart, SmallParts, ToolPart
<1>2. SyncEvents(n, now, new) = (((a \o b) \o c) \o d) \o e
  BY DEF SyncEvents
<1>3. c = ToolEvents(n)
  OBVIOUS
<1> HIDE DEF a, b, c, d, e
<1>4. ASSUME NEW s, NEW S, IsPart(s, S)
      PROVE  /\ s \in Seq(Events)
             /\ s = <<>> <=> S = {}
             /\ s # <<>> => Head(s) \in S /\ Head(s) = s[1]
  <2>1. s \in Seq(Events) /\ Elems(s) = S
    BY <1>4 DEF IsPart
  <2>2. s = <<>> => S = {}
    BY <2>1 DEF Elems
  <2>3. s # <<>> => s[1] \in S /\ Head(s) = s[1]
    <3> SUFFICES ASSUME s # <<>> PROVE s[1] \in S /\ Head(s) = s[1]
      OBVIOUS
    <3>1. 1 \in 1 .. Len(s) /\ Head(s) = s[1]
      BY <2>1
    <3> QED
      BY <2>1, <3>1 DEF Elems
  <2> QED
    BY <2>1, <2>2, <2>3
<1>5. /\ a \in Seq(Events) /\ b \in Seq(Events) /\ c \in Seq(Events) /\ d \in Seq(Events)
      /\ e \in Seq(Events)
      /\ a = <<>> <=> FingerSet(n) = {}
      /\ b = <<>> <=> TouchSet(n) = {}
      /\ c = <<>> <=> ToolSet(n) = {}
      /\ a # <<>> => Head(a) \in FingerSet(n)
      /\ b # <<>> => Head(b) \in TouchSet(n)
      /\ c # <<>> => Head(c) \in ToolSet(n) /\ Head(c) = c[1]
  BY <1>1, <1>4
<1> DEFINE ab == a \o b
           abc == ab \o c
           abcd == abc \o d
           s == abcd \o e
<1>6. /\ ab \in Seq(Events)
      /\ a # <<>> => ab # <<>> /\ Head(ab) = Head(a)
      /\ a = <<>> => ab = b
  BY <1>5, FirstOfTwo
<1> HIDE DEF ab
<1>7. /\ abc \in Seq(Events)
      /\ ab # <<>> => abc # <<>> /\ Head(abc) = Head(ab)
      /\ ab = <<>> => abc = c
  BY <1>5, <1>6, FirstOfTwo
<1> HIDE DEF abc
<1>8. /\ abcd \in Seq(Events)
      /\ abc # <<>> => abcd # <<>> /\ Head(abcd) = Head(abc)
  BY <1>5, <1>7, FirstOfTwo
<1> HIDE DEF abcd
<1>9. abcd # <<>> => s # <<>> /\ Head(s) = Head(abcd)
  BY <1>5, <1>8, FirstOfTwo
<1>10. abcd = KeyEvents(n)
  BY DEF abcd, abc, ab, a, b, c, d, KeyEvents
<1>11. KeySet(n) # {} => abcd # <<>> /\ Head(abcd) \in KeySet(n)
  <2>1. IsPart(abcd, KeySet(n))
    BY <1>10, SyncPart
  <2> QED
    BY <1>4, <2>1
<1>12. NoSlots => TouchWithin(s, 2)
  <2>1. Len(ab) \in 0 .. 2
    <3>1. a \in Seq(Events) /\ b \in Seq(Events)
      BY <1>5
    <3>2. Len(ab) = Len(a) + Len(b)
      BY <3>1 DEF ab
    <3>3. Len(a) \in 0 .. 1 /\ Len(b) \in 0 .. 1
      BY <1>1
    <3>4. \A x, y \in 0 .. 1 : x + y \in 0 .. 2
      OBVIOUS
    <3> QED
      BY <3>2, <3>3, <3>4
  <2>2. TouchWithin(ab, 2)
    BY <2>1 DEF TouchWithin
  <2>3. TouchWithin(abc, 2)
    <3>1. \A x \in Elems(c) : x.code # "BTN_TOUCH"
      BY <1>1, PartCodes DEF IsPart
    <3> QED
      BY <1>5, <1>6, <2>2, <3>1, TouchStays DEF abc
  <2>4. TouchWithin(abcd, 2)
    <3>1. \A x \in Elems(d) : x.code # "BTN_TOUCH"
      BY <1>1, PartCodes DEF IsPart
    <3> QED
      BY <1>5, <1>7, <2>3, <3>1, TouchStays DEF abcd
  <2>5. \A x \in Elems(e) : x.code # "BTN_TOUCH"
    BY <1>1, PartCodes DEF IsPart
  <2> QED
    BY <1>5, <1>8, <2>4, <2>5, TouchStays
<1>13. SyncEvents(n, now, new) = s
  BY <1>2 DEF ab, abc, abcd
<1> HIDE DEF s
<1> QED
  BY <1>3, <1>5, <1>6, <1>7, <1>8, <1>9, <1>11, <1>12, <1>13


(* So do the events after SYN_DROPPED, although the first is lost. *)
LEMMA SyncKernel ==
    ASSUME KernelInv, NEW n \in 0 .. MaxFingers, SyncDevice(n)
    PROVE  KernelInv' /\ SlotsTold /\ (ToolsInARow => LeavingTold)
<1>0. PICK now \in SUBSET Slots : \E new \in SUBSET (contact \cap now) :
          /\ Cardinality(now) = Min({n, Cardinality(Slots)})
          /\ contact' = now
          /\ frame' = Synced(SyncEvents(n, now, new))
  BY DEF SyncDevice
<1>1. PICK new \in SUBSET (contact \cap now) :
          /\ Cardinality(now) = Min({n, Cardinality(Slots)})
          /\ contact' = now
          /\ frame' = Synced(SyncEvents(n, now, new))
  BY <1>0
<1>2. fingers' = n /\ pc' = "read" /\ UNCHANGED maxtouches
  BY DEF SyncDevice
<1>3. /\ DeviceType /\ contact \subseteq Slots /\ new \in SUBSET Slots
      /\ fingers \in 0 .. MaxFingers
      /\ NoSlots \/ Cardinality(contact) = IF fingers < maxtouches THEN fingers ELSE maxtouches
  BY DEF KernelInv
<1>4. MaxFingers \in 2 .. 4 /\ n \in Nat /\ fingers \in Nat
  <2>1. MaxFingers \in 2 .. 4
    BY <1>3, Sizes, ToolsAssumption
  <2> QED
    BY <1>3, <2>1
<1> DEFINE s == SyncEvents(n, now, new)
           S == KeySet(n) \cup SlotSet(now, new)
<1>5. s \in Seq(Events) /\ Distinct(s) /\ Elems(s) = S
  BY <1>3, <1>4, SyncPart DEF IsPart
<1>6. /\ FingerSet(n) # {} => s # <<>> /\ Head(s) \in FingerSet(n)
      /\ FingerSet(n) = {} /\ TouchSet(n) # {} => s # <<>> /\ Head(s) \in TouchSet(n)
      /\ FingerSet(n) = {} /\ TouchSet(n) = {} /\ ToolSet(n) # {} =>
             s # <<>> /\ Head(s) = ToolEvents(n)[1] /\ Head(s) \in ToolSet(n)
      /\ KeySet(n) # {} => s # <<>> /\ Head(s) \in KeySet(n)
      /\ NoSlots => TouchWithin(s, 2)
  BY <1>3, <1>4, LostEvent
<1>7. frame' = IF s = <<>> THEN <<>> ELSE Tail(s)
  BY <1>1 DEF Synced
<1> HIDE DEF s
<1>8. /\ frame' \in Seq(Events) /\ Distinct(frame')
      /\ s = <<>> => Pending' = {} /\ S = {}
      /\ s # <<>> => Pending' = S \ {Head(s)}
  <2>1. CASE s = <<>>
    <3>1. frame' = <<>> /\ Elems(<<>>) = {} /\ Distinct(<<>>)
      BY <1>7, <2>1 DEF Elems, Distinct
    <3> QED
      BY <1>5, <2>1, <3>1 DEF Pending
  <2>2. CASE s # <<>>
    <3>1. frame' = Tail(s)
      BY <1>7, <2>2
    <3> QED
      BY <1>5, <2>2, <3>1, TailElems DEF Pending
  <2> QED
    BY <2>1, <2>2
<1>9. NoSlots => TouchFirst(frame')
  <2> SUFFICES ASSUME NoSlots, s # <<>> PROVE TouchFirst(Tail(s))
    <3>1. TouchFirst(<<>>)
      BY DEF TouchFirst
    <3> QED
      BY <1>7, <3>1
  <2>1. /\ Len(s) \in Nat \ {0} /\ Len(Tail(s)) = Len(s) - 1
        /\ \A i \in 1 .. Len(s) - 1 : Tail(s)[i] = s[i + 1]
    BY <1>5
  <2> SUFFICES ASSUME NEW i \in 2 .. Len(s) - 1 PROVE Tail(s)[i].code # "BTN_TOUCH"
    BY <2>1 DEF TouchFirst
  <2>2. i + 1 \in 1 .. Len(s) /\ ~(i + 1 <= 2) /\ Tail(s)[i] = s[i + 1]
    BY <2>1
  <2> QED
    BY <1>6, <2>2 DEF TouchWithin
<1>10. KernelInv'
  BY <1>1, <1>2, <1>3, <1>8, <1>9, FrameFits
<1>11. SlotsTold
  <2> SUFFICES ASSUME NEW t \in Slots, ~(t \in contact <=> t \in now)
               PROVE  Track(t, t \in now) \in Pending'
    BY <1>1 DEF SlotsTold
  <2>1. Track(t, t \in now) \in SlotSet(now, new)
    BY DEF SlotSet, ChangedSlots
  <2>2. KeySet(n) # {}
    <3> SUFFICES ASSUME n = 0, fingers = 0 PROVE FALSE
      <4>1. n > 0 => PositionSet(n) # {}
        BY DEF PositionSet
      <4>2. ~(n > 0) /\ fingers > 0 => TouchSet(n) # {}
        BY DEF TouchSet
      <4> QED
        BY <1>4, <4>1, <4>2 DEF KeySet
    <3>1. Cardinality(contact) = 0 /\ Cardinality(now) = 0 /\ IsFiniteSet(Slots)
      <4>1. IsFiniteSet(Slots) /\ maxtouches >= 1 /\ Cardinality(Slots) = maxtouches
        <5>1. ~NoSlots
          BY DEF NoSlots, Slots
        <5> QED
          BY <1>3, <5>1, Sizes DEF NoSlots
      <4>2. maxtouches \in Int /\ ~NoSlots
        BY <1>3, <4>1, Sizes DEF NoSlots
      <4>3. Min({0, maxtouches}) = 0
        BY <4>1, <4>2, MinOfTwo
      <4> QED
        BY <1>1, <1>3, <4>1, <4>2, <4>3
    <3>2. IsFiniteSet(contact) /\ IsFiniteSet(now)
      BY <1>3, <3>1, FS_Subset
    <3>3. contact = {} /\ now = {}
      BY <3>1, <3>2, FS_EmptySet
    <3> QED
      BY <3>3
  <2>3. s # <<>> /\ Head(s) \in KeySet(n) /\ Pending' = S \ {Head(s)}
    BY <1>6, <1>8, <2>2
  <2>4. Head(s).code # "ABS_MT_TRACKING_ID"
    BY <2>3, PartCodes DEF KeySet
  <2>5. Track(t, t \in now).code = "ABS_MT_TRACKING_ID"
    BY DEF Track, Event
  <2> QED
    BY <2>1, <2>3, <2>4, <2>5
<1>12. ToolsInARow => LeavingTold
  <2> SUFFICES ASSUME ToolsInARow, n < fingers
               PROVE  \/ fingers \in Tools /\ Off(fingers) \in Pending'
                      \/ fingers = 1 /\ Button(FALSE) \in Pending'
    BY <1>2 DEF LeavingTold
  <2>1. CASE fingers = 1
    <3>1. n = 0 /\ (n > 0) = FALSE /\ (fingers > 0) = TRUE /\ (n = 1) = FALSE
      BY <1>4, <2>1
    <3>2. Button(FALSE) \in S /\ FingerSet(n) # {}
      BY <2>1, <3>1 DEF KeySet, TouchSet, FingerSet
    <3>3. Head(s) # Button(FALSE)
      <4>1. Head(s).code = "BTN_TOOL_FINGER"
        BY <1>6, <3>2, PartCodes
      <4> QED
        BY <4>1 DEF Button, Event
    <3> QED
      BY <1>6, <1>8, <2>1, <3>2, <3>3
  <2>2. CASE fingers # 1
    <3>1. fingers \in 2 .. MaxFingers /\ fingers \in Tools /\ n # fingers
      BY <1>3, <1>4, <2>2 DEF ToolsInARow
    <3>2. Off(fingers) \in ToolSet(n)
      <4>1. fingers \in ChangedTools(n) /\ Event("BTN_TOOL", fingers, n = fingers) = Off(fingers)
        BY <3>1 DEF ChangedTools, Off
      <4> QED
        BY <4>1 DEF ToolSet
    <3>3. s # <<>> /\ Head(s) # Off(fingers)
      <4>0. Off(fingers).code = "BTN_TOOL"
        BY DEF Off, Event
      <4>1. CASE FingerSet(n) # {}
        BY <1>6, <4>0, <4>1, PartCodes
      <4>2. CASE FingerSet(n) = {} /\ TouchSet(n) # {}
        BY <1>6, <4>0, <4>2, PartCodes
      <4>3. CASE FingerSet(n) = {} /\ TouchSet(n) = {}
        <5>1. n # 1 /\ n # 0
          <6>1. n = 1 => FingerSet(n) # {}
            BY <2>2 DEF FingerSet
          <6>2. n = 0 => TouchSet(n) # {}
            BY <3>1 DEF TouchSet
          <6> QED
            BY <4>3, <6>1, <6>2
        <5>2. n \in Tools /\ n \in ChangedTools(n) /\ fingers \in ChangedTools(n)
          BY <1>4, <3>1, <5>1 DEF ToolsInARow, ChangedTools
        <5> DEFINE T == ChangedTools(n)
                   k == Cardinality(T)
        <5>3. /\ ToolEvents(n) = [i \in 1 .. k |-> Event("BTN_TOOL", Nth(T, i), n = Nth(T, i))]
              /\ T \in SUBSET Nat /\ IsFiniteSet(T)
          BY <1>4, ToolPart
        <5>4. n \in T /\ fingers \in T
          BY <5>2
        <5> HIDE DEF T, k
        <5>5. /\ k \in Nat
              /\ \A i \in 1 .. k : Nth(T, i) \in T
              /\ \A b \in T : \E i \in 1 .. k : Nth(T, i) = b
              /\ \A i, j \in 1 .. k : i < j => Nth(T, i) < Nth(T, j)
          BY <5>3, NthEnumerates DEF k
        <5>6. PICK i \in 1 .. k : Nth(T, i) = n
          BY <5>4, <5>5
        <5>7. 1 \in 1 .. k
          BY <5>5, <5>6
        <5>8. Nth(T, 1) # fingers
          <6> SUFFICES ASSUME Nth(T, 1) = fingers PROVE FALSE
            OBVIOUS
          <6>1. 1 < i
            BY <3>1, <5>5, <5>6
          <6>2. fingers < n
            BY <5>5, <5>6, <5>7, <6>1
          <6> QED
            BY <1>4, <6>2
        <5>9. ToolEvents(n)[1].arg # fingers
          BY <5>3, <5>7, <5>8 DEF Event
        <5>10. s # <<>> /\ Head(s) = ToolEvents(n)[1]
          BY <1>6, <3>2, <4>3
        <5> QED
          BY <5>9, <5>10 DEF Off, Event
      <4> QED
        BY <4>1, <4>2, <4>3
    <3> QED
      BY <1>8, <3>1, <3>2, <3>3 DEF KeySet
  <2> QED
    BY <2>1, <2>2
<1> QED
  BY <1>10, <1>11, <1>12


----------------------------------------------------------------------------
(* The touches *)

States == {"NONE", "BEGIN", "UPDATE", "END"}
TouchType == [state : [Touch -> States], fake : [Touch -> BOOLEAN],
              fingers_down : Int, queued : BOOLEAN]

LiveOf(r)  == {t \in Touch : r.state[t] \in {"BEGIN", "UPDATE"}}
Counted(r) == r.fingers_down = Cardinality(LiveOf(r))

(* The touches that are down can be counted. *)
LEMMA LiveFinite ==
    ASSUME DeviceType, NEW r
    PROVE  LiveOf(r) \subseteq Touch /\ IsFiniteSet(LiveOf(r)) /\ Cardinality(LiveOf(r)) \in Nat
<1>1. LiveOf(r) \subseteq Touch /\ IsFiniteSet(Touch)
  BY Sizes DEF LiveOf
<1>2. IsFiniteSet(LiveOf(r))
  BY <1>1, FS_Subset
<1> QED
  BY <1>1, <1>2, FS_CardinalityType

(* touchpad_begin_touch: one touch is down. *)
LEMMA BeginDoes ==
    ASSUME DeviceType, NEW r \in TouchType, Counted(r), NEW t \in Touch, NEW f \in BOOLEAN
    PROVE  LET q == Begin(r, t, f)
           IN  /\ q \in TouchType /\ Counted(q) /\ q.queued = TRUE
               /\ LiveOf(q) = LiveOf(r) \cup {t}
               /\ q.fake[t] = f
               /\ \A u \in Touch \ {t} : q.state[u] = r.state[u] /\ q.fake[u] = r.fake[u]
<1> DEFINE q == Begin(r, t, f)
<1>1. /\ q.state = [r.state EXCEPT ![t] = IF @ = "UPDATE" THEN @ ELSE "BEGIN"]
      /\ q.fake = [r.fake EXCEPT ![t] = f]
      /\ q.fingers_down = IF r.state[t] \in {"NONE", "END"} THEN r.fingers_down + 1
                                                           ELSE r.fingers_down
      /\ q.queued = TRUE
      /\ q \in TouchType
  <2>1. /\ r.state \in [Touch -> States] /\ r.fake \in [Touch -> BOOLEAN]
        /\ r.fingers_down \in Int
    BY DEF TouchType
  <2> DEFINE state == [r.state EXCEPT ![t] = IF @ = "UPDATE" THEN @ ELSE "BEGIN"]
             fake == [r.fake EXCEPT ![t] = f]
             down == IF r.state[t] \in {"NONE", "END"} THEN r.fingers_down + 1 ELSE r.fingers_down
  <2>2. state \in [Touch -> States] /\ fake \in [Touch -> BOOLEAN] /\ down \in Int
    BY <2>1 DEF States
  <2>3. q = [state |-> state, fake |-> fake, fingers_down |-> down, queued |-> TRUE]
    <3>1. r = [state |-> r.state, fake |-> r.fake,
               fingers_down |-> r.fingers_down, queued |-> r.queued]
      BY DEF TouchType
    <3>2. q = [r EXCEPT !.state = state, !.fake = fake, !.fingers_down = down, !.queued = TRUE]
      BY <2>1 DEF Begin
    <3> HIDE DEF state, fake, down, q
    <3> QED
      BY <3>1, <3>2
  <2> HIDE DEF state, fake, down, q
  <2>4. q.state = state /\ q.fake = fake /\ q.fingers_down = down /\ q.queued = TRUE
    BY <2>3
  <2>5. q \in TouchType
    BY <2>2, <2>3 DEF TouchType
  <2> QED
    BY <2>4, <2>5 DEF state, fake, down
<1> HIDE DEF q
<1>2. /\ q.state[t] \in {"BEGIN", "UPDATE"} /\ q.fake[t] = f
      /\ \A u \in Touch \ {t} : q.state[u] = r.state[u] /\ q.fake[u] = r.fake[u]
  BY <1>1 DEF TouchType, States
<1>3. LiveOf(q) = LiveOf(r) \cup {t}
  BY <1>2 DEF LiveOf
<1>4. IsFiniteSet(LiveOf(r)) /\ Cardinality(LiveOf(r)) \in Nat
  BY LiveFinite
<1>5. Counted(q)
  <2>1. r.state[t] \in States
    BY DEF TouchType
  <2>2. CASE t \in LiveOf(r)
    <3>1. LiveOf(q) = LiveOf(r) /\ q.fingers_down = r.fingers_down
      BY <1>1, <1>3, <2>2 DEF LiveOf
    <3> QED
      BY <3>1 DEF Counted
  <2>3. CASE t \notin LiveOf(r)
    <3>1. r.state[t] \in {"NONE", "END"}
      BY <2>1, <2>3 DEF LiveOf, States
    <3>2. q.fingers_down = r.fingers_down + 1
      BY <1>1, <3>1
    <3>3. Cardinality(LiveOf(q)) = Cardinality(LiveOf(r)) + 1
      BY <1>3, <1>4, <2>3, FS_AddElement
    <3> QED
      BY <3>2, <3>3 DEF Counted
  <2> QED
    BY <2>2, <2>3
<1> QED
  BY <1>1, <1>2, <1>3, <1>5 DEF q

(* touchpad_end_touch: one touch is not, if it is not ended twice. *)
LEMMA EndDoes ==
    ASSUME DeviceType, NEW r \in TouchType, Counted(r), NEW t \in Touch, r.state[t] # "END"
    PROVE  LET q == End(r, t)
           IN  /\ q \in TouchType /\ Counted(q) /\ q.fake = r.fake
               /\ q.queued = TRUE \/ q = r
               /\ LiveOf(q) = LiveOf(r) \ {t}
               /\ \A u \in Touch \ {t} : q.state[u] = r.state[u]
<1> DEFINE q == End(r, t)
<1>0. CASE r.state[t] = "NONE"
  <2>1. q = r /\ t \notin LiveOf(r)
    BY <1>0 DEF End, LiveOf
  <2> QED
    BY <2>1
<1>1. CASE r.state[t] # "NONE"
  <2>1. /\ q.state = [r.state EXCEPT ![t] = "END"]
        /\ q.fake = r.fake
        /\ q.fingers_down = r.fingers_down - 1
        /\ q.queued = TRUE
        /\ q \in TouchType
    <3>1. /\ r.state \in [Touch -> States] /\ r.fake \in [Touch -> BOOLEAN]
          /\ r.fingers_down \in Int
      BY DEF TouchType
    <3> DEFINE state == [r.state EXCEPT ![t] = "END"]
               down == r.fingers_down - 1
    <3>2. state \in [Touch -> States] /\ down \in Int
      BY <3>1 DEF States
    <3>3. q = [state |-> state, fake |-> r.fake, fingers_down |-> down, queued |-> TRUE]
      BY <1>1 DEF End, TouchType
    <3> HIDE DEF state, down, q
    <3>4. q.state = state /\ q.fake = r.fake /\ q.fingers_down = down /\ q.queued = TRUE
      BY <3>3
    <3>5. q \in TouchType
      BY <3>1, <3>2, <3>3 DEF TouchType
    <3> QED
      BY <3>4, <3>5 DEF state, down
  <2> HIDE DEF q
  <2>2. /\ q.state[t] = "END"
        /\ \A u \in Touch \ {t} : q.state[u] = r.state[u]
    BY <2>1 DEF TouchType, States
  <2>3. t \in LiveOf(r)
    BY <1>1 DEF LiveOf, TouchType, States
  <2>4. LiveOf(q) = LiveOf(r) \ {t}
    BY <2>2 DEF LiveOf
  <2>5. Cardinality(LiveOf(q)) = Cardinality(LiveOf(r)) - 1
    BY <2>3, <2>4, LiveFinite, FS_RemoveElement
  <2>6. Counted(q)
    BY <2>1, <2>5 DEF Counted
  <2> QED
    BY <2>1, <2>2, <2>4, <2>6 DEF q
<1> QED
  BY <1>0, <1>1


(* touchpad_begin_fake_touches: the ended touches and the last are down. *)
LEMMA BeginFakeDoes ==
    ASSUME DeviceType, NEW r \in TouchType, Counted(r), NEW c \in Tools, ~(maxtouches >= c)
    PROVE  LET q     == BeginFakeTouches(r, c)
               Begun == {t \in 0 .. c - 1 : r.state[t] = "END"} \cup {c - 1}
           IN  /\ q \in TouchType /\ Counted(q) /\ q.queued = TRUE
               /\ Begun \subseteq Touch
               /\ LiveOf(q) = LiveOf(r) \cup Begun
               /\ \A t \in Begun : q.fake[t]
               /\ \A u \in Touch \ Begun : q.state[u] = r.state[u] /\ q.fake[u] = r.fake[u]
<1> DEFINE Ended == {t \in 0 .. c - 1 : r.state[t] = "END"}
           state == [t \in Touch |-> IF t \in Ended THEN "UPDATE" ELSE r.state[t]]
           fake  == [t \in Touch |-> t \in Ended \/ r.fake[t]]
           down  == r.fingers_down + Cardinality(Ended)
           m     == [r EXCEPT !.state = state, !.fake = fake, !.fingers_down = down]
           q     == Begin(m, c - 1, TRUE)
<1>1. BeginFakeTouches(r, c) = q
  BY DEF BeginFakeTouches
<1>2. c \in 2 .. 4 /\ c <= ntouches /\ ntouches \in Nat
  BY Sizes, ToolsAssumption
<1>3. c - 1 \in Touch /\ 0 .. c - 1 \subseteq Touch
  BY <1>2 DEF Touch
<1>4. Ended \subseteq Touch /\ IsFiniteSet(Ended) /\ Cardinality(Ended) \in Nat
  <2>1. Ended \subseteq Touch
    BY <1>3
  <2>2. IsFiniteSet(Touch)
    BY Sizes
  <2>3. IsFiniteSet(Ended)
    BY <2>1, <2>2, FS_Subset
  <2> QED
    BY <2>1, <2>3, FS_CardinalityType
<1>5. \A t \in Ended : r.state[t] = "END"
  OBVIOUS
<1> HIDE DEF Ended
<1>6. r.state \in [Touch -> States] /\ r.fake \in [Touch -> BOOLEAN] /\ r.fingers_down \in Int
  BY DEF TouchType
<1>7. state \in [Touch -> States] /\ fake \in [Touch -> BOOLEAN] /\ down \in Int
  BY <1>4, <1>6 DEF States
<1>8. /\ \A t \in Ended : state[t] = "UPDATE" /\ fake[t]
      /\ \A t \in Touch \ Ended : state[t] = r.state[t] /\ fake[t] = r.fake[t]
  BY <1>4, <1>6
<1>9. down = r.fingers_down + Cardinality(Ended)
  OBVIOUS
<1> HIDE DEF state, fake, down
<1>10. m = [state |-> state, fake |-> fake, fingers_down |-> down, queued |-> r.queued]
  <2>1. r = [state |-> r.state, fake |-> r.fake,
             fingers_down |-> r.fingers_down, queued |-> r.queued]
    BY DEF TouchType
  <2>2. m = [r EXCEPT !.state = state, !.fake = fake, !.fingers_down = down]
    OBVIOUS
  <2> HIDE DEF m
  <2> QED
    BY <2>1, <2>2
<1> HIDE DEF m
<1>11. m.state = state /\ m.fake = fake /\ m.fingers_down = down
  BY <1>10
<1>12. m \in TouchType
  <2>1. r.queued \in BOOLEAN
    BY DEF TouchType
  <2> QED
    BY <1>7, <1>10, <2>1 DEF TouchType
<1>13. LiveOf(m) = LiveOf(r) \cup Ended
  BY <1>4, <1>8, <1>11 DEF LiveOf
<1>14. LiveOf(r) \cap Ended = {}
  BY <1>5 DEF LiveOf
<1>15. Counted(m)
  <2>1. IsFiniteSet(LiveOf(r)) /\ Cardinality(LiveOf(r)) \in Nat
    BY LiveFinite
  <2> DEFINE L == LiveOf(r)
  <2>2. IsFiniteSet(L) /\ Cardinality(L) \in Nat /\ L \cap Ended = {} /\ LiveOf(m) = L \cup Ended
    BY <1>13, <1>14, <2>1
  <2> HIDE DEF L
  <2>3. Cardinality(L \cup Ended) = Cardinality(L) + Cardinality(Ended) - Cardinality(L \cap Ended)
    BY <1>4, <2>2, FS_Union
  <2>4. Cardinality(L \cap Ended) = 0
    BY <2>2, FS_EmptySet
  <2>5. Cardinality(LiveOf(m)) = Cardinality(L) + Cardinality(Ended)
    BY <1>4, <2>2, <2>3, <2>4
  <2>6. Cardinality(LiveOf(m)) = Cardinality(LiveOf(r)) + Cardinality(Ended)
    BY <2>5 DEF L
  <2> QED
    BY <1>9, <1>11, <2>6 DEF Counted
<1>16. /\ q \in TouchType /\ Counted(q) /\ q.queued = TRUE
       /\ LiveOf(q) = LiveOf(m) \cup {c - 1}
       /\ q.fake[c - 1] = TRUE
       /\ \A u \in Touch \ {c - 1} : q.state[u] = m.state[u] /\ q.fake[u] = m.fake[u]
  BY <1>3, <1>12, <1>15, BeginDoes
<1> HIDE DEF q
<1>17. \A t \in Ended \cup {c - 1} : q.fake[t]
  BY <1>4, <1>8, <1>11, <1>16
<1>18. \A u \in Touch \ (Ended \cup {c - 1}) : q.state[u] = r.state[u] /\ q.fake[u] = r.fake[u]
  BY <1>8, <1>11, <1>16
<1>19. LiveOf(q) = LiveOf(r) \cup (Ended \cup {c - 1})
  BY <1>13, <1>16
<1> QED
  BY <1>1, <1>3, <1>4, <1>16, <1>17, <1>18, <1>19 DEF Ended

(* touchpad_end_fake_touches: no invented touch of the tool is down. *)
LEMMA EndFakeDoes ==
    ASSUME DeviceType, NEW r \in TouchType, Counted(r), NEW c \in Tools, ~(maxtouches >= c)
    PROVE  LET q     == EndFakeTouches(r, c)
               Ended == {t \in 0 .. c - 1 : r.fake[t] /\ r.state[t] \in {"UPDATE", "BEGIN"}}
           IN  /\ q \in TouchType /\ Counted(q) /\ q.fake = r.fake
               /\ q.queued = TRUE \/ (q.state = r.state /\ q.queued = r.queued)
               /\ Ended \subseteq Touch
               /\ LiveOf(q) = LiveOf(r) \ Ended
               /\ \A t \in Ended : q.state[t] = "END"
               /\ \A u \in Touch \ Ended : q.state[u] = r.state[u]
<1> DEFINE Ended == {t \in 0 .. c - 1 : r.fake[t] /\ r.state[t] \in {"UPDATE", "BEGIN"}}
           state == [t \in Touch |-> IF t \in Ended THEN "END" ELSE r.state[t]]
           down  == r.fingers_down - Cardinality(Ended)
           queued == (r.queued \/ Ended # {})
           q     == [r EXCEPT !.state = state, !.fingers_down = down, !.queued = queued]
<1>1. EndFakeTouches(r, c) = q
  BY DEF EndFakeTouches, EndAll
<1>2. c \in 2 .. 4 /\ c <= ntouches /\ ntouches \in Nat
  BY Sizes, ToolsAssumption
<1>3. 0 .. c - 1 \subseteq Touch
  BY <1>2 DEF Touch
<1>4. Ended \subseteq Touch /\ Ended \subseteq LiveOf(r)
  BY <1>3 DEF LiveOf
<1>5. IsFiniteSet(LiveOf(r)) /\ Cardinality(LiveOf(r)) \in Nat
  BY LiveFinite
<1>6. IsFiniteSet(Ended) /\ Cardinality(Ended) \in Nat
  <2>1. IsFiniteSet(Ended)
    BY <1>4, <1>5, FS_Subset
  <2> QED
    BY <2>1, FS_CardinalityType
<1> HIDE DEF Ended
<1>7. r.state \in [Touch -> States] /\ r.fake \in [Touch -> BOOLEAN] /\ r.fingers_down \in Int
      /\ r.queued \in BOOLEAN
  BY DEF TouchType
<1>8. state \in [Touch -> States] /\ down \in Int /\ queued \in BOOLEAN
  BY <1>6, <1>7 DEF States
<1>9. /\ \A t \in Ended : state[t] = "END"
      /\ \A t \in Touch \ Ended : state[t] = r.state[t]
      /\ Ended = {} => state = r.state
  BY <1>4, <1>7
<1>10. /\ down = r.fingers_down - Cardinality(Ended)
       /\ queued = TRUE \/ (Ended = {} /\ queued = r.queued)
  BY <1>7
<1> HIDE DEF state, down, queued
<1>11. q = [state |-> state, fake |-> r.fake, fingers_down |-> down, queued |-> queued]
  <2>1. r = [state |-> r.state, fake |-> r.fake,
             fingers_down |-> r.fingers_down, queued |-> r.queued]
    BY DEF TouchType
  <2>2. q = [r EXCEPT !.state = state, !.fingers_down = down, !.queued = queued]
    OBVIOUS
  <2> HIDE DEF q
  <2> QED
    BY <2>1, <2>2
<1> HIDE DEF q
<1>12. q.state = state /\ q.fake = r.fake /\ q.fingers_down = down /\ q.queued = queued
  BY <1>11
<1>13. q \in TouchType
  BY <1>7, <1>8, <1>11 DEF TouchType
<1>14. LiveOf(q) = LiveOf(r) \ Ended
  BY <1>4, <1>9, <1>12 DEF LiveOf
<1>15. Counted(q)
  <2>1. /\ Cardinality(LiveOf(r) \ Ended)
              = Cardinality(LiveOf(r)) - Cardinality(LiveOf(r) \cap Ended)
    BY <1>5, <1>6, FS_Difference
  <2>2. LiveOf(r) \cap Ended = Ended
    BY <1>4
  <2> QED
    BY <1>10, <1>12, <1>14, <2>1, <2>2 DEF Counted
<1> QED
  BY <1>1, <1>4, <1>9, <1>10, <1>12, <1>13, <1>14, <1>15 DEF Ended


(* touchpad_post_process_touches: the same touches are down, calmly. *)
LEMMA PostProcessDoes ==
    ASSUME DeviceType, tp \in TouchType, Counted(tp)
    PROVE  LET q == PostProcess
           IN  /\ q \in TouchType /\ Counted(q) /\ q.queued = FALSE
               /\ LiveOf(q) = LiveOf(tp)
               /\ \A t \in Touch : /\ q.state[t] \in {"NONE", "UPDATE"}
                                   /\ q.fake[t] <=> tp.fake[t] /\ tp.state[t] # "END"
<1> DEFINE state == [t \in Touch |-> CASE tp.state[t] = "END"   -> "NONE"
                                       [] tp.state[t] = "BEGIN" -> "UPDATE"
                                       [] OTHER                 -> tp.state[t]]
           fake == [t \in Touch |-> tp.fake[t] /\ tp.state[t] # "END"]
           q == [tp EXCEPT !.state = state, !.fake = fake, !.queued = FALSE]
<1>1. PostProcess = q
  BY DEF PostProcess
<1>2. /\ tp.state \in [Touch -> States] /\ tp.fake \in [Touch -> BOOLEAN]
      /\ tp.fingers_down \in Int
  BY DEF TouchType
<1>3. ASSUME NEW t \in Touch
      PROVE  /\ state[t] \in {"NONE", "UPDATE"}
             /\ state[t] = "UPDATE" <=> tp.state[t] \in {"BEGIN", "UPDATE"}
             /\ fake[t] <=> tp.fake[t] /\ tp.state[t] # "END"
  <2>1. tp.state[t] \in States
    BY <1>2
  <2>2. CASE tp.state[t] = "END"
    BY <2>2
  <2>3. CASE tp.state[t] = "BEGIN"
    BY <2>3
  <2>4. CASE tp.state[t] = "NONE" \/ tp.state[t] = "UPDATE"
    BY <2>4
  <2> QED
    BY <2>1, <2>2, <2>3, <2>4 DEF States
<1>4. state \in [Touch -> States] /\ fake \in [Touch -> BOOLEAN]
  <2>1. \A t \in Touch : state[t] \in States
    BY <1>3 DEF States
  <2> QED
    BY <2>1
<1> HIDE DEF state, fake
<1>5. q = [state |-> state, fake |-> fake, fingers_down |-> tp.fingers_down, queued |-> FALSE]
  <2>1. tp = [state |-> tp.state, fake |-> tp.fake,
              fingers_down |-> tp.fingers_down, queued |-> tp.queued]
    BY DEF TouchType
  <2>2. q = [tp EXCEPT !.state = state, !.fake = fake, !.queued = FALSE]
    OBVIOUS
  <2> HIDE DEF q
  <2> QED
    BY <2>1, <2>2
<1> HIDE DEF q
<1>6. /\ q.state = state /\ q.fake = fake /\ q.fingers_down = tp.fingers_down
      /\ q.queued = FALSE
  BY <1>5
<1>7. q \in TouchType
  BY <1>2, <1>4, <1>5 DEF TouchType
<1>8. LiveOf(q) = LiveOf(tp)
  <2>1. \A t \in Touch : q.state[t] \in {"BEGIN", "UPDATE"} <=> tp.state[t] \in {"BEGIN", "UPDATE"}
    BY <1>3, <1>6
  <2> QED
    BY <2>1 DEF LiveOf
<1>9. Counted(q)
  BY <1>6, <1>8 DEF Counted
<1> QED
  BY <1>1, <1>3, <1>6, <1>7, <1>8, <1>9

----------------------------------------------------------------------------
(* The invariants *)

Calm(t) == tp.state[t] \in {"NONE", "UPDATE"}

(* A touch changes once in a frame, but for what the tools correct. *)
TouchInv ==
    /\ tp \in TouchType /\ Counted(tp) /\ slot = 0
    /\ pc = "poll" => ~tp.queued
    /\ ~tp.queued => \A t \in Touch : Calm(t)
    /\ NoSlots /\ (\E e \in Pending : e.code = "BTN_TOUCH") => \A t \in Touch : Calm(t)
    /\ \A e \in Pending : e.code = "ABS_MT_TRACKING_ID" => Calm(e.arg)

(* The touch of a slot is down when the slot has a contact, or will be told. *)
SlotInv ==
    \A s \in Slots :
        /\ ~tp.fake[s]
        /\ (s \in LiveOf(tp) <=> s \in contact) \/ Track(s, s \in contact) \in Pending

(* An invented touch has a finger, or an event will end it. *)
GhostInv ==
    \A t \in LiveOf(tp) \ Slots :
        /\ tp.fake[t]
        /\ \/ t < fingers
           \/ \E c \in Tools : c > t /\ Off(c) \in Pending
           \/ t = 0 /\ Button(FALSE) \in Pending

(* A finger beyond the slots has a touch, or an event will begin it. *)
ArrivalInv ==
    one_by_one =>
        /\ fingers > 0 => OffsFirst(frame, fingers)
        /\ \A t \in Touch \ Slots : t < fingers =>
              \/ t \in LiveOf(tp)
              \/ t = 0 /\ Button(TRUE) \in Pending
              \/ On(fingers) \in Pending /\ (t = fingers - 1 \/ tp.state[t] = "END")

FakeInv == KernelInv /\ TouchInv /\ SlotInv /\ (ToolsInARow => GhostInv /\ ArrivalInv)

(* The places of the touches are fixed. *)
LEMMA SamePlaces ==
    ASSUME UNCHANGED maxtouches
    PROVE  /\ Touch' = Touch /\ Slots' = Slots /\ NoSlots' = NoSlots
           /\ TouchType' = TouchType /\ LiveOf(tp)' = LiveOf(tp')
           /\ Counted(tp)' <=> Counted(tp')
<1>1. Touch' = Touch /\ Slots' = Slots /\ NoSlots' = NoSlots
  BY DEF Touch, ntouches, Slots, NoSlots
<1>2. TouchType' = TouchType /\ LiveOf(tp)' = LiveOf(tp')
  BY <1>1 DEF TouchType, LiveOf
<1> QED
  BY <1>1, <1>2 DEF Counted

(* What reading the event e does to the touches. *)
Reads(e) ==
    /\ tp' \in TouchType /\ Counted(tp')
    /\ tp'.queued = TRUE \/ (tp'.state = tp.state /\ tp'.queued = tp.queued)
    /\ \A s \in Slots : IF e.code = "ABS_MT_TRACKING_ID" /\ e.arg = s
                        THEN (s \in LiveOf(tp') <=> s \in contact) /\ ~tp'.fake[s]
                        ELSE tp'.state[s] = tp.state[s] /\ tp'.fake[s] = tp.fake[s]

ReadsNoGhost(e) ==
    \A t \in LiveOf(tp') \ Slots :
        /\ tp'.fake[t]
        /\ \/ t < fingers
           \/ /\ t \in LiveOf(tp)
              /\ t = 0 => e # Button(FALSE)
              /\ \A c \in Tools : c > t => e # Off(c)

ReadsArrivals(e) ==
    one_by_one =>
        \A t \in Touch \ Slots : t < fingers =>
            \/ t \in LiveOf(tp')
            \/ t \notin LiveOf(tp) /\ tp'.state[t] = tp.state[t]
                  /\ e # On(fingers) /\ (t = 0 => e # Button(TRUE))
            \/ tp'.state[t] = "END" /\ On(fingers) \in Pending'
            \/ t = 0 /\ Button(TRUE) \in Pending'

(* An event that is read so keeps the account. *)
LEMMA ReadInv ==
    ASSUME FakeInv, pc = "read", frame # <<>>, frame' = Tail(frame), Reads(Head(frame)),
           ToolsInARow => ReadsNoGhost(Head(frame)) /\ ReadsArrivals(Head(frame)),
           UNCHANGED <<maxtouches, slot, kernelVars, pc>>
    PROVE  FakeInv'
<1> DEFINE e == Head(frame)
<1>0. UNCHANGED <<fingers, contact, one_by_one, maxtouches>> /\ pc' = "read"
  BY DEF kernelVars
<1>1. /\ KernelInv' /\ e \in Pending /\ Pending' = Pending \ {e}
      /\ NoSlots => \A x \in Pending' : x.code # "BTN_TOUCH"
      /\ \A n \in Nat : OffsFirst(frame, n) => OffsFirst(frame', n)
  BY <1>0, ReadKernel DEF FakeInv
<1>2. /\ Touch' = Touch /\ Slots' = Slots /\ NoSlots' = NoSlots
      /\ TouchType' = TouchType /\ LiveOf(tp)' = LiveOf(tp')
      /\ Counted(tp)' <=> Counted(tp')
  BY SamePlaces
<1>3. Reads(e) /\ (ToolsInARow => ReadsNoGhost(e) /\ ReadsArrivals(e))
  OBVIOUS
<1>4. \A x \in Pending : x.code = "ABS_MT_TRACKING_ID" =>
          x.arg \in Slots /\ x = Track(x.arg, x.arg \in contact)
  BY DEF FakeInv, KernelInv
<1> HIDE DEF e
<1>5. \A s \in Slots : e.code = "ABS_MT_TRACKING_ID" /\ e.arg = s =>
          e = Track(s, s \in contact)
  BY <1>1, <1>4
<1>6. \A s \in Slots : ~(e.code = "ABS_MT_TRACKING_ID" /\ e.arg = s) =>
          e # Track(s, s \in contact)
  BY DEF Track, Event
<1>7. TouchInv'
  <2>1. (tp \in TouchType)' /\ Counted(tp)' /\ slot' = 0
    BY <1>2, <1>3 DEF Reads, FakeInv, TouchInv
  <2>2. ASSUME ~tp'.queued, NEW t \in Touch PROVE Calm(t)'
    BY <1>3, <2>2 DEF Reads, FakeInv, TouchInv, Calm
  <2>3. ASSUME NEW x \in Pending', x.code = "ABS_MT_TRACKING_ID" PROVE Calm(x.arg)'
    <3>1. x \in Pending /\ x # e /\ x.arg \in Slots /\ x = Track(x.arg, x.arg \in contact)
      BY <1>1, <1>4, <2>3
    <3>2. ~(e.code = "ABS_MT_TRACKING_ID" /\ e.arg = x.arg)
      BY <1>5, <3>1
    <3>3. tp'.state[x.arg] = tp.state[x.arg]
      BY <1>3, <3>1, <3>2 DEF Reads
    <3> QED
      BY <2>3, <3>1, <3>3 DEF FakeInv, TouchInv, Calm
  <2> QED
    BY <1>0, <1>1, <1>2, <2>1, <2>2, <2>3 DEF TouchInv
<1>8. SlotInv'
  <2> SUFFICES ASSUME NEW s \in Slots
               PROVE  /\ ~tp'.fake[s]
                      /\ \/ s \in LiveOf(tp') <=> s \in contact
                         \/ Track(s, s \in contact) \in Pending'
    BY <1>0, <1>2 DEF SlotInv
  <2>1. CASE e.code = "ABS_MT_TRACKING_ID" /\ e.arg = s
    BY <1>3, <2>1 DEF Reads
  <2>2. CASE ~(e.code = "ABS_MT_TRACKING_ID" /\ e.arg = s)
    <3>1. tp'.state[s] = tp.state[s] /\ tp'.fake[s] = tp.fake[s]
      BY <1>3, <2>2 DEF Reads
    <3>2. s \in LiveOf(tp') <=> s \in LiveOf(tp)
      BY <3>1 DEF LiveOf
    <3>3. ~tp.fake[s] /\ ((s \in LiveOf(tp) <=> s \in contact)
                             \/ Track(s, s \in contact) \in Pending)
      BY DEF FakeInv, SlotInv
    <3> QED
      BY <1>1, <1>6, <2>2, <3>1, <3>2, <3>3
  <2> QED
    BY <2>1, <2>2
<1>9. ToolsInARow => GhostInv'
  <2> SUFFICES ASSUME ToolsInARow, NEW t \in LiveOf(tp') \ Slots
               PROVE  /\ tp'.fake[t]
                      /\ \/ t < fingers
                         \/ \E c \in Tools : c > t /\ Off(c) \in Pending'
                         \/ t = 0 /\ Button(FALSE) \in Pending'
    BY <1>0, <1>2 DEF GhostInv
  <2>1. tp'.fake[t]
    BY <1>3 DEF ReadsNoGhost
  <2>2. CASE t < fingers
    BY <2>1, <2>2
  <2>3. CASE ~(t < fingers)
    <3>1. /\ t \in LiveOf(tp) /\ (t = 0 => e # Button(FALSE))
          /\ \A c \in Tools : c > t => e # Off(c)
      BY <1>3, <2>3 DEF ReadsNoGhost
    <3>2. \/ \E c \in Tools : c > t /\ Off(c) \in Pending
          \/ t = 0 /\ Button(FALSE) \in Pending
      BY <2>3, <3>1 DEF FakeInv, GhostInv
    <3> QED
      BY <1>1, <2>1, <3>1, <3>2
  <2> QED
    BY <2>2, <2>3
<1>10. ToolsInARow => ArrivalInv'
  <2> SUFFICES ASSUME ToolsInARow, one_by_one
               PROVE  /\ fingers > 0 => OffsFirst(frame', fingers)
                      /\ \A t \in Touch \ Slots : t < fingers =>
                            \/ t \in LiveOf(tp')
                            \/ t = 0 /\ Button(TRUE) \in Pending'
                            \/ /\ On(fingers) \in Pending'
                               /\ t = fingers - 1 \/ tp'.state[t] = "END"
    BY <1>0, <1>2 DEF ArrivalInv
  <2>1. fingers > 0 => OffsFirst(frame', fingers)
    <3>1. fingers \in Nat
      <4>1. fingers \in 0 .. MaxFingers
        BY DEF FakeInv, KernelInv
      <4> QED
        BY <4>1
    <3> QED
      BY <1>1, <3>1 DEF FakeInv, ArrivalInv
  <2>2. ASSUME NEW t \in Touch \ Slots, t < fingers, t \notin LiveOf(tp'),
               ~(tp'.state[t] = "END" /\ On(fingers) \in Pending'),
               ~(t = 0 /\ Button(TRUE) \in Pending')
        PROVE  \/ t = 0 /\ Button(TRUE) \in Pending'
               \/ On(fingers) \in Pending' /\ (t = fingers - 1 \/ tp'.state[t] = "END")
    <3>1. /\ t \notin LiveOf(tp) /\ tp'.state[t] = tp.state[t]
          /\ e # On(fingers) /\ (t = 0 => e # Button(TRUE))
      BY <1>3, <2>2 DEF ReadsArrivals
    <3>2. \/ t = 0 /\ Button(TRUE) \in Pending
          \/ On(fingers) \in Pending /\ (t = fingers - 1 \/ tp.state[t] = "END")
      BY <2>2, <3>1 DEF FakeInv, ArrivalInv
    <3> QED
      BY <1>1, <3>1, <3>2
  <2> QED
    BY <2>1, <2>2
<1> QED
  BY <1>1, <1>7, <1>8, <1>9, <1>10 DEF FakeInv


----------------------------------------------------------------------------
(* The events *)

\* What is known of the event that is read.
LEMMA AtHead ==
    ASSUME FakeInv, frame # <<>>
    PROVE  LET e == Head(frame)
           IN  /\ e \in Pending /\ e \in Events
               /\ e.code = "ABS_MT_TRACKING_ID" =>
                     e.arg \in Slots /\ e = Track(e.arg, e.arg \in contact) /\ Calm(e.arg)
               /\ e.code = "BTN_TOUCH" => e = Button(fingers > 0)
               /\ e.code = "BTN_TOOL" =>
                     e.arg \in Tools /\ e = Event("BTN_TOOL", e.arg, fingers = e.arg)
<1>1. frame \in Seq(Events)
  BY DEF FakeInv, KernelInv
<1>2. Head(frame) \in Pending /\ Head(frame) \in Events
  <2>1. 1 \in 1 .. Len(frame) /\ Head(frame) = frame[1] /\ frame[1] \in Events
    BY <1>1
  <2> QED
    BY <2>1 DEF Pending, Elems
<1> QED
  BY <1>2 DEF FakeInv, KernelInv, TouchInv

(* A tracking id: its slot has been told. *)
LEMMA ReadTrack ==
    ASSUME FakeInv, AbsMtTrackingId
    PROVE  FakeInv'
<1> DEFINE e == Head(frame)
<1>1. /\ pc = "read" /\ frame # <<>> /\ e.code = "ABS_MT_TRACKING_ID"
      /\ frame' = Tail(frame) /\ UNCHANGED <<maxtouches, slot, kernelVars, pc>>
      /\ tp' = IF e.value THEN Begin(tp, e.arg, FALSE) ELSE End(tp, e.arg)
  BY DEF AbsMtTrackingId, Reading, Handle, Value, Arg
<1>2. e.arg \in Slots /\ e = Track(e.arg, e.arg \in contact) /\ Calm(e.arg)
  BY <1>1, AtHead
<1>3. /\ DeviceType /\ tp \in TouchType /\ Counted(tp)
      /\ \A s \in Slots : ~tp.fake[s]
  BY DEF FakeInv, KernelInv, TouchInv, SlotInv
<1>4. Slots \subseteq Touch /\ e.arg \in Touch
  <2>1. Slots \subseteq Touch
    BY <1>3, Sizes
  <2> QED
    BY <1>2, <2>1
<1> HIDE DEF e
<1>5. e.value <=> e.arg \in contact
  <2> DEFINE a == e.arg
  <2>1. e = Track(a, a \in contact)
    BY <1>2
  <2> HIDE DEF a
  <2>2. \A x \in BOOLEAN : e = Track(a, x) => e.value = x
    BY DEF Track, Event
  <2>3. CASE a \in contact
    <3>1. e = Track(a, TRUE)
      BY <2>1, <2>3
    <3> QED
      BY <2>2, <2>3, <3>1 DEF a
  <2>4. CASE a \notin contact
    <3>0. (a \in contact) = FALSE
      BY <2>4
    <3>1. e = Track(a, FALSE)
      BY <2>1, <3>0
    <3> QED
      BY <2>2, <2>4, <3>1 DEF a
  <2> QED
    BY <2>3, <2>4
<1>6. /\ tp' \in TouchType /\ Counted(tp')
      /\ tp'.queued = TRUE \/ tp' = tp
      /\ e.arg \in LiveOf(tp') <=> e.arg \in contact
      /\ LiveOf(tp') \cup {e.arg} = LiveOf(tp) \cup {e.arg}
      /\ ~tp'.fake[e.arg]
      /\ \A u \in Touch \ {e.arg} : tp'.state[u] = tp.state[u] /\ tp'.fake[u] = tp.fake[u]
  <2>1. CASE e.arg \in contact
    <3>1. tp' = Begin(tp, e.arg, FALSE)
      BY <1>1, <1>5, <2>1
    <3> DEFINE q == Begin(tp, e.arg, FALSE)
    <3>2. /\ q \in TouchType /\ Counted(q) /\ q.queued = TRUE
          /\ LiveOf(q) = LiveOf(tp) \cup {e.arg}
          /\ q.fake[e.arg] = FALSE
          /\ \A u \in Touch \ {e.arg} : q.state[u] = tp.state[u] /\ q.fake[u] = tp.fake[u]
      BY <1>3, <1>4, BeginDoes
    <3> HIDE DEF q
    <3>3. tp' = q
      BY <3>1 DEF q
    <3> QED
      BY <2>1, <3>2, <3>3
  <2>2. CASE e.arg \notin contact
    <3>1. tp' = End(tp, e.arg) /\ tp.state[e.arg] # "END"
      BY <1>1, <1>2, <1>5, <2>2 DEF Calm
    <3> DEFINE q == End(tp, e.arg)
    <3>2. /\ q \in TouchType /\ Counted(q) /\ q.fake = tp.fake
          /\ q.queued = TRUE \/ q = tp
          /\ LiveOf(q) = LiveOf(tp) \ {e.arg}
          /\ \A u \in Touch \ {e.arg} : q.state[u] = tp.state[u]
      BY <1>3, <1>4, <3>1, EndDoes
    <3> HIDE DEF q
    <3>3. tp' = q
      BY <3>1 DEF q
    <3> QED
      BY <1>2, <1>3, <2>2, <3>2, <3>3
  <2> QED
    BY <2>1, <2>2
<1>7. Reads(e)
  BY <1>1, <1>4, <1>6 DEF Reads
<1>8. e # Button(TRUE) /\ e # Button(FALSE) /\ \A c : e # Off(c) /\ e # On(c)
  BY <1>1 DEF Button, Off, On, Event
<1>9. ToolsInARow => ReadsNoGhost(e)
  <2> SUFFICES ASSUME ToolsInARow, NEW t \in LiveOf(tp') \ Slots
               PROVE  /\ tp'.fake[t] /\ t \in LiveOf(tp)
                      /\ e # Button(FALSE) /\ \A c \in Tools : e # Off(c)
    BY DEF ReadsNoGhost
  <2>1. t \in LiveOf(tp) /\ t \in Touch \ {e.arg}
    BY <1>2, <1>6 DEF LiveOf
  <2>2. tp.fake[t]
    BY <2>1 DEF FakeInv, GhostInv
  <2> QED
    BY <1>6, <1>8, <2>1, <2>2
<1>10. ToolsInARow => ReadsArrivals(e)
  <2> SUFFICES ASSUME NEW t \in Touch \ Slots, t \notin LiveOf(tp')
               PROVE  /\ t \notin LiveOf(tp) /\ tp'.state[t] = tp.state[t]
                      /\ e # On(fingers) /\ e # Button(TRUE)
    BY DEF ReadsArrivals
  <2>1. t # e.arg
    BY <1>2
  <2> QED
    BY <1>6, <1>8, <2>1
<1> QED
  BY <1>1, <1>7, <1>9, <1>10, ReadInv DEF e

(* BTN_TOUCH: the one touch of a device without slots. *)
LEMMA ReadTouch ==
    ASSUME FakeInv, BtnTouch
    PROVE  FakeInv'
<1> DEFINE e == Head(frame)
<1>0. slot = 0 /\ ~NoCurrentTouch
  BY DEF FakeInv, TouchInv, NoCurrentTouch
<1>1. /\ pc = "read" /\ frame # <<>> /\ e.code = "BTN_TOUCH"
      /\ frame' = Tail(frame) /\ UNCHANGED <<maxtouches, slot, kernelVars, pc>>
      /\ tp' = IF ~NoSlots THEN tp ELSE IF e.value THEN Begin(tp, 0, TRUE) ELSE End(tp, 0)
  BY <1>0 DEF BtnTouch, Reading, Handle, Value
<1>2. e = Button(fingers > 0) /\ e \in Pending
  BY <1>1, AtHead
<1>3. DeviceType /\ tp \in TouchType /\ Counted(tp) /\ fingers \in 0 .. MaxFingers
  BY DEF FakeInv, KernelInv, TouchInv
<1>4. /\ 0 \in Touch /\ Touch \subseteq Nat /\ fingers \in Nat
      /\ NoSlots => Slots = {}
      /\ ~NoSlots => 0 \in Slots
  <2>1. /\ ntouches \in Nat \ {0} /\ maxtouches \in Int /\ (maxtouches = -1 \/ maxtouches >= 1)
        /\ Touch \subseteq Nat
    BY <1>3, Sizes
  <2> QED
    BY <1>3, <2>1 DEF Touch, Slots, NoSlots
<1> HIDE DEF e
<1>5. e.value <=> fingers > 0
  BY <1>2 DEF Button, Event
<1>6. CASE ~NoSlots
  <2>1. tp' = tp
    BY <1>1, <1>6
  <2>2. Reads(e)
    BY <1>1, <1>3, <2>1 DEF Reads
  <2>3. \A c : e # Off(c) /\ e # On(c)
    BY <1>1 DEF Off, On, Event
  <2>4. ToolsInARow => ReadsNoGhost(e) /\ ReadsArrivals(e)
    <3> SUFFICES ASSUME ToolsInARow PROVE ReadsNoGhost(e) /\ ReadsArrivals(e)
      OBVIOUS
    <3>1. \A t \in LiveOf(tp) \ Slots : tp.fake[t] /\ t # 0
      BY <1>4, <1>6 DEF FakeInv, GhostInv
    <3>2. ReadsNoGhost(e)
      BY <2>1, <2>3, <3>1 DEF ReadsNoGhost
    <3>3. \A t \in Touch \ Slots : t # 0
      BY <1>4, <1>6
    <3>4. ReadsArrivals(e)
      BY <2>1, <2>3, <3>3 DEF ReadsArrivals
    <3> QED
      BY <3>2, <3>4
  <2> QED
    BY <1>1, <2>2, <2>4, ReadInv DEF e
<1>7. CASE NoSlots
  <2>1. /\ tp' \in TouchType /\ Counted(tp')
        /\ tp'.queued = TRUE \/ tp' = tp
        /\ 0 \in LiveOf(tp') <=> fingers > 0
        /\ LiveOf(tp') \cup {0} = LiveOf(tp) \cup {0}
        /\ fingers > 0 => tp'.fake[0]
        /\ \A u \in Touch \ {0} : tp'.state[u] = tp.state[u] /\ tp'.fake[u] = tp.fake[u]
    <3>1. CASE fingers > 0
      <4>1. tp' = Begin(tp, 0, TRUE)
        BY <1>1, <1>5, <1>7, <3>1
      <4> DEFINE q == Begin(tp, 0, TRUE)
      <4>2. /\ q \in TouchType /\ Counted(q) /\ q.queued = TRUE
            /\ LiveOf(q) = LiveOf(tp) \cup {0}
            /\ q.fake[0] = TRUE
            /\ \A u \in Touch \ {0} : q.state[u] = tp.state[u] /\ q.fake[u] = tp.fake[u]
        BY <1>3, <1>4, BeginDoes
      <4> HIDE DEF q
      <4>3. tp' = q
        BY <4>1 DEF q
      <4> QED
        BY <3>1, <4>2, <4>3
    <3>2. CASE ~(fingers > 0)
      <4>0. Calm(0)
        BY <1>1, <1>2, <1>4, <1>7 DEF FakeInv, TouchInv
      <4>1. tp' = End(tp, 0) /\ tp.state[0] # "END"
        BY <1>1, <1>5, <1>7, <3>2, <4>0 DEF Calm
      <4>2. /\ tp' \in TouchType /\ Counted(tp') /\ tp'.fake = tp.fake
            /\ tp'.queued = TRUE \/ tp' = tp
            /\ LiveOf(tp') = LiveOf(tp) \ {0}
            /\ \A u \in Touch \ {0} : tp'.state[u] = tp.state[u]
        BY <1>3, <1>4, <4>1, EndDoes
      <4> QED
        BY <3>2, <4>2
    <3> QED
      BY <3>1, <3>2
  <2>2. Reads(e)
    BY <1>4, <1>7, <2>1 DEF Reads
  <2>3. \A c : e # Off(c) /\ e # On(c)
    BY <1>1 DEF Off, On, Event
  <2>4. ToolsInARow => ReadsNoGhost(e)
    <3> SUFFICES ASSUME ToolsInARow, NEW t \in LiveOf(tp')
                 PROVE  tp'.fake[t] /\ (t < fingers \/ (t \in LiveOf(tp) /\ t # 0))
      BY <2>3 DEF ReadsNoGhost
    <3>1. CASE t = 0
      BY <1>4, <2>1, <3>1
    <3>2. CASE t # 0
      <4>1. t \in LiveOf(tp) /\ t \in Touch \ {0}
        BY <2>1, <3>2 DEF LiveOf
      <4>2. tp.fake[t]
        BY <1>4, <1>7, <4>1 DEF FakeInv, GhostInv
      <4> QED
        BY <2>1, <3>2, <4>1, <4>2
    <3> QED
      BY <3>1, <3>2
  <2>5. ToolsInARow => ReadsArrivals(e)
    <3> SUFFICES ASSUME NEW t \in Touch, t < fingers, t \notin LiveOf(tp')
                 PROVE  t \notin LiveOf(tp) /\ tp'.state[t] = tp.state[t] /\ t # 0
      BY <2>3 DEF ReadsArrivals
    <3>1. t # 0
      BY <1>4, <2>1
    <3> QED
      BY <2>1, <3>1
  <2> QED
    BY <1>1, <2>2, <2>4, <2>5, ReadInv DEF e
<1> QED
  BY <1>6, <1>7

(* A position: no touch begins or ends. *)
LEMMA ReadPosition ==
    ASSUME FakeInv, AbsPosition
    PROVE  FakeInv'
<1> DEFINE e == Head(frame)
<1>0. slot = 0 /\ ~NoCurrentTouch
  BY DEF FakeInv, TouchInv, NoCurrentTouch
<1>1. /\ pc = "read" /\ frame # <<>> /\ e.code = "POSITION"
      /\ frame' = Tail(frame) /\ UNCHANGED <<maxtouches, slot, kernelVars, pc>>
      /\ tp' = [tp EXCEPT !.queued = TRUE]
  BY <1>0 DEF AbsPosition, Reading, Handle
<1> HIDE DEF e
<1>2. tp \in TouchType /\ Counted(tp)
  BY DEF FakeInv, TouchInv
<1>3. /\ tp'.state = tp.state /\ tp'.fake = tp.fake /\ tp'.queued = TRUE
      /\ tp'.fingers_down = tp.fingers_down /\ tp' \in TouchType
  BY <1>1, <1>2 DEF TouchType
<1>4. LiveOf(tp') = LiveOf(tp)
  BY <1>3 DEF LiveOf
<1>5. Counted(tp')
  BY <1>2, <1>3, <1>4 DEF Counted
<1>6. Reads(e)
  BY <1>1, <1>3, <1>5 DEF Reads
<1>7. e # Button(TRUE) /\ e # Button(FALSE) /\ \A c : e # Off(c) /\ e # On(c)
  BY <1>1 DEF Button, Off, On, Event
<1>8. ToolsInARow => ReadsNoGhost(e)
  <2> SUFFICES ASSUME ToolsInARow, NEW t \in LiveOf(tp) \ Slots PROVE tp.fake[t]
    BY <1>3, <1>4, <1>7 DEF ReadsNoGhost
  <2> QED
    BY DEF FakeInv, GhostInv
<1>9. ReadsArrivals(e)
  BY <1>3, <1>4, <1>7 DEF ReadsArrivals
<1> QED
  BY <1>1, <1>6, <1>8, <1>9, ReadInv DEF e


(* A tool: it takes back what another has ended. *)
LEMMA ReadTool ==
    ASSUME FakeInv, BtnTool
    PROVE  FakeInv'
<1> DEFINE e == Head(frame)
           c == e.arg
<1>1. /\ pc = "read" /\ frame # <<>> /\ e.code = "BTN_TOOL"
      /\ frame' = Tail(frame) /\ UNCHANGED <<maxtouches, slot, kernelVars, pc>>
      /\ tp' = IF e.value THEN BeginFakeTouches(tp, c) ELSE EndFakeTouches(tp, c)
  BY DEF BtnTool, Reading, Handle, Value, Arg
<1>2. c \in Tools /\ e = Event("BTN_TOOL", c, fingers = c) /\ e \in Pending
  BY <1>1, AtHead
<1>3. /\ DeviceType /\ tp \in TouchType /\ Counted(tp) /\ fingers \in 0 .. MaxFingers
      /\ contact \subseteq Slots
      /\ NoSlots \/ Cardinality(contact) = IF fingers < maxtouches THEN fingers ELSE maxtouches
      /\ \A s \in Slots : ~tp.fake[s]
  BY DEF FakeInv, KernelInv, TouchInv, SlotInv
<1>4. /\ Slots \subseteq Touch /\ Touch \subseteq Nat /\ IsFiniteSet(Slots)
      /\ maxtouches \in Int /\ c \in Nat /\ fingers \in Nat
      /\ NoSlots => Slots = {}
      /\ ~NoSlots => Cardinality(Slots) = maxtouches
      /\ \A t \in Slots : t < maxtouches
      /\ \A t \in Touch \ Slots : t >= maxtouches
  <2>1. /\ Slots \subseteq Touch /\ Touch \subseteq Nat /\ IsFiniteSet(Slots)
        /\ maxtouches \in Int
        /\ ~NoSlots => Cardinality(Slots) = maxtouches
    BY <1>3, Sizes
  <2>2. NoSlots => Slots = {}
    BY DEF NoSlots, Slots
  <2>3. c \in Nat /\ fingers \in Nat
    <3>1. c \in 2 .. 4
      BY <1>2, ToolsAssumption
    <3> QED
      BY <1>3, <3>1
  <2>4. ASSUME NEW t \in Touch PROVE t \in Slots <=> t < maxtouches
    BY <2>1, <2>4 DEF Slots
  <2> QED
    BY <2>1, <2>2, <2>3, <2>4
<1>5. Pending' = Pending \ {e}
  <2>1. UNCHANGED <<kernelVars, maxtouches>> /\ pc' = "read"
    BY <1>1
  <2> QED
    BY <1>1, <2>1, ReadKernel DEF FakeInv
<1> HIDE DEF e
<1>6. /\ e.value = TRUE => fingers = c
      /\ e.value # TRUE => fingers # c /\ e.value = FALSE
      /\ \A k : e = Off(k) => k = c /\ e.value = FALSE
      /\ \A k : e = On(k) => k = c /\ e.value = TRUE
      /\ e # Button(TRUE) /\ e # Button(FALSE)
  <2>1. CASE fingers = c
    <3>1. e = Event("BTN_TOOL", c, TRUE)
      BY <1>2, <2>1
    <3> HIDE DEF c
    <3> QED
      BY <2>1, <3>1 DEF Event, Off, On, Button
  <2>2. CASE fingers # c
    <3>0. (fingers = c) = FALSE
      BY <2>2
    <3>1. e = Event("BTN_TOOL", c, FALSE)
      BY <1>2, <3>0
    <3> HIDE DEF c
    <3> QED
      BY <2>2, <3>1 DEF Event, Off, On, Button
  <2> QED
    BY <2>1, <2>2
<1>7. ASSUME Reads(e), ToolsInARow => ReadsNoGhost(e) /\ ReadsArrivals(e)
      PROVE  FakeInv'
  BY <1>1, <1>7, ReadInv DEF e
<1>8. CASE maxtouches >= c
  <2>1. tp' = tp
    BY <1>1, <1>8 DEF BeginFakeTouches, EndFakeTouches
  <2>2. Reads(e)
    BY <1>1, <1>3, <2>1 DEF Reads
  <2>3. ToolsInARow => ReadsNoGhost(e)
    <3> SUFFICES ASSUME ToolsInARow, NEW t \in LiveOf(tp) \ Slots
                 PROVE  /\ tp.fake[t] /\ e # Button(FALSE)
                        /\ \A k \in Tools : k > t => e # Off(k)
      BY <2>1 DEF ReadsNoGhost
    <3>1. tp.fake[t] /\ t \in Touch \ Slots
      BY DEF FakeInv, GhostInv, LiveOf
    <3>2. t >= c /\ t \in Nat
      BY <1>4, <1>8, <3>1
    <3>3. ~(c > t)
      BY <1>4, <3>2
    <3>4. \A k : e = Off(k) => ~(k > t)
      BY <1>6, <3>3
    <3> QED
      BY <1>6, <3>1, <3>4
  <2>4. ToolsInARow => ReadsArrivals(e)
    <3> SUFFICES ASSUME ToolsInARow, NEW t \in Touch \ Slots, t < fingers
                 PROVE  e # On(fingers) /\ e # Button(TRUE)
      BY <2>1 DEF ReadsArrivals
    <3>1. t >= c /\ t \in Nat
      BY <1>4, <1>8
    <3>2. fingers # c
      BY <1>4, <3>1
    <3> QED
      BY <1>6, <3>2
  <2> QED
    BY <1>7, <2>2, <2>3, <2>4
<1>9. CASE ~(maxtouches >= c) /\ e.value = TRUE
  <2> DEFINE q == BeginFakeTouches(tp, c)
             Begun == {t \in 0 .. c - 1 : tp.state[t] = "END"} \cup {c - 1}
  <2>1. tp' = q
    BY <1>1, <1>9
  <2>2. /\ q \in TouchType /\ Counted(q) /\ q.queued = TRUE
        /\ Begun \subseteq Touch
        /\ LiveOf(q) = LiveOf(tp) \cup Begun
        /\ \A t \in Begun : q.fake[t]
        /\ \A u \in Touch \ Begun : q.state[u] = tp.state[u] /\ q.fake[u] = tp.fake[u]
    BY <1>2, <1>3, <1>9, BeginFakeDoes
  <2> HIDE DEF q
  <2>3. \A t \in Begun : t < c
    BY <1>4
  <2>4. \A t \in Touch : t < c /\ tp.state[t] = "END" => t \in Begun
    BY <1>4
  <2>5. \A t \in Touch : t = c - 1 => t \in Begun
    OBVIOUS
  <2>6. \A s \in Slots : s \in Begun => tp.state[s] = "END"
    BY <1>4, <1>9
  <2> HIDE DEF Begun
  <2>7. \A s \in Slots : tp.state[s] # "END"
    <3> SUFFICES ASSUME NEW s \in Slots PROVE tp.state[s] # "END"
      OBVIOUS
    <3>1. ~NoSlots /\ ~(fingers < maxtouches)
      BY <1>4, <1>6, <1>9
    <3>2. contact = Slots
      BY <1>3, <1>4, <3>1, FS_Subset
    <3>3. s \in LiveOf(tp) \/ Track(s, TRUE) \in Pending
      BY <3>2 DEF FakeInv, SlotInv
    <3>4. Track(s, TRUE) \in Pending => Calm(s)
      <4>1. Track(s, TRUE).code = "ABS_MT_TRACKING_ID" /\ Track(s, TRUE).arg = s
        BY DEF Track, Event
      <4> QED
        BY <4>1 DEF FakeInv, TouchInv
    <3> QED
      BY <3>3, <3>4 DEF LiveOf, Calm
  <2>8. Reads(e)
    <3>1. \A s \in Slots : s \in Touch \ Begun
      BY <1>4, <2>6, <2>7
    <3> QED
      BY <1>1, <2>1, <2>2, <3>1 DEF Reads
  <2>9. ToolsInARow => ReadsNoGhost(e)
    <3> SUFFICES ASSUME ToolsInARow, NEW t \in LiveOf(q) \ Slots
                 PROVE  /\ q.fake[t]
                        /\ \/ t < fingers
                           \/ /\ t \in LiveOf(tp) /\ e # Button(FALSE)
                              /\ \A k \in Tools : e # Off(k)
      BY <2>1 DEF ReadsNoGhost
    <3>1. CASE t \in Begun
      BY <1>6, <1>9, <2>2, <2>3, <3>1
    <3>2. CASE t \notin Begun
      <4>1. t \in LiveOf(tp) /\ t \in Touch \ Begun
        BY <2>2, <3>2 DEF LiveOf
      <4>2. tp.fake[t]
        BY <4>1 DEF FakeInv, GhostInv
      <4> QED
        BY <1>6, <1>9, <2>2, <4>1, <4>2
    <3> QED
      BY <3>1, <3>2
  <2>10. ToolsInARow => ReadsArrivals(e)
    <3> SUFFICES ASSUME ToolsInARow, one_by_one, NEW t \in Touch \ Slots, t < fingers
                 PROVE  t \in LiveOf(q) \/ (t = 0 /\ Button(TRUE) \in Pending')
      BY <2>1 DEF ReadsArrivals
    <3>1. fingers = c
      BY <1>6, <1>9
    <3>2. \/ t \in LiveOf(tp)
          \/ t = 0 /\ Button(TRUE) \in Pending
          \/ t = fingers - 1 \/ tp.state[t] = "END"
      BY DEF FakeInv, ArrivalInv
    <3>3. t = fingers - 1 \/ tp.state[t] = "END" => t \in Begun
      BY <2>4, <2>5, <3>1
    <3> QED
      BY <1>5, <1>6, <2>2, <3>2, <3>3
  <2> QED
    BY <1>7, <2>8, <2>9, <2>10
<1>10. CASE ~(maxtouches >= c) /\ e.value # TRUE
  <2> DEFINE q == EndFakeTouches(tp, c)
             Ended == {t \in 0 .. c - 1 : tp.fake[t] /\ tp.state[t] \in {"UPDATE", "BEGIN"}}
  <2>0. e.value = FALSE /\ fingers # c
    BY <1>6, <1>10
  <2>1. tp' = q
    BY <1>1, <2>0
  <2>2. /\ q \in TouchType /\ Counted(q) /\ q.fake = tp.fake
        /\ q.queued = TRUE \/ (q.state = tp.state /\ q.queued = tp.queued)
        /\ Ended \subseteq Touch
        /\ LiveOf(q) = LiveOf(tp) \ Ended
        /\ \A t \in Ended : q.state[t] = "END"
        /\ \A u \in Touch \ Ended : q.state[u] = tp.state[u]
    BY <1>2, <1>3, <1>10, EndFakeDoes
  <2> HIDE DEF q
  <2>3. \A t \in Ended : t \in LiveOf(tp) /\ tp.fake[t]
    BY <2>2 DEF LiveOf
  <2>4. \A t \in LiveOf(tp) : tp.fake[t] /\ t < c => t \in Ended
    BY <1>4 DEF LiveOf
  <2> HIDE DEF Ended
  <2>5. Reads(e)
    <3>1. \A s \in Slots : s \in Touch \ Ended
      BY <1>3, <1>4, <2>3
    <3> QED
      BY <1>1, <2>1, <2>2, <3>1 DEF Reads
  <2>6. ToolsInARow => ReadsNoGhost(e)
    <3> SUFFICES ASSUME ToolsInARow, NEW t \in LiveOf(q) \ Slots
                 PROVE  /\ q.fake[t] /\ t \in LiveOf(tp) /\ e # Button(FALSE)
                        /\ \A k \in Tools : k > t => e # Off(k)
      BY <2>1 DEF ReadsNoGhost
    <3>1. t \in LiveOf(tp) \ Slots /\ t \notin Ended /\ t \in Touch
      BY <2>2 DEF LiveOf
    <3>2. tp.fake[t]
      BY <3>1 DEF FakeInv, GhostInv
    <3>3. ~(c > t)
      BY <1>4, <2>4, <3>1, <3>2
    <3> QED
      BY <1>6, <2>2, <3>1, <3>2, <3>3
  <2>7. ToolsInARow => ReadsArrivals(e)
    <3> SUFFICES ASSUME ToolsInARow, one_by_one, NEW t \in Touch \ Slots, t < fingers
                 PROVE  \/ t \in LiveOf(q)
                        \/ t \notin LiveOf(tp) /\ q.state[t] = tp.state[t]
                              /\ e # On(fingers) /\ e # Button(TRUE)
                        \/ q.state[t] = "END" /\ On(fingers) \in Pending'
      BY <2>1 DEF ReadsArrivals
    <3>1. CASE t \in Ended
      <4>1. fingers > 0
        BY <1>4
      <4>2. OffsFirst(frame, fingers)
        BY <4>1 DEF FakeInv, ArrivalInv
      <4>3. frame \in Seq(Events)
        BY DEF FakeInv, KernelInv
      <4>4. 1 \in 1 .. Len(frame) /\ e = frame[1]
        BY <1>1, <4>3 DEF e
      <4>5. PICK j \in 1 + 1 .. Len(frame) : frame[j] = On(fingers)
        BY <1>1, <2>0, <4>2, <4>4 DEF OffsFirst
      <4>6. j \in 1 .. Len(frame)
        BY <4>4, <4>5
      <4>7. On(fingers) \in Pending
        BY <4>5, <4>6 DEF Pending, Elems
      <4>8. e # On(fingers)
        BY <1>6, <2>0
      <4> QED
        BY <1>5, <2>2, <3>1, <4>7, <4>8
    <3>2. CASE t \notin Ended
      BY <1>6, <2>0, <2>2, <3>2
    <3> QED
      BY <3>1, <3>2
  <2> QED
    BY <1>7, <2>5, <2>6, <2>7
<1> QED
  BY <1>8, <1>9, <1>10


----------------------------------------------------------------------------
(* The frames begin and end *)

(* An empty frame. *)
LEMMA NothingPending ==
    ASSUME frame = <<>>
    PROVE  Pending = {}
BY DEF Pending, Elems

(* A frame has been read. *)
LEMMA Settles ==
    ASSUME FakeInv, frame = <<>>
    PROVE  /\ \A s \in Slots : ~tp.fake[s] /\ (s \in LiveOf(tp) <=> s \in contact)
           /\ ToolsInARow => \A t \in LiveOf(tp) \ Slots : tp.fake[t] /\ t < fingers
           /\ ToolsInARow /\ one_by_one => \A t \in Touch \ Slots : t < fingers => t \in LiveOf(tp)
<1>1. Pending = {}
  BY NothingPending
<1>2. \A s \in Slots : ~tp.fake[s] /\ (s \in LiveOf(tp) <=> s \in contact)
  BY <1>1 DEF FakeInv, SlotInv
<1>3. ToolsInARow => \A t \in LiveOf(tp) \ Slots : tp.fake[t] /\ t < fingers
  BY <1>1 DEF FakeInv, GhostInv
<1>4. ToolsInARow /\ one_by_one => \A t \in Touch \ Slots : t < fingers => t \in LiveOf(tp)
  BY <1>1 DEF FakeInv, ArrivalInv
<1> QED
  BY <1>2, <1>3, <1>4

(* A frame comes: the touches wait for its events. *)
LEMMA FrameComes ==
    ASSUME FakeInv, pc = "poll", frame = <<>>, KernelInv', SlotsTold,
           ToolsInARow => LeavingTold /\ ArrivalInv',
           pc' = "read", UNCHANGED <<maxtouches, slot, tp>>
    PROVE  FakeInv'
<1>1. /\ \A s \in Slots : ~tp.fake[s] /\ (s \in LiveOf(tp) <=> s \in contact)
      /\ ToolsInARow => \A t \in LiveOf(tp) \ Slots : tp.fake[t] /\ t < fingers
  BY Settles
<1>2. /\ Touch' = Touch /\ Slots' = Slots /\ NoSlots' = NoSlots
      /\ TouchType' = TouchType /\ LiveOf(tp)' = LiveOf(tp')
      /\ Counted(tp)' <=> Counted(tp')
  BY SamePlaces
<1>3. /\ DeviceType /\ tp \in TouchType /\ Counted(tp) /\ slot = 0
      /\ \A t \in Touch : Calm(t)
      /\ fingers \in Int /\ fingers' \in Int
  <2>1. fingers \in 0 .. MaxFingers /\ fingers' \in 0 .. MaxFingers
    BY DEF FakeInv, KernelInv
  <2> QED
    BY <2>1 DEF FakeInv, KernelInv, TouchInv
<1>4. TouchInv'
  <2>1. \A x \in Pending' : x.code = "ABS_MT_TRACKING_ID" => x.arg \in Slots
    BY <1>2 DEF KernelInv
  <2>2. Slots \subseteq Touch
    BY <1>3, Sizes
  <2>3. \A t : Calm(t)' <=> Calm(t)
    BY DEF Calm
  <2> QED
    BY <1>2, <1>3, <2>1, <2>2, <2>3 DEF TouchInv
<1>5. SlotInv'
  BY <1>1, <1>2 DEF SlotInv, SlotsTold
<1>6. ToolsInARow => GhostInv'
  <2> SUFFICES ASSUME ToolsInARow, NEW t \in LiveOf(tp) \ Slots
               PROVE  /\ tp.fake[t]
                      /\ \/ t < fingers'
                         \/ \E c \in Tools : c > t /\ Off(c) \in Pending'
                         \/ t = 0 /\ Button(FALSE) \in Pending'
    BY <1>2 DEF GhostInv
  <2>1. tp.fake[t] /\ t < fingers
    BY <1>1
  <2>2. t \in Nat
    BY <1>3, Sizes DEF LiveOf
  <2>3. CASE t < fingers'
    BY <2>1, <2>3
  <2>4. CASE ~(t < fingers')
    <3>1. fingers' < fingers
      BY <1>3, <2>1, <2>2, <2>4
    <3>2. \/ fingers \in Tools /\ Off(fingers) \in Pending'
          \/ fingers = 1 /\ Button(FALSE) \in Pending'
      BY <3>1 DEF LeavingTold
    <3>3. fingers > t /\ (fingers = 1 => t = 0)
      BY <1>3, <2>1, <2>2
    <3> QED
      BY <2>1, <3>2, <3>3
  <2> QED
    BY <2>3, <2>4
<1> QED
  BY <1>4, <1>5, <1>6 DEF FakeInv

(* A scan. *)
LEMMA ScanComes ==
    ASSUME FakeInv, NEW n \in 0 .. MaxFingers, Scan(n)
    PROVE  FakeInv'
<1>1. /\ pc = "poll" /\ frame = <<>> /\ pc' = "read" /\ UNCHANGED <<maxtouches, slot, tp>>
      /\ fingers' = n /\ (one_by_one' => n = 0 \/ (one_by_one /\ n \in fingers .. fingers + 1))
  BY DEF Scan
<1>2. /\ KernelInv' /\ SlotsTold
      /\ ToolsInARow => LeavingTold /\ ComingTold
      /\ ToolsInARow /\ n > 0 /\ n \in fingers .. fingers + 1 => OffsFirst(frame', n)
  BY ScanKernel DEF FakeInv
<1>3. /\ Touch' = Touch /\ Slots' = Slots /\ LiveOf(tp)' = LiveOf(tp)
  BY <1>1, SamePlaces
<1>4. fingers \in Nat /\ n \in Nat /\ Touch \subseteq Nat
  <2>1. fingers \in 0 .. MaxFingers /\ DeviceType
    BY DEF FakeInv, KernelInv
  <2> QED
    BY <2>1, Sizes
<1>5. ASSUME ToolsInARow PROVE ArrivalInv'
  <2> SUFFICES ASSUME one_by_one'
               PROVE  /\ n > 0 => OffsFirst(frame', n)
                      /\ \A t \in Touch \ Slots : t < n =>
                            \/ t \in LiveOf(tp)
                            \/ t = 0 /\ Button(TRUE) \in Pending'
                            \/ On(n) \in Pending' /\ t = n - 1
    BY <1>1, <1>3 DEF ArrivalInv
  <2>1. CASE n = 0
    <3>1. ~(n > 0) /\ \A t \in Touch : ~(t < n)
      BY <1>4, <2>1
    <3> QED
      BY <3>1
  <2>2. CASE n # 0
    <3>1. one_by_one /\ n \in fingers .. fingers + 1 /\ n > 0
      BY <1>1, <1>4, <2>2
    <3>2. OffsFirst(frame', n)
      BY <1>2, <1>5, <3>1
    <3>3. ASSUME NEW t \in Touch \ Slots, t < n, t \notin LiveOf(tp)
          PROVE  \/ t = 0 /\ Button(TRUE) \in Pending'
                 \/ On(n) \in Pending' /\ t = n - 1
      <4>1. ~(t < fingers) /\ t \in Nat
        BY <1>1, <1>4, <1>5, <3>1, <3>3, Settles
      <4>2. n = fingers + 1 /\ t = fingers
        BY <1>4, <3>1, <3>3, <4>1
      <4>3. On(n) \in Pending' \/ (fingers = 0 /\ Button(TRUE) \in Pending')
        BY <1>1, <1>2, <1>5, <4>2 DEF ComingTold
      <4>4. t = n - 1 /\ (fingers = 0 => t = 0)
        BY <1>4, <4>2
      <4> QED
        BY <4>3, <4>4
    <3> QED
      BY <3>2, <3>3
  <2> QED
    BY <2>1, <2>2
<1> QED
  BY <1>1, <1>2, <1>5, FrameComes

(* A frame was dropped. *)
LEMMA SyncComes ==
    ASSUME FakeInv, NEW n \in 0 .. MaxFingers, SyncDevice(n)
    PROVE  FakeInv'
<1>1. /\ pc = "poll" /\ frame = <<>> /\ pc' = "read" /\ UNCHANGED <<maxtouches, slot, tp>>
      /\ fingers' = n /\ one_by_one' = (n = 0)
  BY DEF SyncDevice
<1>2. KernelInv' /\ SlotsTold /\ (ToolsInARow => LeavingTold)
  BY SyncKernel DEF FakeInv
<1>3. n \in Nat /\ Touch \subseteq Nat /\ Touch' = Touch
  <2>1. DeviceType
    BY DEF FakeInv, KernelInv
  <2> QED
    BY <1>1, <2>1, Sizes, SamePlaces
<1>4. ArrivalInv'
  <2> SUFFICES ASSUME n = 0
               PROVE  ~(n > 0) /\ \A t \in Touch : ~(t < n)
    BY <1>1, <1>3 DEF ArrivalInv
  <2> QED
    BY <1>3
<1> QED
  BY <1>1, <1>2, <1>4, FrameComes


(* Only the program counter has changed. *)
LEMMA OnlyPc ==
    ASSUME FakeInv, UNCHANGED <<maxtouches, slot, kernelVars, frame, tp>>,
           pc' = "poll" => frame = <<>> /\ ~tp.queued
    PROVE  FakeInv'
<1>1. UNCHANGED <<fingers, contact, one_by_one>>
  BY DEF kernelVars
<1>2. /\ Touch' = Touch /\ Slots' = Slots /\ NoSlots' = NoSlots
      /\ TouchType' = TouchType /\ LiveOf(tp)' = LiveOf(tp)
      /\ Counted(tp)' <=> Counted(tp)
  BY SamePlaces
<1>3. Pending' = Pending
  BY DEF Pending, Elems
<1>4. KernelInv'
  BY <1>1, <1>2, <1>3 DEF FakeInv, KernelInv, DeviceType
<1>5. TouchInv'
  <2>1. \A t : Calm(t)' <=> Calm(t)
    BY DEF Calm
  <2> QED
    BY <1>2, <1>3, <2>1 DEF FakeInv, TouchInv
<1>6. SlotInv'
  BY <1>1, <1>2, <1>3 DEF FakeInv, SlotInv
<1>7. ToolsInARow => GhostInv'
  BY <1>1, <1>2, <1>3 DEF FakeInv, GhostInv
<1>8. ToolsInARow => ArrivalInv'
  BY <1>1, <1>2, <1>3 DEF FakeInv, ArrivalInv
<1> QED
  BY <1>4, <1>5, <1>6, <1>7, <1>8 DEF FakeInv

(* SYN_REPORT. *)
LEMMA FrameEnds ==
    ASSUME FakeInv, SynReport
    PROVE  FakeInv'
<1>1. frame = <<>> /\ pc = "read" /\ UNCHANGED <<maxtouches, slot, kernelVars, frame>>
  BY DEF SynReport, Crash
<1>2. CASE pc' = "crashed" /\ UNCHANGED tp
  BY <1>1, <1>2, OnlyPc
<1>3. CASE pc' = "poll" /\ tp' = PostProcess
  <2>1. UNCHANGED <<fingers, contact, one_by_one>>
    BY <1>1 DEF kernelVars
  <2>2. /\ Touch' = Touch /\ Slots' = Slots /\ NoSlots' = NoSlots
        /\ TouchType' = TouchType /\ LiveOf(tp)' = LiveOf(tp')
        /\ Counted(tp)' <=> Counted(tp')
    BY <1>1, SamePlaces
  <2>3. Pending' = Pending /\ Pending = {}
    BY <1>1, NothingPending DEF Pending, Elems
  <2>4. KernelInv'
    BY <1>1, <2>1, <2>2, <2>3 DEF FakeInv, KernelInv, DeviceType
  <2>5. DeviceType /\ tp \in TouchType /\ Counted(tp) /\ slot = 0
    BY DEF FakeInv, KernelInv, TouchInv
  <2> DEFINE q == PostProcess
  <2>6. /\ q \in TouchType /\ Counted(q) /\ q.queued = FALSE
        /\ LiveOf(q) = LiveOf(tp)
        /\ \A t \in Touch : /\ q.state[t] \in {"NONE", "UPDATE"}
                            /\ q.fake[t] <=> tp.fake[t] /\ tp.state[t] # "END"
    BY <2>5, PostProcessDoes
  <2> HIDE DEF q
  <2>7. tp' = q
    BY <1>3 DEF q
  <2>8. TouchInv'
    BY <1>1, <2>2, <2>3, <2>5, <2>6, <2>7 DEF TouchInv, Calm
  <2>9. Slots \subseteq Touch
    BY <2>5, Sizes
  <2>10. /\ \A s \in Slots : ~tp.fake[s] /\ (s \in LiveOf(tp) <=> s \in contact)
         /\ ToolsInARow => \A t \in LiveOf(tp) \ Slots : tp.fake[t] /\ t < fingers
         /\ ToolsInARow /\ one_by_one =>
                \A t \in Touch \ Slots : t < fingers => t \in LiveOf(tp)
    BY <1>1, Settles
  <2>11. SlotInv'
    BY <2>1, <2>2, <2>6, <2>7, <2>9, <2>10 DEF SlotInv
  <2>12. ToolsInARow => GhostInv'
    <3>1. \A t \in LiveOf(tp) : t \in Touch /\ tp.state[t] # "END"
      BY DEF LiveOf
    <3> QED
      BY <2>1, <2>2, <2>6, <2>7, <2>10, <3>1 DEF GhostInv
  <2>13. ToolsInARow => ArrivalInv'
    <3>1. \A n : OffsFirst(frame', n)
      BY <1>1 DEF OffsFirst
    <3> QED
      BY <2>1, <2>2, <2>6, <2>7, <2>10, <3>1 DEF ArrivalInv
  <2> QED
    BY <2>4, <2>8, <2>11, <2>12, <2>13 DEF FakeInv
<1> QED
  BY <1>2, <1>3 DEF SynReport, Crash

(* A device that is opened has no touches. *)
LEMMA FakeStart ==
    ASSUME Init
    PROVE  FakeInv
<1>1. /\ DeviceType /\ slot = 0 /\ fingers = 0 /\ contact = {} /\ frame = <<>> /\ pc = "poll"
      /\ tp = [state |-> [t \in Touch |-> "NONE"], fake |-> [t \in Touch |-> FALSE],
               fingers_down |-> 0, queued |-> FALSE]
  BY DEF Init, DeviceType
<1>2. /\ MaxFingers \in 2 .. 4 /\ Touch \subseteq Nat /\ Slots \subseteq Touch
      /\ NoSlots \/ maxtouches >= 1
  <2>1. MaxFingers \in Tools /\ Touch \subseteq Nat /\ Slots \subseteq Touch
        /\ maxtouches \in Int /\ (maxtouches = -1 \/ maxtouches >= 1)
    BY <1>1, Sizes
  <2> QED
    BY <2>1, ToolsAssumption DEF NoSlots
<1>3. Pending = {} /\ Distinct(frame) /\ TouchFirst(frame) /\ frame \in Seq(Events)
  BY <1>1 DEF Pending, Elems, Distinct, TouchFirst
<1>4. KernelInv
  <2>1. Cardinality(contact) = 0
    BY <1>1, FS_EmptySet
  <2>2. NoSlots \/ 0 < maxtouches
    <3>1. maxtouches \in Int
      BY <1>1, Sizes
    <3> QED
      BY <1>2, <3>1
  <2>3. fingers \in 0 .. MaxFingers
    BY <1>1, <1>2
  <2> QED
    BY <1>1, <1>3, <2>1, <2>2, <2>3 DEF KernelInv
<1>5. LiveOf(tp) = {}
  BY <1>1 DEF LiveOf
<1>6. tp \in TouchType /\ Counted(tp)
  <2>1. tp \in TouchType
    BY <1>1 DEF TouchType, States
  <2>2. tp.fingers_down = 0 /\ Cardinality({}) = 0
    BY <1>1, FS_EmptySet
  <2> QED
    BY <1>5, <2>1, <2>2 DEF Counted
<1>7. TouchInv
  <2>1. tp.queued = FALSE /\ \A t \in Touch : tp.state[t] = "NONE"
    BY <1>1
  <2> QED
    BY <1>1, <1>3, <1>6, <2>1 DEF TouchInv, Calm
<1>8. SlotInv
  <2>1. \A t \in Touch : tp.fake[t] = FALSE
    BY <1>1
  <2> QED
    BY <1>1, <1>2, <1>5, <2>1 DEF SlotInv
<1>9. GhostInv
  BY <1>5 DEF GhostInv
<1>10. ArrivalInv
  <2>1. ~(fingers > 0) /\ \A t \in Touch : ~(t < fingers)
    BY <1>1, <1>2
  <2> QED
    BY <2>1 DEF ArrivalInv
<1> QED
  BY <1>4, <1>7, <1>8, <1>9, <1>10 DEF FakeInv

(* Until the caller changes the fd. *)
UntilFdChanges == fd_changes \in Nat /\ (fd_changes = 0 => FakeInv)

(* What the kernel still has to say and what the touches are account, at    *)
(* every event of a frame, for all the fingers on the device: the events of *)
(* touchpad_handle_event, in the order the kernel sends them, after a scan  *)
(* and after SYN_DROPPED.                                                   *)
THEOREM FakeInductive == Spec => []UntilFdChanges
<1>1. Init => UntilFdChanges
  BY FakeStart DEF Init, UntilFdChanges
<1>2. UntilFdChanges /\ [Next]_vars => UntilFdChanges'
  <2> SUFFICES ASSUME UntilFdChanges, [Next]_vars PROVE UntilFdChanges'
    OBVIOUS
  <2>1. ASSUME FakeInv => FakeInv', UNCHANGED fd_changes PROVE UntilFdChanges'
    BY <2>1 DEF UntilFdChanges
  <2>2. CASE \E n \in 0 .. MaxFingers : Scan(n) \/ SyncDevice(n)
    <3>1. PICK n \in 0 .. MaxFingers : Scan(n) \/ SyncDevice(n)
      BY <2>2
    <3>2. UNCHANGED fd_changes
      BY <3>1 DEF Scan, SyncDevice
    <3> QED
      BY <2>1, <3>1, <3>2, ScanComes, SyncComes
  <2>3. CASE AbsMtTrackingId
    <3>1. UNCHANGED fd_changes
      BY <2>3 DEF AbsMtTrackingId, Handle
    <3> QED
      BY <2>1, <2>3, <3>1, ReadTrack
  <2>4. CASE BtnTouch
    <3>1. UNCHANGED fd_changes
      BY <2>4 DEF BtnTouch, Handle, Crash
    <3> QED
      BY <2>1, <2>4, <3>1, ReadTouch
  <2>5. CASE AbsPosition
    <3>1. UNCHANGED fd_changes
      BY <2>5 DEF AbsPosition, Handle, Crash
    <3> QED
      BY <2>1, <2>5, <3>1, ReadPosition
  <2>6. CASE BtnTool
    <3>1. UNCHANGED fd_changes
      BY <2>6 DEF BtnTool, Handle
    <3> QED
      BY <2>1, <2>6, <3>1, ReadTool
  <2>7. CASE SynReport
    <3>1. UNCHANGED fd_changes
      BY <2>7 DEF SynReport, Crash
    <3> QED
      BY <2>1, <2>7, <3>1, FrameEnds
  <2>8. CASE SynIgnored
    <3>1. /\ UNCHANGED <<maxtouches, slot, kernelVars, frame, tp>> /\ UNCHANGED fd_changes
          /\ frame = <<>> /\ ~tp.queued
      BY <2>8 DEF SynIgnored
    <3> QED
      BY <2>1, <3>1, OnlyPc
  <2>9. CASE ChangeFd
    BY <2>9 DEF ChangeFd, UntilFdChanges
  <2>10. CASE UNCHANGED vars
    <3>1. /\ UNCHANGED <<maxtouches, slot, kernelVars, frame, tp>>
          /\ UNCHANGED <<fd_changes, pc>>
      BY <2>10 DEF vars
    <3>2. FakeInv /\ pc = "poll" => frame = <<>> /\ ~tp.queued
      BY DEF FakeInv, KernelInv, TouchInv
    <3> QED
      BY <2>1, <3>1, <3>2, OnlyPc
  <2> QED
    BY <2>2, <2>3, <2>4, <2>5, <2>6, <2>7, <2>8, <2>9, <2>10 DEF Next
<1> QED
  BY <1>1, <1>2, PTL DEF Spec


----------------------------------------------------------------------------
(* The properties *)

(* The touches that are down. *)
LEMMA LiveIs == Live = LiveOf(tp)
BY DEF Live, LiveOf

(* For every device and every set of tools, whatever touches a tool ends    *)
(* and another one takes back in the same frame: fingers_down is the number *)
(* of touches (touchpad_begin_fake_touches, touchpad_end_fake_touches).     *)
THEOREM FingersAlwaysCounted == Spec => []FingersDownCount
<1>1. UntilFdChanges => FingersDownCount
  BY LiveIs DEF UntilFdChanges, FakeInv, TouchInv, Counted, FingersDownCount
<1> QED
  BY <1>1, FakeInductive, PTL

(* For every device and every set of tools: a slot has its touch exactly    *)
(* when the device has a finger in it, whatever the tools say and whatever  *)
(* a dropped frame loses (touchpad_mt_update_abs_state).                    *)
THEOREM SlotsAlwaysAgree == Spec => []SlotsAgree
<1>1. UntilFdChanges => SlotsAgree
  <2> SUFFICES ASSUME FakeInv, frame = <<>>
               PROVE  \A s \in Slots : s \in Live <=> s \in contact
    BY DEF UntilFdChanges, SlotsAgree, Settled
  <2> QED
    BY Settles, LiveIs
<1> QED
  BY <1>1, FakeInductive, PTL

(* The fingers and the touches, between frames. *)
LEMMA FingersOfSlots ==
    ASSUME FakeInv, frame = <<>>, ToolsInARow
    PROVE  /\ IsFiniteSet(Live) /\ fingers \in Nat
           /\ Cardinality(0 .. fingers - 1) = fingers /\ IsFiniteSet(0 .. fingers - 1)
           /\ fingers < maxtouches => Cardinality(Live) = fingers
           /\ ~(fingers < maxtouches) => Live \subseteq 0 .. fingers - 1
           /\ one_by_one /\ ~(fingers < maxtouches) => Live = 0 .. fingers - 1
<1>1. /\ DeviceType /\ fingers \in 0 .. MaxFingers /\ contact \subseteq Slots
      /\ NoSlots \/ Cardinality(contact) = IF fingers < maxtouches THEN fingers ELSE maxtouches
  BY DEF FakeInv, KernelInv
<1>2. /\ maxtouches \in Int /\ ntouches \in Nat \ {0} /\ fingers \in Nat /\ fingers <= ntouches
      /\ Slots \subseteq Touch /\ Touch \subseteq Nat /\ IsFiniteSet(Slots)
      /\ NoSlots \/ Cardinality(Slots) = maxtouches
  <2>1. /\ maxtouches \in Int /\ ntouches \in Nat \ {0}
        /\ MaxFingers \in Tools /\ (\A c \in Tools : c <= ntouches)
        /\ Slots \subseteq Touch /\ Touch \subseteq Nat /\ IsFiniteSet(Slots)
        /\ NoSlots \/ Cardinality(Slots) = maxtouches
    BY <1>1, Sizes
  <2>2. MaxFingers \in 2 .. 4 /\ MaxFingers <= ntouches
    BY <2>1, ToolsAssumption
  <2> QED
    BY <1>1, <2>1, <2>2
<1>3. IsFiniteSet(Live)
  BY <1>1, LiveFinite, LiveIs
<1>4. Cardinality(0 .. fingers - 1) = fingers /\ IsFiniteSet(0 .. fingers - 1)
  <2>1. 0 \in Int /\ fingers - 1 \in Int
    BY <1>2
  <2>2. /\ IsFiniteSet(0 .. fingers - 1)
        /\ Cardinality(0 .. fingers - 1) = IF 0 > fingers - 1 THEN 0 ELSE (fingers - 1) - 0 + 1
    BY <2>1, FS_Interval
  <2> QED
    BY <1>2, <2>2
<1>5. /\ \A s \in Slots : s \in Live <=> s \in contact
      /\ \A t \in Live \ Slots : t < fingers
      /\ one_by_one => \A t \in Touch \ Slots : t < fingers => t \in Live
  BY Settles, LiveIs
<1>6. Live \subseteq Touch
  BY DEF Live
<1>7. \A t \in Touch : t \in Slots <=> t < maxtouches
  BY <1>2 DEF Slots
<1>8. CASE fingers < maxtouches
  <2>1. \A t \in Live : t \in Slots
    <3> SUFFICES ASSUME NEW t \in Live, t \notin Slots PROVE FALSE
      OBVIOUS
    <3>1. t < fingers /\ t \in Nat /\ ~(t < maxtouches)
      BY <1>2, <1>5, <1>6, <1>7
    <3> QED
      BY <1>2, <1>8, <3>1
  <2>2. Live = contact
    BY <1>1, <1>5, <2>1
  <2>3. ~NoSlots
    BY <1>2, <1>8 DEF NoSlots
  <2>4. Cardinality(Live) = fingers
    BY <1>1, <1>8, <2>2, <2>3
  <2> QED
    BY <1>2, <1>3, <1>4, <1>8, <2>4
<1>9. CASE ~(fingers < maxtouches)
  <2>1. \A s \in Slots : s \in 0 .. fingers - 1
    BY <1>2, <1>9 DEF Slots
  <2>2. \A t \in Live : t \in 0 .. fingers - 1
    <3> SUFFICES ASSUME NEW t \in Live, t \notin Slots PROVE t \in 0 .. fingers - 1
      BY <2>1
    <3>1. t < fingers /\ t \in Nat
      BY <1>2, <1>5, <1>6
    <3> QED
      BY <1>2, <3>1
  <2>3. ASSUME NEW s \in Slots PROVE s \in contact
    <3>1. ~NoSlots
      BY <2>3 DEF NoSlots, Slots
    <3>2. contact = Slots
      BY <1>1, <1>2, <1>9, <3>1, FS_Subset
    <3> QED
      BY <3>2
  <2>4. ASSUME one_by_one, NEW t \in 0 .. fingers - 1 PROVE t \in Live
    <3>1. t \in Touch /\ t < fingers
      BY <1>2 DEF Touch
    <3>2. CASE t \in Slots
      BY <1>5, <2>3, <3>2
    <3>3. CASE t \notin Slots
      BY <1>5, <2>4, <3>1, <3>3
    <3> QED
      BY <3>2, <3>3
  <2>5. Live \subseteq 0 .. fingers - 1
    BY <2>2
  <2>6. one_by_one => Live = 0 .. fingers - 1
    BY <2>4, <2>5
  <2> QED
    BY <1>2, <1>3, <1>4, <1>9, <2>5, <2>6
<1> QED
  BY <1>8, <1>9

(* For every device that announces each number of fingers up to its largest: *)
(* the library never has more touches than there are fingers, not after a    *)
(* frame that was dropped (touchpad_sync_device) either.                     *)
THEOREM NeverGhostTouch ==
    ASSUME ToolsInARow
    PROVE  Spec => []NoGhostTouch
<1>1. UntilFdChanges => NoGhostTouch
  <2> SUFFICES ASSUME FakeInv, frame = <<>> PROVE Cardinality(Live) <= fingers
    BY DEF UntilFdChanges, NoGhostTouch, Settled
  <2>1. /\ IsFiniteSet(Live) /\ fingers \in Nat
        /\ Cardinality(0 .. fingers - 1) = fingers /\ IsFiniteSet(0 .. fingers - 1)
        /\ Cardinality(Live) = fingers \/ Live \subseteq 0 .. fingers - 1
    BY FingersOfSlots
  <2>2. CASE Cardinality(Live) = fingers
    BY <2>1, <2>2
  <2>3. CASE Live \subseteq 0 .. fingers - 1
    <3>1. Cardinality(Live) <= Cardinality(0 .. fingers - 1)
      BY <2>1, <2>3, FS_Subset
    <3> QED
      BY <2>1, <3>1
  <2> QED
    BY <2>1, <2>2, <2>3
<1> QED
  BY <1>1, FakeInductive, PTL

(* For every such device: when fingers arrive one per scan, every finger has *)
(* its touch, those that the device has no slot for as well: what ends with  *)
(* one tool goes on with the next (touchpad_begin_fake_touches).             *)
THEOREM ArrivalsAlwaysCounted ==
    ASSUME ToolsInARow
    PROVE  Spec => []ArrivalsCounted
<1>1. UntilFdChanges => ArrivalsCounted
  <2> SUFFICES ASSUME FakeInv, frame = <<>>, one_by_one PROVE Cardinality(Live) = fingers
    BY DEF UntilFdChanges, ArrivalsCounted, Settled
  <2>1. CASE fingers < maxtouches
    BY <2>1, FingersOfSlots
  <2>2. CASE ~(fingers < maxtouches)
    <3>1. Live = 0 .. fingers - 1 /\ Cardinality(0 .. fingers - 1) = fingers
      BY <2>2, FingersOfSlots
    <3> QED
      BY <3>1
  <2> QED
    BY <2>1, <2>2
<1> QED
  BY <1>1, FakeInductive, PTL
=============================================================================

---------------------------- MODULE DriverProofs ----------------------------
(***************************************************************************)
(* Proofs about the X.Org driver for any number of devices added one after *)
(* the other, switches, descriptors of the server, options, lists of pairs *)
(* and motions: the server reads the descriptor the library reads, closes  *)
(* none of its own, and loses two descriptors per device at most; a list   *)
(* of pairs is applied up to the first bad one and reads back; what is     *)
(* posted is near what was scrolled.                                       *)
(***************************************************************************)
EXTENDS Driver, InductionLemmas, FiniteSetTheorems

(* A descriptor that is opened is the lowest one that was free. *)
LEMMA FreeIsFree ==
    ASSUME NEW used \in SUBSET Nat, IsFiniteSet(used)
    PROVE  /\ Free(used) \in Nat \ used
           /\ \A m \in Nat : m < Free(used) => m \in used
<1> DEFINE k == Cardinality(used)
<1>1. k \in Nat
  BY FS_CardinalityType
<1>2. ASSUME NEW n \in Nat, 0 .. n - 1 \subseteq used PROVE n <= k
  <2>1. Cardinality(0 .. n - 1) <= k
    BY <1>2, FS_Subset
  <2>2. 0 \in Int /\ n - 1 \in Int
    OBVIOUS
  <2>3. Cardinality(0 .. n - 1) = IF 0 > n - 1 THEN 0 ELSE (n - 1) - 0 + 1
    BY <2>2, FS_Interval
  <2> QED
    BY <1>1, <2>1, <2>3
<1> HIDE DEF k
<1>3. Nat \ used # {}
  <2> SUFFICES ASSUME Nat \subseteq used PROVE FALSE
    OBVIOUS
  <2>1. 0 .. (k + 1) - 1 \subseteq used /\ k + 1 \in Nat
    BY <1>1
  <2>2. k + 1 <= k
    BY <1>2, <2>1
  <2> QED
    BY <1>1, <2>2
<1>4. PICK n \in Nat \ used : \A m \in Nat \ used : n <= m
  BY <1>3, LeastNatural
<1>5. \A m \in 0 .. n - 1 : m \in used
  BY <1>4
<1>6. n \in 0 .. k
  BY <1>1, <1>2, <1>5
<1>7. \E f \in 0 .. k : f \notin used /\ \A m \in 0 .. f - 1 : m \in used
  BY <1>4, <1>5, <1>6
<1>8. Free(used) \in 0 .. k /\ Free(used) \notin used /\ \A m \in 0 .. Free(used) - 1 : m \in used
  BY <1>7, Zenon DEF Free, k
<1> QED
  BY <1>1, <1>8

(* Opening one more descriptor leaves a finite set of them. *)
LEMMA OpenOne ==
    ASSUME NEW used \in SUBSET Nat, IsFiniteSet(used), NEW n \in Nat
    PROVE  used \cup {n} \in SUBSET Nat /\ IsFiniteSet(used \cup {n})
BY FS_AddElement

----------------------------------------------------------------------------
(* The descriptors.  Of the server's own only its stdin can be closed, and  *)
(* only by the failed start of a device that is not a touchpad.             *)
DescriptorsOK ==
    /\ device \in {"none", "ready", "init", "on", "off", "closed"}
    /\ open \in SUBSET Nat /\ IsFiniteSet(open)
    /\ 0 \in others /\ others \ open \subseteq {0}
    /\ ~rejected => others \subseteq open

(* What the library opened is open, its own, and not what the driver has.   *)
LibraryHas ==
    device # "none" =>
        /\ epollfd \in open \ others /\ timerfd \in open \ others
        /\ epollfd # timerfd
        /\ fd # epollfd /\ fd # timerfd

(* A device cannot be opened as descriptor 0 once it has been added: its    *)
(* first descriptor, which is never closed while it is used, or what was    *)
(* open before, stands in the way.                                         *)
StdinTaken == device \in {"ready", "init", "on", "off"} => 0 \in open

DeviceHas ==
    /\ device \in {"ready", "init"} => fd \in open /\ (fd \in others => fd = 0 /\ rejected)
    /\ device \in {"off", "closed"} => fd = -1

DInv ==
    /\ DescriptorsOK
    /\ LibraryHas
    /\ StdinTaken
    /\ DeviceHas
    /\ device = "none" => selected = {}
    /\ Connected

(* Only stdin is open, and it is the server's. *)
LEMMA DInit == Init => DInv
<1> SUFFICES ASSUME Init PROVE DInv
  OBVIOUS
<1>1. IsFiniteSet({0})
  BY FS_Singleton
<1> QED
  BY <1>1 DEF Init, DInv, DescriptorsOK, LibraryHas, StdinTaken, DeviceHas, Connected

(* The driver closes its descriptor, or has none. *)
LEMMA SwitchOffInv ==
    ASSUME DInv, device \in {"init", "on", "off"}, device' \in {"off", "closed"}, SwitchOff,
           device' = "off" => device = "on"
    PROVE  DInv'
<1>1. /\ selected' = selected \ {fd} /\ open' = open \ {fd}
      /\ watched' = (watched \ {lib_fd}) \cup ({-1} \cap open') /\ lib_fd' = -1 /\ fd' = -1
      /\ UNCHANGED <<others, epollfd, timerfd, rejected>>
  BY DEF SwitchOff, ChangeFd
<1>2. /\ open \in SUBSET Nat /\ IsFiniteSet(open)
      /\ others \ open \subseteq {0} /\ (~rejected => others \subseteq open)
      /\ epollfd \in open \ others /\ timerfd \in open \ others /\ epollfd # timerfd
      /\ fd # epollfd /\ fd # timerfd /\ 0 \in open
  BY DEF DInv, DescriptorsOK, LibraryHas, StdinTaken
<1>3. \/ fd \in open /\ (fd \in others => fd = 0 /\ rejected)
      \/ fd = -1
  BY DEF DInv, DeviceHas, Connected
<1>4. /\ device = "on" => lib_fd = fd /\ fd # 0 /\ selected = {fd} /\ watched = {fd, timerfd}
      /\ device # "on" => lib_fd = -1 /\ selected = {} /\ watched = {timerfd}
  <2>1. Connected /\ 0 \in others
    BY DEF DInv, DescriptorsOK
  <2>2. CASE device = "on"
    BY <2>1, <2>2 DEF Connected
  <2>3. CASE device # "on"
    BY <2>1, <2>3 DEF Connected
  <2> QED
    BY <2>2, <2>3
<1>5. -1 \notin Nat /\ open' \in SUBSET Nat
  <2>1. -1 \notin Nat
    OBVIOUS
  <2>2. open' \in SUBSET open
    BY <1>1
  <2> QED
    BY <1>2, <2>1, <2>2
<1>6. DescriptorsOK'
  <2>1. IsFiniteSet(open')
    BY <1>1, <1>2, FS_RemoveElement
  <2>2. 0 \in others
    BY DEF DInv, DescriptorsOK
  <2> QED
    BY <1>1, <1>2, <1>3, <1>5, <2>1, <2>2 DEF DescriptorsOK
<1>7. LibraryHas'
  BY <1>1, <1>2, <1>5 DEF LibraryHas
<1>8. StdinTaken' /\ DeviceHas'
  BY <1>1, <1>2, <1>4 DEF StdinTaken, DeviceHas
<1>9. selected' = {} /\ watched' = {timerfd}
  <2>1. {-1} \cap open' = {}
    BY <1>5
  <2>2. selected' = {}
    BY <1>1, <1>4
  <2>3. fd # timerfd /\ timerfd # -1
    BY <1>2, <1>5
  <2> QED
    BY <1>1, <1>4, <2>1, <2>2, <2>3
<1>10. Connected'
  BY <1>1, <1>9 DEF Connected
<1> QED
  BY <1>6, <1>7, <1>8, <1>9, <1>10 DEF DInv

(* A device is added: three new descriptors. *)
LEMMA PreInitInv ==
    ASSUME DInv, NEW o, PreInit(o)
    PROVE  /\ DInv'
           /\ fd' \notin open /\ epollfd' \notin open /\ timerfd' \notin open
<1>0. /\ open \in SUBSET Nat /\ IsFiniteSet(open)
      /\ 0 \in others /\ others \ open \subseteq {0} /\ (~rejected => others \subseteq open)
      /\ selected = {}
  BY DEF DInv, DescriptorsOK, PreInit
<1>1. fd' \in Nat \ open /\ (0 \in open \/ fd' = 0)
  <2>1. fd' = Free(open)
    BY DEF PreInit
  <2>2. fd' \in Nat \ open /\ (0 < fd' => 0 \in open)
    BY <1>0, <2>1, FreeIsFree
  <2> QED
    BY <2>2
<1>2. (open \cup {fd'}) \in SUBSET Nat /\ IsFiniteSet(open \cup {fd'})
  BY <1>0, <1>1, OpenOne
<1>3. epollfd' \in Nat \ (open \cup {fd'})
  BY <1>2, FreeIsFree DEF PreInit
<1>4. /\ (open \cup {fd', epollfd'}) \in SUBSET Nat /\ IsFiniteSet(open \cup {fd', epollfd'})
  <2>1. open \cup {fd', epollfd'} = (open \cup {fd'}) \cup {epollfd'}
    OBVIOUS
  <2> QED
    BY <1>2, <1>3, <2>1, OpenOne
<1>5. timerfd' \in Nat \ (open \cup {fd', epollfd'})
  BY <1>4, FreeIsFree DEF PreInit
<1>6. open' \in SUBSET Nat /\ IsFiniteSet(open') /\ open' = open \cup {fd', epollfd', timerfd'}
  <2>1. open' = open \cup {fd', epollfd', timerfd'}
    BY DEF PreInit
  <2>2. open' = (open \cup {fd', epollfd'}) \cup {timerfd'}
    BY <2>1
  <2> QED
    BY <1>4, <1>5, <2>1, <2>2, OpenOne
<1>7. /\ device' = "ready" /\ lib_fd' = -1 /\ watched' = {timerfd'} /\ rejected' = rejected
      /\ others' = others /\ selected' = {}
  BY <1>0 DEF PreInit
<1>8. 0 \in open' /\ epollfd' # 0 /\ timerfd' # 0
  BY <1>1, <1>3, <1>5, <1>6
<1>9. DescriptorsOK' /\ LibraryHas' /\ StdinTaken'
  BY <1>0, <1>1, <1>3, <1>5, <1>6, <1>7, <1>8 DEF DescriptorsOK, LibraryHas, StdinTaken
<1>10. DeviceHas'
  BY <1>0, <1>1, <1>6, <1>7 DEF DeviceHas
<1>11. Connected'
  BY <1>7 DEF Connected
<1> QED
  BY <1>1, <1>3, <1>5, <1>7, <1>9, <1>10, <1>11 DEF DInv

(* A device is switched on, with a descriptor that is nobody's. *)
LEMMA DeviceOnInv ==
    ASSUME DInv, DeviceOn
    PROVE  /\ DInv'
           /\ fd' \notin open /\ open' = open \cup {fd'}
<1>0. /\ open \in SUBSET Nat /\ IsFiniteSet(open)
      /\ 0 \in others /\ others \ open \subseteq {0} /\ (~rejected => others \subseteq open)
      /\ 0 \in open /\ selected = {} /\ watched = {timerfd} /\ lib_fd = -1
      /\ epollfd \in open \ others /\ timerfd \in open \ others /\ epollfd # timerfd
  BY DEF DInv, DescriptorsOK, StdinTaken, LibraryHas, Connected, DeviceOn
<1>1. fd' \in Nat \ open
  BY <1>0, FreeIsFree DEF DeviceOn
<1>2. /\ device' = "on" /\ open' = open \cup {fd'} /\ lib_fd' = fd'
      /\ watched' = (watched \ {lib_fd}) \cup ({fd'} \cap open')
      /\ selected' = selected \cup {fd'}
      /\ UNCHANGED <<others, epollfd, timerfd, rejected>>
  BY DEF DeviceOn, ChangeFd
<1>3. open' \in SUBSET Nat /\ IsFiniteSet(open')
  BY <1>0, <1>1, <1>2, OpenOne
<1>4. fd' \notin others
  BY <1>0, <1>1
<1>5. selected' = {fd'} /\ watched' = {fd', timerfd}
  BY <1>0, <1>2
<1>6. DescriptorsOK' /\ LibraryHas' /\ StdinTaken' /\ DeviceHas'
  BY <1>0, <1>1, <1>2, <1>3 DEF DescriptorsOK, LibraryHas, StdinTaken, DeviceHas
<1>7. Connected'
  BY <1>2, <1>4, <1>5 DEF Connected
<1> QED
  BY <1>1, <1>2, <1>6, <1>7 DEF DInv

(* The library closes its epoll descriptor. *)
LEMMA UnInitInv == ASSUME DInv, UnInit PROVE DInv'
<1>0. /\ open \in SUBSET Nat /\ IsFiniteSet(open)
      /\ 0 \in others /\ others \ open \subseteq {0} /\ (~rejected => others \subseteq open)
      /\ epollfd \notin others /\ selected = {}
  BY DEF DInv, DescriptorsOK, LibraryHas, Connected, UnInit
<1>1. /\ device' = "none" /\ open' = open \ {epollfd} /\ watched' = {}
      /\ UNCHANGED <<others, selected, rejected>>
  BY DEF UnInit
<1>2. IsFiniteSet(open')
  BY <1>0, <1>1, FS_RemoveElement
<1> QED
  BY <1>0, <1>1, <1>2
  DEF DInv, DescriptorsOK, LibraryHas, StdinTaken, DeviceHas, Connected

(* The server takes a descriptor that is free. *)
LEMMA ServerOpensInv ==
    ASSUME DInv, ServerOpens
    PROVE  /\ DInv'
           /\ \E n \in Nat \ open : open' = open \cup {n} /\ others' = others \cup {n}
<1>0. /\ open \in SUBSET Nat /\ IsFiniteSet(open)
      /\ 0 \in others /\ others \ open \subseteq {0} /\ (~rejected => others \subseteq open)
  BY DEF DInv, DescriptorsOK
<1> DEFINE n == Free(open)
<1>1. n \in Nat \ open
  BY <1>0, FreeIsFree
<1>2. /\ open' = open \cup {n} /\ others' = others \cup {n}
      /\ UNCHANGED <<device, selected, fd, lib_fd, epollfd, timerfd, watched, rejected>>
  BY DEF ServerOpens
<1> HIDE DEF n
<1>3. open' \in SUBSET Nat /\ IsFiniteSet(open')
  BY <1>0, <1>1, <1>2, OpenOne
<1>4. DescriptorsOK'
  BY <1>0, <1>1, <1>2, <1>3 DEF DInv, DescriptorsOK
<1>5. LibraryHas' /\ StdinTaken'
  BY <1>0, <1>1, <1>2 DEF DInv, LibraryHas, StdinTaken
<1>6. DeviceHas' /\ Connected'
  BY <1>0, <1>1, <1>2 DEF DInv, DeviceHas, Connected
<1> QED
  BY <1>1, <1>2, <1>4, <1>5, <1>6 DEF DInv

(* Every call of the server keeps it. *)
LEMMA DStep == DInv /\ [Next]_driverVars => DInv'
<1> SUFFICES ASSUME DInv, [Next]_driverVars PROVE DInv'
  OBVIOUS
<1>1. ASSUME NEW o \in Options, PreInit(o) PROVE DInv'
  BY <1>1, PreInitInv
<1>2. CASE PreInitRejected
  <2>1. IsFiniteSet(open \ {0}) /\ open \ {0} \in SUBSET Nat
    BY FS_RemoveElement DEF DInv, DescriptorsOK
  <2> QED
    BY <1>2, <2>1
    DEF PreInitRejected, DInv, DescriptorsOK, LibraryHas, StdinTaken, DeviceHas, Connected
<1>3. CASE DeviceInit
  BY <1>3
  DEF DeviceInit, fdVars, DInv, DescriptorsOK, LibraryHas, StdinTaken, DeviceHas, Connected
<1>4. CASE DeviceOn
  BY <1>4, DeviceOnInv
<1>5. CASE DeviceOff \/ DeviceClose
  BY <1>5, SwitchOffInv DEF DeviceOff, DeviceClose
<1>6. CASE UnInit
  BY <1>6, UnInitInv
<1>7. CASE ServerOpens
  BY <1>7, ServerOpensInv
<1>8. CASE \/ \E dir \in Directions, motion \in Motions : Scroll(dir, motion)
           \/ UNCHANGED driverVars
  <2>1. UNCHANGED <<device, fdVars, rejected>>
    BY <1>8 DEF Scroll, driverVars
  <2> QED
    BY <2>1
    DEF fdVars, DInv, DescriptorsOK, LibraryHas, StdinTaken, DeviceHas, Connected
<1> QED
  BY <1>1, <1>2, <1>3, <1>4, <1>5, <1>6, <1>7, <1>8 DEF Next

(* What is open, whose it is and who reads it, in every state. *)
THEOREM DInductive == Spec => []DInv
BY DInit, DStep, PTL DEF Spec

(* While a device is on, the server selects on the descriptor the library   *)
(* reads and the library watches it and the timer; the descriptor is open   *)
(* and none of the server's.  While it is off, it is neither selected nor   *)
(* watched.                                                                 *)
THEOREM AlwaysConnected == Spec => []Connected
<1>1. DInv => Connected
  BY DEF DInv
<1> QED
  BY <1>1, DInductive, PTL

(* The driver never closes a descriptor of the server's, unless the library *)
(* has refused a device.                                                    *)
THEOREM ServerAlwaysKeepsItsOwn == Spec => []ServerKeepsItsOwn
<1>1. DInv => ServerKeepsItsOwn
  BY DEF DInv, DescriptorsOK, ServerKeepsItsOwn
<1> QED
  BY <1>1, DInductive, PTL

----------------------------------------------------------------------------
(* Descriptors that nobody will close.  A device that has been added may    *)
(* still lose as many as Credit says: its first descriptor when it is       *)
(* switched on or removed, and its timer when it is removed.                *)
Lost == open \ (others \cup Held)

Credit == IF device \in {"ready", "init"} THEN 2
          ELSE IF device \in {"on", "off", "closed"} THEN 1 ELSE 0

LostInv == plugs \in Nat /\ Cardinality(Lost) + Credit <= 2 * plugs

(* Sets that grow by one or two elements at most. *)
LEMMA AtMostMore ==
    ASSUME NEW S, IsFiniteSet(S), NEW T, NEW a, NEW b
    PROVE  /\ Cardinality(S) \in Nat
           /\ T \subseteq S => Cardinality(T) \in Nat /\ Cardinality(T) <= Cardinality(S)
           /\ T \subseteq S \cup {a} =>
                 Cardinality(T) \in Nat /\ Cardinality(T) <= Cardinality(S) + 1
           /\ T \subseteq S \cup {a, b} =>
                 Cardinality(T) \in Nat /\ Cardinality(T) <= Cardinality(S) + 2
<1>1. ASSUME NEW U, IsFiniteSet(U), T \subseteq U
      PROVE  Cardinality(T) \in Nat /\ Cardinality(T) <= Cardinality(U)
  BY <1>1, FS_Subset, FS_CardinalityType
<1>2. IsFiniteSet(S \cup {a}) /\ Cardinality(S \cup {a}) \in {Cardinality(S), Cardinality(S) + 1}
  BY FS_AddElement
<1>3. /\ IsFiniteSet((S \cup {a}) \cup {b})
      /\ Cardinality((S \cup {a}) \cup {b})
             \in {Cardinality(S \cup {a}), Cardinality(S \cup {a}) + 1}
  BY <1>2, FS_AddElement
<1>4. S \cup {a, b} = (S \cup {a}) \cup {b}
  OBVIOUS
<1>5. Cardinality(S) \in Nat
  BY FS_CardinalityType
<1>6. T \subseteq S => Cardinality(T) \in Nat /\ Cardinality(T) <= Cardinality(S)
  BY <1>1
<1>7. T \subseteq S \cup {a} => Cardinality(T) \in Nat /\ Cardinality(T) <= Cardinality(S) + 1
  BY <1>1, <1>2, <1>5
<1>8. T \subseteq S \cup {a, b} => Cardinality(T) \in Nat /\ Cardinality(T) <= Cardinality(S) + 2
  BY <1>1, <1>2, <1>3, <1>4, <1>5
<1> QED
  BY <1>5, <1>6, <1>7, <1>8

(* A step that loses a descriptor uses the credit for it up. *)
LEMMA LostStep ==
    ASSUME DInv, LostInv, [Next]_driverVars
    PROVE  LostInv'
<1>0. IsFiniteSet(Lost) /\ plugs \in Nat /\ Cardinality(Lost) + Credit <= 2 * plugs
  BY FS_Subset DEF DInv, DescriptorsOK, Lost, LostInv
<1>a. /\ Cardinality(Lost) \in Nat
      /\ Lost' \subseteq Lost =>
            Cardinality(Lost') \in Nat /\ Cardinality(Lost') <= Cardinality(Lost)
      /\ Lost' \subseteq Lost \cup {fd} =>
            Cardinality(Lost') \in Nat /\ Cardinality(Lost') <= Cardinality(Lost) + 1
      /\ Lost' \subseteq Lost \cup {timerfd} =>
            Cardinality(Lost') \in Nat /\ Cardinality(Lost') <= Cardinality(Lost) + 1
      /\ Lost' \subseteq Lost \cup {fd, timerfd} =>
            Cardinality(Lost') \in Nat /\ Cardinality(Lost') <= Cardinality(Lost) + 2
  BY <1>0, AtMostMore
<1>1. ASSUME NEW o \in Options, PreInit(o) PROVE LostInv'
  <2>1. /\ device = "none" /\ device' = "ready" /\ plugs' = plugs + 1
        /\ open' = open \cup {fd', epollfd', timerfd'} /\ others' = others
    BY <1>1 DEF PreInit
  <2>2. Lost' \subseteq Lost
    BY <2>1 DEF Lost, Held, HasTouchpad
  <2>3. Credit' = 2 /\ Credit = 0
    BY <2>1 DEF Credit
  <2> QED
    BY <1>0, <1>a, <2>1, <2>2, <2>3 DEF LostInv
<1>2. CASE PreInitRejected
  <2>1. /\ UNCHANGED <<device, others, fd, epollfd, timerfd>> /\ open' = open \ {0}
        /\ plugs' = plugs + 1
    BY <1>2 DEF PreInitRejected
  <2>2. Lost' \subseteq Lost /\ Credit' = Credit /\ Credit \in Nat
    BY <2>1 DEF Lost, Held, HasTouchpad, Credit
  <2> QED
    BY <1>0, <1>a, <2>1, <2>2 DEF LostInv
<1>3. CASE DeviceInit
  <2>1. /\ device = "ready" /\ device' = "init" /\ plugs' = plugs
        /\ UNCHANGED <<open, others, fd, epollfd, timerfd>>
    BY <1>3 DEF DeviceInit, fdVars, counters
  <2>2. Lost' = Lost /\ Credit' = Credit
    BY <2>1 DEF Lost, Held, HasTouchpad, Credit
  <2> QED
    BY <1>0, <2>1, <2>2 DEF LostInv
<1>4. CASE DeviceOn
  <2>1. /\ device \in {"init", "off"} /\ device' = "on" /\ plugs' = plugs
        /\ open' = open \cup {fd'} /\ UNCHANGED <<others, epollfd, timerfd>>
    BY <1>4 DEF DeviceOn
  <2>2. Lost' \subseteq Lost \cup {fd}
    BY <2>1 DEF Lost, Held, HasTouchpad
  <2>3. CASE device = "init"
    <3>1. Credit = 2 /\ Credit' = 1
      BY <2>1, <2>3 DEF Credit
    <3> QED
      BY <1>0, <1>a, <2>1, <2>2, <3>1 DEF LostInv
  <2>4. CASE device = "off"
    <3>1. Credit = 1 /\ Credit' = 1
      BY <2>1, <2>4 DEF Credit
    <3>2. fd = -1 /\ open \in SUBSET Nat
      BY <2>4 DEF DInv, DeviceHas, DescriptorsOK
    <3>3. Lost' \subseteq Lost
      BY <2>1, <3>2 DEF Lost, Held, HasTouchpad
    <3> QED
      BY <1>0, <1>a, <2>1, <3>1, <3>3 DEF LostInv
  <2> QED
    BY <2>1, <2>3, <2>4
<1>5. CASE DeviceOff \/ DeviceClose
  <2>1. /\ device \in {"init", "on", "off"} /\ device' \in {"off", "closed"} /\ plugs' = plugs
        /\ open' = open \ {fd} /\ UNCHANGED <<others, epollfd, timerfd>>
    BY <1>5 DEF DeviceOff, DeviceClose, SwitchOff, counters
  <2>2. Lost' \subseteq Lost
    BY <2>1 DEF Lost, Held, HasTouchpad
  <2>3. Credit' = 1 /\ Credit \in {1, 2}
    BY <2>1 DEF Credit
  <2> QED
    BY <1>0, <1>a, <2>1, <2>2, <2>3 DEF LostInv
<1>6. CASE UnInit
  <2>1. /\ device \in {"ready", "closed"} /\ device' = "none" /\ plugs' = plugs
        /\ open' = open \ {epollfd} /\ UNCHANGED others
    BY <1>6 DEF UnInit, counters
  <2>2. Lost' \subseteq Lost \cup {fd, timerfd}
    BY <2>1 DEF Lost, Held, HasTouchpad
  <2>3. CASE device = "ready"
    <3>1. Credit = 2 /\ Credit' = 0
      BY <2>1, <2>3 DEF Credit
    <3> QED
      BY <1>0, <1>a, <2>1, <2>2, <3>1 DEF LostInv
  <2>4. CASE device = "closed"
    <3>1. Credit = 1 /\ Credit' = 0
      BY <2>1, <2>4 DEF Credit
    <3>2. fd = -1 /\ open \in SUBSET Nat
      BY <2>4 DEF DInv, DeviceHas, DescriptorsOK
    <3>3. Lost' \subseteq Lost \cup {timerfd}
      BY <2>1, <3>2 DEF Lost, Held, HasTouchpad
    <3> QED
      BY <1>0, <1>a, <2>1, <3>1, <3>3 DEF LostInv
  <2> QED
    BY <2>1, <2>3, <2>4
<1>7. CASE ServerOpens
  <2>1. UNCHANGED <<device, fd, epollfd, timerfd, plugs>>
    BY <1>7 DEF ServerOpens, counters
  <2>2. Lost' \subseteq Lost
    BY <1>7, <2>1, ServerOpensInv DEF Lost, Held, HasTouchpad
  <2>3. Credit' = Credit /\ Credit \in Nat
    BY <2>1 DEF Credit
  <2> QED
    BY <1>0, <1>a, <2>1, <2>2, <2>3 DEF LostInv
<1>8. CASE \/ \E dir \in Directions, motion \in Motions : Scroll(dir, motion)
           \/ UNCHANGED driverVars
  <2>1. UNCHANGED <<device, open, others, fd, epollfd, timerfd, plugs>>
    BY <1>8 DEF Scroll, driverVars, fdVars, counters
  <2> QED
    BY <2>1 DEF LostInv, Lost, Held, HasTouchpad, Credit
<1> QED
  BY <1>1, <1>2, <1>3, <1>4, <1>5, <1>6, <1>7, <1>8 DEF Next

(* However often devices are switched, no more than two descriptors are     *)
(* lost for every device that was added.                                    *)
THEOREM NeverLostBySwitching == Spec => []NothingLostBySwitching
<1>1. Init => LostInv
  <2> SUFFICES ASSUME Init PROVE LostInv
    OBVIOUS
  <2>1. Lost = {} /\ Credit = 0 /\ plugs = 0
    BY DEF Init, Lost, Credit
  <2> QED
    BY <2>1, FS_EmptySet DEF LostInv
<1>2. DInv /\ LostInv => NothingLostBySwitching
  <2> SUFFICES ASSUME DInv, LostInv PROVE Cardinality(Lost) <= 2 * plugs
    BY DEF NothingLostBySwitching, Lost
  <2>1. Cardinality(Lost) \in Nat
    BY FS_Subset, FS_CardinalityType DEF DInv, DescriptorsOK, Lost
  <2>2. Credit \in Nat
    BY DEF Credit
  <2> QED
    BY <2>1, <2>2 DEF LostInv
<1> QED
  BY <1>1, <1>2, LostStep, DInductive, PTL DEF Spec

----------------------------------------------------------------------------
(* The areas of the soft buttons: a percentage reads back as itself. *)

(* The quotient of a division is the only number that fits. *)
LEMMA QuotientIs ==
    ASSUME NEW n \in Int, NEW d \in Nat \ {0}, NEW q \in Int, d * q <= n, n < d * q + d
    PROVE  n \div d = q
OBVIOUS

(* It leaves less than what was divided by. *)
LEMMA QuotientFits ==
    ASSUME NEW n \in Int, NEW d \in Nat \ {0}
    PROVE  n \div d \in Int /\ d * (n \div d) <= n /\ n < d * (n \div d) + d
OBVIOUS

(* A percentage of a width lies between one and 99 hundredths of it. *)
LEMMA PercentOf ==
    ASSUME NEW w \in Nat, NEW p \in 1 .. 99
    PROVE  w * p \in Int /\ w <= w * p /\ w * p <= 99 * w
OBVIOUS

(* config_get_softbutton undoes config_set_softbutton: the coordinate is cut *)
(* by less than one, which is less than half a percent of an axis.           *)
LEMMA AreaReadsBack ==
    ASSUME NEW axis \in Axes, NEW p \in 0 .. 100
    PROVE  Scale(axis, p) \in Int /\ Unscale(axis, Scale(axis, p)) = p
<1> DEFINE w == Width(axis)
           a == AxisMin[axis]
           v == Scale(axis, p)
           x == w * p
<1>0. /\ a \in Int /\ w \in Nat /\ w >= 200 /\ INT_MAX \in Nat
      /\ a + w - 1 < INT_MAX /\ -a <= INT_MAX
  BY AxisAssumption, IntAssumption DEF Width
<1>1. CASE p = 0 \/ p = 100
  BY <1>0, <1>1 DEF Scale, Unscale, INT_MIN
<1>2. CASE p \in 1 .. 99
  <2>1. x \in Int /\ w <= x /\ x <= 99 * w
    BY <1>0, <1>2, PercentOf
  <2>2. v = Truncated(x + 100 * a, 100)
    BY <1>2 DEF Scale
  <2> HIDE DEF w, a, v, x
  <2>3. v \in Int /\ -100 < 100 * v - (x + 100 * a) /\ 100 * v - (x + 100 * a) < 100
    BY <1>0, <2>1, <2>2 DEF Truncated
  <2>4. v # INT_MAX /\ v # INT_MIN
    BY <1>0, <2>1, <2>3 DEF INT_MIN
  <2>5. Unscale(axis, v) = Truncated((v - a) * 200 + w, 2 * w)
    BY <2>4 DEF Unscale, a, w
  <2>6. /\ (v - a) * 200 + w \in Nat
        /\ 2 * x <= (v - a) * 200 + w /\ (v - a) * 200 + w < 2 * x + 2 * w
    BY <1>0, <2>1, <2>3
  <2>7. (2 * w) * p = 2 * x
    BY <1>0, <1>2 DEF x
  <2>8. ((v - a) * 200 + w) \div (2 * w) = p
    <3> DEFINE n == (v - a) * 200 + w
               d == 2 * w
    <3>1. n \in Int /\ d \in Nat \ {0} /\ d * p <= n /\ n < d * p + d
      BY <1>0, <2>6, <2>7
    <3> HIDE DEF n, d
    <3>2. n \div d = p
      BY <1>2, <3>1, QuotientIs
    <3> QED
      BY <3>2 DEF n, d
  <2>9. Unscale(axis, v) = p
    BY <2>5, <2>6, <2>8 DEF Truncated
  <2> QED
    BY <2>3, <2>9 DEF v
<1> QED
  BY <1>1, <1>2

----------------------------------------------------------------------------
(* One pair *)

(* The members of the configuration. *)
Members == DOMAIN Default

(* They are these. *)
LEMMA MembersAre ==
    Members = {"enabled", "timeout_period", "methods", "vdelta", "hdelta",
               "motion_history_size", "leave_timeout", "enter_timeout",
               "top", "bottom", "right_left", "right_right"}
BY DEF Members, Default

(* The keys, one by one. *)
LEMMA AreaKeysAre ==
    SoftButtonKeys = {"SOFTBUTTON_TOP", "SOFTBUTTON_BOTTOM",
                      "SOFTBUTTON_RBTN_LEFT", "SOFTBUTTON_RBTN_RIGHT"}
BY DEF Axis, SoftButtonKeys

(* All the keys. *)
LEMMA KeysAre ==
    Keys = SoftButtonKeys \cup
              {"TAP_ENABLE", "TAP_TIMEOUT", "TAP_DOUBLETAP_TIMEOUT", "TAP_MOVE_THRESHOLD",
               "SCROLL_METHOD", "SCROLL_DELTA_VERT", "SCROLL_DELTA_HORIZ", "MOTION_HISTORY_SIZE",
               "SOFTBUTTON_LEAVE_TIMEOUT", "SOFTBUTTON_ENTER_TIMEOUT"}
BY DEF Keys, Field, SoftButtonKeys, Axis

(* The tables of the keys.  Only the tap timeouts share a member. *)
LEMMA KeyTables ==
    /\ \A key \in Keys : Field[key] \in Members
    /\ \A key \in SoftButtonKeys : /\ key \in Keys /\ Axis[key] \in Axes
                                   /\ Default[Field[key]] \in 0 .. 100
    /\ \A key \in SoftButtonKeys \cup {"TAP_ENABLE"}, other \in Keys :
          Field[other] = Field[key] => other = key
    /\ \A m \in Members : Default[m] \in Nat \ {0}
    /\ "TAP_ENABLE" \in Keys \ SoftButtonKeys
    /\ \A key, other \in Keys : Field[other] = Field[key] <=> other \in Writers(key)
<1>1. \A key \in Keys : Field[key] \in Members
  BY MembersAre, KeysAre, AreaKeysAre DEF Field
<1>2. \A key \in SoftButtonKeys : /\ key \in Keys /\ Axis[key] \in Axes
                                  /\ Default[Field[key]] \in 0 .. 100
  BY KeysAre, AreaKeysAre DEF Axis, Axes, Default, Field
<1>3. \A key \in SoftButtonKeys \cup {"TAP_ENABLE"}, other \in Keys :
         Field[other] = Field[key] => other = key
  BY KeysAre, AreaKeysAre DEF Field
<1>4. \A m \in Members : Default[m] \in Nat \ {0}
  BY MembersAre DEF Default, VERTICAL
<1>5. "TAP_ENABLE" \in Keys \ SoftButtonKeys
  BY KeysAre, AreaKeysAre
<1>6. ASSUME NEW key \in Keys, NEW other \in Keys
      PROVE  Field[other] = Field[key] <=> other \in Writers(key)
  <2>1. TapPeriods \subseteq Keys
    BY KeysAre DEF TapPeriods
  <2>2. CASE key \in TapPeriods
    <3>1. Field[key] = "timeout_period"
      BY <2>2 DEF TapPeriods, Field
    <3>2. Field[other] = "timeout_period" <=> other \in TapPeriods
      BY KeysAre, AreaKeysAre DEF TapPeriods, Field
    <3> QED
      BY <2>2, <3>1, <3>2 DEF Writers
  <2>3. CASE key \notin TapPeriods
    <3>1. Field[other] = Field[key] <=> other = key
      BY <2>3, KeysAre, AreaKeysAre DEF TapPeriods, Field
    <3> QED
      BY <2>3, <3>1 DEF Writers
  <2> QED
    BY <2>2, <2>3
<1> QED
  BY <1>1, <1>2, <1>3, <1>4, <1>5, <1>6

(* A pair without an error has a key and, for an area, a percentage. *)
LEMMA GoodPair ==
    ASSUME NEW key, NEW value \in Int, ErrorOf(key, value) = "NO_ERROR"
    PROVE  key \in Keys /\ (key \in SoftButtonKeys => value \in 0 .. 100)
<1>1. key \in Keys
  BY DEF ErrorOf
<1>2. CASE key \in SoftButtonKeys
  <2>1. key \in DOMAIN Bounds /\ Bounds[key] = [low |-> 0, high |-> 100]
    BY <1>2 DEF Bounds
  <2>2. ~(value < 0) /\ ~(value > 100)
    BY <2>1 DEF ErrorOf
  <2> QED
    BY <1>1, <2>2
<1> QED
  BY <1>1, <1>2

(* A good pair changes the member of its key and no other. *)
LEMMA ApplyIs ==
    ASSUME NEW c \in [Members -> Int], NEW key, NEW value \in Int,
           ErrorOf(key, value) = "NO_ERROR"
    PROVE  /\ Apply(c, key, value) \in [Members -> Int]
           /\ \A m \in Members : m # Field[key] => Apply(c, key, value)[m] = c[m]
           /\ Apply(c, key, value)[Field[key]] =
                 IF key \in SoftButtonKeys THEN Scale(Axis[key], Value(key, value))
                 ELSE IF key = "TAP_ENABLE" THEN (IF Value(key, value) = 0 THEN 0 ELSE 1)
                 ELSE Value(key, value)
           /\ Value(key, value) \in Int
           /\ key \in SoftButtonKeys => Value(key, value) \in 0 .. 100
<1> DEFINE u == Value(key, value)
           w == IF key \in SoftButtonKeys THEN Scale(Axis[key], u)
                ELSE IF key = "TAP_ENABLE" THEN (IF u = 0 THEN 0 ELSE 1)
                ELSE u
           d == Apply(c, key, value)
<1>1. key \in Keys /\ (key \in SoftButtonKeys => value \in 0 .. 100) /\ Field[key] \in Members
  BY GoodPair, KeyTables
<1>2. u \in Int /\ (key \in SoftButtonKeys => u \in 0 .. 100)
  BY <1>1, KeyTables DEF Value
<1>3. w \in Int
  <2>1. CASE key \in SoftButtonKeys
    BY <1>2, <2>1, AreaReadsBack, KeyTables
  <2>2. CASE key \notin SoftButtonKeys
    BY <1>2, <2>2
  <2> QED
    BY <2>1, <2>2
<1>4. d = [c EXCEPT ![Field[key]] = w]
  BY DEF Apply
<1> HIDE DEF w, d
<1>5. /\ d \in [Members -> Int] /\ d[Field[key]] = w
      /\ \A m \in Members : m # Field[key] => d[m] = c[m]
  BY <1>1, <1>3, <1>4
<1> QED
  BY <1>2, <1>5 DEF w, d

(* A good pair changes what is read back for the keys of its member, to     *)
(* what it means, and for no others.                                        *)
LEMMA ApplyReadsBack ==
    ASSUME NEW c \in [Members -> Int], NEW key, NEW value \in Int,
           ErrorOf(key, value) = "NO_ERROR", NEW k \in Keys
    PROVE  /\ Field[k] = Field[key] =>
                 GetKeyValue(Apply(c, key, value), k) = Meant(key, value)
           /\ Field[k] # Field[key] =>
                 GetKeyValue(Apply(c, key, value), k) = GetKeyValue(c, k)
<1> DEFINE u == Value(key, value)
           d == Apply(c, key, value)
<1>1. key \in Keys
  BY GoodPair
<1>2. /\ \A m \in Members : m # Field[key] => d[m] = c[m]
      /\ d[Field[key]] = IF key \in SoftButtonKeys THEN Scale(Axis[key], u)
                         ELSE IF key = "TAP_ENABLE" THEN (IF u = 0 THEN 0 ELSE 1)
                         ELSE u
      /\ key \in SoftButtonKeys => u \in 0 .. 100
  BY ApplyIs
<1> HIDE DEF d
<1>3. ASSUME Field[k] # Field[key] PROVE GetKeyValue(d, k) = GetKeyValue(c, k)
  BY <1>2, <1>3, KeyTables DEF GetKeyValue
<1>4. ASSUME Field[k] = Field[key] PROVE GetKeyValue(d, k) = Meant(key, value)
  <2>1. CASE key \in SoftButtonKeys
    <3>1. k = key /\ key # "TAP_ENABLE"
      BY <1>4, <2>1, KeyTables
    <3>2. GetKeyValue(d, k) = Unscale(Axis[key], Scale(Axis[key], u))
      BY <1>2, <2>1, <3>1 DEF GetKeyValue
    <3>3. Unscale(Axis[key], Scale(Axis[key], u)) = u
      BY <1>2, <2>1, AreaReadsBack, KeyTables
    <3> QED
      BY <3>1, <3>2, <3>3 DEF Meant
  <2>2. CASE key = "TAP_ENABLE"
    <3>1. k \notin SoftButtonKeys
      BY <1>4, <2>2, KeyTables
    <3>2. GetKeyValue(d, k) = (IF u = 0 THEN 0 ELSE 1)
      BY <1>2, <1>4, <2>2, <3>1, KeyTables DEF GetKeyValue
    <3>3. (u = 0) <=> (value = 0)
      <4>1. CASE value = USE_DEFAULT
        <5>1. u # 0
          BY <1>1, <4>1, KeyTables DEF Value
        <5>2. INT_MAX # 0
          BY AxisAssumption, IntAssumption DEF Width, Axes
        <5> QED
          BY <4>1, <5>1, <5>2 DEF USE_DEFAULT
      <4>2. CASE value # USE_DEFAULT
        BY <4>2 DEF Value
      <4> QED
        BY <4>1, <4>2
    <3> QED
      BY <2>2, <3>2, <3>3 DEF Meant
  <2>3. CASE key \notin SoftButtonKeys /\ key # "TAP_ENABLE"
    <3>1. k \notin SoftButtonKeys
      BY <1>1, <1>4, <2>3, KeyTables
    <3> QED
      BY <1>2, <1>4, <2>3, <3>1 DEF GetKeyValue, Meant
  <2> QED
    BY <2>1, <2>2, <2>3
<1> QED
  BY <1>3, <1>4 DEF d

----------------------------------------------------------------------------
(* Lists of pairs *)

(* What the loop is after each number of pairs. *)
Loop(c, pairs, after) ==
    after = [n \in 0 .. Len(pairs) |->
                IF n = 0
                THEN [config |-> c, processed |-> 1, error |-> "UNSET", failed |-> FALSE]
                ELSE SetPair(after[n - 1], pairs[n])]

(* The first n rounds of the loop exist, whatever n is. *)
LEMMA LoopExists ==
    ASSUME NEW c, NEW pairs, Len(pairs) \in Nat
    PROVE  \E after : Loop(c, pairs, after)
<1> DEFINE Start == [config |-> c, processed |-> 1, error |-> "UNSET", failed |-> FALSE]
           Rounds(k, g) == g = [n \in 0 .. k |->
                                   IF n = 0 THEN Start ELSE SetPair(g[n - 1], pairs[n])]
           T == {k \in Nat : \E g : Rounds(k, g)}
<1>1. 0 \in T
  <2>1. Rounds(0, [n \in 0 .. 0 |-> Start])
    OBVIOUS
  <2> HIDE DEF Rounds
  <2> QED
    BY <2>1
<1>2. ASSUME NEW k \in Nat, k \in T PROVE k + 1 \in T
  <2>1. PICK g : Rounds(k, g)
    BY <1>2
  <2> HIDE DEF Start
  <2> DEFINE h == [n \in 0 .. k + 1 |-> IF n <= k THEN g[n] ELSE SetPair(g[k], pairs[k + 1])]
  <2>2. \A n \in 0 .. k : h[n] = g[n]
    OBVIOUS
  <2>3. \A n \in 0 .. k : g[n] = IF n = 0 THEN Start ELSE SetPair(g[n - 1], pairs[n])
    BY <2>1
  <2>4. ASSUME NEW n \in 0 .. k + 1
        PROVE  h[n] = IF n = 0 THEN Start ELSE SetPair(h[n - 1], pairs[n])
    <3>1. CASE n \in 1 .. k
      <4>1. n - 1 \in 0 .. k /\ n \in 0 .. k /\ n # 0
        BY <3>1
      <4> HIDE DEF h
      <4> QED
        BY <2>2, <2>3, <4>1
    <3>2. CASE n = 0
      <4> HIDE DEF h
      <4> QED
        BY <2>2, <2>3, <3>2
    <3>3. CASE n = k + 1
      <4>1. h[n] = SetPair(g[k], pairs[k + 1]) /\ n - 1 = k /\ n # 0
        BY <3>3
      <4> HIDE DEF h
      <4> QED
        BY <2>2, <3>3, <4>1
    <3> QED
      BY <3>1, <3>2, <3>3
  <2>5. Rounds(k + 1, h)
    <3>1. h = [n \in 0 .. k + 1 |-> h[n]]
      OBVIOUS
    <3> HIDE DEF h
    <3> QED
      BY <2>4, <3>1
  <2> HIDE DEF Rounds, h
  <2> QED
    BY <2>5
<1> HIDE DEF T
<1>3. Len(pairs) \in T
  BY <1>1, <1>2, SetInduction
<1> QED
  BY <1>3 DEF T, Loop

(* touchpad_config_set, one pair at a time. *)
LEMMA SetPairsStep ==
    ASSUME NEW c, NEW pairs, Len(pairs) \in Nat
    PROVE  /\ SetPairs(c, pairs)[0] =
                 [config |-> c, processed |-> 1, error |-> "UNSET", failed |-> FALSE]
           /\ \A n \in 1 .. Len(pairs) :
                 SetPairs(c, pairs)[n] = SetPair(SetPairs(c, pairs)[n - 1], pairs[n])
<1> DEFINE after == SetPairs(c, pairs)
<1>1. Loop(c, pairs, after)
  <2>1. after = CHOOSE g : Loop(c, pairs, g)
    BY DEF SetPairs, Loop
  <2> HIDE DEF after
  <2> QED
    BY <2>1, LoopExists
<1> HIDE DEF after
<1>2. \A n \in 0 .. Len(pairs) :
         after[n] = IF n = 0
                    THEN [config |-> c, processed |-> 1, error |-> "UNSET", failed |-> FALSE]
                    ELSE SetPair(after[n - 1], pairs[n])
  BY <1>1 DEF Loop
<1>3. after[0] = [config |-> c, processed |-> 1, error |-> "UNSET", failed |-> FALSE]
  <2>1. 0 \in 0 .. Len(pairs)
    OBVIOUS
  <2> QED
    BY <1>2, <2>1, Zenon
<1>4. \A n \in 1 .. Len(pairs) : after[n] = SetPair(after[n - 1], pairs[n])
  BY <1>2
<1> QED
  BY <1>3, <1>4 DEF after

(* A call with a single pair. *)
LEMMA ConfigSetOne ==
    ASSUME NEW c \in [Members -> Int], NEW key, NEW value \in Int
    PROVE  ConfigSet(c, <<<<key, value>>>>).config =
              IF ErrorOf(key, value) = "NO_ERROR" THEN Apply(c, key, value) ELSE c
<1> DEFINE pairs == <<<<key, value>>>>
<1>1. Len(pairs) = 1 /\ pairs[1] = <<key, value>>
  OBVIOUS
<1> HIDE DEF pairs
<1>2. /\ SetPairs(c, pairs)[0] =
            [config |-> c, processed |-> 1, error |-> "UNSET", failed |-> FALSE]
      /\ SetPairs(c, pairs)[1] = SetPair(SetPairs(c, pairs)[0], pairs[1])
  <2>1. Len(pairs) \in Nat /\ 1 \in 1 .. Len(pairs) /\ 1 - 1 = 0
    BY <1>1
  <2>2. SetPairs(c, pairs)[1] = SetPair(SetPairs(c, pairs)[1 - 1], pairs[1])
    <3>1. \A n \in 1 .. Len(pairs) :
             SetPairs(c, pairs)[n] = SetPair(SetPairs(c, pairs)[n - 1], pairs[n])
      BY <2>1, SetPairsStep, Zenon
    <3> QED
      BY <2>1, <3>1
  <2>3. SetPairs(c, pairs)[0] =
           [config |-> c, processed |-> 1, error |-> "UNSET", failed |-> FALSE]
    BY <2>1, SetPairsStep, Zenon
  <2> QED
    BY <2>1, <2>2, <2>3
<1>3. SetPairs(c, pairs)[1].config =
         IF ErrorOf(key, value) = "NO_ERROR" THEN Apply(c, key, value) ELSE c
  BY <1>1, <1>2 DEF SetPair
<1>4. ConfigSet(c, pairs).config = SetPairs(c, pairs)[Len(pairs)].config
  BY DEF ConfigSet
<1> QED
  BY <1>1, <1>3, <1>4 DEF pairs

----------------------------------------------------------------------------
(* The loop of touchpad_config_set *)

Errors == {"UNSET", "UNCHANGED", "KEY_INVALID", "VALUE_TOO_LOW", "VALUE_TOO_HIGH", "NO_ERROR"}

LoopStates == [config : [Members -> Int], processed : Nat, error : Errors, failed : BOOLEAN]

(* A round of it: nothing after a bad pair, an error for the first one, a   *)
(* change of the configuration for a good one.                              *)
LEMMA RoundIs ==
    ASSUME NEW s \in LoopStates, NEW key, NEW value \in Int,
           NEW t, t = SetPair(s, <<key, value>>)
    PROVE  /\ t \in LoopStates
           /\ s.failed => t = s
           /\ ~s.failed /\ ErrorOf(key, value) # "NO_ERROR" =>
                 /\ t.failed /\ t.config = s.config /\ t.processed = s.processed
                 /\ t.error = IF key = "USE_DEFAULT" THEN s.error ELSE ErrorOf(key, value)
           /\ ~s.failed /\ ErrorOf(key, value) = "NO_ERROR" =>
                 /\ ~t.failed /\ t.config = Apply(s.config, key, value)
                 /\ t.processed = s.processed + 1 /\ t.error = "NO_ERROR"
<1> DEFINE e == ErrorOf(key, value)
<1>1. e \in Errors /\ (e = "UNCHANGED" <=> key = "USE_DEFAULT")
  <2>1. e \in Errors /\ (e = "UNCHANGED" => key = "USE_DEFAULT")
    BY DEF ErrorOf, Errors
  <2>2. "USE_DEFAULT" \notin DOMAIN Bounds
    BY AreaKeysAre DEF Bounds
  <2>3. key = "USE_DEFAULT" => e = "UNCHANGED"
    BY <2>2 DEF ErrorOf
  <2> QED
    BY <2>1, <2>3
<1>2. t = IF s.failed THEN s
          ELSE IF e # "NO_ERROR"
          THEN [s EXCEPT !.failed = TRUE, !.error = IF e = "UNCHANGED" THEN @ ELSE e]
          ELSE [s EXCEPT !.config = Apply(@, key, value), !.processed = @ + 1, !.error = e]
  BY DEF SetPair
<1>3. e = "NO_ERROR" => Apply(s.config, key, value) \in [Members -> Int]
  BY ApplyIs DEF LoopStates
<1> HIDE DEF e
<1>4. CASE s.failed
  BY <1>2, <1>4
<1>5. CASE ~s.failed /\ e # "NO_ERROR"
  <2>1. t = [s EXCEPT !.failed = TRUE, !.error = IF e = "UNCHANGED" THEN @ ELSE e]
    BY <1>2, <1>5
  <2>2. /\ t.failed /\ t.config = s.config /\ t.processed = s.processed
        /\ t.error = IF e = "UNCHANGED" THEN s.error ELSE e
    BY <2>1 DEF LoopStates
  <2>3. t \in LoopStates
    BY <1>1, <2>1 DEF LoopStates
  <2> QED
    BY <1>1, <1>5, <2>2, <2>3 DEF e
<1>6. CASE ~s.failed /\ e = "NO_ERROR"
  <2>1. t = [s EXCEPT !.config = Apply(@, key, value), !.processed = @ + 1, !.error = e]
    BY <1>2, <1>6
  <2>2. /\ ~t.failed /\ t.config = Apply(s.config, key, value)
        /\ t.processed = s.processed + 1 /\ t.error = "NO_ERROR"
    BY <1>6, <2>1 DEF LoopStates
  <2>3. t \in LoopStates
    <3> DEFINE a == Apply(s.config, key, value)
    <3>1. a \in [Members -> Int] /\ s.processed + 1 \in Nat
      BY <1>3, <1>6 DEF LoopStates
    <3>2. t = [s EXCEPT !.config = a, !.processed = s.processed + 1, !.error = e]
      BY <2>1
    <3> HIDE DEF a
    <3> QED
      BY <1>1, <3>1, <3>2 DEF LoopStates
  <2> QED
    BY <1>6, <2>2, <2>3 DEF e
<1> QED
  BY <1>4, <1>5, <1>6

Good(pair) == ErrorOf(pair[1], pair[2]) = "NO_ERROR"

(* The last of the first k pairs that is for the member of a key. *)
LastFor(pairs, k, key, j) ==
    /\ j \in 1 .. k
    /\ Field[pairs[j][1]] = Field[key]
    /\ \A i \in j + 1 .. k : Field[pairs[i][1]] # Field[key]

(* What a key reads after the first k pairs. *)
ReadsAfter(c, pairs, k, key, v) ==
    /\ (\A i \in 1 .. k : Field[pairs[i][1]] # Field[key]) => v = GetKeyValue(c, key)
    /\ \A j : LastFor(pairs, k, key, j) => v = Meant(pairs[j][1], pairs[j][2])

(* The error after a loop that has come to the pair p, and stopped there or *)
(* not.                                                                     *)
ErrorAt(pairs, p, failed) ==
    IF failed /\ pairs[p][1] # "USE_DEFAULT" THEN ErrorOf(pairs[p][1], pairs[p][2])
    ELSE IF p = 1 THEN "UNSET"
    ELSE "NO_ERROR"

(* After n rounds. *)
RoundsOK(c, pairs, n, s) ==
    /\ s \in LoopStates
    /\ s.processed \in 1 .. n + 1
    /\ \A i \in 1 .. s.processed - 1 : Good(pairs[i])
    /\ ~s.failed => s.processed = n + 1
    /\ s.failed => s.processed <= n /\ ~Good(pairs[s.processed])
    /\ s.error = ErrorAt(pairs, s.processed, s.failed)
    /\ \A key \in Keys :
          ReadsAfter(c, pairs, s.processed - 1, key, GetKeyValue(s.config, key))

(* One round of the loop after n of them: the pair it looks at becomes the   *)
(* last one for its member.                                                  *)
LEMMA OneRoundMore ==
    ASSUME NEW c \in [Members -> Int], NEW K, NEW pairs \in Seq(K \X Int),
           NEW n \in Nat, n + 1 \in 1 .. Len(pairs),
           NEW s, RoundsOK(c, pairs, n, s), NEW t, t = SetPair(s, pairs[n + 1])
    PROVE  RoundsOK(c, pairs, n + 1, t)
<1> DEFINE key == pairs[n + 1][1]
           value == pairs[n + 1][2]
<1>1. /\ value \in Int /\ pairs[n + 1] = <<key, value>> /\ s \in LoopStates
      /\ s.processed \in 1 .. n + 1
      /\ \A i \in 1 .. s.processed - 1 : Good(pairs[i])
  <2>1. pairs[n + 1] \in K \X Int
    OBVIOUS
  <2> QED
    BY <2>1 DEF RoundsOK
<1> HIDE DEF key, value
<1>2. /\ t \in LoopStates
      /\ s.failed => t = s
      /\ ~s.failed /\ ErrorOf(key, value) # "NO_ERROR" =>
            /\ t.failed /\ t.config = s.config /\ t.processed = s.processed
            /\ t.error = IF key = "USE_DEFAULT" THEN s.error ELSE ErrorOf(key, value)
      /\ ~s.failed /\ ErrorOf(key, value) = "NO_ERROR" =>
            /\ ~t.failed /\ t.config = Apply(s.config, key, value)
            /\ t.processed = s.processed + 1 /\ t.error = "NO_ERROR"
  <2>1. t = SetPair(s, <<key, value>>)
    BY <1>1
  <2> QED
    BY <1>1, <2>1, RoundIs, SMTT(30)
<1>3. CASE s.failed
  <2>1. t = s /\ s.processed <= n + 1 /\ s.processed \in 1 .. (n + 1) + 1
    <3>1. s.processed <= n
      BY <1>3 DEF RoundsOK
    <3> QED
      BY <1>1, <1>2, <1>3, <3>1
  <2>2. t.error = ErrorAt(pairs, t.processed, t.failed)
    BY <2>1, Zenon DEF RoundsOK
  <2>3. /\ t.failed /\ t.processed <= n + 1 /\ ~Good(pairs[t.processed])
        /\ \A i \in 1 .. t.processed - 1 : Good(pairs[i])
        /\ \A k \in Keys :
              ReadsAfter(c, pairs, t.processed - 1, k, GetKeyValue(t.config, k))
    BY <1>3, <2>1, ZenonT(30) DEF RoundsOK
  <2>4. t \in LoopStates /\ t.processed \in 1 .. (n + 1) + 1
    BY <1>2, <2>1
  <2> QED
    BY <2>2, <2>3, <2>4, Zenon DEF RoundsOK
<1>4. CASE ~s.failed /\ ErrorOf(key, value) # "NO_ERROR"
  <2>1. s.processed = n + 1 /\ s.error = ErrorAt(pairs, n + 1, FALSE)
    <3>1. s.processed = n + 1
      BY <1>4 DEF RoundsOK
    <3>2. s.error = ErrorAt(pairs, s.processed, s.failed)
      BY Zenon DEF RoundsOK
    <3> QED
      BY <1>4, <3>1, <3>2 DEF ErrorAt
  <2>2. /\ t.failed /\ t.config = s.config /\ t.processed = n + 1
        /\ t.error = IF key = "USE_DEFAULT" THEN s.error ELSE ErrorOf(key, value)
    BY <1>2, <1>4, <2>1
  <2>3. ~Good(pairs[t.processed]) /\ pairs[t.processed] = <<key, value>>
    <3>1. pairs[t.processed] = <<key, value>>
      BY <1>1, <2>2
    <3> QED
      BY <1>4, <3>1 DEF Good
  <2>4. \A k \in Keys :
           ReadsAfter(c, pairs, t.processed - 1, k, GetKeyValue(t.config, k))
    BY <2>1, <2>2 DEF RoundsOK
  <2>5. /\ t.processed \in 1 .. (n + 1) + 1 /\ t.processed <= n + 1
        /\ \A i \in 1 .. t.processed - 1 : Good(pairs[i])
    <3>1. t.processed = s.processed
      BY <2>1, <2>2
    <3>2. s.processed \in 1 .. (n + 1) + 1 /\ s.processed <= n + 1
      BY <2>1
    <3> QED
      BY <1>1, <3>1, <3>2
  <2>6. t.error = ErrorAt(pairs, t.processed, t.failed)
    <3>1. pairs[n + 1] = <<key, value>>
      BY <1>1
    <3>2. CASE key = "USE_DEFAULT"
      BY <2>1, <2>2, <3>1, <3>2 DEF ErrorAt
    <3>3. CASE key # "USE_DEFAULT"
      BY <2>2, <3>1, <3>3 DEF ErrorAt
    <3> QED
      BY <3>2, <3>3
  <2>7. t \in LoopStates
    BY <1>2
  <2>8. ~t.failed => t.processed = (n + 1) + 1
    BY <2>2
  <2>9. t.failed => t.processed <= n + 1 /\ ~Good(pairs[t.processed])
    BY <2>3, <2>5
  <2> QED
    BY <2>4, <2>5, <2>6, <2>7, <2>8, <2>9, Zenon DEF RoundsOK
<1>5. CASE ~s.failed /\ ErrorOf(key, value) = "NO_ERROR"
  <2>1. s.processed = n + 1
    BY <1>5 DEF RoundsOK
  <2>2. /\ ~t.failed /\ t.config = Apply(s.config, key, value)
        /\ t.processed = n + 2 /\ t.error = "NO_ERROR"
    BY <1>2, <1>5, <2>1
  <2>3. \A i \in 1 .. n + 1 : Good(pairs[i])
    BY <1>1, <1>5, <2>1 DEF Good
  <2>4. ASSUME NEW k \in Keys
        PROVE  ReadsAfter(c, pairs, n + 1, k, GetKeyValue(t.config, k))
    <3>1. GetKeyValue(t.config, k) = IF Field[k] = Field[key] THEN Meant(key, value)
                                     ELSE GetKeyValue(s.config, k)
      <4>1. s.config \in [Members -> Int] /\ value \in Int
        BY <1>1 DEF LoopStates
      <4>2. /\ Field[k] = Field[key] =>
                  GetKeyValue(Apply(s.config, key, value), k) = Meant(key, value)
            /\ Field[k] # Field[key] =>
                  GetKeyValue(Apply(s.config, key, value), k) = GetKeyValue(s.config, k)
        BY <1>5, <4>1, ApplyReadsBack, ZenonT(30)
      <4> QED
        BY <2>2, <4>2
    <3>2. ReadsAfter(c, pairs, n, k, GetKeyValue(s.config, k))
      <4>1. s.processed - 1 = n
        BY <2>1
      <4> QED
        BY <4>1 DEF RoundsOK
    <3>3. CASE Field[k] = Field[key]
      <4>1. ASSUME NEW j, LastFor(pairs, n + 1, k, j) PROVE j = n + 1
        BY <1>1, <3>3, <4>1 DEF LastFor
      <4>2. ~(\A i \in 1 .. n + 1 : Field[pairs[i][1]] # Field[k])
        BY <1>1, <3>3
      <4>3. GetKeyValue(t.config, k) = Meant(pairs[n + 1][1], pairs[n + 1][2])
        BY <1>1, <3>1, <3>3
      <4> QED
        BY <4>1, <4>2, <4>3 DEF ReadsAfter
    <3>4. CASE Field[k] # Field[key]
      <4>1. Field[pairs[n + 1][1]] # Field[k]
        BY <1>1, <3>4
      <4>2. ASSUME NEW j, LastFor(pairs, n + 1, k, j) PROVE LastFor(pairs, n, k, j)
        BY <4>1, <4>2 DEF LastFor
      <4>3. GetKeyValue(t.config, k) = GetKeyValue(s.config, k)
        BY <3>1, <3>4
      <4>4. 1 .. n \subseteq 1 .. n + 1
        OBVIOUS
      <4> QED
        BY <3>2, <4>2, <4>3, <4>4 DEF ReadsAfter
    <3> QED
      BY <3>3, <3>4
  <2>5. t.processed \in 1 .. n + 2 /\ t.processed - 1 = n + 1 /\ t.processed = (n + 1) + 1
    BY <2>2
  <2>6. t.error = ErrorAt(pairs, t.processed, t.failed)
    BY <2>2 DEF ErrorAt
  <2> QED
    BY <1>2, <2>2, <2>3, <2>4, <2>5, <2>6 DEF RoundsOK
<1> QED
  BY <1>3, <1>4, <1>5

(* By induction, all the rounds. *)
LEMMA AllRounds ==
    ASSUME NEW c \in [Members -> Int], NEW K, NEW pairs \in Seq(K \X Int)
    PROVE  RoundsOK(c, pairs, Len(pairs), SetPairs(c, pairs)[Len(pairs)])
<1> DEFINE T == {n \in Nat : n <= Len(pairs) => RoundsOK(c, pairs, n, SetPairs(c, pairs)[n])}
<1>0. Len(pairs) \in Nat
  OBVIOUS
<1>1. 0 \in T
  <2> DEFINE s == [config |-> c, processed |-> 1, error |-> "UNSET", failed |-> FALSE]
  <2>1. SetPairs(c, pairs)[0] = s
    BY <1>0, SetPairsStep, Zenon
  <2>2. RoundsOK(c, pairs, 0, s)
    <3>1. /\ s \in LoopStates /\ s.processed = 1 /\ s.config = c /\ ~s.failed
          /\ s.error = ErrorAt(pairs, s.processed, s.failed)
      BY DEF LoopStates, Errors, ErrorAt
    <3> HIDE DEF s
    <3>2. 1 .. 1 - 1 = {} /\ 1 - 1 = 0
      OBVIOUS
    <3>3. \A key \in Keys : ReadsAfter(c, pairs, 0, key, GetKeyValue(s.config, key))
      BY <3>1 DEF ReadsAfter, LastFor
    <3> QED
      BY <3>1, <3>2, <3>3 DEF RoundsOK
  <2> QED
    BY <2>1, <2>2
<1>2. ASSUME NEW n \in Nat, n \in T PROVE n + 1 \in T
  <2> SUFFICES ASSUME n + 1 <= Len(pairs)
               PROVE  RoundsOK(c, pairs, n + 1, SetPairs(c, pairs)[n + 1])
    OBVIOUS
  <2>1. n + 1 \in 1 .. Len(pairs) /\ (n + 1) - 1 = n /\ RoundsOK(c, pairs, n, SetPairs(c, pairs)[n])
    BY <1>0, <1>2
  <2>2. \A m \in 1 .. Len(pairs) :
           SetPairs(c, pairs)[m] = SetPair(SetPairs(c, pairs)[m - 1], pairs[m])
    BY <1>0, SetPairsStep, Zenon
  <2>3. SetPairs(c, pairs)[n + 1] = SetPair(SetPairs(c, pairs)[n], pairs[n + 1])
    BY <2>1, <2>2
  <2> QED
    BY <2>1, <2>3, OneRoundMore
<1> HIDE DEF T
<1>3. Len(pairs) \in T
  BY <1>0, <1>1, <1>2, SetInduction
<1> QED
  BY <1>0, <1>3 DEF T

----------------------------------------------------------------------------
(* touchpad_config_set and touchpad_config_get *)

(* A call that has applied the first k pairs. *)
Applies(c, pairs, set, k) ==
    /\ set.config \in [Members -> Int]
    /\ k \in 0 .. Len(pairs)
    /\ \A i \in 1 .. k : Good(pairs[i])
    /\ set.rc # 0 => set.rc \in 1 .. Len(pairs) /\ ~Good(pairs[set.rc])
    /\ set.error = ErrorAt(pairs, k + 1, set.rc # 0)
    /\ \A key \in Keys : ReadsAfter(c, pairs, k, key, GetKeyValue(set.config, key))

HowMany(pairs, rc) == IF rc = 0 THEN Len(pairs) ELSE rc - 1

(* The return value of touchpad_config_set says how many pairs were applied. *)
LEMMA ConfigSetApplies ==
    ASSUME NEW c \in [Members -> Int], NEW K, NEW pairs \in Seq(K \X Int)
    PROVE  Applies(c, pairs, ConfigSet(c, pairs), HowMany(pairs, ConfigSet(c, pairs).rc))
<1> DEFINE set == ConfigSet(c, pairs)
           k == HowMany(pairs, set.rc)
<1>0. k = IF set.rc = 0 THEN Len(pairs) ELSE set.rc - 1
  BY DEF HowMany
<1> DEFINE end == SetPairs(c, pairs)[Len(pairs)]
<1>1. set = [config |-> end.config, error |-> end.error,
             rc |-> IF end.failed THEN end.processed ELSE 0]
  BY DEF ConfigSet
<1>2. RoundsOK(c, pairs, Len(pairs), end)
  BY AllRounds
<1>3. Len(pairs) \in Nat
  OBVIOUS
<1> HIDE DEF end, set, k
<1>4. set.config = end.config /\ set.error = end.error
  BY <1>1
<1>5. set.rc = IF end.failed THEN end.processed ELSE 0
  BY <1>1
<1>6. end.processed \in 1 .. Len(pairs) + 1 /\ end \in LoopStates
  BY <1>2 DEF RoundsOK
<1>7. k = end.processed - 1
  <2>1. CASE end.failed
    BY <1>0, <1>3, <1>5, <1>6, <2>1
  <2>2. CASE ~end.failed
    <3>1. end.processed = Len(pairs) + 1
      BY <1>2, <2>2 DEF RoundsOK
    <3> QED
      BY <1>0, <1>3, <1>5, <2>2, <3>1
  <2> QED
    BY <2>1, <2>2
<1>8. set.config \in [Members -> Int]
  BY <1>4, <1>6 DEF LoopStates
<1>9. k \in 0 .. Len(pairs)
  BY <1>3, <1>6, <1>7
<1>10. \A i \in 1 .. k : Good(pairs[i])
  BY <1>2, <1>7 DEF RoundsOK
<1>11. ASSUME set.rc # 0
       PROVE  set.rc \in 1 .. Len(pairs) /\ ~Good(pairs[set.rc])
  <2>1. end.failed /\ set.rc = end.processed
    BY <1>5, <1>11
  <2>2. end.processed <= Len(pairs) /\ ~Good(pairs[end.processed])
    BY <1>2, <2>1 DEF RoundsOK
  <2>3. end.processed \in 1 .. Len(pairs)
    BY <1>3, <1>6, <2>2
  <2> QED
    BY <2>1, <2>2, <2>3
<1>12. \A key \in Keys : ReadsAfter(c, pairs, k, key, GetKeyValue(set.config, key))
  BY <1>2, <1>4, <1>7 DEF RoundsOK
<1>13. set.error = ErrorAt(pairs, k + 1, set.rc # 0)
  <2>1. k + 1 = end.processed /\ ((set.rc # 0) <=> end.failed)
    BY <1>5, <1>6, <1>7
  <2>2. end.error = ErrorAt(pairs, end.processed, end.failed)
    BY <1>2 DEF RoundsOK
  <2> QED
    BY <1>4, <2>1, <2>2 DEF ErrorAt
<1> QED
  BY <1>8, <1>9, <1>10, <1>11, <1>12, <1>13 DEF Applies, set, k

(* One key is read without an error. *)
LEMMA ConfigGetOne ==
    ASSUME NEW c, NEW key \in Keys
    PROVE  ConfigGet(c, <<key>>) = [values |-> <<GetKeyValue(c, key)>>, rc |-> 0]
<1> DEFINE keys == <<key>>
<1>1. Len(keys) = 1 /\ keys[1] = key
  OBVIOUS
<1> HIDE DEF keys
<1>2. {i \in 1 .. Len(keys) : keys[i] \notin Keys} = {}
  BY <1>1
<1>3. SelectInSeq(keys, LAMBDA x : x \notin Keys) = 0
  BY <1>2 DEF SelectInSeq
<1>4. ConfigGet(c, keys) =
         [values |-> [i \in 1 .. 1 |-> GetKeyValue(c, keys[i])], rc |-> 0]
  BY <1>1, <1>3 DEF ConfigGet
<1>5. [i \in 1 .. 1 |-> GetKeyValue(c, keys[i])] = <<GetKeyValue(c, key)>>
  BY <1>1
<1> QED
  BY <1>4, <1>5 DEF keys

(* What is read is what was asked for last, among the pairs applied. *)
LEMMA AskedForIs ==
    ASSUME NEW pairs, NEW k \in Nat, NEW app, Len(app) = k, \A i \in 1 .. k : app[i] = pairs[i],
           \A i \in 1 .. k : pairs[i][1] \in Keys,
           NEW key \in Keys, NEW v, ReadsAfter(config, pairs, k, key, v)
    PROVE  v = AskedFor(app, key)
<1> DEFINE writes(pair) == pair[1] \in Writers(key)
           I == {i \in 1 .. Len(app) : writes(app[i])}
           last == SelectLastInSeq(app, writes)
<1>1. last = IF I # {} THEN Max(I) ELSE 0
  BY DEF SelectLastInSeq
<1>2. AskedFor(app, key) = IF last = 0 THEN GetKeyValue(config, key)
                           ELSE Meant(app[last][1], app[last][2])
  BY DEF AskedFor
<1> HIDE DEF last
<1>0. \A i \in 1 .. k : i \in I <=> Field[pairs[i][1]] = Field[key]
  BY KeyTables
<1>3. CASE I = {}
  <2>1. \A i \in 1 .. k : Field[pairs[i][1]] # Field[key]
    BY <1>0, <1>3
  <2>2. v = GetKeyValue(config, key)
    BY <2>1 DEF ReadsAfter
  <2> QED
    BY <1>1, <1>2, <1>3, <2>2
<1>4. CASE I # {}
  <2>1. I \in SUBSET (0 .. k)
    OBVIOUS
  <2>2. \E m \in I : \A other \in I : m >= other
    BY <1>4, <2>1, GreatestNatural
  <2>3. last \in I /\ \A other \in I : last >= other
    <3> HIDE DEF I
    <3> QED
      BY <1>1, <1>4, <2>2 DEF Max
  <2>4. LastFor(pairs, k, key, last)
    BY <1>0, <2>3 DEF LastFor
  <2>5. last # 0 /\ app[last] = pairs[last]
    BY <2>3
  <2>6. v = Meant(pairs[last][1], pairs[last][2])
    BY <2>4 DEF ReadsAfter
  <2> QED
    BY <1>2, <2>5, <2>6
<1> QED
  BY <1>3, <1>4

(* The members of a configuration have integer values, and the scroll       *)
(* distances are not zero.                                                  *)
ConfigOK(c) == c \in [Members -> Int] /\ c.vdelta # 0 /\ c.hdelta # 0

(* A list of pairs reads back from any configuration of integers. *)
LEMMA ReadsBackIfOK == ConfigOK(config) => ReadsBack
<1> SUFFICES ASSUME ConfigOK(config), NEW pairs \in Calls,
                    NEW set, set = ConfigSet(config, pairs),
                    NEW app, app = Applied(pairs, set.rc)
             PROVE  /\ \A key \in Keys :
                          ConfigGet(set.config, <<key>>) =
                              [values |-> <<AskedFor(app, key)>>, rc |-> 0]
                    /\ \A i \in DOMAIN app : ErrorOf(app[i][1], app[i][2]) = "NO_ERROR"
                    /\ set.rc # 0 =>
                          ErrorOf(pairs[set.rc][1], pairs[set.rc][2]) # "NO_ERROR"
                    /\ set.error = Reported(pairs, set.rc)
  BY DEF ReadsBack
<1>1. config \in [Members -> Int] /\ pairs \in Seq(STRING \X Int)
  BY CallsAssumption DEF ConfigOK
<1> DEFINE k == HowMany(pairs, set.rc)
<1>2. k = IF set.rc = 0 THEN Len(pairs) ELSE set.rc - 1
  BY DEF HowMany
<1>a. Applies(config, pairs, set, k)
  BY <1>1, ConfigSetApplies
<1> HIDE DEF k
<1>3. /\ k \in 0 .. Len(pairs)
      /\ \A i \in 1 .. k : Good(pairs[i])
      /\ set.rc # 0 => set.rc \in 1 .. Len(pairs) /\ ~Good(pairs[set.rc])
      /\ set.error = ErrorAt(pairs, k + 1, set.rc # 0)
      /\ \A key \in Keys : ReadsAfter(config, pairs, k, key, GetKeyValue(set.config, key))
  BY <1>a DEF Applies
<1>4. app \in Seq(STRING \X Int) /\ Len(app) = k /\ \A i \in 1 .. k : app[i] = pairs[i]
  <2>1. CASE set.rc = 0
    BY <1>1, <1>2, <2>1 DEF Applied
  <2>2. CASE set.rc # 0
    <3>1. app = SubSeq(pairs, 1, k) /\ k <= Len(pairs) /\ k \in Nat
      BY <1>2, <1>3, <2>2 DEF Applied
    <3> QED
      BY <1>1, <3>1
  <2> QED
    BY <2>1, <2>2
<1>5. ASSUME NEW i \in 1 .. k
      PROVE  ErrorOf(pairs[i][1], pairs[i][2]) = "NO_ERROR" /\ pairs[i][1] \in Keys
  <2>1. ErrorOf(pairs[i][1], pairs[i][2]) = "NO_ERROR"
    BY <1>3 DEF Good
  <2>2. pairs[i][2] \in Int
    BY <1>1, <1>3
  <2> QED
    BY <2>1, <2>2, GoodPair
<1>6. ASSUME NEW key \in Keys
      PROVE  ConfigGet(set.config, <<key>>) = [values |-> <<AskedFor(app, key)>>, rc |-> 0]
  <2>1. ReadsAfter(config, pairs, k, key, GetKeyValue(set.config, key)) /\ k \in Nat
    BY <1>3
  <2>2. GetKeyValue(set.config, key) = AskedFor(app, key)
    BY <1>4, <1>5, <2>1, AskedForIs
  <2> QED
    BY <2>2, ConfigGetOne
<1>7. \A i \in DOMAIN app : ErrorOf(app[i][1], app[i][2]) = "NO_ERROR"
  BY <1>4, <1>5
<1>8. set.rc # 0 => ErrorOf(pairs[set.rc][1], pairs[set.rc][2]) # "NO_ERROR"
  BY <1>3 DEF Good
<1>9. set.error = Reported(pairs, set.rc)
  <2>1. app = <<>> <=> k + 1 = 1
    BY <1>3, <1>4
  <2>2. set.rc # 0 => k + 1 = set.rc
    BY <1>2, <1>3
  <2> QED
    BY <1>3, <2>1, <2>2 DEF ErrorAt, Reported
<1> QED
  BY <1>6, <1>7, <1>8, <1>9

----------------------------------------------------------------------------
(* The configuration *)

(* An option keeps the scroll distances non-zero if it is not zero itself. *)
LEMMA OptionOK ==
    ASSUME NEW c, ConfigOK(c), NEW key, NEW value \in Int,
           key \in {"SCROLL_DELTA_VERT", "SCROLL_DELTA_HORIZ"} => value # 0
    PROVE  /\ ConfigOK(ConfigSet(c, <<<<key, value>>>>).config)
           /\ ConfigOK(ApplyOption(c, key, value))
<1> DEFINE d == ConfigSet(c, <<<<key, value>>>>).config
<1>1. d = IF ErrorOf(key, value) = "NO_ERROR" THEN Apply(c, key, value) ELSE c
  BY ConfigSetOne DEF ConfigOK
<1> HIDE DEF d
<1>2. ASSUME ErrorOf(key, value) = "NO_ERROR" PROVE ConfigOK(d)
  <2> DEFINE u == Value(key, value)
  <2>1. /\ d \in [Members -> Int]
        /\ \A m \in Members : m # Field[key] => d[m] = c[m]
        /\ d[Field[key]] = IF key \in SoftButtonKeys THEN Scale(Axis[key], u)
                           ELSE IF key = "TAP_ENABLE" THEN (IF u = 0 THEN 0 ELSE 1)
                           ELSE u
    BY <1>1, <1>2, ApplyIs DEF ConfigOK
  <2>2. key \in Keys
    BY <1>2, GoodPair
  <2>3. /\ Field[key] \in {"vdelta", "hdelta"} =>
              /\ key \in {"SCROLL_DELTA_VERT", "SCROLL_DELTA_HORIZ"}
              /\ key \notin SoftButtonKeys /\ key # "TAP_ENABLE"
        /\ "vdelta" \in Members /\ "hdelta" \in Members
    BY <2>2, KeysAre, AreaKeysAre, MembersAre DEF Field
  <2>4. Field[key] \in {"vdelta", "hdelta"} => u # 0
    BY <2>2, <2>3, KeyTables DEF Value
  <2> HIDE DEF u
  <2>5. d["vdelta"] # 0
    BY <2>1, <2>3, <2>4 DEF ConfigOK
  <2>6. d["hdelta"] # 0
    BY <2>1, <2>3, <2>4 DEF ConfigOK
  <2>7. d \in [Members -> Int]
    BY <2>1
  <2> QED
    BY <2>5, <2>6, <2>7 DEF ConfigOK
<1>3. ConfigOK(d)
  BY <1>1, <1>2
<1> QED
  BY <1>3 DEF d, ApplyOption

(* The defaults are a configuration. *)
LEMMA DefaultsOK == ConfigOK(Defaults)
<1> DEFINE c == [Default EXCEPT !.top = 0, !.bottom = 0, !.right_left = 0, !.right_right = 0]
           pairs == <<<<"SOFTBUTTON_TOP", Default.top>>,
                      <<"SOFTBUTTON_BOTTOM", Default.bottom>>,
                      <<"SOFTBUTTON_RBTN_LEFT", Default.right_left>>,
                      <<"SOFTBUTTON_RBTN_RIGHT", Default.right_right>>>>
           set == ConfigSet(c, pairs)
<1>1. c \in [Members -> Int] /\ c.vdelta = 100 /\ c.hdelta = 100
  <2>1. Default \in [Members -> Int] /\ Default.vdelta = 100 /\ Default.hdelta = 100
    <3>1. Default = [m \in Members |-> Default[m]]
      BY DEF Members, Default
    <3> QED
      BY <3>1, KeyTables, MembersAre DEF Default
  <2>2. {"vdelta", "hdelta"} \subseteq Members
    BY MembersAre
  <2>3. c \in [Members -> Int]
    <3> DEFINE c1 == [Default EXCEPT !.top = 0]
               c2 == [c1 EXCEPT !.bottom = 0]
               c3 == [c2 EXCEPT !.right_left = 0]
    <3>1. c = [c3 EXCEPT !.right_right = 0]
      OBVIOUS
    <3>2. c1 \in [Members -> Int]
      BY <2>1
    <3> HIDE DEF c1
    <3>3. c2 \in [Members -> Int]
      BY <3>2
    <3> HIDE DEF c2
    <3>4. c3 \in [Members -> Int]
      BY <3>3
    <3> HIDE DEF c3, c
    <3> QED
      BY <3>1, <3>4
  <2>4. \A m \in {"vdelta", "hdelta"} : c[m] = Default[m]
    BY <2>1, <2>2
  <2> QED
    BY <2>1, <2>3, <2>4
<1>2. /\ Len(pairs) = 4
      /\ \A i \in 1 .. 4 : pairs[i][1] \in SoftButtonKeys
      /\ pairs \in Seq(SoftButtonKeys \X Int)
  <2>1. /\ Default.top \in Int /\ Default.bottom \in Int
        /\ Default.right_left \in Int /\ Default.right_right \in Int
    BY DEF Default
  <2> QED
    BY <2>1, AreaKeysAre
<1>3. Defaults = set.config
  BY DEF Defaults
<1> HIDE DEF c, pairs
<1>4. Applies(c, pairs, set, HowMany(pairs, set.rc))
  BY <1>1, <1>2, ConfigSetApplies
<1> DEFINE k == HowMany(pairs, set.rc)
<1> HIDE DEF set, k
<1>5. ASSUME NEW key \in Keys \ SoftButtonKeys
      PROVE  set.config[Field[key]] = c[Field[key]]
  <2>1. ReadsAfter(c, pairs, k, key, GetKeyValue(set.config, key)) /\ k \in 0 .. 4
    BY <1>2, <1>4 DEF Applies, k
  <2>2. \A i \in 1 .. k : Field[pairs[i][1]] # Field[key]
    <3>1. 1 .. k \subseteq 1 .. 4
      BY <2>1
    <3> QED
      BY <1>2, <3>1, KeyTables
  <2>3. GetKeyValue(set.config, key) = GetKeyValue(c, key)
    BY <2>1, <2>2 DEF ReadsAfter
  <2> QED
    BY <2>3 DEF GetKeyValue
<1>6. /\ {"SCROLL_DELTA_VERT", "SCROLL_DELTA_HORIZ"} \subseteq Keys \ SoftButtonKeys
      /\ Field["SCROLL_DELTA_VERT"] = "vdelta" /\ Field["SCROLL_DELTA_HORIZ"] = "hdelta"
  BY KeysAre, AreaKeysAre DEF Field
<1>7. set.config.vdelta = 100 /\ set.config.hdelta = 100
  BY <1>1, <1>5, <1>6
<1>8. set.config \in [Members -> Int]
  BY <1>4 DEF Applies
<1> QED
  BY <1>3, <1>7, <1>8 DEF ConfigOK

(* So is what the options of xorg.conf make of them. *)
LEMMA ApplyConfigOK == ASSUME NEW o \in Options PROVE ConfigOK(ApplyConfig(o))
<1> DEFINE time    == ApplyOption(Defaults, "TAP_TIMEOUT", o.tap_time)
           move    == ApplyOption(time, "TAP_MOVE_THRESHOLD", o.tap_move)
           vert    == ApplyOption(move, "SCROLL_DELTA_VERT", o.vdelta)
           horiz   == ApplyOption(vert, "SCROLL_DELTA_HORIZ", o.hdelta)
           methods == (IF o.vert THEN HORIZONTAL ELSE 0) + (IF o.horiz THEN VERTICAL ELSE 0)
<1>1. /\ o.tap_time \in Int /\ o.tap_move \in Int
      /\ o.vdelta \in Int \ {0} /\ o.hdelta \in Int \ {0}
  BY OptionsAssumption
<1>2. methods \in Int
  BY DEF HORIZONTAL, VERTICAL
<1>3. ApplyConfig(o) = ConfigSet(horiz, <<<<"SCROLL_METHOD", methods>>>>).config
  BY DEF ApplyConfig
<1> HIDE DEF time, move, vert, horiz, methods
<1>4. ConfigOK(time)
  BY <1>1, DefaultsOK, OptionOK DEF time
<1>5. ConfigOK(move)
  BY <1>1, <1>4, OptionOK DEF move
<1>6. ConfigOK(vert)
  BY <1>1, <1>5, OptionOK DEF vert
<1>7. ConfigOK(horiz)
  BY <1>1, <1>6, OptionOK DEF horiz
<1> QED
  BY <1>2, <1>3, <1>7, OptionOK

(* The configuration of a device, at any time. *)
ConfigInv == ConfigOK(config)

(* It is set when the device is added, and only then. *)
LEMMA ConfigStep == ConfigInv /\ [Next]_driverVars => ConfigInv'
<1> SUFFICES ASSUME ConfigInv, [Next]_driverVars PROVE ConfigInv'
  OBVIOUS
<1>1. ASSUME NEW o \in Options, PreInit(o) PROVE ConfigInv'
  BY <1>1, ApplyConfigOK DEF PreInit, ConfigInv
<1>2. CASE \/ PreInitRejected \/ DeviceInit \/ DeviceOn \/ DeviceOff \/ DeviceClose
           \/ UnInit \/ ServerOpens \/ UNCHANGED driverVars
           \/ \E dir \in Directions, motion \in Motions : Scroll(dir, motion)
  <2>1. config' = config
    BY <1>2 DEF PreInitRejected, DeviceInit, DeviceOn, DeviceOff, DeviceClose, SwitchOff,
                UnInit, ServerOpens, Scroll, driverVars
  <2> QED
    BY <2>1 DEF ConfigInv
<1> QED
  BY <1>1, <1>2 DEF Next

(* Whatever list of pairs a ready device is configured with, the pairs      *)
(* before the one the return value names are applied in order and no other, *)
(* the error is that pair's unless its key is USE_DEFAULT, and every key    *)
(* reads back what was asked for last with it, the tap periods what was     *)
(* asked for last with any of the three: for any list of any length, any    *)
(* axes and any options.                                                    *)
THEOREM AlwaysReadsBack == Spec => []ReadsBack
<1>1. Init => ConfigInv
  BY DefaultsOK DEF Init, ConfigInv
<1>2. ConfigInv => ReadsBack
  BY ReadsBackIfOK DEF ConfigInv
<1> QED
  BY <1>1, <1>2, ConfigStep, PTL DEF Spec

----------------------------------------------------------------------------
(* Scrolling *)

(* The distances a device is initialised with are those of its options. *)
LEMMA DistancesAre ==
    ASSUME ConfigInv, DeviceInit
    PROVE  dist' \in [Directions -> Int \ {0}]
<1> DEFINE keys == <<"SCROLL_DELTA_HORIZ", "SCROLL_DELTA_VERT">>
           v == ConfigGet(config, keys).values
<1>1. /\ Len(keys) = 2 /\ keys[1] = "SCROLL_DELTA_HORIZ" /\ keys[2] = "SCROLL_DELTA_VERT"
  OBVIOUS
<1>2. dist' = [dir \in Directions |-> IF dir = "HORIZONTAL" THEN v[1] ELSE v[2]]
  BY DEF DeviceInit
<1> HIDE DEF keys
<1>3. /\ {"SCROLL_DELTA_VERT", "SCROLL_DELTA_HORIZ"} \subseteq Keys \ SoftButtonKeys
      /\ Field["SCROLL_DELTA_VERT"] = "vdelta" /\ Field["SCROLL_DELTA_HORIZ"] = "hdelta"
      /\ {"vdelta", "hdelta"} \subseteq Members
  BY KeysAre, AreaKeysAre, MembersAre DEF Field
<1>4. {i \in 1 .. Len(keys) : keys[i] \notin Keys} = {}
  BY <1>1, <1>3
<1>5. SelectInSeq(keys, LAMBDA key : key \notin Keys) = 0
  BY <1>4 DEF SelectInSeq
<1>6. v = [i \in 1 .. 2 |-> GetKeyValue(config, keys[i])]
  BY <1>1, <1>5 DEF ConfigGet
<1> HIDE DEF v
<1>7. v[1] = config["hdelta"] /\ v[2] = config["vdelta"]
  BY <1>1, <1>3, <1>6 DEF GetKeyValue
<1>8. v[1] \in Int \ {0} /\ v[2] \in Int \ {0}
  BY <1>3, <1>7 DEF ConfigInv, ConfigOK
<1> QED
  BY <1>2, <1>8

(* C's remainder is smaller than what was divided by. *)
LEMMA RemainderIsSmall ==
    ASSUME NEW n \in Int, NEW e \in Int \ {0}
    PROVE  /\ Modulo(n, e) \in Int
           /\ -Absolute(e) < Modulo(n, e) /\ Modulo(n, e) < Absolute(e)
<1> DEFINE d == Absolute(e)
<1>0. d \in Nat \ {0}
  BY DEF Absolute
<1> SUFFICES Modulo(n, e) \in Int /\ -d < Modulo(n, e) /\ Modulo(n, e) < d
  OBVIOUS
<1> HIDE DEF d
<1>1. CASE n < 0
  <2> DEFINE q == (-n) \div d
  <2>1. q \in Int /\ d * q <= -n /\ -n < d * q + d
    BY <1>0, QuotientFits
  <2>2. Modulo(n, e) = n - d * (-q)
    BY <1>1 DEF Modulo, Truncated, d
  <2> HIDE DEF q
  <2>3. d * (-q) = -(d * q) /\ d * q \in Int
    BY <1>0, <2>1
  <2> QED
    BY <1>0, <2>1, <2>2, <2>3
<1>2. CASE ~(n < 0)
  <2> DEFINE q == n \div d
  <2>1. q \in Int /\ d * q <= n /\ n < d * q + d
    BY <1>0, QuotientFits
  <2>2. Modulo(n, e) = n - d * q
    BY <1>2 DEF Modulo, Truncated, d
  <2> HIDE DEF q
  <2>3. d * q \in Int
    BY <1>0, <2>1
  <2> QED
    BY <1>0, <2>1, <2>2, <2>3
<1> QED
  BY <1>1, <1>2

(* What remains of a scroll is less than a click. *)
RemainderOK ==
    /\ remainder \in [Directions -> Int]
    /\ device = "ready" => remainder = Zero
    /\ device \in {"init", "on", "off", "closed"} =>
          /\ dist \in [Directions -> Int \ {0}]
          /\ \A dir \in Directions : /\ -Absolute(dist[dir]) < remainder[dir]
                                    /\ remainder[dir] < Absolute(dist[dir])

ScrollInv == ConfigInv /\ RemainderOK /\ PostedNearScrolled

(* A scroll callback posts what it was given and what remained, and leaves   *)
(* less than a click again.                                                  *)
LEMMA ScrollStep ==
    ASSUME ScrollInv, NEW dir \in Directions, NEW motion \in Motions, Scroll(dir, motion)
    PROVE  RemainderOK' /\ PostedNearScrolled'
<1> DEFINE rest == remainder[dir]
           d == dist[dir]
<1>1. /\ motion \in Int /\ rest \in Int /\ d \in Int \ {0}
      /\ -Absolute(d) < rest /\ rest < Absolute(d)
      /\ remainder \in [Directions -> Int] /\ dist \in [Directions -> Int \ {0}]
  BY MotionsAssumption DEF Scroll, ScrollInv, RemainderOK
<1>2. PICK event \in Cut(motion, rest) :
         /\ posted' = [event |-> event, motion |-> motion, dist |-> d]
         /\ remainder' = [remainder EXCEPT ![dir] = Modulo(event, d)]
  BY DEF Scroll
<1>3. device' = device /\ dist' = dist /\ device = "on"
  BY DEF Scroll
<1> HIDE DEF rest, d
<1>4. event \in Int /\ Absolute(event - motion) <= Absolute(d)
  <2>1. CASE motion = 0
    BY <1>1, <1>2, <2>1 DEF Cut, Absolute
  <2>2. CASE motion # 0
    <3>1. event = motion + rest \/ event = motion + rest - Sign(motion + rest)
      BY <1>2, <2>2 DEF Cut
    <3>2. Sign(motion + rest) \in {-1, 0, 1}
      BY <1>1 DEF Sign
    <3> QED
      BY <1>1, <3>1, <3>2 DEF Absolute
  <2> QED
    BY <2>1, <2>2
<1>5. PostedNearScrolled'
  BY <1>2, <1>4 DEF PostedNearScrolled
<1>6. /\ Modulo(event, d) \in Int
      /\ -Absolute(d) < Modulo(event, d) /\ Modulo(event, d) < Absolute(d)
  BY <1>1, <1>4, RemainderIsSmall
<1>7. /\ remainder' \in [Directions -> Int]
      /\ remainder'[dir] = Modulo(event, d)
      /\ \A other \in Directions : other # dir => remainder'[other] = remainder[other]
  BY <1>1, <1>2, <1>6
<1>8. ASSUME NEW other \in Directions
      PROVE  /\ -Absolute(dist[other]) < remainder'[other]
             /\ remainder'[other] < Absolute(dist[other])
  <2>1. CASE other = dir
    BY <1>6, <1>7, <2>1 DEF d
  <2>2. CASE other # dir
    BY <1>3, <1>7, <2>2 DEF ScrollInv, RemainderOK
  <2> QED
    BY <2>1, <2>2
<1>9. RemainderOK'
  BY <1>1, <1>3, <1>7, <1>8 DEF RemainderOK
<1> QED
  BY <1>5, <1>9

(* The distances are read when nothing remains yet, and never change while   *)
(* something does.                                                           *)
LEMMA ScrollInvStep == ScrollInv /\ [Next]_driverVars => ScrollInv'
<1> SUFFICES ASSUME ScrollInv, [Next]_driverVars PROVE ScrollInv'
  OBVIOUS
<1>0. ConfigInv'
  BY ConfigStep DEF ScrollInv
<1>1. ASSUME NEW o \in Options, PreInit(o) PROVE ScrollInv'
  <2>1. /\ device' = "ready" /\ remainder' = Zero /\ posted' = NoScroll
    BY <1>1 DEF PreInit, NewScroll
  <2>2. RemainderOK'
    BY <2>1 DEF RemainderOK, Zero
  <2>3. PostedNearScrolled'
    BY <2>1 DEF PostedNearScrolled, NoScroll, Absolute
  <2> QED
    BY <1>0, <2>2, <2>3 DEF ScrollInv
<1>2. CASE DeviceInit
  <2>1. device = "ready" /\ device' = "init" /\ remainder' = remainder /\ posted' = posted
    BY <1>2 DEF DeviceInit
  <2>2. dist' \in [Directions -> Int \ {0}]
    BY <1>2, DistancesAre DEF ScrollInv
  <2>3. remainder = Zero
    BY <2>1 DEF ScrollInv, RemainderOK
  <2>4. RemainderOK'
    BY <2>1, <2>2, <2>3 DEF RemainderOK, Zero, Absolute
  <2>5. PostedNearScrolled'
    BY <2>1 DEF ScrollInv, PostedNearScrolled
  <2> QED
    BY <1>0, <2>4, <2>5 DEF ScrollInv
<1>3. CASE \/ PreInitRejected \/ DeviceOn \/ DeviceOff \/ DeviceClose
           \/ UnInit \/ ServerOpens \/ UNCHANGED driverVars
  <2>1. UNCHANGED <<dist, remainder, posted>>
    BY <1>3 DEF PreInitRejected, DeviceOn, DeviceOff, DeviceClose, SwitchOff,
                UnInit, ServerOpens, scrollVars, driverVars
  <2>2. \/ device' = device
        \/ device' = "none"
        \/ device \in {"init", "on", "off"} /\ device' \in {"on", "off", "closed"}
    BY <1>3 DEF PreInitRejected, DeviceOn, DeviceOff, DeviceClose,
                UnInit, ServerOpens, driverVars
  <2>3. RemainderOK'
    BY <2>1, <2>2 DEF ScrollInv, RemainderOK
  <2>4. PostedNearScrolled'
    BY <2>1 DEF ScrollInv, PostedNearScrolled
  <2> QED
    BY <1>0, <2>3, <2>4 DEF ScrollInv
<1>4. ASSUME NEW dir \in Directions, NEW motion \in Motions, Scroll(dir, motion)
      PROVE  ScrollInv'
  BY <1>0, <1>4, ScrollStep DEF ScrollInv
<1> QED
  BY <1>1, <1>2, <1>3, <1>4 DEF Next

(* What is posted for a scroll callback is off by one click at most, for    *)
(* any motions, distances and devices: what remains of the callbacks before *)
(* is less than a click, and the conversion to an int takes one unit more.  *)
THEOREM AlwaysPostedNearScrolled == Spec => []PostedNearScrolled
<1>1. Init => ScrollInv
  <2> SUFFICES ASSUME Init PROVE ScrollInv
    OBVIOUS
  <2>1. ConfigInv
    BY DefaultsOK DEF Init, ConfigInv
  <2>2. RemainderOK /\ PostedNearScrolled
    BY DEF Init, RemainderOK, PostedNearScrolled, Zero, NoScroll, Absolute
  <2> QED
    BY <2>1, <2>2 DEF ScrollInv
<1>2. ScrollInv => PostedNearScrolled
  BY DEF ScrollInv
<1> QED
  BY <1>1, <1>2, ScrollInvStep, PTL DEF Spec
=============================================================================

-------------------------------- MODULE Driver --------------------------------
(***************************************************************************)
(* The X.Org driver (xf86-input-touchpad.c): the life of one device from   *)
(* PreInit to UnInit, the descriptors it is made of and the scroll events  *)
(* it posts.  A descriptor is the lowest number that is free.  The X       *)
(* server's side is its order of calls and the descriptors it selects on.  *)
(*                                                                         *)
(* The device has the multitouch axes calc_scale asks for.                 *)
(***************************************************************************)
EXTENDS Config

CONSTANTS
    Options,        \* the xorg.conf sections the device may have
    Motions,        \* what a scroll callback reports, in device units
    Calls,          \* lists of key/value pairs to try on the configuration
    MaxPlugs,       \* bound: how often a device is added
    MaxSwitches,    \* bound: how often it is switched on
    MaxScrolls,     \* bound: how often it scrolls
    MaxOthers       \* bound: how many descriptors the server opens itself

(* The source does not check the distances: with one of 0 a scroll divides  *)
(* by zero, which is undefined.                                             *)
ASSUME OptionsAssumption ==
    Options \subseteq [tap_time : Int, tap_move : Int, vdelta : Int \ {0}, hdelta : Int \ {0},
                      vert : BOOLEAN, horiz : BOOLEAN]
ASSUME CallsAssumption == \A pairs \in Calls : pairs \in Seq(STRING \X Int)
ASSUME MotionsAssumption == Motions \subseteq Int
ASSUME DriverBoundsAssumption ==
    MaxPlugs \in Nat /\ MaxSwitches \in Nat /\ MaxScrolls \in Nat /\ MaxOthers \in Nat

Directions == {"VERTICAL", "HORIZONTAL"}

VARIABLES
    device,         \* what the server has called last for the device
    open,           \* kernel: the open descriptors of the server process
    others,         \* those the server has opened for itself; 0 is its stdin
    selected,       \* those the server reads input from
    fd,             \* pInfo->fd
    lib_fd,         \* libevdev_get_fd(tp->dev)
    epollfd,        \* tp->epollfd
    timerfd,        \* tp->timerfd
    watched,        \* kernel: the descriptors in the set of epollfd
    config,         \* the configuration of tp
    dist,           \* scroll_vdist and scroll_hdist
    remainder,      \* scroll_vdist_remainder and scroll_hdist_remainder
    posted,         \* the last scroll event, and what was reported for it
    rejected,       \* history: the library has refused a descriptor
    plugs, switches, scrolls    \* the counters that are bounded

fdVars     == <<open, others, selected, fd, lib_fd, epollfd, timerfd, watched>>
scrollVars == <<dist, remainder, posted>>
counters   == <<plugs, switches, scrolls>>
driverVars == <<device, fdVars, config, scrollVars, rejected, counters>>

Zero     == [dir \in Directions |-> 0]
NoScroll == [event |-> 0, motion |-> 0, dist |-> 1]

Init ==
    /\ device = "none"
    /\ open = {0} /\ others = {0} /\ selected = {}
    /\ fd = -1 /\ lib_fd = -1 /\ epollfd = -1 /\ timerfd = -1
    /\ watched = {}
    /\ config = Defaults
    /\ dist = Zero /\ remainder = Zero /\ posted = NoScroll
    /\ rejected = FALSE
    /\ plugs = 0 /\ switches = 0 /\ scrolls = 0

----------------------------------------------------------------------------
(* Descriptors *)

(* open(2) and its like. *)
Free(used) == CHOOSE n \in 0 .. Cardinality(used) : /\ n \notin used
                                                    /\ \A m \in 0 .. n - 1 : m \in used

(* touchpad_change_fd; a descriptor that is not open cannot be watched. *)
ChangeFd(new) ==
    /\ watched' = (watched \ {lib_fd}) \cup ({new} \cap open')
    /\ lib_fd' = new

----------------------------------------------------------------------------
(* xorg.conf *)

(* An option that is not there has the value INT_MAX. *)
ApplyOption(c, key, value) ==
    IF value = INT_MAX THEN c ELSE ConfigSet(c, <<<<key, value>>>>).config

(***************************************************************************)
(* xf86touchpad_apply_config: one call for each option that is there.  The *)
(* vertical option enables horizontal scrolling and the horizontal one     *)
(* vertical scrolling.                                                     *)
(***************************************************************************)
ApplyConfig(o) ==
    LET time    == ApplyOption(Defaults, "TAP_TIMEOUT", o.tap_time)
        move    == ApplyOption(time, "TAP_MOVE_THRESHOLD", o.tap_move)
        vert    == ApplyOption(move, "SCROLL_DELTA_VERT", o.vdelta)
        horiz   == ApplyOption(vert, "SCROLL_DELTA_HORIZ", o.hdelta)
        methods == (IF o.vert THEN HORIZONTAL ELSE 0) + (IF o.horiz THEN VERTICAL ELSE 0)
    IN  ConfigSet(horiz, <<<<"SCROLL_METHOD", methods>>>>).config

----------------------------------------------------------------------------
(* The calls of the X server *)

(* zalloc of the driver's data. *)
NewScroll == dist' = Zero /\ remainder' = Zero /\ posted' = NoScroll

\* Mutant: the library goes on with the descriptor it was made from.
PreInitStaysOpen(o) ==
    /\ device = "none" /\ plugs < MaxPlugs
    /\ plugs' = plugs + 1
    /\ fd' = Free(open)
    /\ epollfd' = Free(open \cup {fd'})
    /\ timerfd' = Free(open \cup {fd', epollfd'})
    /\ open' = open \cup {fd', epollfd', timerfd'}
    /\ lib_fd' = fd' /\ watched' = {fd', timerfd'}
    /\ config' = ApplyConfig(o)
    /\ NewScroll
    /\ device' = "ready"
    /\ UNCHANGED <<others, selected, rejected, switches, scrolls>>

(* xf86touchpad_pre_init: touchpad_new_from_fd watches the descriptor and   *)
(* the timer, touchpad_change_fd(tp, -1) drops the descriptor again.        *)
PreInit(o) ==
    /\ device = "none" /\ plugs < MaxPlugs
    /\ plugs' = plugs + 1
    /\ fd' = Free(open)
    /\ epollfd' = Free(open \cup {fd'})
    /\ timerfd' = Free(open \cup {fd', epollfd'})
    /\ open' = open \cup {fd', epollfd', timerfd'}
    /\ lib_fd' = -1 /\ watched' = {timerfd'}
    /\ config' = ApplyConfig(o)
    /\ NewScroll
    /\ device' = "ready"
    /\ UNCHANGED <<others, selected, rejected, switches, scrolls>>

(* Not a touchpad: touchpad_free closes tp->epollfd, which is still 0.      *)
(* (A device that cannot be opened changes nothing.)                        *)
PreInitRejected ==
    /\ device = "none" /\ plugs < MaxPlugs
    /\ plugs' = plugs + 1
    /\ open' = open \ {0}
    /\ rejected' = TRUE
    /\ UNCHANGED <<device, others, selected, fd, lib_fd, epollfd, timerfd, watched, config,
                   scrollVars, switches, scrolls>>

(* xf86touchpad_init reads the scroll distances once. *)
DeviceInit ==
    /\ device = "ready"
    /\ device' = "init"
    /\ LET v == ConfigGet(config, <<"SCROLL_DELTA_HORIZ", "SCROLL_DELTA_VERT">>).values
       IN  dist' = [dir \in Directions |-> IF dir = "HORIZONTAL" THEN v[1] ELSE v[2]]
    /\ UNCHANGED <<fdVars, config, remainder, posted, rejected, counters>>

(* xf86touchpad_on, if the device can be opened (nothing changes if not).   *)
(* A first descriptor, the one of pre_init, is forgotten.                   *)
DeviceOn ==
    /\ device \in {"init", "off"} /\ switches < MaxSwitches
    /\ switches' = switches + 1
    /\ device' = "on"
    /\ fd' = Free(open)
    /\ open' = open \cup {fd'}
    /\ ChangeFd(fd')
    /\ selected' = selected \cup {fd'}
    /\ UNCHANGED <<others, epollfd, timerfd, config, scrollVars, rejected, plugs, scrolls>>

\* Mutant: the number of the closed descriptor is kept.
SwitchOffKeepsFd ==
    /\ selected' = selected \ {fd}
    /\ open' = open \ {fd}
    /\ ChangeFd(-1)
    /\ UNCHANGED <<fd, others, epollfd, timerfd, config, scrollVars, rejected, counters>>

\* Mutant: the descriptor is forgotten and not closed.
SwitchOffNoClose ==
    /\ selected' = selected \ {fd}
    /\ UNCHANGED open
    /\ ChangeFd(-1)
    /\ fd' = -1
    /\ UNCHANGED <<others, epollfd, timerfd, config, scrollVars, rejected, counters>>

(* xf86touchpad_off *)
SwitchOff ==
    /\ selected' = selected \ {fd}
    /\ open' = open \ {fd}
    /\ ChangeFd(-1)
    /\ fd' = -1
    /\ UNCHANGED <<others, epollfd, timerfd, config, scrollVars, rejected, counters>>

DeviceOff == device = "on" /\ device' = "off" /\ SwitchOff

(* The server closes a device that is on, off, or has never been on. *)
DeviceClose == device \in {"init", "on", "off"} /\ device' = "closed" /\ SwitchOff

(* xf86touchpad_uninit: touchpad_free does not close the timer. *)
UnInit ==
    /\ device \in {"ready", "closed"}
    /\ device' = "none"
    /\ open' = open \ {epollfd}
    /\ watched' = {}
    /\ UNCHANGED <<others, selected, fd, lib_fd, epollfd, timerfd, config, scrollVars,
                   rejected, counters>>

(* The server opens a descriptor of its own. *)
ServerOpens ==
    /\ Cardinality(others) <= MaxOthers
    /\ open' = open \cup {Free(open)}
    /\ others' = others \cup {Free(open)}
    /\ UNCHANGED <<device, selected, fd, lib_fd, epollfd, timerfd, watched, config,
                   scrollVars, rejected, counters>>

----------------------------------------------------------------------------
(* The scroll callback *)

Absolute(n) == IF n < 0 THEN -n ELSE n

Sign(n) == IF n < 0 THEN -1 ELSE IF n = 0 THEN 0 ELSE 1

(* (int)units: motion / dist * dist as a double may miss motion, and is cut.*)
Cut(motion, rest) ==
    IF motion = 0 THEN {rest} ELSE {motion + rest, motion + rest - Sign(motion + rest)}

(* C's remainder, whose sign is that of n. *)
Modulo(n, d) == n - Absolute(d) * Truncated(n, Absolute(d))

\* Mutant: all that was posted counts as the remainder.
ScrollKeepsAll(dir, motion) ==
    /\ device = "on" /\ scrolls < MaxScrolls
    /\ scrolls' = scrolls + 1
    /\ \E event \in Cut(motion, remainder[dir]) :
          /\ posted' = [event |-> event, motion |-> motion, dist |-> dist[dir]]
          /\ remainder' = [remainder EXCEPT ![dir] = event]
    /\ UNCHANGED <<device, fdVars, config, dist, rejected, plugs, switches>>

(* xf86touchpad_scroll; a motion of 0 terminates a scroll. *)
Scroll(dir, motion) ==
    /\ device = "on" /\ scrolls < MaxScrolls
    /\ scrolls' = scrolls + 1
    /\ \E event \in Cut(motion, remainder[dir]) :
          /\ posted' = [event |-> event, motion |-> motion, dist |-> dist[dir]]
          /\ remainder' = [remainder EXCEPT ![dir] = Modulo(event, dist[dir])]
    /\ UNCHANGED <<device, fdVars, config, dist, rejected, plugs, switches>>

Next ==
    \/ \E o \in Options : PreInit(o)
    \/ PreInitRejected
    \/ DeviceInit
    \/ DeviceOn
    \/ DeviceOff
    \/ DeviceClose
    \/ UnInit
    \/ ServerOpens
    \/ \E dir \in Directions, motion \in Motions : Scroll(dir, motion)

Spec == Init /\ [][Next]_driverVars

----------------------------------------------------------------------------
(* Properties *)

HasTouchpad == device # "none"

(* However the device is switched, closed and added again, the server       *)
(* selects on the descriptor the library reads, both while it is open and   *)
(* only while the device is on: input is never read from a descriptor that  *)
(* belongs to something else by now, and the timer is always watched.       *)
Connected ==
    /\ device = "on" => /\ fd \in open \ others
                        /\ lib_fd = fd
                        /\ selected = {fd}
                        /\ watched = {fd, timerfd}
    /\ device \notin {"on", "none"} => lib_fd = -1 /\ selected = {} /\ watched = {timerfd}

(* The driver never closes a descriptor of the server's, whose numbers are  *)
(* reused while the device is off: closing a device twice is harmless.  Only *)
(* the library's failed start is not.                                       *)
ServerKeepsItsOwn == ~rejected => others \subseteq open

(* Switching the device does not use descriptors up.  Adding one does: the  *)
(* descriptor of pre_init and the timer are never closed.                   *)
Held == IF HasTouchpad THEN {fd, epollfd, timerfd} ELSE {}

NothingLostBySwitching == Cardinality(open \ (others \cup Held)) <= 2 * plugs

(* What is posted for a scroll callback is off by at most one click,        *)
(* whatever remainder the callbacks before it have left.  (A remainder is   *)
(* posted and kept, so that several callbacks add up to more.)              *)
PostedNearScrolled == Absolute(posted.event - posted.motion) <= Absolute(posted.dist)

(***************************************************************************)
(* What touchpad_config_set does with a list of pairs.  The pairs before   *)
(* the first bad one, which the return value names, are applied in order   *)
(* and no other: each key reads back what was asked for last with that     *)
(* key, or what it read before the call, soft-button areas as the same     *)
(* percentage although they are kept as coordinates, a switch as on or     *)
(* off.  The error is that of the bad pair.                                *)
(*                                                                         *)
(* There are two exceptions, of which touchpad-config.h says nothing: the  *)
(* tap periods overwrite each other, and a pair whose key is USE_DEFAULT   *)
(* leaves the error as the pairs before it have, which is unset if there   *)
(* are none.                                                               *)
(***************************************************************************)
Applied(pairs, rc) == IF rc = 0 THEN pairs ELSE SubSeq(pairs, 1, rc - 1)

Meant(key, value) ==
    IF key = "TAP_ENABLE" THEN (IF value = 0 THEN 0 ELSE 1) ELSE Value(key, value)

TapPeriods == {"TAP_TIMEOUT", "TAP_DOUBLETAP_TIMEOUT", "TAP_MOVE_THRESHOLD"}

(* The keys whose pairs decide what a key reads back. *)
Writers(key) == IF key \in TapPeriods THEN TapPeriods ELSE {key}

AskedFor(pairs, key) ==
    LET writes(pair) == pair[1] \in Writers(key)
        last == SelectLastInSeq(pairs, writes)
    IN  IF last = 0 THEN GetKeyValue(config, key)
        ELSE Meant(pairs[last][1], pairs[last][2])

Reported(pairs, rc) ==
    IF rc # 0 /\ pairs[rc][1] # "USE_DEFAULT" THEN ErrorOf(pairs[rc][1], pairs[rc][2])
    ELSE IF Applied(pairs, rc) = <<>> THEN "UNSET"
    ELSE "NO_ERROR"

ReadsBack ==
    device = "ready" => \A pairs \in Calls :
        LET set     == ConfigSet(config, pairs)
            applied == Applied(pairs, set.rc)
        IN  /\ \A key \in Keys :
                  ConfigGet(set.config, <<key>>) =
                      [values |-> <<AskedFor(applied, key)>>, rc |-> 0]
            /\ \A i \in DOMAIN applied : ErrorOf(applied[i][1], applied[i][2]) = "NO_ERROR"
            /\ set.rc # 0 => ErrorOf(pairs[set.rc][1], pairs[set.rc][2]) # "NO_ERROR"
            /\ set.error = Reported(pairs, set.rc)

----------------------------------------------------------------------------
(* What touchpad-config.h promises beyond that, and the code does not keep  *)

(* "The special value TOUCHPAD_CONFIG_USE_DEFAULT may be used to revert to  *)
(* the built-in defaults for the given key" (touchpad-config.h:100).  The   *)
(* areas and the history size refuse it as too high.                        *)
DefaultsAccepted ==
    device = "ready" => \A key \in Keys : ConfigSet(config, <<<<key, USE_DEFAULT>>>>).rc = 0

(* "If the key is invalid, error is set to TOUCHPAD_CONFIG_ERROR_KEY_INVALID"*)
(* (touchpad-config.h:104).  A pair whose key is USE_DEFAULT is refused and *)
(* the error is not set; after a good pair it says that there is none.      *)
InvalidKeyReported ==
    device = "ready" => \A pairs \in Calls :
        LET set == ConfigSet(config, pairs)
        IN  set.rc # 0 /\ pairs[set.rc][1] \notin Keys => set.error = "KEY_INVALID"

(* A parameter that is not in the list keeps its value: the keys are        *)
(* declared as parameters of their own (touchpad-config.h:41).  The double  *)
(* tap timeout and the move threshold change the tap timeout.               *)
KeysAreSeparate ==
    device = "ready" => \A pairs \in Calls, key \in Keys :
        (\A i \in DOMAIN pairs : pairs[i][1] # key)
            => GetKeyValue(ConfigSet(config, pairs).config, key) = GetKeyValue(config, key)
=============================================================================

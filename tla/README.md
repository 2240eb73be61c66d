# A TLA+ specification of libtouchpad

libtouchpad turns the kernel events of a touchpad (evdev) into pointer motion,
button clicks, taps and scroll events. It is single-threaded and driven by a
host: the host polls one file descriptor, calls `touchpad_handle_events`, and
gets callbacks. What is hard is not concurrency inside the library but order:
fingers begin, end and swap slots in any order within a frame, a frame may be
read long after it happened, four state machines share one frame and one timer,
and the host may reconfigure the library or replace its device between frames.

This directory models the library's control in TLA+, checks it with TLC on
small touchpads, and proves the most important properties with TLAPS for every
touchpad. `PROJECT.json` maps every definition to the lines it stands for.

## Inventory

| Component (source) | State | Operations | Correct when |
|---|---|---|---|
| Touch tracking (`touchpad-events.c`, `touchpad-int.h`) | `slot`, `touches[].state/dirty`, `fingers_down`, `queued`, `buttons.state` | one handler per kernel event, SYN_REPORT, post-processing, reset | counter = live touches = kernel fingers; nothing skipped, nothing left half processed |
| Event loop and timer (`touchpad.c`) | `ms`, `next_timeout`, the timerfd | `handle_events`, `request_timer`, `handle_timeouts`, `sync_device`, `change_fd` | no event judged by an expired deadline; the host is woken by every deadline |
| Tap-to-click (`touchpad-tap.c`) | `tap.state`, `tap.timeout`, `tap.config` | 13 states x 5 events, `handle_state`, `handle_timeout` | counts fingers; press and release alternate; a held button is released |
| Software buttons (`touchpad-button.c`) | `button_state`, `button_timeout` per touch, `active_softbutton` | 12 states x 7 events per touch, `handle_state`, `handle_timeout` | the click names the right button; a release names the pressed one; timers match states |
| Pointer selection and pinning (`touchpad-events.c`) | `pointer`, `pinned` per touch | select, pin on press, unpin on release | at most one pointer; a pinned finger does not move the pointer |
| Fake touches (`touchpad-events.c`) | `fake` per touch | BTN_TOOL_DOUBLETAP .. QUADTAP, devices without slots | never more live touches than fingers; real touches follow their slots |
| Physical buttons (`touchpad-phys-button.c`) | `buttons.state/old_state` | `handle_state` | one callback per change |
| Scrolling (`touchpad-scroll.c`) | `scroll.state/direction` | `handle_state` | direction lock; every scroll is terminated |
| Motion filter (`touchpad-filter.c`) | ring buffer per touch | push, get, dejitter, delta | never reads a missing point; delta of N points |
| Configuration (`touchpad-config.c`) | all `config` structs | set, get, defaults | a call applies its pairs up to the first bad one and names it; a key reads back what was asked for with it |
| X.Org driver (`xf86-input-touchpad.c`) | descriptors, scroll distances and remainders | pre-init, init, on, off, close, uninit; scroll callback | library, epoll set and server agree on the descriptor; no foreign descriptor is closed |
| Tools, tests, ccan | - | - | not part of the library's logic |

Interactions. Kernel events update the touches. SYN_REPORT first runs the
timeouts due at its time stamp, then pre-processing (pointer, history, pinning),
then the button, tap, scroll and motion handlers in this order, all reading the
same touches, `queued` and `fingers_down`, then post-processing. The tap and the
soft-button machine request timers; the timerfd wakes the host, which calls
`touchpad_handle_events` again. `touchpad_change_fd` resets part of the state.

Hard behaviour. Several begins and ends of one slot in a frame, fingers already
down at open, more kernel slots than touches; frames read late, so that a
deadline lies before, inside or after what is being read; several deadlines on
one timerfd; one physical button shared by all touches; changes of fd and
configuration in the middle of a gesture. `PROJECT.json` lists these hazards at
their lines with the properties that cover them.

## The modules

| Module | Models |
|---|---|
| `Touches` | the touch layer: kernel slots and library touches, frame by frame |
| `Timers` | the clock, event time stamps, `next_timeout` and the timerfd: operators and variables that the machines below use |
| `HostButtons` | abstract: what a host may expect of button callbacks |
| `Tap` | `Touches` + `Timers` + the tap machine, on a touchpad with physical buttons |
| `SoftButton` | `Touches` + `Timers` + the soft-button machine of a clickpad |
| `SoftButtonHistory` | `SoftButton` with a record of each finger's path, to state what the documentation says of clicks |
| `FakeTouches` | the touches the library invents for BTN_TOOL_*TAP, on devices without slots and with few, and the SYN_DROPPED path |
| `HostScroll` | abstract: what a host may expect of scroll callbacks |
| `Pointer` | pointer and pinned flags, heights, the callbacks of physical buttons: actions over `Touches` |
| `Scroll` | the two-finger scroll of a frame: actions over `Touches` |
| `Gestures` | `Touches` + `Pointer` + `Scroll`, in the order of `touchpad_post_events` |
| `MotionFilter` | the coordinate of one touch: hysteresis, ring buffer, pointer motion |
| `Config` | the configuration calls as operators |
| `Driver` | `Config` + the X.Org driver: the life of a device, its descriptors, its scroll events |
| `Order` | a finite set of numbers in ascending order: the loop over a mask of buttons, the order of a driver's events |
| `TouchesProofs`, `TapProofs`, `SoftButtonProofs`, `FakeProofs`, `GesturesProofs`, `MotionProofs`, `DriverProofs` | theorems and proofs |
| `InductionLemmas` | lemmas of the proofs: induction, functions as sequences, `Order` |
| `MC*` | the small instances of the runs |

### Touches

The kernel is part of the module: `contact` (slots with a tracking id),
`unseen` (those the library cannot know of, because they were set when the fd
was opened), `pressed` (buttons), and `reported`/`clicked`, what this frame has
already changed. The library is `slot`, `state`, `dirty`, `fingers_down`,
`queued`, `buttons_state` and `pc`, the place in `touchpad_handle_events`:
`poll` (in the host), `read` (between two `libevdev_next_event`) and
`post_events` (inside SYN_REPORT, before post-processing). There is one action
per kernel event, `SynIgnored`/`SynReport`, `PostProcess`, the host's call
(`HandleEvents`), its return on `-EAGAIN` (`Again`) and `ChangeFd`.

`Quirks` names what the environment may do beyond the usual: fingers down at
open, several changes of one slot or button in a frame, reconfiguration.

### Timers

Every SYN_REPORT carries a time not before the previous one (`floor`) and not
after the clock. When the queue was found empty the next event lies at or after
that moment. `RequestTimer` re-arms the timerfd for the latest request, keeps the
minimum in `next_timeout`, and loses the arming when the deadline does not fit an
`int` (`INT_MAX` is a constant). `NextTimeout` is the arithmetic at the end of
`touchpad_handle_timeouts` with its signed comparison.

### Tap

`tap_handle_state` calls the machine once for the button and once per touch, and
each call is a step (`ti` is the loop index), so that TLC and the proofs see every
intermediate state. One operator per state of the machine is a disjunction over
the events; `Goto` holds what all of them share: the timer set, cleared or kept,
and the trailing clear of `touchpad_tap_handle_event`. `out` holds the callbacks of the
last step. The motion threshold is not computed: any touch in UPDATE that is dirty
may or may not have exceeded it.

### SoftButton

The touches do not interact inside `touchpad_button_handle_state` (they share only
the posted button, the timer requests and the callbacks after the loop), so the loop
is one step built from `MoveEvent`, `ReleaseEvent` and `PressEvent` of each touch.
A handler returns its next state, what it does to its timer, and whether it
assigns to `t->state` instead of `t->button_state` (five transitions do; the touch
then has a state of no touch, `Corrupt`). Positions are areas.

### HostButtons and refinement

`HostButtons` says: callbacks of one button alternate between press and release and
only sticky buttons stay down between two handlers. `Tap` implements it with
"down" mapped to the held states of the machine, `SoftButton` with the physical
button and `active_softbutton` (`ButtonsAlternate`, `ClicksAlternate`, checked as
PROPERTY and, for `Tap`, proved).

### FakeTouches

The kernel's side is `fingers`, `contact` and `frame`, the events still to be read.
A scan of the device (`Scan`) puts a whole frame together in the order of the kernel's
drivers: slots, BTN_TOUCH, position, tools by ascending finger count. So DOUBLETAP's
begin is read before TRIPLETAP's end, and the library must revive in one handler what it
ended in another (`BeginFakeTouches`, `EndFakeTouches`). `SyncDevice` is
`touchpad_sync_device`: the kernel dropped scans, libevdev makes up the events in the order of
their codes, and the library loses the first one. `Devices` holds the slot counts, -1 for a
device without slots. Reading through a NULL touch is a state of its own (`Crash`): after
a change of fd a device without slots has no current touch. That touches of one frame
have a point in their history is an explicit condition too (`HasPoint`).

### Pointer, Scroll, Gestures

`Pointer` keeps the two flags as sets of touches, and `y` of every touch, used or
not, because `touchpad_pin_finger` compares them all. `Lowest`, `NewPointer` and
`PinFinger` are the two results of its loop, stated by what they find. The
callbacks of the physical buttons are the difference of `buttons_state` and `old_state`.
`Scroll` is given each touch's filtered motion in fractions of a unit (`u`), from
which `Delta` is the winner of the loop in `touchpad_scroll_handle_2fg`, including that
it compares with the winner cut to whole units. `ScrollReturns0` and `ScrollReturns1` are
the two results of `touchpad_scroll_handle_state`, which decide if the pointer moves
(`HandleMotion`). `Gestures` composes both with the actions of `Touches`; the tap
machine, which shares nothing with them but the touches, stays in `Tap`.

`ScrollProtocol` is the refinement of `HostScroll`, with the scroll in progress mapped to
`scroll_state` and `scroll_direction`; `ButtonsFollow` that of `HostButtons`, with
"down" mapped to `old_state`.

### MotionFilter

One coordinate of one touch over its life: several fingers in the same slot, one after
the other or replacing each other within a frame. The kernel repeats no coordinate
that has not changed (`Report`), whoever is in the slot. `HistoryReset`,
`HistoryPush` and `HistoryGet` work on the ring as the source does, index by index;
`recent` is what they should amount to: the sequence of the points pushed.

### Config and Driver

`Config` has no variables. `SetPair` is what one pair of a call does, `SetPairs` the loop over
them, `ConfigSet` the call, which ends at the first bad pair. `ConfigGet` reads, `Scale` and
`Unscale` convert the areas. `ApplyConfig` makes a call of one pair for each option.
`Driver` uses them for `Defaults`, for the options of xorg.conf and for the scroll
distances, and models what the X server's calls do to the descriptors: the lowest free number is
used, closed numbers are used again, also by the server itself (`ServerOpens`).

## The runs

Bounds: `NumSlots` kernel slots, `MAX_TOUCHPOINTS` touches of the library,
`MaxTime` ticks of the clock, `Horizon` the last time the device sends anything
(a tick after it lets timers run out), `MaxFdChanges` fd changes,
`MaxUnderflow` how far the counter may go below zero. Every run with a clock sets
`CHECK_DEADLOCK FALSE`, because the clock and the device stop at their bounds;
`touches` checks for deadlock. Timeouts are one tick (two in `tap_release`): what
matters to the code is whether a frame happened before, at or after a deadline, and
whether it was read before or after it.

| Run | Instance | What it shows |
|---|---|---|
| `touches` | 3 slots, 2 touches, several changes per frame, fingers down at open, 2 fd changes | the counter, the touch states and the queue follow the kernel. Two touches let one begin between the events of another; the third slot has events without a touch |
| `tap` | 4 slots, 3 ticks | the machine counts fingers and its deadline is neither judged late nor lost. Four fingers is the number that reaches DEAD by count; three ticks let a frame be read with two deadlines behind it |
| `tap_configure` | 3 slots, 2 ticks and one more, reconfiguration | the callbacks implement `HostButtons`. Three fingers make every callback of the machine |
| `tap_release` | 1 slot, 3 ticks and two more, a timeout of two ticks, 1 fd change, fairness | the wait after a tap or a drag ends (a second deadline can be requested while `next_timeout` still holds an earlier one), and a timer left behind by the reset of an fd change does no harm |
| `softbutton` | 1 slot, 3 areas, 3 ticks, 1 fd change | timers match states, no stale pressed state, right clicks only from the right area |
| `softbutton_two` | 2 slots, 2 areas, 2 ticks and one more | two fingers share one `next_timeout` and one click: no deadline is missed, the first click of a finger is what the documentation says of its path, the callbacks implement `HostButtons`. Two areas, the right one and the rest, are all that these properties tell apart |
| `fake` | a device without slots and one with 2, tools for 2 to 4 fingers, scans and dropped scans without a bound, 1 fd change | never more touches than fingers, exactly as many when they arrive one by one, real touches follow their slots, the counter counts. Four tools' worth of touches are all that QUADTAP can invent |
| `gestures` | 2 slots, 2 heights, 2 buttons, 1 fd change, scrolling off, every motion a whole unit | the pointer stays with its finger, presses pin and releases let go, button callbacks implement `HostButtons`. Two fingers are what pinning chooses between; the second button makes a release that is not the last one |
| `scroll` | 3 slots, 1 button, motions of -1 and 1/2 unit, 1 change of the methods | scroll callbacks implement `HostScroll`, a scroll has two fingers and moves no pointer. The third finger is the other way to end a scroll; half a unit starts none but continues one |
| `motion` | 4 positions, margin 1, rings of 1 to 4 points, 2 changes of the size, 1 fd change | the ring gives back the last points, the motion is their average, the filter stays within its margin and stills jitter. Four points make odd and even rings wrap; `recent` keeps one point more than a ring |
| `driver` | 2 devices one after the other, 4 times on, 3 scroll callbacks, 2 descriptors of the server's, 3 xorg.conf sections | descriptors stay connected and the server's stay open; scroll events are near what was reported; every percentage of both axes, one of them beginning below 0, and every list of two from ten pairs are applied up to the first bad pair and read back; a distance below zero is among the sections |

`driver` has bounded counters at which the system stops (`CHECK_DEADLOCK FALSE`), `fake` a
crash. `gestures`, `scroll` and `motion` check for deadlock. The type invariants
`ButtonTypeOK`, `GesturesTypeOK`, `MotionTypeOK` and that of `FakeTouches` hold in these
instances as well and are not part of the runs.

One run ends in a counterexample, where the code disagrees with its own assertion; it is
the finding in `PROJECT.json`. `gestures_pointer`: a press without a finger pins an
unused touch, and a release with one finger down makes that touch the pointer instead of
the finger's.

The following configurations, run by hand (`tlc -config X.cfg M`), end in a counterexample
each and mark the limits of properties above:

| Configuration, module | Disagreement |
|---|---|
| `tap_hold`, `MCTap` | a finger that rests after a tap never becomes a drag (touchpad.h:81): the wait has no timer, and its lift counts as a second tap |
| `tap_disable`, `MCTap` | tapping disabled while a tap holds its button: the button is never released |
| `softbutton_underflow`, `MCSoftButton` | a button state assigned to `t->state` keeps an ended touch alive, and `fingers_down` goes negative (touchpad-events.c:71) |
| `softbutton_double_click`, `MCSoftButtonHistory` | the second click of a finger resting in the right area is a left click (touchpad.h:147) |
| `fake_history`, `MCFakeTouches` | without slots, a fake touch that DOUBLETAP begins and TRIPLETAP's end ends in one frame has no point in its history when it is dejittered (touchpad-filter.c:54) |
| `tap_zero`, `MCTap` | a tap timeout of 0, which the configuration accepts, is requested as no timer at all: the button of a tap is not released until the device sends something |
| `driver_default`, `MCDriver` | the areas and the history size refuse USE_DEFAULT (touchpad-config.h:100) |
| `driver_key_error`, `MCDriver` | a pair whose key is USE_DEFAULT is refused and the error is not KEY_INVALID (touchpad-config.h:104): it stays as it was, or is NO_ERROR after a good pair (touchpad-config.c:191) |
| `driver_keys`, `MCDriver` | the double-tap timeout and the move threshold are written to the tap timeout (touchpad-config.c:200-205), so setting one key changes what another reads |

### Conditions

Some properties hold only under a condition, which they or their run name:

- `FingersDownCount` is an equality until the fd changes: `touchpad_reset`
  forgets the touches and not the counter, which is too high afterwards. For the
  same reason `TimerMatchesState` is about an unchanged fd (`touch_init` does not
  clear `button_timeout`), and `ButtonsAlternate` and `ClicksAlternate` are checked
  without fd changes (a reset loses the release of a held button).
- `TapIsReleased` needs tapping to stay enabled (`tap_disable`).
- No run has a timeout of 0. The code accepts it, sets a deadline that has already passed and
  requests no timer, so that `DeadlineWakesHost`, `NoExpiredDeadline` and `TapIsReleased` fail
  with it (`tap_zero`). The proofs about deadlines assume it away (`TapTimeoutSet`,
  `TimeoutsSet`). Negative timeouts are outside the model.
- `NoEventWithoutFinger` has one exception: when the last fingers leave in one frame, the
  first of them takes a DEAD machine to IDLE, which then hears of the others' lifts. The
  property says that IDLE hears of a lift in this case only, and never of a motion.
- Deadlines fit an `int` in every run. After 24.8 days of uptime they do not:
  `timerfd_settime` fails and the host is not woken (`RequestTimer` and `AsInt`
  model this; a smaller `INT_MAX` makes `tap_release` fail).
- `OutsideClicksLeft` and `RightAreaClicksRight` are about the first click of a
  finger. A release puts the button state of its finger back to NONE, which
  forgets where the finger came from (`softbutton_double_click`).
- The properties of `FakeTouches` and `PointerIsOneFinger` are about an unchanged fd:
  afterwards the counter is too high, forgotten touches keep their pointer flag, and
  a device without slots has no current touch (its next event crashes).
- `ArrivalsCounted`: of several fingers that arrive in one scan the library invents only the
  last one's touch. `PointerIsOneFinger`: a press with no finger or with several
  may flag two pointers or an unused one (`gestures_pointer`).
- `ScrollHasTwoFingers`: a scroll whose method is switched off, or that is suspended by
  a button, keeps its state until the method or the button comes back.
- `WithinMargin`: a coordinate the kernel has not reported since the open or the fd change is 0.
- `ReadsBack` says what the code does, not all that `touchpad-config.h` promises. It names three
  exceptions: the tap timeout, the double-tap timeout and the move threshold overwrite each
  other (`TapPeriods`; a key of the three reads back what was asked for last with any of them);
  areas and history size refuse USE_DEFAULT; and a pair whose key is USE_DEFAULT is refused
  without an error of its own (`Reported`). The promises themselves, `KeysAreSeparate`,
  `DefaultsAccepted` and `InvalidKeyReported`, fail (`driver_keys`, `driver_default`,
  `driver_key_error`).
- `PostedNearScrolled` is about one callback: a remainder is posted and kept, so several add up.
- Scroll distances are not 0 (`OptionsAssumption`; the source divides by them unchecked). They
  may be negative. Axes are at least 200 wide (`AxisAssumption`): narrower ones have fewer
  coordinates than it takes to tell percentages.
- `NothingLostBySwitching` allows two descriptors per device: the one of `pre_init` and the
  timerfd are never closed. `ServerKeepsItsOwn` is about devices that were not refused: for a
  refused one `touchpad_free` closes descriptor 0, which is the server's.
- Several `log_bug` and `argcheck_not_reached` lines can be reached (the idle
  state sees a RELEASE when two fingers leave DEAD in one frame; a finger that
  arrives during a click sees its release). They log and change no state, and are
  modelled so.

### Fairness

`TapFairness`: the library finishes a frame it started (it is a loop without waiting);
the kernel completes a frame it started; the host calls the library when its poll
wakes (the contract of `touchpad_get_fd`); and the library reads faster than the
device reports, so the queue is found empty again and again (strong fairness of
`TapAgain`, which more input disables for a while). Time passes whatever they do: the
clock stands still only inside a frame of the model, so `TapTick` too is strongly
fair. Nothing is assumed about fingers: they may rest for ever. Only the wake-up by
the timerfd is fair, not the host's calls in general, so that a lost deadline shows.

## What is proved

All theorems hold for every value of the constants, within the stated assumptions.

`TouchesProofs`. The type invariant alone is not inductive: `EndTouch` decrements
`fingers_down` for any touch that is not NONE, also for one that has already ended.
That this cannot happen needs the kernel: it only ends a contact, and a contact is a
live touch (`KernelAgreement`) or one the library was never told about, whose touch is
NONE (`UnseenUntouched`). The decrement stays in Nat because the counter covers the
live touches (`CountCovers`). The inductive invariant `IInv` is the conjunction of
these with `TypeOK`; `BeginTouchCounts` and `EndTouchCounts` carry the cardinalities.
A second, smaller invariant `QInv` proves that changes are queued and settled.
Theorems: `TypeCorrect`, `CounterIsExact`, `AgreesWithKernel`, `NothingSkipped`,
`IdleIsSettled`.

`TapProofs`. `TapImplementsTouches`: every step of `Tap` is a step of `Touches` or
leaves its variables alone, so its theorems hold of `Tap`. `DeadlinesAreCurrent` and
`DeadlinesWake`: the timer invariant relates the deadline of the machine to
`next_timeout`, to the timerfd and to the time of the frame being handled; it is needed
because a request of a later deadline moves the timerfd, and it is the order
"timeouts, then frame" that keeps the deadline current. Assumed:
`DeadlinesFit` (deadlines fit an `int`), `NeverDisabled` (tapping is not
reconfigured: a disabled machine keeps a deadline nobody looks at) and `TapTimeoutSet` (the
timeout is not 0: that is not requested and leaves a deadline that has passed, and neither
theorem holds with it). All three are in the statements.

`TapImplementsHost`: for `MaxFdChanges = 0`, `TapSpec` implements `HostButtons`. Every
handler's output has one of five shapes (`EventShape`), and each shape alternates
(`PressAlone`, `ReleaseAlone`, `ClickAlone`, `ReleaseAndClick`).

`TapAlwaysCountsFingers` and `NeverEventWithoutFinger` are about every step of the loop over
the touches. The machine counts the fingers it has been told of: those of the last frame,
and up to the loop's index those of this one (`Known`). The exception, and the reason why
the count alone is not inductive, is a DEAD machine: it becomes IDLE when `fingers_down` is
zero, before it has heard of the other fingers that left in the frame (`CountInv`).
The same machine is the exception of `NeverEventWithoutFinger`: TAPPED and DRAGGING_WAIT hear
of no touch that moves or leaves, IDLE of no motion, and of a lift only when no finger is
left. Assumed: `NeverDisabled`, and `OncePerFrame`, that the kernel reports a slot once per frame
(a touch that ends and begins again in one frame shows the machine one event of the two).

`SoftButtonProofs`. A button state can end up in `t->state`, and then nothing proved of
`Touches` holds; the invariants here do not rest on it. The lemmas `HandleArea`, `HandleUp`, `HandleRelease`, `HandlePress` say what
the twelve states do with each kind of event; everything else rests on them.
`TimersAlwaysMatch`: a touch that ends with its frame has no timer left (`MatchInv`).
`ButtonTimersAreCurrent`: `next_timeout` is no later than any touch's deadline
(`SharedInv`). Assumed: `ButtonDeadlinesFit`, and `TimeoutsSet`, because a timeout of zero
is not requested and leaves a deadline that has passed. `NeverStalePressed`: a pressed
state has a button that is down or a release that is queued (`PressInv`). Assumed:
`OncePerFrame`, of the button, because a press and a release in one frame are handled as
the release alone. `RightAlwaysNeedsArea` and `ClicksAlwaysAlternate` assume in addition
`OneButton` (it is a clickpad), the latter also that the fd is not changed and
the button is up when the device is opened. `OutsideAlwaysClicksLeft` and
`RightAreaAlwaysClicksRight` assume nothing: `PathInv` says which state goes with the path
of a finger that has not seen a click.

How far the touch layer holds under the soft buttons is proved as well.
`ButtonImplementsTouches`: as long as no button state is assigned to `t->state`
(`Uncorrupted`), every step is one of `Touches`, so that the counter is right
(`UncorruptedCounts`). `LeftOnlyImplementsTouches`: on a clickpad without a right area
(`NoRightArea`) this is always so, because its touches stay in states that assign nothing
wrong (`LeftInv`). `softbutton_underflow` shows what happens otherwise.

`FakeProofs`. A frame is an account (`FakeInductive`): what the touches are and what the
events still to be read will change add up to the fingers on the device. `KernelInv` says
what the events of a frame can be and in which order, `TouchInv` that a touch changes once
but for what the tools correct, `SlotInv` and `GhostInv` that a touch without a finger has
an event that ends it, `ArrivalInv` that a finger without a touch has one that begins it.
The order matters: the tool of more fingers comes later and takes back what the tool of
fewer fingers has ended (`OffsFirst`). `FingersAlwaysCounted` and `SlotsAlwaysAgree` hold
for every set of tools. `NeverGhostTouch` and `ArrivalsAlwaysCounted` assume
`ToolsInARow`: the device announces every number of fingers from two to its largest, as
the kernel's drivers do. The assumption is needed: on a device without slots whose
only tool is TRIPLETAP, a dropped scan in which two fingers leave changes BTN_TOUCH alone,
the resynchronisation loses that event, and its touch stays.

`GesturesProofs`. `GesturesImplementsTouches` brings the theorems about `Touches` here.
`GesturesImplementButtons` is the refinement of `HostButtons`: the loop over the bits of the
mask names every changed button once (`NthEnumerates`), so that its callbacks alternate.
`GesturesImplementScroll` is that of `HostScroll`. `NeverPinnedWithoutButton`: a pinned
touch, of which there is one at most, has a button down or a release queued (`PinInv`).
`PointerAlwaysOneFinger`: the flags are on touches in use (`FlagInv`), which
`PointerIsOneFinger` does not say of pinned touches although a release makes them pointers.
`PointerAlwaysStable` and `NeverMotionDuringScroll` follow from the types and the
step alone. `ScrollAlwaysTwoFingers`: `ScrollInv` adds that the method of the scroll is
still enabled, and the moment between the handlers and the end of the frame.

`MotionProofs`. `AroundTheRing` is the arithmetic of the ring's index, `PushIsReadBack`
what a push does to every point, `HysteresisIsNear` what the filter does to one.
`WithinMargin` alone is not inductive: the hysteresis could add up over frames that
report nothing of this coordinate. It does not, because the coordinate of a touch that is
on is the finger's or the point last pushed, and the filter leaves both within the margin;
the inductive invariant `FilterInv` says so, and that the ring of such a touch holds a
point. Theorems: `RingAlwaysRecent`, `AlwaysHasLastPoint`, `AlwaysWithinMargin`.
`MotionTypeCorrect` adds the types, among them that the motion of a frame is an integer.
`DeltaAlwaysAverage` and `JitterAlwaysStill` are about the sum over the ring
(`touchpad_motion_to_delta`), by induction over the number of summands: the signed sum is
the difference of two halves, and it is zero when all points are the same. For the latter
the inductive invariant is that all points are the first one (`StillInv`).

`DriverProofs`. The lowest free number is used for what is opened, so a number that the
driver still holds after closing it may become the server's. `DInv` says of every number
the driver and the library keep whether it is open and whose it is. A refused device
has closed descriptor 0, the server's, which the next device may then get; that 0 is open
from then on (`StdinTaken`) keeps what is opened later from being it. `NeverLostBySwitching` is an account: what is
lost and what the device may still lose is at most two per device (`LostInv`).

`AlwaysReadsBack` is about every list of pairs. `RoundsOK` is the invariant of the loop in
`touchpad_config_set`: after each pair every key reads back as the last good pair of this key
says, or as before the call, where the three tap periods count as one key because the source
writes all of them to the tap timeout (`ApplyReadsBack` for one pair, `AllRounds` by induction
over the list). It also accounts for the error, that of the last pair unless its key is
USE_DEFAULT (`ErrorAt`), and says that no pair after the first bad one is applied. The theorem
is about these semantics and not about the header's, which the code does not have. A percentage survives because a coordinate loses less than half a percent of an axis that
is at least 200 wide (`AreaReadsBack`); `ConfigInv` says that the configuration of every
device came from such calls. Assumed of the pairs and the options is that their values are
integers. `AlwaysPostedNearScrolled`: what a callback posts is what it was given within one
distance, because the remainder kept from before is less than one (`ScrollInv`), which needs
that the distances are read when no remainder is left. The units are any integers.

`InductionLemmas`. Induction over data is stated for sets of natural numbers
(`SetInduction`), from the library's theorem that every non-empty set has a least element,
because none of the provers can instantiate a theorem with an operator as parameter. For
the same reason loops of the source are recursive functions or choices (`Nth`, `Winner`,
`SumTo`), and the set of buttons is assumed to be finite, as a mask is.

Only model-checked:

- liveness (`TapIsReleased`, and with it that the wait after a tap ends): the prover has no
  ENABLED or fairness reasoning.

## What is abstracted or left out

- The motion threshold of tapping (a free choice), positions in `Tap` and `SoftButton`
  (choices or areas), in `Pointer` the filter (heights lie further apart than it moves a
  touch), in `Scroll` the path from points to motion (`MotionFilter` has it, for one touch).
- Slots and fake touches together with the other machines: `Touches` is a device whose slots cover its
  BTN_TOOL_* codes, `FakeTouches` one whose slots do not, without the handlers above it.
- The clickpad as a whole: `Tap` and `SoftButton` each own the timer, on a clickpad
  they share it, with the pointer selection of the soft buttons. Their product is beyond TLC
  with the interesting number of fingers and ticks. Likewise `Tap` and `Gestures`.
- In the SYN_DROPPED path: the physical buttons (one that changed as the only key is lost) and
  the timers (its frame is judged without the timeouts due before it). The drop falls
  between two frames.
- The X server's own behaviour but for its order of calls; one device at a time. The motion,
  button and tap callbacks of the driver pass their arguments on. The scale of the axes:
  the modelled device has the axes that `calc_scale` asks for (without them `pre_init` frees
  what `pInfo->private` points to).
- Opening and closing the device but for the descriptors, logging, tools, tests, ccan.

## Plan

1. A clickpad with two timer owners and abstract state machines, for deadlines that are
   noticed late when the device is silent.
2. The soft buttons together with the pointer selection they take part in.

# Verification of robot-cpp

robot-cpp injects keyboard and mouse input, records it, and captures the screen,
on macOS, Windows and Linux (X11 and uinput). This directory models its core
logic in TLA+, checks the models with TLC and proves the most important results
with TLAPS. Paths below are relative to the repository; `src/common/Keyboard.cpp:136`
is a line of it.

Run everything from this directory: `tlc -config MCWinKeyboard.cfg MCWinKeyboard`
(each `.cfg` names its module by its prefix), `tlapm KeyboardProofs.tla`.
`PROJECT.json` lists the components, runs, mutants, findings, hazards and theorems,
and maps every definition to the lines it models.

## 1. The system

A caller creates a `Session`, which owns one `IPlatformBackend` and hands out four
facades that borrow it. Facades are portable and hold no state but the pointer;
backends hold the platform state. All calls are synchronous; the only call that
blocks is `EventTap::start`, and `EventTap::stop` is the one call meant to come
from another thread. There is no persistence, so nothing restarts or recovers.

| Component | State | Operations | Interacts with | What is hard | Correct when |
|---|---|---|---|---|---|
| Keyboard facade, `src/common/Keyboard.cpp` | locals of `tap`: `pressed`, `result`, the loop index | `press`, `release`, `tap` | a backend call per step | any of a chord's calls may fail, also the calls that clean up | no key is left down unreported; a chord's key arrives with all its modifiers; an `ok` is the whole effect |
| Text, the rest of `Keyboard.cpp` | locals: the decoded text, the character it is at | `typeChar`, `typeText`, `typeTextHumanLike` | `typeUnicode` of the backend | UTF-8 by hand; characters of two units; a keycode of the X server borrowed from everybody | all of a text or none of a malformed one; what arrives is what was reported; the keyboard is left as found |
| Windows keyboard, `src/platform/windows/WinKeyboardBackend.cpp` | none | `keyDown`, `keyUp`, `typeUnicode` | `SendInput` | blocked input | one event or an error |
| macOS keyboard, `src/platform/macos/MacKeyboardBackend.cpp` | `heldModifiers_` | the same | `CGEventPost` with explicit flags | the set changes before the event is created, and that may fail | the flags of an event are those of the modifiers that are down |
| X11 keyboard, `src/platform/linux/X11KeyboardBackend.cpp` | none (the scratch keycode during `typeUnicode`) | the same | XTest, keysym lookup in the active layout | two keys may resolve to one position; failures are asynchronous | what goes down is what comes up |
| uinput, `src/platform/linux/UinputBackend.cpp` | the kernel's view of the device | `keyDown`, `keyUp`, buttons, wheel | two `write`s per event | the second write may fail | an `ok` means reported |
| Event tap facade, `src/common/EventTap.cpp` | none | `start`, `stop`, `isRunning` | the backend's | threads | `start` returns when and only when stopped |
| macOS tap, `src/platform/macos/MacEventTapBackend.cpp` | `runLoop_`, `running_`, `tap_`, `heldModifiers_` | `start`, `stop`, `callback`, `handle` | the CFRunLoop of the calling thread, Quartz | `stop` races `start`; the system disables the tap | see section 4 |
| Windows tap, `src/platform/windows/WinEventTapBackend.cpp` | `g_active` (process), `threadId_`, `running_`, the hooks | `start`, `stop`, hook procedures | the thread's message queue | unlocked global, message queue that outlives the loop | see section 4 |
| X11 tap, `src/platform/linux/X11EventTapBackend.cpp` | `g_state` (process), `control_`, `data_`, `context_`, `running_` | `start`, `stop`, `interceptCallback` | two connections and a record context | unlocked global, pointers freed under `stop` | see section 4 |
| Mouse facade, `src/common/Mouse.cpp` | locals of the gestures | `move`, `moveSmooth`, `press`, `release`, `click`, `doubleClick`, `drag`, `dragSmooth`, `scroll` | a backend call per step | a gesture that fails half way | no button is left down unreported; a drag drags |
| Mouse backends | `pressedButton_` (macOS, Windows) | `warpCursor`, `cursorPosition`, `button`, `scroll` | the OS | one optional for all buttons; coordinates of several monitors | moves are drags exactly while a button is down |
| Recorder, `src/common/Recorder.cpp` | `events_`, `start_`, `started_` | `capture`, `reset`, `replay` | called by a sink on the tap's thread; replays through keyboard and mouse | capture on one thread, replay on another; errors in mid-replay; rounding of gaps | replay reproduces the order; time never runs backwards |
| Session and factories, `src/common/Session.cpp`, `*BackendFactory.cpp` | `capabilities_`, the facades | `create` | environment, permissions | flags set once, permissions that change | a false flag means an error; what was required is there |
| Screen, `src/common/Screen.cpp` and backends | none | `monitors`, `primaryMonitor`, `virtualBounds`, `capture`, `captureMonitor`, `pixel` | OS enumeration and capture | displays are read one by one, twice in one call, and replugged meanwhile; densities differ | a capture shows the display it names, in its own pixels |
| Coordinates, `WinMouseBackend.cpp`, `WinDpi.cpp`, `Geometry.h` | none | `warpCursor`, `cursorPosition`, the recorded position | the virtual screen | two roundings, negative origins, rectangles scaled per monitor | a warp lands where it aims |
| Image, `src/common/Image.cpp` | pixels | PNG encoding | vendored lodepng | I/O | not modelled |

## 2. The modules

    KeyboardContract <---- implemented by ---- Keyboard   (facade, properties)
                                                  ^ EXTENDS
                                WinKeyboard   MacKeyboard   LinuxKeyboard
    EventTapContract <---- implemented by ---- MacEventTap, X11EventTap (one tap)
                                               WinEventTap  (several taps)
    MouseContract    <---- implemented by ---- Mouse  (facade, properties)
                                                  ^ EXTENDS
                                               MouseBackends  (all four)
    Recorder (capture, reset, replay, pace) <-- EXTENDS -- Recording (user, tap, session)
    Utf8 (codecs) <-- EXTENDS -- Typing (sessions that type, all four backends)
    Session, Geometry <-- EXTENDS -- Desk <-- EXTENDS -- Screen, Pointer
                                             <-- EXTENDS -- Desktop (a session at its desk)

**Keyboard** is the facade alone. `press`, `release` and each phase of `tap` is an
action that takes the key it hands to the backend and the outcome `r` the backend
answers with. `pc` is the position inside `tap`; `tap`, `next`, `pressed` and `result`
are its arguments and locals. The path that returns early on a refused modifier
(`Keyboard.cpp:128-131`) and the normal unwinding (`:139-143`) release the same keys in
the same order and differ only in whether a late error may replace the result; since on
the early path `result` is an error already, `ReleaseModifier` models both. `caller`,
`refusedUp` and `before` are history; `down`, the keys applications see as down, belongs
to the environment.

**WinKeyboard**, **MacKeyboard**, **LinuxKeyboard** extend it with a backend's `keyDown`
and `keyUp`, conjoined to the facade's action: a step is one backend call. The Mac
module has `heldModifiers` and the flags of the last event. The Linux module has both
backends; which one the session got is chosen in the initial state (`LinuxBackendFactory.cpp`),
and `deviceDown` is what uinput has been told and has not reported. Key tables are
abstracted to the set of keys they hold; the X11 layout is a function from keys to
positions, which need not be injective.

**KeyboardContract** is what `Keyboard.h` promises: one step per API call. The modules
implement it with `held` and `status` as of the last time no call was in progress.

**MacEventTap**, **WinEventTap**, **X11EventTap** cut `start()` and `stop()` at every
access to what another thread or the system can see: `runLoop_` and `running_`;
`g_active`, `threadId_` and the message queue; `g_state`, `control_` and `context_`.
Accesses nobody can tell apart are one step. The plain variables that
several threads touch (`g_active`, `threadId_`, `control_`, `context_`) have the values
that interleaving gives them; weaker memory orders are not modelled. In the Mac module
the sink may call `stop()` on the loop's thread (`Sink`); in the other two such a call
makes the same accesses while the loop happens to take no step, which the interleavings
of a stopper contain. What an event is translated to is abstracted to "the sink is
called".

**EventTapContract** is what `IEventTapBackend.h` promises of one tap: `start()` returns
`ok` only after a `stop()`, and an error only before it has called the sink.

**Mouse** is the mouse facade. A gesture is straight-line code but for its errors, so
the position inside it is an index (`next`) into the sequence of backend calls it makes if
none fails (`Calls`); a refused call ends the gesture, except that a drag with its button
down goes on to release it (`afterError`, `Mouse.cpp:85-113`) and keeps the first error
(`firstError`). Interpolated points are any points of the desktop.

**MouseBackends** extends it with the four backends; which one the session has is chosen
in the initial state. macOS and Windows track `pressedButton_`, uinput writes a button in
two halves and can neither warp nor read the pointer, X11 never learns of a failure.
The wheels turn in two events on Windows and uinput, of which the second may be refused, in
one on macOS, and click by click on X11. `moveAs` is what applications took the last
move for: the buttons it dragged.

**MouseContract** is what `Mouse.h` promises: a call and its return, an `ok` with the whole
effect, an error that touched no other button. `ImplementsContract` leaves out uinput,
where a refused button may show with a later report (`NoStuckButton` covers it).

**Recorder** is `Recorder.cpp`: the timeline, `capture` on the tap's thread, the two
statements of `reset` and the loop of `replay` on the caller's. `capture` is two steps, as
`reset` shares what both touch: it sees to the clock and takes the stamp (`captureClock`,
`Recorder.cpp:20-27`), and it appends (`capturePush`, `:28`); in between it holds the stamped
event (`captured`). `raced` is history: a `capture` and the last `reset` overlapped, one way
or the other. `replay` holds iterators: an event captured meanwhile may move the recording
in memory (`stray`), after which it reads any event; what such a replay does is not claimed to
be anything.

**Recording** puts it between a user and a session: the user's input, the tap (`handle`;
with `toggles` that of macOS, which infers a modifier's direction from the last one), and
the facades a replay calls, each of which may refuse. What a replay injects passes a
running tap again. An event is captured in two steps, `Record` and `Push`; the tap handles
one at a time. `happening` and `trail` are history: what happened at the event that is being
captured and at each recorded one, with what the recording knows to be down and up then.

**Utf8** holds one step of `decodeUtf8`, the UTF-16 encoding of the backends, and, to judge them
by, the tables of the Unicode standard (3-5, 3-6, 3-7), written from the standard and not
from the code.

**Typing** lets several sessions, of one process or of several, type at once. `typeText` takes a
turn of the decoder's loop per step and types nothing before all is decoded; `typeUnicode` is cut
at each system call: on Windows each UTF-16 unit is a `SendInput`, first all downs and then all
ups; macOS creates both events before it posts either; X11 reads the scratch keycode's
binding, binds the character, taps, and restores. The X server's queue and the application that
reads it are external: the application fetches the mapping when it gets to the change notice,
by when it may have been restored (`late`). What a keycode with one keysym shows is the X
protocol's: of a letter with two cases the lower one (`Unshifted`, with the cases in `Lower`), of
a control character nothing (`Control`). `MinKeycode` is the lowest keycode of the server;
where it is above the keycode 1 that the code borrows, reading the binding fails.

**Session** is `Session::create` over the three factories: options, environment and permissions
in, a backend or an error out, with the flags of `Capabilities.h`; and, for each operation a flag
names, how it really answers (`Answers`). macOS permissions change at any moment (`Toggle`); the
flags do not.

**Geometry** has the two spaces as integer vectors, a logical unit being `Unit` quanta, so that
what the code holds in a double is exact; rounding is `std::lround`, halves away from zero.
**Desk** is the displays the system has and the `Monitor` each backend makes of one.
`Arranged` says what a desk is like: displays have names of their own and at most one is the main
one; Windows and macOS have one, at the origin, and displays of macOS are whole pixels wide, high
and apart.

**Screen** is the facade and the four screen backends. An enumeration lists the displays and
reads them one by one, with replugging in between; `captureMonitor` enumerates, and
`captureRegion` of macOS enumerates again to recognise a whole display. An image is the area
it shows and its size in pixels. `PrimaryFirst` is what `std::stable_partition` promises: the same
monitors, those that are primary before those that are not, each group in the order it had.

**Pointer** is `warpCursor` and `cursorPosition`: on Windows the metrics of the virtual screen,
the monitor of the point, and the 16-bit fraction with what the system makes of it are
separate steps; and `Recorded` is the position the Windows hook records. The system may
round its half of the fraction down or to nearest; both are allowed. `WarpLands` counts the halves
of a pixel by which a warp may miss its point, `Roundings`: three on Windows, two on X11, none on
macOS. A pixel rounded over an edge may be nearer to a display other than the one that shows the
point; there the system puts the cursor, and it may miss by two whole pixels more (`Lands`).

**Desktop** composes them: a session is created and its caller makes one call at a time, while
the user rearranges displays and permissions between any two steps.

## 3. Runs

| Run | Instance | Shows |
|---|---|---|
| `win_keyboard` | 4 keys (two modifiers, CapsLock also as main key, one unmapped), chords of 0, 1 and 3 modifiers | the facade's promises under every sequence of refusals; every call returns |
| `mac_keyboard` | both Shift keys (one flag), Control, one unmapped key | flags agree with the keys; a ghost modifier only after a failed creation |
| `linux_keyboard` | a modifier, two keys on one position, one unmapped key; either backend | nothing is stuck in silence; `ok` means reported; chords arrive complete |
| `mac_tap` | a runner, two stoppers, the sink | contract, `isRunning`, stopping, recovery of a disabled tap |
| `win_tap` | two taps, two runner threads, a stopper, at most 2 queued `WM_QUIT`s (`MaxQuits`) | `g_active` names the tap that runs but for one race; every running tap can be stopped |
| `x11_tap` | a tap, two stoppers | the first stop uses no closed display; stopping; contract |
| `mouse` | two buttons, two points (symmetric), smooth moves of 1 and 2 steps, turns of both wheels and of none, each of the four backends | nothing is stuck in silence; drags drag; contract |
| `recording` | a modifier, a button that stays down, two points; 2 events by the user (`MaxEvents`), a clock of 1 tick of a millisecond (`MaxTime`, `Tick`); gaps at 3/4, or doubled and capped at 1 ms | the recording is what happened; a replay reproduces it, at its pace, up to where it fails |
| `typing` | two sessions, 2 calls (`Calls`; 1 on uinput); on uinput every string of up to 4 of 15 boundary bytes, elsewhere texts of one, two and three units and a malformed one; a capital, U+0000 and characters on both sides of the scalar range; an X server that has a keycode 1 (`MinKeycode`) | the decoder is the standard's; text arrives whole or not at all; the keyboard is left as found |
| `desktop` | a session of each backend, 2 calls, 1 change of the desk or a permission (`Calls`, `Replugs`); two or three desks per host, of one density and of several, one at a negative origin, one without a primary display, one 1100 pixels wide; a unit of 6 quanta (`Unit`) | flags tell the truth; captures show what they name; warps land |
| `mac_tap_lost_stop` | as `mac_tap` | disagreement 1 of section 6 |
| `mac_native_capture` | as `desktop` | disagreement 2 of section 6 |

*Why the bounds suffice.* A keyboard step touches one key and the chord's keys: the instances
contain a chord of several modifiers, a main key that is itself a modifier of the chord, a key the
caller holds already, an unmapped key in every role, and, on macOS, a left/right pair. Sequences of
calls are not bounded at all, nor is the number of failures. In the tap models the code treats all
stoppers alike, so a third can only repeat what two do; two taps are what it takes to share a
global. `MaxQuits` bounds the queue of a thread: further messages are dropped, which only removes
stale ones, as the Windows queue limit does. The mouse calls are not bounded in number either; a
second button is what it takes to confuse `pressedButton_`, and a smooth move has an inner and a
last step with `Steps = 2`. In `recording`, two events have one gap and one place between them
where a replay can fail; each may come from a session of its own, with a reset in between, under
way, or in the middle of its capture; the one tick is a gap that a scale of 3/4 rounds and one of 2
makes too long for the cap; `Room` lets a replay be recorded in turn when the recording has one
event, and it then has three. Between recordings and replays the user does anything: the state of
keys and pointer is chosen anew when the next begins. In `typing`, four bytes are the longest
character, and shorter characters in the same string try every way of being cut; the 15 bytes are
those that table 3-7 tells apart: both sides of every limit it sets to a second byte, the leads
that have such a limit (E0, ED, F0, F4), and the leads next to those it excludes (C1 and C2, F4 and
F5); of leads that are alike one is taken, and F8 and above, which no pattern matches, are
represented by a continuation byte in the lead's place. The platforms share the decoder, so it is
run with all strings where nothing else can happen. In `desktop` a second call is what it takes to
use an id that `monitors()` gave, and one change what it takes to make it stale; 6 quanta make
pixels at 100%, 150% and 200% integers. Its displays are a few pixels wide, but for one of Windows:
from some 900 pixels on the 16-bit fraction of a pixel may stand for the pixel before it, and on
that display of 1100 it does, at a point from where the cursor settles on the display below.

*Fairness.* `LinuxKeyboard`, `MacKeyboard`, `MouseBackends`, `Recording`, `Typing` and `Desktop`
are checked for safety only and assume none. `WinKeyboard` assumes that the calling thread runs a
call it has made to the end. The tap models assume weak fairness of the runner's own steps and of
each call of `stop()` in progress: threads are scheduled, system calls and the sink return.
Nothing is assumed about calls that nobody need make, about events, or about failures. No run
disables the check for deadlock. Where the number of calls is bounded, `Quiet` of `Typing` and
`AtRest` of `Desktop` let a caller without a call in progress stop; a call that could not go on
would still be a deadlock.

*Depth of the properties.* Each property of each passing run has a mutant in
`PROJECT.json`: a plausible slip in one definition (an early return, a lost error, a
reset forgotten, a check of the wrong variable) under which TLC finds the property
violated. The type invariants are proved (section 5); no run lists those of `Typing`, `Recording`
and `Desktop`. `StuckKeyWasRefused` and `GhostOnlyAfterRefusal` are what remains true on platforms
where `NoStuckKey` in its device sense or the agreement of flags does not hold unconditionally:
they say exactly which errors the caller must have seen.

## 4. What correct means for the taps

- `RunningImpliesInStart`: `isRunning()` is false once `start()` has returned, however
  its stores race those of `stop()`. The converse is not true and not claimed:
  `running_` is false as soon as `stop()` is called.
- `StopInLoopEndsIt`: a `stop()` that begins while the loop runs ends it. `StopEndsStart`,
  the same for a `stop()` at any time after `start()` has begun, does not hold.
- `ActiveNamesRunner` (Windows): a tap is never refused because of one that has ended, and
  `g_active` names the tap whose `start()` is past its registration, so that the hooks reach it
  and no other tap's end clears it. The check and the assignment are not atomic: two `start()`s
  that both pass the check before either registers (`raced`) do break it, and nothing else does.
- `FirstStopUsesOpenDisplay` (X11): the first `stop()` of a `start()` finds the display open that
  it disables the context on, however it interleaves with `start()`, unless the server had
  refused to enable the context. Of a second `stop()` this is not true: see 5 in section 6.
- `DisabledTapRecovers` (macOS): the notice that the system disabled the tap leads to its
  being enabled again, or the loop ends.

## 5. Proofs

Proved for every value of the constants, from the modules' named assumptions only:

| Module | Assumption | Says |
|---|---|---|
| `Keyboard` | `ChordsAssumption` | chords are sets of modifiers, whose keys are keys |
| `WinKeyboard`, `MacKeyboard` | `ScanCodeAssumption`, `KeycodeAssumption` | mapped keys are keys |
| `LinuxKeyboard` | `LinuxAssumption` | so are those of a layout, its positions, and those evdev has |
| `MacEventTap` | `StopperAssumption` | the sink is not one of the stoppers |
| `WinEventTap`, `X11EventTap` | `TapAssumption` | `None` is no tap and no thread; a queue has room |
| `Mouse` | `StepsAssumption`, `DeltaAssumption` | a smooth move has a step; turns are integers |
| `MouseBackends` | `NoneAssumption` | `None` is no button |
| `Recorder` | `OptionsAssumption`, `TickAssumption` | a scale is a fraction and a cap a natural; a millisecond has a tick |
| `Recording` | `ModifierAssumption`, `PointAssumption`, `BoundsAssumption` | modifiers are keys, keys are no buttons; there is a point |
| `Recording` | `EventAssumption` | a key may go either way, and what has a place may happen at any |
| `Typing` | `TypingAssumption` | texts are strings of bytes, characters and the lowest keycode naturals; a lower case is a character |
| `Geometry` | `UnitAssumption` | a logical unit is a positive number of quanta |
| `Screen`, `Pointer` | `RegionsAssumption`, `PointsAssumption` | regions and points have integer coordinates |
| `Desktop` | `DesktopAssumption` | the desks are `Arranged` (section 2) |

- `KeyboardProofs` begins with the facade over any backend that delivers or refuses an event
  as a whole (`Device`). The promise `NoStuckKey` is not inductive: in mid-chord keys are
  down that the caller does not hold. `KeyboardInv` adds where they are recorded:
  `AccountedFor` (each key down is the caller's, refused, in `pressed`, or the main key in
  the phase that still has to release it), `LoopProgress` (in the first loop `pressed` is
  the wanted modifiers before `next`, all of them down), `ChordComplete`, and `UnwindProgress`
  (in the unwinding, keys of the chord that are down and not refused are still in `pressed`);
  `Frame` says which keys differ from those down before the call, for the refinement. Each
  action preserves each conjunct, one lemma per action. `NestedChord` needs more, `NestInv`: the
  keys in `pressed` stand in the order of `Order` (`Ascending`, and `Behind` the loop), without a
  gap (`Gapless`), and those of the tap's own keys that are down are exactly those in `pressed`
  (`OwnDown`).
  - Windows: type correctness, `NoStuckKey`, `ChordComplete`, `OkMeansReleased`, `NestedChord` and
    the refinement `ImplementsContract`; its backend is a `Device`, so the lemmas apply at once.
  - macOS: the same, and what relates `heldModifiers` to the keys: `FlagsReflectDown`,
    `ChordFlags`, `GhostOnlyAfterRefusal`. `MacInv` adds `HeldInv`: each held modifier is the
    caller's, in `pressed`, the main key, or refused; held and down differ only by refused keys;
    and the flags are those of the held set as of the last event.
  - Linux: type correctness, `StuckKeyWasRefused`, `OkMeansReported`, `ChordPositions`, for both
    backends and any layout. Here keys share positions and events may be half written, so the
    facade over this backend is no `Device` and `LinuxInv` speaks of positions: `PositionsOwed`
    (each position down, to applications or in the device, is that of a key the caller holds, a
    refused one, or one the tap in progress still has to release), `Reported` (no error so far
    means nothing is unreported) and `LoopPositions` (the modifiers the loop has passed are down).
- `MacEventTapProofs`: type correctness, `RunningImpliesInStart`, and the refinement of
  `EventTapContract`, for any number of stopping threads. The inductive invariant adds
  `Asked` (a stop mark, or a stopper anywhere in `stop()`, means that a stop was
  requested since `start()` began) and `Silent` (before the loop the sink was not called).
- `WinEventTapProofs`: type correctness, `ActiveNamesRunner` and `RunningImpliesInStart`, for
  any number of taps, threads and stoppers. The second is inductive beside the types; the first
  needs `Alone`: of the `start()`s that are past the check there is one, unless two have raced.
- `X11EventTapProofs`: type correctness and `FirstStopUsesOpenDisplay`, for any number of taps of
  one process, where the run has one. The invariant says what `start()` has open at each step
  (`HasAt`), that somebody asked for every end of the loop but after an error (`Noted`), and that a
  first `stop()` still in progress has not yet ended the loop (`First`). And, for a tap that is
  alone in its process, the refinement of `EventTapContract`, with `Silent` as on
  macOS. With two taps it is false: see 4 in section 6.
- `MouseBackendsProofs`: type correctness, `NoStuckButton`, `DragsArrive`, `TrackedButton` and the
  refinement `ImplementsContract` of `MouseContract` (but for uinput), for any number of buttons,
  points and steps. The lemmas about `Shape` say what the sequence of calls of a gesture is like
  whatever its length: a drag begins with its press, ends with its release, and has only moves in
  between. `MouseInv` adds `ButtonsOwed` (a button down is the caller's, refused, or that of the
  click or drag in progress), `DragHolds` (until something fails a drag has its button down, and
  macOS knows it), `ErrorsReturn` (a failed gesture goes on only for the release of a drag) and,
  for the refinement, `Frame` (what a gesture has changed so far).
- `RecordingProofs`: type correctness, `StampsFromZero`, `Pace`, `RecordedTruth` and `Reproduces`,
  for recordings of any length, any options and any clock. `LlroundError` bounds the rounding of a
  gap by half a millisecond, and `WaitPaces` adds them up. `RecordingInv` has two halves. That of
  the tape, which `capture` lets grow while a replay reads it: `Pending` (the event in the middle
  of its capture is the one that happened, and still will be when it is pushed), `ClockInv` (the
  last stamp is not ahead of the clock), `HeldTracks` (the tap of macOS is right about each
  modifier that is not `doubtful`), `SeenIsKnown`, and for each event `Leads`, `Placed` and
  `Truth`. And that of the loop: `LoopInv` (`previous` is the stamp of the event waited for last,
  and the position in the loop fits the kind of the event there), but for a replay whose recording
  moved in memory.
- `TypingProofs`: type correctness, `DecodesExactly`, `MalformedTypesNothing`, `KeyboardAsFound`
  and `TextArrives`, for texts of any length and any number of sessions. `DecoderExact` is about
  one turn of the loop, whatever the bytes: it accepts if and only if the string goes on with a
  row of table 3-7, and takes that row's bytes; the proof goes through the four lengths on both
  sides. `CallInv` speaks of one call: what it has decoded encodes to the bytes it has read
  (`DecodedSoFarIs`), and nothing is typed before the end (`InOrder`). `UnitsOwed` says whose turn
  it is to release a UTF-16 unit that is down. `TextArrives` is not inductive, since on X11 a
  character that was reported may still be on its way: `OneAtATime` says, for each place in
  `typeUnicode`, what the server's queue may hold (`Rest`, `Bound`, `Tapped`) and that what is
  shown and what the queue will show make up the text; `ShownPlain` is why the characters it
  is about, the `Plain` ones, show as themselves. Statements about sequences of every length
  are proved from the least counterexample (`LeastNat`).
- `DesktopProofs`: type correctness, `FalseFlagFails`, `RequiredDelivers`, `KnownIdCaptures`,
  `CaptureExact`, `PrimaryAgrees`, `RecordedReplays` and `WarpLands`, for any desks, regions,
  points and densities. `SessionInv` and `ProbeInv` say which flags a backend has and how its last
  operation answered. `RecordedReplays` rests on `PointerInv` and on `LroundExact` and
  `LroundInjective`: a logical coordinate that came from a pixel goes back to it. `WarpLands` is
  about any number of displays wherever they are, with gaps or without, as long as the virtual
  screen of Windows is not wider or higher than the 65536 values of a fraction (`Addressable`).
  `WarpInv` carries what a warp in progress has measured and looked up. `FractionOf` bounds the
  rounding of `Normalized`; from it `FloorBack` and `NearestBack` find what the system makes of
  the fraction: the pixel, the one before it or, for a point rounded past the last pixel, one
  beyond. `Landing` is the geometry: the display that shows the point has one of the two pixels to
  offer, at a distance of at most 1 on each axis, so the display where the cursor settles is no
  further, and if it is that same display there is only one place on it that near. `SettlesNear`
  and `NearbyPixels` turn this into halves of a pixel. `ScreenInv` follows an enumeration: what it
  has read and still has to read are the displays there are (`Reading`), unless they changed
  meanwhile; a monitor to be captured is one with the id asked for (`Capturing`); and what the
  caller knows is the list, primary first, until a change (`Fresh`). A capture of macOS finds its
  display by pixels: those of one density that have the same pixels have the same bounds
  (`SamePixels`), and show the same. The theorem about `Monitors` speaks of every list in
  `PrimaryFirst`; that there is one is shown by the run, which would deadlock.

Only model-checked: liveness (`CallReturns`, `StopInLoopEndsIt`, `DisabledTapRecovers`), which is
out of the prover's reach. Every safety property that a passing run checks has a theorem.

## 6. Disagreements between code and documentation

Two are shown by runs that TLC ends with a trace.

1. **A stop can be lost** (`mac_tap_lost_stop`). `IEventTapBackend.h:25,29`: `start()` blocks
   "until stop()", `stop()` is "safe to call from another thread". A `stop()` between the
   beginning of `start()` and `CFRunLoopRun` has no effect (`MacEventTapBackend.cpp:169`), and
   `start()` stays. The Windows and X11 taps have the same window (`threadId_` unset;
   `context_` null, or not yet enabled).
2. **Another display** (`mac_native_capture`). `MacScreenBackend.cpp:151-152`: "capture that
   display natively so the result is correct for any display density". Bounds are points times
   each display's own scale; two displays can have the same, and the first is captured for either.

For these a definition states the promise; it does not hold, and no run lists it:

3. **A stop can be one too many** (`LoopEndsOnlyByStop` of `WinEventTap`). `IEventTapBackend.h:30`:
   "Idempotent". `WinEventTapBackend.cpp:161` posts `WM_QUIT` whether or not the thread still
   runs the loop; the message ends the next `start()` on that thread at once.
4. **Process-wide state** (`EventsReachOwnSink` of `X11EventTap`, two taps). `Session.h:45`:
   "There is no global or static input state anywhere in the library".
   `X11EventTapBackend.cpp:142` overwrites `g_state`, and the events of the first session's tap go
   to the second's sink.
5. **A closed display** (`StopUsesOpenDisplay` of `X11EventTap`). `X11EventTapBackend.cpp:174-175`
   calls the disabling safe from another thread; `control_` may have been closed at `:163` by
   then.
6. **A binding left behind** (`NoBindingLeaks` of `Typing`). `X11KeyboardBackend.cpp:55-56`: "read
   first and written back so no permanent change leaks". Two sessions that type at once may
   restore each other's binding. `KeyboardAsFound` holds for one at a time.
7. **Where the cursor is** (`PositionIsPlace` of `Pointer`). `README.md:156`: "the virtual desktop
   shared by all monitors". On Windows each monitor's logical bounds are its pixels over its own
   scale, so that with several scales they overlap or leave gaps, and moving to `position()` may
   go elsewhere or be refused. `WarpLands` and `RecordedReplays` require one scale.

Met while modelling; each is an exception that a checked property names, or is outside the models:

- `WinMouseBackend.cpp:115-117`: a monitor at a negative origin "maps correctly". It does, to
  within a pixel and a half on its own monitor; but a point at an edge may be rounded, or lose a
  pixel to the 16-bit fraction, across it, and the cursor then settles on the other monitor, up to
  three and a half pixels away on an axis. `WarpLands` states both bounds.
- `README.md:88`: a Key is a physical key by position; `X11KeyMap.cpp:15-18` looks the key up
  by the keysym of a US layout, so that on other layouts the position is another one.
- `Keyboard.cpp:118-119`: "no modifier is left stuck". On macOS a modifier whose event could not
  be created stays in `heldModifiers_` and marks later events (`GhostOnlyAfterRefusal` says
  that this is the only way); with uinput a refused modifier may become visible with a later
  report (`StuckKeyWasRefused`).
- `IMouseBackend.h:16-17`: "warpCursor must emit a drag event rather than a plain move
  whenever a mouse button is currently held". `MacMouseBackend.cpp:107-111` keeps one button and
  forgets it when any is released: with two buttons down, a move after the release of one
  is plain. `TrackedButton` says that overlapping buttons are the only way.
- `Event.h:24`: "true = press, false = release". On macOS a modifier that is down when the
  tap starts is recorded inverted (`MacEventTapBackend.cpp:64,117`), and its release, replayed,
  is a press that stays. `RecordedTruth` says that, of the events the tap sees, it and one sent
  twice are the only ones.
- `Recorder.h:16`: "0.5 at double". Gaps are rounded one by one (`Recorder.cpp:78`): gaps of
  1 ms keep their length at 0.5 and vanish at 0.4. `Pace` says that the error is at
  most half a millisecond for each gap.
- `README.md:89`: text is the "only correct way to produce specific characters". On X11 an
  application that fetches the mapping only after it is restored shows nothing, and `ok` was the
  answer: `TextArrives` holds while none is `late`.
- `README.md:89` again: "capitals, symbols, accented letters". On X11 the character's keysym is
  bound to the scratch keycode alone (`X11KeyboardBackend.cpp:70-71`), and X takes a lone
  alphabetic keysym for the pair of its cases: the unshifted tap of a capital shows the lower
  case. The keysyms of control characters (`:15`), a tab or a line feed among them, stand for no
  character, and that of U+0000 is `NoSymbol`: nothing is shown. All are answered `ok`.
  `TextArrives` is about the others, `Plain`.
- `X11KeyboardBackend.cpp:55`: "Keycode 1 ... is a conventional scratch slot". By the X protocol
  no keycode is below 8. On a server that keeps to it `XGetKeyboardMapping` is answered `BadValue`,
  which ends a program that has no error handler of its own; with one, `typeUnicode` answers
  an error, and nothing is ever typed. `TextArrives` and `KeyboardAsFound` are proved for either
  kind of server (`MinKeycode`); the run has one that takes keycode 1, since on the other there
  is nothing to see.
- `Capabilities.h:9-11`: a false flag means `Unsupported` or `PermissionDenied`. Without
  Accessibility, macOS drops what is posted and the calls answer `ok`
  (`MacBackendFactory.cpp:26`); `FalseFlagFails` excepts exactly these, and `RequiredDelivers`
  says how a caller avoids them.
- `Capabilities.h:7`: "What the active backend can actually do". `LinuxBackendFactory.cpp:34` sets
  `canRecordEvents` whether or not the server has RECORD.
- `LinuxBackendFactory.cpp:94-95` would not mask "the real environment problem"; at `:112` a
  connection that failed is reported as "DISPLAY unset".
- `Scroll.h:11`: `Unsupported` "rather than silently rounding", of pixels; a turn of less than
  half a line is rounded to none and answered `ok` on X11, uinput and macOS
  (`X11MouseBackend.cpp:91`).
- `WinEventTapBackend.cpp:11-12`: "exactly one instance can be registered at a time"; the
  check at `:117` and the store at `:123` are not atomic. `ActiveNamesRunner` excepts the race.

## 7. Not modelled, and what is next

Abstracted in what is modelled: the wording of errors, timing (the waits of gestures and of human
typing), the contents of key tables beyond membership, the pixels of an image, and operating
system failures that the code cannot observe (XTest's). Variables that threads share have the
values interleaving gives them. `Typing` takes the macOS permission for granted (`Session` is
about its lack), and an error handler other than Xlib's own, which would end the program;
and of uinput's writes that were not reported `MouseBackends` keeps those of
buttons, not those of the wheel. Turns of the wheel are whole lines. The active layout of X11 is
looked up at every call but taken not to change; the density the Windows hook divides by, which
is the system's, is taken for that of the current primary monitor, and the positions it records
for places where the cursor is. On macOS an area of a fraction of a point is taken to be captured
as it is. A session is assumed to
outlive its calls, as `Session.h` demands, and its destruction is not modelled.

In the taps the life cycle is complete and the translation is not: what becomes of extra buttons,
wheel deltas and, on X11, keycodes is abstracted. `Image` and the vendored PNG encoder, the
examples, the unit tests and the build files are not modelled: sequential data
conversion, I/O and programs that use the library.

What would come next is translation in the taps: extra buttons, wheel clicks, and events lost while
the macOS tap is disabled, which invert a modifier as well.

# A TLA+ model of psmoveinput

psmoveinput turns one or two PSMove motion controllers into a Linux mouse and
keyboard. It is a small C++ program with much concurrency and few locks: a main
thread that connects controllers, one thread per connected controller, a handler
both threads call, one device both write to, and a signal handler that may run at
any time on any thread. This directory holds TLA+ modules for all of its
components that keep state, TLC configurations that check them on small instances,
and theorems that the TLAPS proof system checks for all instances. Line numbers
below refer to the files of the repository.

## Inventory

| component (source) | state | operations | hard behaviour | what makes it correct |
|---|---|---|---|---|
| `PSMoveListener` and `ControllerThread` (`psmove_listener.*`) | `stop_`, `threadStop_`, two slots with `thread_`, `move_`, `psmoveId_`, `lastTp_`, `buttons_`, `pollCount_` | `run`, `connect`, `start`, `join`, `operator()`, `onDisconnect`, `onDisconnectKey`, `stop`, `updateLeds` | slots shared without a lock by the main thread, their thread and its successor; a request flag overwritten outside its mutex; periods counted in polls and in frames; timeouts in whole seconds; `stop()` from a signal handler | one thread delivers a slot's events; `reset()` runs when nobody delivers; no controller is opened twice, or opened and forgotten; silent controllers are let go, in time; LEDs are refreshed; stopping ends |
| `PSMoveHandler` (`psmove_handler.*`) | `buttons_`, triggers, `releaseGestureKeys_`, two timestamps | `onGyroscope`, `onGesture`, `onButtons`, `reset` | two threads; the mutex covers one bit at a time; nested `onGesture`/`onButtons` calls; time computed from nanoseconds alone | what it remembers is what it reported and what the controllers hold; keys are down exactly while their buttons are; gestures need their trigger; movement follows rotation and time |
| `InputDevice` (`input_device.*`) | a uinput descriptor, the codes it is set up for | the constructor, `reportMove`, `reportKey`, `reportMWheel`, `reportSyn` | two threads write to one descriptor, one of them outside the mutex; codes the kernel refuses | every event becomes visible before its call returns; no frame has two key events |
| `PSMoveInput` (`psmoveinput.*`, `main.cpp`) | PID file, singleton with reference count, the other components | `run` and its phases, `stop`, the signal handler, `getRef`, `releaseRef` | test and creation of the PID file are apart; a signal in any phase, on any thread, in the middle of the deletion; errors in any phase | the PID file names an instance; one instance if starts do not overlap; a signal ends it; the singleton is deleted once and not used after |
| `Config`, `KeyMapParser` (`config*`, `conf_keymap_parser.*`) | settings, key maps | `parse` | precedence of command line, file and defaults; a list of entries of which any may be bad | the precedence holds; a configuration is accepted exactly if it is valid; key maps are what the file says |
| `Log`, `FileLog` (`log.*`, `file_log.*`) | backends, a stream | `write` | used by all threads without a lock | output only |
| disconnect scripts (`util/`) | none | one D-Bus call | | the controller falls silent |

The components call each other through signals of boost, which are synchronous
calls. A controller thread calls `PSMoveHandler` (`gyroSignal_`, `gestureSignal_`,
`buttonSignal_`); the handler calls `InputDevice`, and `onDisconnectKey()` of the
listener for the Disconnect key. When all controllers are disconnected the main
thread calls `PSMoveHandler::reset()` (`disconnectCompleteSignal_`). A Unix signal
calls `PSMoveListener::stop()` through the singleton. `Config` is read once, before
any of this.

## Modules

| module | models | relation to the others |
|---|---|---|
| `PSMoveListener` | the listener, its slots and threads | implements `HandlerCallers` (`ImplementsContract`) |
| `HandlerCallers` | what the handler may rely on: who delivers events, and when `reset()` is called | abstract specification, used from both sides |
| `PSMoveHandler` | buttons, gestures, triggers and keys between the controller threads and the device | its `Connect`, `Disconnect` and `Reset` are the actions of `HandlerCallers` |
| `PointerMotion` | the arithmetic and the timestamps of `onGyroscope()` and `onGesture()` | its triggers and `reset()` are those of the handler |
| `ControllerLoop` | the counters and clocks of a controller thread's loop | the loop of `PSMoveListener` on a running clock |
| `InputDevice` | the `write()` calls of two threads and what a reader gets | implements `DeviceContract`; called under the handler's mutex as in `PSMoveHandler` |
| `DeviceContract` | what the handler and a reader of the device may rely on | abstract specification |
| `PSMoveInput` | processes, PID file, signals | its `RunReturns` is what `StopTerminates` of `PSMoveListener` establishes |
| `PSMoveInputRef` | the singleton and its reference count under signal handlers | its `EndThread` is fair by `StopTerminates` of `PSMoveListener` |
| `Config` | `parse()` and the key map parser | |
| `MC...` | constants for TLC | one for each module but the two contracts |
| `..._proofs` | theorems | one for each module but the two contracts, see Proofs |

The listener and the handler are composed through `HandlerCallers`:
`PSMoveListener` is shown to implement it, and `PSMoveHandler` takes its callers
from it (`Promised == INSTANCE HandlerCallers`), so the handler sees connections,
disconnections and resets in every order the listener can produce, and in no other.
`PROJECT.json` maps each definition to the lines it stands for.

### PSMoveListener

A slot is an element of `controllerThreads_`, and a thread is a thread of
execution. The distinction matters: a thread nulls the slot's `thread_` (line 422)
before it is done with the slot, and from then on `join()` passes over it and
`start()` gives the slot to a successor. `mpc` follows the main thread through
`run()`, `connect()`, `handleNewDevice()` and `start()`; `tpc` follows each thread
through `operator()()`. A step reads or writes one shared field, or several that
no other thread can tell apart. Three values stand for the age of `lastTp_`: zero,
fresh, stale. `PollData` is one frame of `psmove_poll()` with all its signals, of
which only the Disconnect key changes anything here. `open` is psmoveapi's set of
open handles, so that a handle closed by a predecessor is noticed. Where the code
dereferences a null pointer or a freed object, `crashed` is a possible outcome
(`JoinCrash`, `SpawnCrash`, `ThreadCrash`), next to the outcomes in which it goes
well. The safety properties hold in every state up to a crash; in the liveness
properties a crash counts as an end.

One of these outcomes lies on the ordinary way. A thread that leaves its loop detaches
and deletes its `boost::thread` (lines 420 and 421), and the main thread may already
wait in `join()` of that very object. When the thread has ended, `join()` wakes and
reads `thread_info` of an object that is freed (`FreedBeneathWait`). This happens on
every disconnect the main thread waits for; the freed memory will mostly still hold
what it held, so the wait may go well (`JoinWait`), or not (`JoinWaitCrash`). Three
windows, each a few instructions wide, lead to all the others (`RaceWindow`): the
thread frees what `join()` has just tested (`psmove_listener.hpp`, line 80;
`FreedBeneathJoin`), a new thread is told to stop before `start()` has assigned
`thread_` (`psmove_listener.cpp`, line 319; `DetachedUnassigned`), and `start()` fills a
slot whose straggler has yet to clear `lastTp_` and to close and forget the handle it
finds there (lines 297 and 423 to 428; `StartedOverStraggler`). `NoOtherCrash` says that
as long as none of the three occurs, a process that dies does so of the wait in a
freed object and of nothing else.

### ControllerLoop

One `ControllerThread` object with a clock that runs: every poll sleeps
`pollTimeout`, and any step may be delayed (`Delay`). `pollCount_` outlives a
connection, as in the code; `gestureCount` is local to one. `ledAge`, `updateAge`,
`gestureAge`, `quiet` and `burst` are history variables for what the properties
speak of. The clock starts after the first second since boot, because the code
takes `tv_sec = 0` for "no frame yet".

### PSMoveHandler

Each controller's thread is in one call at a time, at one of eight points of
`onButtons()`/`onGesture()`. One bit is reported under the mutex in one step,
because nobody can see the handler inside it, with one exception:
`releaseGestureKeys_` is set before `gestureTrigger_` is cleared, and both are read
outside the mutex, so the release of a gesture trigger is two steps. `cached` is
`ControllerThread::buttons_`, which a disconnection leaves as it is. `down` is the
set of keys the device was last told to be down. `reported`, `told`, `stuck` and
`crossed` are history variables; `crossed` records that the first controller's
thread has taken the flag that the second one's trigger raised, which is what the
disagreement below is about. `onGesture()` computes a set of gesture bits from a
rotation; here the set is chosen freely from `Gestures`, and a previous measurement
either exists or does not: that one with `tv_nsec = 0` counts for none is part of
`PointerMotion`.

### PointerMotion

Instants are `timespec` records, and the pointer and gestures have a timestamp
each. `Num / Den` stands for a coefficient, a `double` in the source, so its
rounding is left out. Overflow of `int` is out of reach of readings and intervals
of the size that occur.

### InputDevice

The events of a call are written one `write()` at a time, and every call ends with
a SYN_REPORT; the kernel passes on what is pending at each SYN_REPORT, whoever's it
is. `reportKey()` and `reportMWheel()` are called inside `mutex_` of the handler
(`holder`), `reportMove()` outside of it. `Supported` is what the constructor and
`initDevice()` have set up. `shown` is what a reader has made of the events, `asked`
what the calls amount to.

### PSMoveInput

Each instance is a process in one phase of `run()`. A signal kills it before
`setupSignals()`, is lost until `startListener()`, and then sets `stop_`. Instances
in `Crashing` may die anywhere. `raced` records that one instance was started while
another was between the test and the creation of the PID file. `writePidFile()` is two
steps: `creat()` leaves an empty file (`NOPID`), and `write()` puts the PID into it,
unless it fails, which the code does not look at. `opened` are the processes that have
created, or truncated, the file that has the name now: one whose file was unlinked
meanwhile writes to a file nobody finds.

### PSMoveInputRef

A context is a flow of control: `main()`, or the signal handler on a thread, which
interrupts that thread and runs next to the others. `refs_++`, `refs_--` and
`instance_` are read and written in separate steps, and so are the test of `listener_`
in `stop()` (line 376) and the call through it (line 378); the second read of `refs_` in
line 62 may be a read or the value in a register, as compiled. The model stops at
the first use of a deleted object, whose outcome is undefined (`dangling`).

### Config

`boost::program_options` is external: a command line or a file is refused as a
whole or gives a map from options to values. `HandleCmdLine`, `ParseConfig` and the
rounds of the loop over the key map options (`SkipOption`, `AddEntry`,
`InvalidEntry`) are one action each. A path keeps whether it begins with a tilde.

## Runs

| run | bounds | distinct states | shows |
|---|---|---|---|
| `listener_safety` | 2 slots, 3 threads, 2 handles, symmetric | 1,568,526 | `SingleDelivery`, `UniqueIds`, `NoHandleDropped`, `QuietAtExit`, and `ImplementsContract`: every step is a step or a stutter of `HandlerCallers`, so that `reset()` runs alone |
| `listener_liveness` | 1 slot, 2 threads, 2 handles | 43,296 | `StopTerminates`; `SilenceEnds`, also for a successor whose `lastTp_` its predecessor clears; `LeaveLeadsToReset`: a controller that is gone leads to a reset although line 101 may overwrite a request; `NoOtherCrash`: outside three windows only a `join()` that waits uses a freed object |
| `listener_dead_slot` | as `listener_safety` | | violation of `SlotsReusable`: a slot stays taken by a thread that has ended |
| `handler` | both controllers, 2 buttons each, one gesture, both triggers | 1,264,350 | `ReportsMatch`, `Agreement`, `KeysTellTheTruth`: what the handler remembers, what the controllers hold and what the device was told agree between calls; `FirstUnaffected`, `OwnFlagReleasesGestures`, `EveryReportIsAChange` |
| `handler_phantom` | the same with two gestures | | violation of `GestureKeysNeedTrigger`: gestures without the trigger |
| `motion` | 10 instants in 2 seconds, 3 readings on 2 axes | 202,608 | `AccurateWithinASecond`, `MovesWithTheGyroscope`, `RotationCounts` |
| `pacing` | a second of 4 ms, `pollTimeout` 2, `ledTimeout` 5, `gestureTimeout` 4 | 550,233 | `LedsRefreshed`, `LedsSpaced`, `GesturesSpaced`, `GivenUpInTime` |
| `device` | 2 threads, 4 keys of which one is mapped twice and one is above `KEY_MAX`; positions -1..1 | 54,888 | `ShownWhenReturned`, `OneKeyPerFrame`, and `ImplementsContract`: every step is a step or a stutter of `DeviceContract` |
| `input` | 3 instances, one may crash | 32,333 | `PidFileNamesAnInstance`, `OneInstance`, `StopEndsInstance` |
| `lifetime` | 2 hosts of signal handlers, 3 signals, 4 addresses | 263,935 | `RefsCountHolders`, `NoDanglingUse`, `DestroyedAtExit`, `SignalEndsProcess` |
| `config` | 2 files, some options of every kind, valid and not | 187,120 | `Precedence`, `OkIffValid`, `KeymapsAsWritten` |
| `config_defaults` | as `config` | | violation of `EverySettingHasADefault`: a coefficient nobody has written |

Each passing run of a module whose `TypeOK` is not among its properties leaves the
type invariant to the theorem about it (`ControllerLoop`, `InputDevice`, `Config`).

Why these bounds. The source has two slots. A thread object is used again only
when nothing refers to its thread, so three threads give two running ones and a
straggler, or one running one and two stragglers; two handles give two controllers
at once. The liveness run needs all states without symmetry, and 913,972 of them, which
two slots with two threads and two handles have, are too many for it. It has one slot,
and two threads and handles for it, so that a successor starts over a straggler, with
its own handle, and `StartedOverStraggler` occurs; two controllers at once do not. What
they add to the joins after a stop is in the theorems `StopConverges` and
`JoinConverges`, for any number of slots. Of the handler's 28 bits one plain
button, one trigger button and one gesture suffice, since bits are reported
independently of each other and the order that matters, buttons before gestures, is
kept by their numbers. The instants of `motion` lie on both sides of the end of a
millisecond and of a second; its readings turn either way, fast and slowly. In
`pacing` one LED period is not a multiple of the poll timeout and one gesture period
is. `device` has a key of either controller, one of both and one the kernel refuses.
Three instances of `input` allow a stale file, a race and a start after both. Three
signals of `lifetime` allow one during a handler on another thread and one during
the deletion. The options of `config` include the first and the last key map
option, and one that both controllers have.

Three constants bound what would otherwise grow for ever: `MaxTime` (when the clock
of `ControllerLoop` stops: after two timeouts and a reconnection), `MaxSignals` (how
many signals arrive in `PSMoveInputRef`) and `MaxValue` (how far the pointer and the
wheel of `InputDevice` go). The proofs hold for all their values.

Deadlock is checked in every run but those of `Config`, whose `parse()` comes to an
end; `Terminated`, `Finished` and `ClockStops` are stutters where `PSMoveListener`,
`PSMoveInputRef`, `PSMoveInput` and `ControllerLoop` may stop, and nowhere else.

### Fairness

`FairSpec` of `PSMoveListener` assumes weak fairness of the main thread and of each
controller thread: the operating system schedules them, every loop sleeps, and no
call blocks but `join()`. It does not assume that a controller sends anything or
falls silent, that one can be connected, or that a key is pressed. That a thread
leaves its polling loop at all assumes that `psmove_poll()` runs out of frames, as
it does when it is faster than the controller. `FairSpec` of `PSMoveInput` assumes
that the steps of a started process are taken, not that signals arrive. `FairSpec`
of `PSMoveInputRef` assumes that a signal handler that has begun runs to its end,
that `main()` is scheduled once a stop is requested, and that controller threads end
after `stop()`, which is `StopTerminates` of `PSMoveListener`. No fairness is used
for starting, connecting, failing or signalling.

### Disagreements with the source's own words

Three runs end in a violation of what the source says:

* `SlotsReusable`: `psmove_listener.cpp:175` promises that threads of connected
  controllers are created again. A straggler that executes line 428 after `start()`
  has filled the slot nulls its successor's `move_`; the successor returns at line
  338 and nobody ever nulls `thread_`.
* `GestureKeysNeedTrigger` with both controllers: `config/psmoveinput.conf:119`
  says gestures are reported only while the trigger is pressed. The first
  controller's thread can read `releaseGestureKeys_` between lines 289 and 292,
  work with an old `buttons_[1]`, and report the trigger as pressed again.
  `OwnFlagReleasesGestures` shows that nothing else can break the promise.
* `EverySettingHasADefault`: `config_defs.hpp:116` to `130` give a default for every
  setting, but `DEF_MOVEC_X` and `DEF_MOVEC_Y` are not used, so a file without these
  two options leaves `coeffs_` indeterminate.

Smaller observations from the same reading, which no run is about:

* `psmove_listener.cpp:99` says that "there's only one main thread remaining" when line
  101 drops the request without the mutex. A straggler that the joins have passed by
  may still be before line 430, and its request after line 101 leads to a second reset.
* The keys that are down when `reset()` forgets what is pressed stay down at the device
  (`stuck` of `PSMoveHandler`), which `KeysTellTheTruth` leaves out; no text of the
  repository says what should become of them.
* A poll that finds several frames shortens the interval between two gesture signals
  (line 382 counts frames); `GesturesSpaced` is about intervals without such a poll.
* A signal between `setupSignals()` and `startListener()` is lost; `SignalEndsProcess`
  and `StopEndsInstance` are about signals that find the listener.
* `config_defs.hpp:101` says special keys are handled inside; the release of a wheel
  key reaches the device as a key event (`HandledInside`).
* `psmove_handler.cpp:87` speaks of the time between measurements; whole seconds are
  ignored, so `AccurateWithinASecond` is stated for intervals below 999 ms.
* `psmoveinput.hpp:40`: a process killed by a signal before its handlers are
  installed leaves its PID file, and the next start returns `RETVAL_ALREADY`.
* LED updates of two connections may be closer than `ledTimeout`, because `start()`
  does not reset `pollCount_`; `LedsSpaced` is about one connection.
* `POLL_TIMEOUT = 0` is accepted by `Config` and divides by zero in
  `psmove_listener.cpp:457`; `LoopAssumption` excludes it.
* `--help` and `--version` parse the configuration file all the same, and end in
  "Invalid configuration" if that is bad. A file given with `-c` that cannot be read
  is replaced by the default one in silence.
* `config/psmoveinput.conf` lists key names that the parser refuses: `KEY_SCROLLOCK`
  (line 82), `KEY1 - KEY0` (line 55), `KEYF1` (line 56).

### Mutants

Operators whose names begin with `Mut` are faulty variants of the operator below
them: a comparison off by one, a missing reset, a lost bit, a dropped guard.
Replacing the operator by its variant makes the property that `PROJECT.json` names
for it fail, so that each property is known to be able to fail.

## Proofs

All theorems are about every value of the constants that the modules' `ASSUME`s
allow, and only assume these: any number of slots, threads and handles
(`ListenerAssumption`) and of instances (`InputAssumption`); any threads, signals and
addresses (`RefAssumption`); any bits, provided
gesture bits are above buttons, any gestures and any key maps
(`HandlerAssumption`); any set of instants, readings, any coefficient and threshold
(`MotionAssumption`); any timeouts but a zero poll timeout (`LoopAssumption`); any
writers and key maps (`DeviceAssumption`); any command lines and files
(`ConfigAssumption`). No invariant of interest is inductive as it stands; each
module has an `IInv` that is.

`PSMoveListener_proofs` proves the type invariant, the four other invariants of
`listener_safety`, `ResetAlone` (no thread delivers while `reset()` runs), the
formula `NoOtherCrash`, and `Spec => ImplementsContract`. That two threads do not deliver
the events of one slot follows from facts about the pointer `thread_` at every point
of the two programs. `IInv` adds

* `Ownership`: a thread that has not given its slot back is the one `thread_` points
  to, unless the main thread is about to assign it; with `StartedSlotFree` and
  `AssignedThread` this makes the owner unique (`UniqueOwner`), hence
  `SingleDelivery`;
* `JoinedQuiet` and `AwaitedThread`: a slot that `join()` has passed has no thread
  that delivers or is about to, although it may have a straggler; hence
  `ResetAlone` and `QuietAtExit`;
* `DistinctIds` and `FreshId`, hence `UniqueIds`; `SlotWaiting`, hence
  `NoHandleDropped`.

The step lemmas (`TypeStep`, `OwnershipStep`, `QuietStep`, `IdStep`) have one case
per action. `Implementation` maps `Enter` to `Start`, the leaving steps to `Leave`,
`DisconnectComplete` to `Reset`, and every other step to a stutter.

`NoOtherCrash` needs an invariant of its own, `Undisturbed`, which holds as
long as no window has been open, and in which no crash is possible but `JoinWaitCrash`
(`CrashStep`): the thread of a slot is its only user (`OneUser`),
its handle is open and nobody else's (`HandleOpen`, `DistinctHandles`), a closed
handle is in no slot but that of the thread about to forget it (`ClosedHandles`,
`NewHandle`), and `join()` still finds what it has tested (`JoinedHeld`). From it
follows `NoDeadSlotWithoutRace` too: outside the windows a taken slot is taken by a
thread that has yet to give it back (`TakenByTheLiving`), so the violation that
`listener_dead_slot` shows needs one of them.

Three more theorems are what remains of the liveness properties without the
scheduling. `NoLostRequest`: while the handler waits for its reset, a request is
pending, being answered or still to be made, whatever line 101 overwrites
(`LeaveLeadsToReset`). `StopConverges`: after `stop()` the main thread is at most
`4 * MAX_CONTROLLERS + 8` steps from the end of `run()` (`ToExit`), each of its steps
brings it nearer, and no other thread's step takes it back (`StopTerminates`).
`JoinConverges`: the thread `join()` waits for has at most ten steps left
(`StepsLeft`), and nothing sends it back into its loop while it is waited for. That
these steps are taken is fairness and `ENABLED`, and stays with TLC.

`PSMoveHandler_proofs` proves all properties of the run `handler`. Its `IInv` says of each controller that its own thread
serves (`Own`) that it is `Sound`: in the reporting loop the device has been told the
new value of the bits behind the loop and the old value of those before it, outside
of it `reported` is `buttons_`; that the thread's argument is what the controller
holds (`Comparing`, `Looping`, `Held`); that only a connected controller's thread
calls (`Calling`, from the actions of `HandlerCallers`) and whom it serves
(`Serving`); and that a key with a single bit is down exactly if that bit was
reported (`DeviceTold`). The first controller is always its own; the second one is
until `crossed`. `OwnFlagReleasesGestures` needs a second invariant, `GestureInv`: a
held trigger is a button that was reported, and the bits that are stored for the
second controller, or are about to be, have a button that is the trigger if they have
a gesture (`Triggered`, `GesturesUnderTrigger`), because a call that reports gestures
changes none of the buttons. This holds for every key map, also for one that makes a
gesture itself the trigger. `HolderUndisturbed` is about the mutex: the thread that
has raised `releaseGestureKeys_` (line 289) is alone in it and lets go of the trigger
it has found held (line 292), whatever is done outside the mutex in between and
whoever's thread reports. `CallsAsPromised` closes the composition from the handler's
side: who calls it is a behaviour of `HandlerCallers`.

`PointerMotion_proofs` proves everything the run `motion` checks, from lemmas on the
truncating division (`DeltaRange`, `DeltaClose`, `MovementSign`, `MovementCounts`)
and the fact that the clock does not run backwards.

`ControllerLoop_proofs` proves all four pacing properties. `IInv` bounds the time
slept by the counters (`Leds`, `GesturePolls`, in units of polls) and relates the
clock, `lastTp_` and the last frame (`Clock`).

`InputDevice_proofs` proves `ShownWhenReturned`, `OneKeyPerFrame` and
`Spec => ImplementsContract`. `IInv` says that at most one event per thing is
written or pending (`Once`), that a key event among them is the holder's of the
mutex (`LockHeld`), and that `asked` is `shown` with these events applied
(`Missing`). `Begin` maps to `Ask`, `ReportSyn` to `Show`, and `WriteEvent` to a
stutter.

`PSMoveInput_proofs` proves the type invariant and both PID file invariants.
`PidInv` adds that nobody has a file open that is not there (`NoFile`), and
`StartsAlone` is what `OneInstance` needs: without overlapping starts, an instance
between test and creation is the only one there and the file is missing.

`PSMoveInputRef_proofs` proves `RefsCountHolders`, `NoDanglingUse`, `DestroyedAtExit`
and the type invariant, for any number of threads, signals and addresses. As long as
two threads have not used the count at the same time (`overlapped`), at most one
handler runs, on the main thread or while `main()` is in `run()` (`Apart`). Hence what
a context has read of `refs_` is still its value when the context writes
(`Registers`), only the context that has found zero deletes, and at most the object
`instance_` points to is alive (`Owned`). `Usable` says that what is about to be used
is there; it also needs that no signal has met the deletion (`late`). `SignalStops`
needs none of these conditions: a handler that calls `stop()` while the listener
exists sets `stop_`, however many handlers overlap and whatever they have made of the
count, because none of them comes to `releaseRef()` before a `stop()` has taken effect
(`Attended`, `Unstopped`). It is the safety half of `SignalEndsProcess`.

`Config_proofs` proves `Precedence`, `OkIffValid`, `KeymapsAsWritten` and the type
invariant. `IInv` has one conjunct for each phase of `parse()`; for the key maps,
`KeymapInv` says that they have exactly the entries of the options before the one the
loop is at (`Built`), and `ButtonsDiffer` that no two options of a controller name the
same button.

Model-checked only: the liveness properties (`StopTerminates`, `SilenceEnds`,
`LeaveLeadsToReset`, `StopEndsInstance`, `SignalEndsProcess`; TLAPS does not prove
liveness under fairness here). What their steps achieve is proved for the first, the
third and the last, as described above; that `SilenceEnds` and `StopEndsInstance` get
there rests on TLC alone. Every other property of a passing run is a theorem.

## Not modelled

* `Log` and `FileLog`: output only. That they are used without a lock is listed as a
  hazard; that no thread writes to a log that the destructor deletes is
  `QuietAtExit`.
* A `write()` to the device that fails: the code ignores its result.
* The scaling of readings by psmoveapi's calibration, the client mode of psmoveapi,
  LED colours, the text of messages, the D-Bus scripts, the build and service files.
* What happens after a null pointer or a deleted object is used: it is undefined.
* The unit tests, and the Google Test framework that is part of the repository. The
  latter makes up some nineteen of twenty lines of C++ here; of the program's own
  source, some three thousand lines, every file but the two of the log is
  modelled.

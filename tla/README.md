# Verification of cpython-go

TLA+ models of the hand-written Go code of this repository, the TLC runs that
check them on small instances, and theorems about them checked by TLAPS.

The repository embeds CPython 3.14, transpiled from C to Go by ccgo, in a Go
package. The transpiled code (`libpython/ccgo_*.go`, 4.3 million generated
lines) is CPython and is taken as given, with one exception (the flags by which
a signal reaches the eval loop). What is modelled is what this repository adds:
the embedding package `cpython` at the root, the pieces of `libpython` that
replace C's threads, signals and timers, and the cache of the standard library.

## 1. Inventory

### 1.1 The embedding package

| component | state | operations | interacts with |
|---|---|---|---|
| **Gate** (`cpython.go` 320-386, `errors.go` 78-95) | `mu`, `depth`, `closed`, `crashed` | `enter`, `check`, `leave`, `drain`, `recoverPanic`, the recover of `Release` | every method of `Interpreter` and `Object`; host functions, which call methods again |
| **Objects** (`object.go` 15-80, `cpython.go` 358-367, `hostfunc.go` 105-155) | `o.p`, its finalizer, `in.pending` | `obj`, `Release`, `finalize`, `ptr`, `drain`, `Close` | the gate; Go's collector and its finalizer goroutine; CPython's reference counts |
| **Interrupts** (`cpython.go` 442-488, 550-595) | `imu`, `itls`, the channel `done` of each `watch`; in C: `Handlers[SIGINT].tripped`, `is_tripped`, the eval breaker | `watch`, `Interrupt`, `trip_signal`, `handle_signals`, `PyErr_CheckSignals`, `_PySignal_Init/Fini` | contexts; the eval loop, with no lock; `Close` and `New` |
| **Lifecycle** (`cpython.go` 94-206, 227-240, 388-440, `hostfunc.go` 26-103) | `openMu`, `open`, `hostReg`, `hostNext`, `in.hostIDs` | `New`, `initialize`, `redirect`, `Close`, `hostFunc`, `hostTrampoline` | the gate of each interpreter; CPython's process globals |
| **Conversion** (`convert.go`, `object.go` 290-330, `errors.go`, `hostfunc.go` 105-155) | `in.scratch`, `in.formatExc`, Python's exception state, the references a conversion holds | `toPy`, `fromPy`, `int64`, `bigInt`, `pyError`, `exitError`, `formatException`, `callHost` | itself, through host functions that `__index__`, `__hash__`, `__iter__`, `__str__`... call |

What makes them correct: calls are serialized although host functions call in
again; a closed or crashed interpreter is refused; every call returns; every
reference is given back once, never while C code uses it; an interrupt reaches
the code it is meant for and no other; one interpreter owns CPython's globals at
a time; C code never calls a Go closure of another interpreter; a conversion that
fails half way gives back what it made and leaves no exception behind.

What makes them hard: any goroutine may call; host functions re-enter on the
goroutine that holds the mutex; finalizers and watchers run on goroutines of
their own; transpiled C code panics, for `exit` and for crashes, and the panic
unwinds through the Go code; nearly every C function may run Python code; the
interrupt flags are shared without a lock.

### 1.2 The runtime under the transpiled code (`libpython`)

| component | state | what makes it correct |
|---|---|---|
| **TlsTable** (`tls.go`) | `tlsTable`, `tlsMu` | one slot per thread id for ever, read without a lock |
| **Signals** (`signals_unix.go`) | `sigactionTable`, `signalMasks`, `pendingSignals`, `signalWake` | a signal is delivered or pending, once; `sigwait` sleeps through none; a replaced dispatcher ends |
| **BlockingCalls** (`libc_common.go` 85-300, `libc_linux.go`) | two generation counters, `O_NONBLOCK` of descriptors | one delivery ends one blocking call, and some call; the descriptor's flags come back |
| **IntervalTimer** (`libc_linux.go` 313-409) | `linuxIntervalTimers` | a disarmed timer falls silent, one chain of fires per timer, one with an interval goes on |
| Semaphores (`libc_linux.go` 149-216) | `sems` | a post wakes one waiter |
| `fork_exec.go` | descriptors, the umask | the child gets C's descriptors; a failed start is reported and leaves a pid to wait for |
| Recursion guard (`recursion.go`) | a counter | back to its value on every way out |
| printf, time, locale, wide strings, atomics | none | formatting, one instruction each |
| Windows and macOS shims | handle tables | as on Linux, mostly one system call each |

### 1.3 Around it

**StdlibCache**: `stdlib` extracts the standard library once per user (temporary
file, rename; several processes may do so at once, and be killed).
`internal/cmd/undup`, `splitgo`, `mkstdlib` and `typecheck` rewrite or check the
generated tree; `generator.go`, the builders and patches make it; `main.go` is
the command line.

The bold components are modelled. `PROJECT.json` lists every one with its status,
and every hazard at the line where it bites.

## 2. What is modelled

| module | models | atomic step |
|---|---|---|
| `SerializedCalls` | abstract: what an interpreter promises its callers | a method goes in, or out |
| `Gate` | `enter`, `check`, `drain`, `leave`, panics | each atomic operation of the Go code |
| `Objects` | who has the reference of a handle | each atomic operation on `o.p`, `pending` and the reference count |
| `Interrupts` | watchers, `Interrupt`, the signal flags | each store and load of a flag |
| `Lifecycle` | `New`, `Close`, the registry of host functions | each critical section and each call of C code that changes process-wide state |
| `Conversion` | conversions of values and of errors | the Go code between two calls of C code |
| `SlotMap` | abstract: the slot of each thread id | a slot is assigned, or given |
| `TlsTable` | lookup and copying writer | each load, store and lock operation |
| `Signals` | handlers, dispatchers, masks, `sigwait` | each critical section |
| `BlockingCalls` | EINTR generations, interruptible calls, `pause` | each load, exchange and system call |
| `IntervalTimer` | `setitimer` and the fires of its Go timers | each critical section, and what a fire does before it |
| `AtomicInstall` | abstract: files appear all at once | a file is installed; a call begins or ends |
| `StdlibCache` | `Home`, `writeFileAtomic` | each operation on the file system |

`MC*` modules add the model values and definitions TLC needs; `*Proofs` modules
hold the theorems. Two of these are about two components each that share nothing:
`SignalsProofs` (`Signals` and `IntervalTimer`) and `ConversionCacheProofs`
(`Conversion` and `StdlibCache`).

**Gate.** `pc[g]` is where the innermost method of goroutine `g` is in `enter`
or `leave`; `stack[g]` holds its methods that wait for a host function. `Enter`
is the load of `depth` and its test, `NestAdd`/`NestCheck` the nested branch,
`Lock`/`LockAdd`/`LockCheck` the other, then `DrainDone` or `DrainPanic`, the
body (`BodyDone`, `BodyPanic`), and `Leave`/`Unlock`, which are two steps because
`depth.Add(-1) == 0` and `mu.Unlock()` are. A failed nested `enter` returns
without `leave`, a panic in `drain` leaves with the mutex locked, a panic in
`Release` marks nothing: as in the code. Unlocking an unlocked mutex stops the
process (`fatal`). `strayed` notes that an outermost call was let in by
`depth > 0`, the one way in which the gate can lose its exclusion.

**Objects** stands on the promise of `SerializedCalls`: `enter` and `leave` are
one step each, and its `ImplementsSerializedCalls` says that they are steps of that
module. A panic in `drain` loses what `drain` had taken from the queue
(`DrainPanic`), and like a refused call of a host function (`Refused`) leaves
`depth` too high, with the interpreter neither closed nor crashed: `leaked`. From
then on no call waits and none drains, and a call that overlaps another is
`strayed`; who was already waiting for `mu` waits for ever (`Stuck`). Calls that
overlap without a leak are left to `Gate`. `held` says whether the application still reaches a handle; the
finalizer swaps `o.p` and queues it in two steps. Every handle owns the only
reference to its object, the worst case. The application is assumed not to
release, in a host function, the object of a method that is waiting for that
function: the model's guard on `Release` says so.

**Interrupts** has one goroutine that makes the calls, one watcher per call and
the callers of `Interrupt`. Each interpreter has an `imu` of its own, and an agent
takes that of the interpreter it is about to interrupt (`own`), which may be
closed by then. The three flags are separate variables, set in the
order of `trip_signal` and cleared in the order of `handle_signals` and
`PyErr_CheckSignals`. `by` remembers whose requests a set flag stands for,
`spared` that Python code caught a `KeyboardInterrupt`, ignored SIGINT, or that a
host function dropped the error of its own call. Closing and opening again copies
the runtime state over (`NewReset`). The flags are modelled as sequentially
consistent: the C atomics on them, the relaxed ones included, are replaced by
those of Go's `sync/atomic` (`libpython/atomics.go`).

**Lifecycle** has the interpreters of one process in sequence. `runtime` is the
interpreter whose `Py_InitializeFromConfig` made CPython's globals. `enter` is two
steps: the load of `depth` sends a method to `mu.Lock` (`Wait`), where another may
still be first, or on to `check`; and `check` lets it in (`Enter`) or not (`Refused`),
by the lock or by depth. What is refused by depth leaks it: the method in progress
then ends without unlocking `mu` (`leaked`). A method that finds depth above zero
without being nested is let in by the code; that is `Gate`'s stray call and left
out here, as the panic of `drain` is.
`NewFails` leaves what the code leaves: an initialized CPython and its
registered writers. `FinalizePanic` is a crash or an exit under `Py_FinalizeEx`.
`Py_FinalizeEx` and Python code reach host functions through `CallHost`.

**Conversion** is one goroutine and the stack of Go functions it is in: methods,
`toPy`, `fromPy`, `int64`, `pyError`, `callHost`. A frame says where its function
is, whether it is in C code (`inC`), and how many references it holds that are
neither handed on nor deferred. C code returns, fails with an exception, or calls
a host function, whose methods convert again. `PyList_SetItem` steals and
`PyDict_SetItem` does not; `rawStr`, `typeName` and `formatException` swallow what
they raise, as in the code, except for `PyLong_AsLong` in `exitError` and
`PyObject_Length` in `formatException`, which may leave an exception (`"left"`). An
exit panic (`CExit`) unwinds all frames up to a method or a `callHost`, after which
the interpreter goes on; references on its way that are held and not deferred are
lost (`"lost"`). What a crash unwinds is left out, as nobody gets in after it. So is
`in.scratch`, which `int64`, `bytes`, `utf8` and through it `callHost` and the
functions of `errors.go` share: what it holds after an `__index__` has run is taken
to be anything, and `int64` reports an overflow or not as it likes.
Values are leaves and containers; which Go type a value becomes, its
digits and its text are left out. The exception a host function's Python caller
sees is assumed to be caught or passed on by that caller.

**TlsTable** takes tables as sequences and slots as model values; `Look` is the
lock-free test of `tlsVarsOf`, `Again` the one under `tlsMu`, `Grow` the copy,
the new slot and the `Store`.

**Signals.** A handler is named by its dispatcher goroutine. A signal arrives in
a one-place channel of `os/signal` (`buffer`; a full one drops), is tested
against the masks (`Dispatch`), and its handler is looked up in another critical
section (`Lookup`), after which nothing holds the handler in place until it runs
(`Handle`). `Kill` enters the same path from a thread. `SigMask` unblocks in two
parts, the sets under the lock and `deliverSignal` one by one after it.
`SigWait`, `Wake` and `Timeout` are `sigwait` and `sigtimedwait`; `fresh` is the
set of sleepers whose channel is still `signalWake`. A thread that ends leaves
its mask. `owed` counts the signals accepted and not yet answered.

**BlockingCalls.** `Load` and `Swap` are the two atomics of
`consumeSignalDelivery`; `Poll` is one 10 ms poll, after which `read` and `write`
set `O_NONBLOCK`, probe and restore the flags they read at their beginning.
`wish` is what the application made of the flag. `pause` has a generation of its
own and stores it in `observed` when it ends.

**IntervalTimer.** A timer that repeats is a chain of Go timers; each chain has
the number of the `setitimer` that began it. A fire sends the signal and notes the
delivery before it takes `linuxIntervalMu`, and `Stop` does nothing to it by then.

**StdlibCache.** Each operation on the file system is a step that may fail
(`Fault`) and after which the process may be killed (`Kill`). A rename over an
existing name may succeed, as on Unix, or fail, as on Windows.

Left out everywhere: the data Python code computes, texts and tracebacks, memory
allocation of C structures that no property reads, `LockOSThread`.

## 3. The runs

| run | shows | instance |
|---|---|---|
| `Gate_safe` | goroutines that overlap freely: `DepthCoversCalls`, `SerializedUnlessStrayed`, `ImplementsSerializedCalls` (refinement), `CallsReturn` (liveness) | 2 goroutines, 1 level of host functions that call, release and close, called from bodies and from drain, panics in both, `MaxDepth` 2 |
| `Gate_overlap` | finding: `Serialized` fails | 2 goroutines, no host functions |
| `Objects_safe` | `ExactlyOneOwner`, `BorrowedStaysAlive`, `GarbageGivenBack` (liveness) | 2 goroutines, 2 handles, 1 level of host functions that use, release and close, called from bodies, from drain and from Release's `Py_DecRef`; panics in bodies and in drain |
| `Interrupts_safe` | `OneOnItls`, `TrippedIsSeen`, `OneRaisePerRequest`, `CancelStops` and `WatchersEnd` (liveness) | 2 calls, nested or not, that share a context, 1 direct `Interrupt`, 2 interpreters, every option |
| `Interrupts_late` | finding: `OnlyTheMeant` fails | 2 calls, a context on the first |
| `Lifecycle_safe` | `OneInterpreter`, `RuntimeIsItsOwn`, `CallbacksReach`, `NothingLeftBehind`, `FramesHaveRuntime`, `LocksAreFreed` (liveness) | 2 goroutines, 2 interpreters, 1 host function, 1 level, host functions that call methods |
| `Conversion` | `NothingLeaked`, `ExceptionsConsumed` | stacks of 4 frames, containers of up to 2 items |
| `TlsTable_safe` | `ImplementsSlotMap` (refinement), `LookupsReturn` (liveness) | 2 goroutines, ids 0, 1 and 3 |
| `Signals` | `AnsweredOnce`, `PendingIsBlocked`, `NoSleepOverPending`, and `SigwaitServed`, `UnblockedAnswered`, `ReplacedEnds` (liveness) | 2 threads, 2 dispatchers, 1 signal number, sent twice |
| `BlockingCalls` | `OneInterruptEach`, `FlagsKept`, `EAGAINIsMeant` (action property), `DeliveryNoticed` (liveness) | 2 threads, 5 kinds of call, 2 deliveries |
| `IntervalTimer` | `OneTimerUnlessRaced`, `DisarmedQuiets` and `KeepsTicking` (liveness) | 4 calls of `setitimer` |
| `StdlibCache` | `FailsOnlyOnFault`, `LeftBehindByKilled`, `InstallsAtomically` (refinement), `HomeReturns` (liveness) | 2 processes, 3 files, 2 faults, 2 kills |

Every property of a passing run is also checked against a mistake the code could
contain: the operators under "Mistakes these actions could make" replace an
action, and the property must then fail.

### Bounds

- *Goroutines, threads, processes*: every hazard listed is one of two parties. For
  any number of them, the invariants of section 4 are proved.
- *Nesting* (`MaxNest`): a host function's call is treated the same at any depth
  but the first. `MaxDepth` of `Gate_safe` stops new calls while `depth` is that
  high, through overlap or through failed calls that leaked: 2 is what a call and
  the call of its host function, or two strays, need.
- *Handles*: two, so that a drain has one to give back while another is queued.
- *Interpreters*: two, so that one can be left over from a close, a crash or a
  failed `New` while the other is made.
- *Calls and contexts*: two calls, one around the other or before it, under one
  context, so that one cancellation has both to stop.
- *Frames* (`MaxDepth` 4 of `Conversion`): a method, its conversion, the host
  function this calls, and a method of that one; or containers two deep with an
  element that fails. No function calls another with anything but the innermost
  frames' state, and `exc` and `cached` are shared already at this depth. An exit
  panic can skip any of them.
- *Ids* 0, 1, 3: one that fits, one that appends, and one that leaves a gap.
- *Signals*: one number suffices, because different numbers share nothing but the
  locks and `signalWake`, whose closing wakes a sleeper for any of them; sent
  twice, so that one meets the other in a channel, a queue or a handler. Two
  dispatchers: a handler and its replacement.
- *Calls of blocking functions*: between them the two threads make every call and
  every pair that interferes on one descriptor; two deliveries, so that one can
  come between the load and the exchange of the other.
- *`setitimer`*: four calls; the race of one with a fire needs two, and what it
  leaves behind meets two more.
- *Files*: three, the zip and two others, so that another process can be ahead by
  one and by more.

Runs say `CHECK_DEADLOCK FALSE` where the system may stop: when depth has reached
its bound (Gate), when every call has been made once (Interrupts), when every
`New` has failed (Lifecycle), when every thread has ended (Signals), when every
thread is in a call that waits for the other end, or for a last delivery
(BlockingCalls), when the timer is disarmed for good (IntervalTimer).

### Fairness

- Gate, Lifecycle: `SF` of a goroutine's steps inside a method, and of a host
  function's return, per level of nesting. Go schedules every goroutine,
  `sync.Mutex` hands over to a waiter that has starved for a millisecond, and
  Python code and host functions terminate even if they call each other in
  between. No fairness is assumed of the application starting calls. A `mu` that a
  leak of depth leaves locked is given to nobody: `CallsReturn` and `LocksAreFreed`
  name that case.
- Objects: the same of somebody's steps at each level, `SF` of each goroutine's
  turn at `mu` (which it has only while `mu` is ever unlocked), `WF` of the one
  finalizer goroutine, and `WF` of *some* outermost
  call, because `GarbageGivenBack` is about an application that goes on calling.
- Interrupts: Python code need **not** end. `WF` of watchers and of `Interrupt`'s
  steps (each takes `imu` once, so `WF` suffices), `SF` of the eval loop's look at
  its breaker (it looks on every backward jump), `WF` of unwinding after a
  `KeyboardInterrupt`.
- TlsTable, Signals, BlockingCalls, StdlibCache: `WF` of the steps of each
  goroutine, thread or process that has begun something. No thread need call
  anything, `sigwait` need not time out, the other end of a descriptor need not
  answer, no sleep need end.
- IntervalTimer: `WF` of the fires: time passes. No call of `setitimer` is owed.

### Findings

1. `Gate_overlap`: `enter` takes any call that starts while another is in
   progress for a nested one (`depth.Load() > 0`). The doc comment of
   `Interpreter` calls all methods safe for concurrent use; the comment of
   `enter` says overlapping is only wrong while a host function runs.
2. `Interrupts_late`: a watcher whose `select` has both channels ready, or that is
   already in `Interrupt`, trips SIGINT after its call has returned; the next
   call gets the `KeyboardInterrupt`.

Seen while modelling. Each is an action of its module or an excuse a property
states, and where a run would show it, is recorded with its hazard:

- *Gate*: a panic in `Release` or in `drain` does not set `crashed`, though
  `ErrCrashed` is documented for every panic of C code; a nested call that fails
  leaks depth, after which `mu` is never unlocked; a nested call does not drain.
- *Objects*: a panic in `drain` loses what was still to be given back, and as depth
  never comes back to zero nothing queued later is given back either, in an
  interpreter that goes on.
- *Lifecycle*: when a host function's call finds its interpreter crashed, `mu` stays
  locked, and a `Close` that was waiting for it keeps `openMu` for ever, so that no
  `New` returns (`Stuck`); `Close` of a crashed interpreter with depth above zero
  does not wait for the frames in progress, and the next `New` initializes CPython
  under them; `Close` in a host function finalizes CPython under the frames that
  called the function (`FramesHaveRuntime` fails with `"close"` in `HostMethods`);
  with `"new"` or `"close"` there, `openMu` and `mu` are also taken in opposite
  orders and TLC finds the deadlock.
- *Conversion*: `exitError` leaves an `OverflowError` set when the exit code fits
  no C long, and `formatException` the `TypeError` of `PyObject_Length` when what
  `format_exception` returned has no length; an exit panic, out of a `__hash__` for
  one, skips the calls of `decRef` in `toPy`, `fromPy` and `formatException` that
  are not deferred, in an interpreter that goes on; an `__index__` that runs a
  conversion may make the outer one report an overflow for a value that fits (left
  out with `in.scratch`);
  `formatException` tests its cache before it
  imports `traceback` and overwrites, and so loses, a reference that a nested call
  cached meanwhile; a list that contains itself makes `fromSequence` recurse until
  Go's stack is full (left out: the model's containers are finite).
- *Signals*: the mask of a thread that ended stays, and a signal it blocks is
  queued for it for ever; of two threads that block a signal the map chooses, and
  may pass over the one in `sigwait`; a signal between `signal.Stop` and
  `signal.Notify` takes its default action (left out).
- *BlockingCalls*: a slow consumer can move the observed generation back, and one
  delivery then ends two calls; while a probe has a shared descriptor non-blocking,
  another thread's call may return `EAGAIN`, or restore flags changed meanwhile;
  a relative `clock_nanosleep` computes the whole duration anew in every round, so
  that only a signal ends it, and then reports that nothing remains (CPython sleeps
  until an absolute time).
- *IntervalTimer*: `setitimer` that finds a fire under way leaves two timers, or
  one nobody can stop; a zero value with an interval is taken up by such a fire.
- *StdlibCache*: nothing calls `fsync` before the rename, so that a crash of the
  machine, which is not modelled, could leave an empty file under its name.

## 4. What is proved

For all values of the constants that satisfy the named assumptions. The safety
properties of all passing runs are theorems. Those of a component follow from an
inductive invariant, or from a few that build on each other.

`GateProofs` (from `GateAssumption`: finitely many goroutines, natural bounds):

- `TypeCorrect`, `DepthCovers`, by one induction (`DepthInvariant`). `DepthInv`
  joins the types to `DepthCoversCalls`: that `depth` stays natural follows
  only from its covering the call that is about to decrement it. The set of
  calls in progress grows or shrinks by one pair at a time (`OneMore`,
  `OneLess`), which is what `depth.Add` answers to.
- `Serialization`, that is `SerializedUnlessStrayed`: exclusion and the mutex are
  lost only through the depth test of `enter`. Its invariant `GateInv` says that,
  until then, whoever is between `Lock` and `Unlock` holds `mu`, there is one such
  goroutine, and `depth` counts its calls; nobody else has passed `enter`.
- `Refinement` (`ImplementsSerializedCalls`), until a call strays. A goroutine is as
  many levels deep as it has methods past the check of `enter` (`Levels`,
  `LevelStep`); `NestCheck` and `LockCheck` are `SerializedCalls!GoIn`, which
  needs that nobody else is inside (`AloneInside`, from `GateInv`); `Leave` and
  `DrainPanic` are `GoOut`, what closes or crashes the interpreter is `Die`, and a
  suspended method counts as before (`HostLevels`).
- `MutexComesBack`, the safety part of `CallsReturn`: while `mu` is locked, somebody
  is in a call, or about to count one or to unlock, unless depth has leaked. Its
  invariant `MutexCounted` holds with stray calls and leaks as well.

`ObjectsProofs` (from `ObjectsAssumption`; handles and goroutines may be infinitely
many):

- `TypeCorrect`, `OneOwner` (`ExactlyOneOwner`) and `BorrowedLives`
  (`BorrowedStaysAlive`). Ownership holds whatever panics and whatever overlaps
  after that; what is given up is so by a close, a crash or a panic in drain. That
  nothing in use is freed holds until a call strays. The types need the ownership: that `decs` never passes 1
  is that nobody gives back what is in another place. `IInv` adds what the two
  properties rest on: until a call strays, one goroutine is inside; only an outermost method drains, so
  a frame that drains is the bottom of its stack; each method gets only to its own
  steps, and code runs in `Close` only when the interpreter is dead; at most one
  `Release` of a handle is under way, in progress or suspended in its drain
  (`ReleasedOnce`); what `todo` holds, somebody is about to give back; and no
  goroutine releases what a method it has suspended works with (`NotOwnBorrow`, the
  application's part). Every step then either keeps all the releases
  (`ReleasesKept`), ends one (`ReleasesEnds`) or begins one (`Begins`), and
  `OwnerStep` moves one reference between two places.
- `Refinement`: `Objects` implements `SerializedCalls`, the module that `Gate`
  implements, so that what it assumes of `enter` and `leave` is what `Gate` is
  shown to give, until a call strays in either. The same counting of levels, with
  `EnterNested` and `EnterOutermost` as `GoIn`.

`InterruptsProofs` (from `InterruptsAssumption`: finitely many calls and direct
interrupts):

- `TypeCorrect`, `ImuExcludes` (`OneOnItls`), `NoLostInterrupt` (`TrippedIsSeen`)
  and `RaisesAreRequested` (`OneRaisePerRequest`). `IInv` says that whoever is past
  the lock of an interpreter holds that interpreter's `imu` and its critical section is its own, that a watcher is under
  way only for a call that has begun, so none starts twice, and that a tripped
  signal is visible to the eval loop or about to be made so, whether the
  interpreter is open or not. The raises are counted against the agents that are
  past their `Trip`, of which there is one more or as many after each step.
- `CancelHeard`, the safety part of `CancelStops`: as long as a call with a context
  is in progress, its watcher has yet to set the signal's flag, or the flag is set,
  or a `KeyboardInterrupt` is on its way out of the calls, or Python code or a host
  function has declined one. `CancelInv` adds that a call is in progress once and
  not after it ended (so `Stop` never ends the watcher of a running call), that its
  watcher is for the interpreter that is open (so `Check` never turns it away), and
  that SIGINT has a handler while code runs.

`LifecycleProofs` (from `LifecycleAssumption`, there is an interpreter to make among
it):

- whatever host functions call: `TypeCorrect`, `OneOpen` (`OneInterpreter`) and
  `OwnRuntime` (`RuntimeIsItsOwn`), from `Core`: who works on CPython's globals
  holds `openMu`, and what `open`, `closed` and `runtime` say of each interpreter.
- if no host function calls `Close`: `CallbacksFound` (`CallbacksReach`),
  `RegistryEmptied` (`NothingLeftBehind`) and `RuntimeWhileUsed`
  (`FramesHaveRuntime`), from `InUse`: every frame of an interpreter is of the
  goroutine that holds its `mu`, and what its host functions are registered as.
  The hypothesis is needed: with `"close"` in `HostMethods` TLC finds
  `FramesHaveRuntime` violated. So is its exception for a crashed interpreter,
  whose `Close` waits for nobody.
- if they neither open nor close, `NoLockCycle`, the safety part of
  `LocksAreFreed`: who waits for `openMu` holds no `mu`; who waits for a `mu` waits
  for a goroutine with a method in that interpreter, which itself waits for nothing
  as long as the interpreter has not crashed; or nobody has that `mu`, because a
  leak of depth left it locked, and the wait is for ever (`Stuck`). Without the
  hypothesis TLC finds the deadlock.

`ConversionCacheProofs`:

- of `Conversion` (from `ConversionAssumption`): `ReferencesBalance`
  (`NothingLeaked`) and `ErrorsConsumed` (`ExceptionsConsumed`), for stacks and
  containers of any size. Whatever fails, a function that *returns* has given back or
  handed on what it made; one that an exit panic unwinds does not return. No
  exception is left but by the two C functions named above. The invariant makes
  history unnecessary: how many references a frame holds is a function of where it
  is (`HeldAt`), each frame is where it can call the one above it (`Linked`), and the
  exception state is a function of the innermost place (`ExcAt`, `Consumed`). An exit
  panic leaves a stack of which all this is still true (`Unwound`).
- of `StdlibCache` (from `StdlibCacheAssumption`): `CacheTypeCorrect`, `OnlyFaultsFail`
  (`FailsOnlyOnFault`), `OnlyKilledLeaveBehind` (`LeftBehindByKilled`) and
  `CacheRefinement` (`InstallsAtomically`), for any number of processes, files,
  faults and kills. `CacheInv` says that no name ever stands for a part of a file,
  that a process has found or installed every file before the one it is at, that it
  renames only what is complete, and that what it calls an error was a failure of
  its own.

`TlsTableProofs` (from `TlsTableAssumption`: ids are natural numbers, nil is no
slot): `TypeCorrect`, `Stability` and `Distinctness` (of `GivenIsStable` and
`SlotsDistinct`, which are only proved), and `Refinement`, that `TlsTable`
implements `SlotMap`. `TableInv` says that the slow path holds `tlsMu`, that every
table a goroutine has loaded is an older version of the current one (so what it
finds there is still so), that what it has read under the lock *is* the current
one, and that what it is about to return is in the table. `Grow` is
`SlotMap!Assign`, `Return` is `SlotMap!Give`, everything else stutters.

`SignalsProofs` (from `SignalsAssumption`), for any number of threads, handlers and
signals:

- `TypeCorrect`, `NothingStuck` (`PendingIsBlocked`) and `NoLostWakeup`
  (`NoSleepOverPending`). `IInv` adds that whoever works on a signal has one, and
  that a dispatcher that has not started is in no table and no channel.
- `OneAnswer` (`AnsweredOnce`). `CountInv` says that the channels, hands, queues and
  pending deliveries that hold a signal are finitely many and that `owed` is the sum
  of the four counts; each step adds a place, removes one, or moves one
  (`RouteCounts`, `TakePendingCounts` and so on). It needs that a handler is found
  only under the number its dispatcher is for (`OwnSignal`).
- `ChannelsInstalled`, the safety part of `ReplacedEnds`: a channel is open exactly
  while the table names its dispatcher, so that `os/signal` sends to no closed one,
  and no dispatcher ends with a signal in its channel.
- of `IntervalTimer`: `TimerTypeCorrect` and `OneTimer` (`OneTimerUnlessRaced`), for
  any number of calls; the property is inductive once types are known.

`BlockingCallsProofs` (from `BlockingCallsAssumption`):

- `TypeCorrect`, `ConsumedOnce` (`OneInterruptEach`), `FlagsRestored` (`FlagsKept`)
  and `NoSpuriousEAGAIN` (`EAGAINIsMeant`, an action property). `IInv` says which
  calls get where (`CallAt`), and (`FlagsAt`) that until two calls share the
  descriptor, the one in progress knows its flags and has them changed between its
  two `F_SETFL` only. `InterruptCounts` is the arithmetic of one exchange.
- `DeliveryStays`, the safety part of `DeliveryNoticed`: until some call has been
  ended for a delivery or a later one, the observed generation is older, so that
  whichever call looks next will find a difference; from `InOrder`.

The "safety parts" state why a liveness property cannot fail for good: in no state
is what has to happen already impossible. No run has them as properties.

Only model-checked: the liveness properties themselves (the prover has neither
fairness nor ENABLED). No module uses RECURSIVE operators.

## 5. Plan

To model next: `ForkExec`, `childFiles` as an operator against C's rules over all
small inputs, and the retry loop over executables; `Semaphore`, whose waiters poll
a counter; the recursion guard, with panics that unwind past its decrements;
`Undup` and `Splitgo`, the partition as a pure operator and crashes of the
rewrite.

Theorems to prove next: each interpreter of `Lifecycle` implements
`SerializedCalls`, as `Objects` does; the safety parts of the remaining liveness
properties (`GarbageGivenBack`: what the finalizer has queued is taken by the next
outermost call, unless depth has leaked; `LookupsReturn`: `tlsMu` is free or its holder goes on;
`DisarmedQuiets`); that a leak of `depth` is never undone, so that `mu`, once a
nested `enter` has failed, stays locked for ever.

## 6. Not modelled, and why

The generated code, beyond the signal flags: it is CPython. Formatting and
locale shims: pure functions on text, compared with C by their tests. The Windows
and macOS shims: they follow the Linux ones where they have a protocol. The
generator, builders, patches, command line and benchmarks: straight-line I/O.
The rest is in the plan above.

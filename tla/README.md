# wasm-operator: a verification development

wasm-operator runs many Kubernetes controllers in one process.  Each controller
is a WebAssembly module; a runtime on tokio instantiates it, performs its
requests, hands it the results, and swaps its linear memory to disk while it is
idle, so that the number of modules is not limited by the memory they would all
occupy.  This directory holds TLA+ modules that model the parts of that runtime
where modules, file operations, timers and the network interleave, the TLC
configurations that check them, and theorems about them with TLAPS proofs.

Paths below are relative to `src/` of the repository; `wasm.rs`, `module.rs`
and `runner.rs` are in `pkg/controller/src/modules/`.

## 1. The system

### Components, their state and what makes them correct

**Runtime start-up** (`pkg/controller/src/runtime/`, `main.rs`).  A channel of
10 `StartModule` commands is read through `buffer_unordered(10)`: the wasm file
is read and compiled in the poll itself (or found in a compile cache keyed by its
blake3 hash), a `ControllerModule` is made with an id of its own and its task is
spawned.  `POOL_SIZE` is at once the number of permits of a semaphore that all
modules share and the number of slots of wasmtime's pooling allocator.
*Correct when* every module that is commanded is started, one that does not
compile disturbs no other, and a crash while the cache is written leaves no
file that a later start takes for a compiled module.

**WasmRuntime** (`wasm.rs`).  State: a `MaybeInst` (not yet started, swapped
out, in memory, or locked by a running future), at most one boxed future
`wasm_work`, a flag `uninstantiating`, the `Snapshot` of the swapped-out
instance, the permit it holds.  Operations: `start_controller`, `wakeup`,
`uninstantiate`, `load_to_mem`, and polling the future they leave behind.
Modules interact through the semaphore, the allocator's slots and the swap
directory.  *Correct when* a guest cannot tell that it was swapped out; a permit
is never lost, forged or withheld; who holds a permit finds a slot; no future
meets a `MaybeInst` it does not handle (`unreachable!`).

**OpsRunner and OpCall** (`runner.rs`, `abi/opcall.rs`).  State: the operations
in flight (`pending_ops`, a `FuturesUnordered`), the web-call counter
`nr_web_calls`, a flag for operations that were never polled by the module's
task, a bounded channel of results.  A request becomes a future that is polled
once at once, with a waker that does nothing, and later by the module's task.
*Correct when* no operation is forgotten, no waker is lost, the counter is the
number of HTTP requests in flight, each request's results arrive in order and
nothing follows the final one.

**ControllerModule** (`module.rs`).  The event loop: poll the wasm work, resolve
operations, deliver one result at a time by a wakeup of the guest; in the tail
of a poll decide whether the module is finished, must be loaded because a
predicted event is near, or can be swapped out because it has been inactive.
State: the time of the last event, the predicted wakeup, a vector of timers, the
flag of the first event after a swap-out.  It calls the WasmRuntime and the
OpsRunner, and asks the prediction server.  *Correct when* no module is swapped
out during a web call or while active, an idle one is eventually swapped out,
one with a prediction is in memory in time, a parked task can be woken by
whatever it waits for, and a module ends only when nothing is left to do.

**Host ABI** (`abi/mod.rs`, `abi/abicommand.rs`): host functions a guest calls,
and the calls into the guest with the memory it allocates for a result.

**Guest ABI** (`pkg/kube-runtime-abi/`): the guest's executor; one `AsyncState`
per request, with room for one value and a flag that there is one.  *Correct
when* every chunk and every end reaches the future that polls for it.

**DelayQueue and timer wheel** (`pkg/wasm-delay-queue/`): a port of tokio-util's
DelayQueue onto the guest's delay request.  State: a
slab of entries with a map from the keys handed out to where `compact` moved
them, a wheel of 6 levels of 64 slots, a stack of entries that were late when
inserted, one `Sleep` for the next thing to do, the waker of the polling task.
Operations: insert, remove, reset, clear, compact, poll.  *Correct when* it is a
map of deadlines: each entry expires once and in order, and a parked task is
woken in time for the first of them.

**Controllers** (`controllers/`): ring, comb and simple reconcilers in Rust, the
ring in Go.  A controller of the ring watches one namespace and copies a nonce
that has grown to the next one, by a get and a create or replace that may
conflict, fail, or be repeated.  *Correct when* nonces never fall, a new one goes
all the way around, and a ring that has it is quiet.  **Prediction server** (`prediction/webserver/`), load generators,
profiling and deployment scripts.  `PROJECT.json` lists all of them with their
sources and status.

### How they interact

    commands --> Runtime --spawn--> ControllerModule (one task per module)
                                     |  polls            |  polls, reads results
                                     v                   v
        semaphore, slots, <--- WasmRuntime          OpsRunner ---> network, timers
        swap directory          | calls guest           ^
                                v                       |
                              guest --- requests (Host ABI)
                                     |
                        prediction server (blocking call in the tail of a poll)

    guest = a controller: reconciler --> kube runtime --> DelayQueue --> Guest ABI
    controllers interact only through the resources they watch and write

### What is hard

* Futures of different modules interleave at every await, over a shared
  semaphore, a shared pool and a shared directory; one of them can fail at any
  of these points, and Rust's drop order then decides who gets the permit when.
* The eager poll uses a no-op waker.  What arrives between it and the next poll
  wakes nobody.
* The results channel is bounded and written by futures that only its reader
  polls.
* A poll of the event loop polls the wasm work twice.  What happens between the
  two (a file operation ends on another thread) makes the tail run without a
  look at the results.
* The compile cache outlives the process, which can die while it writes.
* The delay queue computes where an entry is from the time of the wheel, once when
  it is inserted, again when it cascades and again when it is removed.
* A reconcile acts on a cached object, a get and a write at three moments.
* Correctness of the swap policy depends on timers that must fire after, not
  before, the moment at which a comparison changes its value.

The `hazards` of `PROJECT.json` place each of these at its line.

## 2. The modules and the code

| module | models | built from |
|---|---|---|
| `WasmRuntime` | all WasmRuntimes of one process, semaphore, slots, swap files | |
| `ResidentPool` | what WasmRuntime promises (abstract) | |
| `OpsRunner` | the operations, channel and wakers of one module | |
| `ControllerModule` | one event loop with its timers | instances of `WasmRuntime` (all modules) and `OpsRunner` (its own) |
| `GuestAbi` | the guest's executor, its requests and their single-slot states | |
| `ResultQueue` | what the guest ABI promises (abstract) | |
| `RuntimeStart` | sender, start task and compile cache | |
| `TimerWheel` | levels, slots and bit fields; operators only | |
| `SlabStorage` | entries and key map; operators only | |
| `DelayQueue` | the queue, its polling task, the clock and the host | `TimerWheel`, `SlabStorage` |
| `DeadlineMap` | what the delay queue promises (abstract) | |
| `RingReconciler` | the controllers of a ring, of both kinds, with the API server | |
| `MC...` | small instances for TLC | |
| `WasmRuntime_proof`, `OpsRunner_proof`, `ControllerModule_proof`, `GuestAbi_proof`, `RuntimeStart_proof`, `TimerWheel_proof`, `DelayQueue_proof`, `RingReconciler_proof` | lemmas and theorems | |

The `map` of `PROJECT.json` gives the lines of each definition.

**WasmRuntime.**  `inner` is the `MaybeInst`, `kind` and `stage` are the boxed
future and how far it is.  A future is cut where another thread can see it: at
an await and where a permit or a slot changes hands.  `BeginAcquire`,
`BeginResident`, `BeginWrite` and `BeginNothingToWrite` are the match on
`MaybeInst` at the head of each future; `Instantiate` and `Restore` are the
rest of a start, wakeup or load; `SwapOut` and `DropPermit` the end of
`uninstantiate`.  Each `?` is an action that leads to `unwind`.  A swap-out whose
write fails drops `instance`, `permit`, `store` in that order (`writeFailed`:
the permit is free while the slot is taken); a dying task otherwise drops the
store first.  `Acquire` and `Release` are tokio's fair semaphore, which hands a
released permit to the longest waiter.  A linear memory is one of `Contents` and
a number of pages; the exported mutable globals are another of `Contents`; a
fresh instance has `Blank` and `BasePages`.  A guest may write and grow.

**OpsRunner.**  `stage` says where the future of an id awaits; the sequence
follows `handle_request` for each kind (`http`: call, meta, body, final;
`stream`: call, meta, chunks, final; `delay`: sleep, final).  `notified` is the
ready-to-run queue of `FuturesUnordered`, `hooked` the ids whose current await
holds a waker of `pending_ops`; a no-op waker is the absence of a hook.
`sendq`/`granted` are the queue of senders inside a tokio channel and the places
already handed to them.  `loop` is the loop of `resolve_async_ops`.  The three
conditions that wake the module's task are `opsWaker`, `rxWaker` and what the
other parts do (`WokenElsewhere`).

**ControllerModule.**  `at` is the place in `poll_event_loop`.  Time is relative:
`idleFor` is now minus `last_event_time`, `ahead` is `predicted_wakeup` minus
now, a timer is the time left.  One tick stands for one unit of the comparisons;
all of the code's comparisons are strict and so are the model's.  The two
disjuncts of `WorkPending` and of `WorkReady` are the two polls of the wasm work
(lines 98 and 100).  `MustLoad`, `MaySwap` and `Overdue` are the conditions of
lines 127-166; `AskPrediction` is the blocking request of lines 167-194, which
may answer any time of `Predictions`, fail, or (`PredictionPanics`) send what
does not parse.  `sinceEvent` and `sinceAnswer` are history: the time since the
guest was given anything, and since it was given anything but the value of a stream.

**GuestAbi.**  `registered` is the map of pending ids, `hasValue`, `value` and
`waker` the fields of an `AsyncState`.  A task is anything with a waker of its
own: a future spawned on the LocalPool, or one of those that a combinator such
as `FuturesUnordered` polls.  It is straight-line code: `requests[t]` are the
requests it is inside of, the innermost last, and it polls that one or is in its
own code (`own`).  `HostWakesUp` is the sequence of results that `OpsRunner`
produces for each kind of request, `Wakeup` the exported function up to its last
line, and `RunTask` ... `Stalled` its `run_until_stalled`, also that of `main`.
LocalPool polls woken tasks in some order; the model takes any.  `Patient` tells
guests that await nothing else while they read a stream from those that do.

**RuntimeStart.**  `pc` is the place in `cache_precompile` and after it; the
files it looks at (`wasm`, `cache`) are changed by users and survive `Kill`, all
else starts again at `Boot`.  `std::fs::write` is two steps: from `Check` on the
file exists and is `Short`.  A hash stands for the code it is of.  `Panic` is every
`expect` of the start task, which drops the receiver; `SendPanics` is the sender's
`unwrap` after that.  The channel stands for the channel together with the
futures that `buffer_unordered` has pulled but not polled: none of them suspends,
so they run one at a time in the order of the commands.  `Load` is the first
`deserialize_file` of a module's own task; a short file makes it fail.  The permit
that the task awaits before it (`wasm.rs:207`) is in `WasmRuntime`.

**TimerWheel, SlabStorage, DelayQueue.**  A wheel and a slab are records, and each
method of the code is an operator on them.  A linked list is a sequence with its
head first (`Push`, `Pop`, `Unlink`), a bit field the set of its bits, and a `when`
a number of milliseconds; `LevelFor` is the highest digit in which two times
differ, and `MCDelayQueue` checks it against the code's leading-zero formula for
radix 64 around every power of 64 up to the fourth.  `DelayQueue` counts the clock
in units smaller than a millisecond, because `normalize_deadline` rounds up and
`register_delay` rounds down; `DeadlineMap` has the instants that were asked for
as inputs and demands that each is rounded up.  `pc` is the polling task: between polls (`idle`),
waiting (`parked`), or in `poll_idx` at its delay, in the loop of `Wheel::poll` or,
with the slot in `expiration`, in that of `poll_expiration`; the clock may move
between any two rounds.  A failed `assert!` ends in `asserted`,
a deadline that the wheel has no slot for in `panicked` (`Stop`).  A `Sleep` remembers when
the host may answer (`fireAt`), whether it has, and whether the task is its waker.
All operations are those of the task that polls, except `insert_at`, which takes
and wakes the stored waker and may be called by another.

**RingReconciler.**  `nonce` and `version` are the resources at the API server,
`cache` what each controller's reflector or informer has seen, `queued` its work
queue (there is one resource per namespace, so one bit), `pc`, `held` and `seen` the
reconcile in progress.  `Start`, `Get` and `Write` are its three moments;
`Conflict` a refused write, `Fail` a call without effect, `Write(c, FALSE)` one with
effect whose answer is lost.  `Kind` selects what differs: the Go controller
creates with nonce 0, resyncs its informer every 30 seconds, and returns an error
(hence retries) for an object that is gone from its cache, which appears as a
reconcile that cannot start.

### External behaviour

The semaphore and channel of tokio, `FuturesUnordered`, wasmtime's allocator and
the LocalPool of futures, the slab and the Kubernetes API server are not in `src/`; their operators model what the code relies on (FIFO
hand-over of permits and channel places, one queue entry per woken future, a
limit on live instances, a slab that inserts at any vacant index and compacts by
moving entries down, a server that refuses a replace of an old version).

## 3. The runs

| run | asks | bounds |
|---|---|---|
| `runtime_memory` | Is swapping invisible?  (refinement of `ResidentPool`, swap-file sizes, permits, no `unreachable!`) | 2 modules, 1 slot, 2 contents, memories of 1 or 2 pages |
| `runtime_queue` | Is the permit queue exact and fair, is a permit a promise of a slot, does a dead module return both? | 3 modules, 1 slot, no memory contents |
| `ops` | Are web calls counted, wakers kept, results ordered? | 2 requests of any kind, channel of 1 |
| `module_events` | Resident during web calls; never parked with work nobody announces; swapped out only after the interval without an answer; an idle module is swapped out, an elapsed delay is answered | 1 request at a time, of every kind, predictions 1 tick in the past or 3 ahead |
| `module_prediction` | Never asleep past the load window while swapped out; the last result of a web call is read before the module ends or is swapped out | 1 request, http and delay, channel of 2, predictions 1 tick in the past or 3 ahead, 1 competing module for the one permit |
| `stream_swap` | (violated) Is a module swapped out only after an interval without events? | 1 stream |
| `guest_abi` | Is the single slot of a request a queue to a patient guest?  Does no unwrap fail and nobody wait for ever? | 2 tasks, 3 ids, streams of up to 3 values |
| `guest_busy` | (violated) Does a stream give its values one after the other? | the same, guests that await other requests between two values |
| `delay_queue` | Does the queue implement `DeadlineMap`?  Are entries where they are looked for, do keys stay valid, does the delay stay ahead of the entries, does every entry come out? | 2 entries, radix 2 with 3 levels, 2 units to a millisecond, clock to 5 ms, deadlines 1.5, 4.5 and 8 ms |
| `delay_reset` | (violated) Is a parked task woken when the first entry is due? | the same, deadlines 1.5, 3.5 and 4.5 ms |
| `ring` | Can a nonce fall?  Is a settled ring quiet?  Does a nonce get around? | a Go and 2 Rust controllers, 2 nonces, 1 deletion, 1 restart |
| `start` | Does a module run its own code, and does each come to run? | 3 modules, 2 good codes and a broken one, capacity 1, 1 kill, 1 replacement |

**Why the bounds are enough.**  A permit passes between two holders and a queue
has an order to violate with three modules and one permit; two modules suffice
for one to use the slot while the other is out.  Two contents distinguish "its
own memory" from "another's, an older or a fresh one", two page counts make a
snapshot equal to or larger than a fresh memory.  Two requests contend for a
channel of one; the third thing they contend with is the reader.  In the guest
two tasks are woken by one call or by different ones, a third id lets a dropped
stream go on receiving while its reader uses another, and a stream of three
values has a head, a value and a next value.  The clock of
`ControllerModule` stops where a longer time changes no comparison (`idleFor`
just above `Interval`, `ahead` at `-Grace`, where the prediction is dropped, and
at `Far`).  `Before`, `Grace`, `Slack` and `Lead` are the code's constants scaled
to a few ticks with their order kept: `Lead < Before`, `Slack > 0`.  In `delay_queue`
the three deadlines are first put on level 1, on level 2 and beyond the wheel, the second
one cascades through level 1 to 0, and the first two come to be in the past
as the clock goes; with two entries one
can be moved by `compact` while the other's index is handed out again, and two
share a slot.  Radix 2 makes every boundary of a level happen within 8 ms.  In
`ring` the three controllers are a Go one between Rust ones; two nonces suffice
for an old one to meet a new one, and version numbers grow with the writes, whose
number is bounded by the nonces and deletions.  In `start` a capacity of one makes
the sender wait, and with three modules and three codes two modules share a code
in some initial states.  Request ids
are used again once no trace of their last use is left, which bounds the run
without ending it.

`CHECK_DEADLOCK FALSE` is set where a system may stop: all modules died, or the
task under study has ended.  No run uses symmetry together with a liveness
property; `guest_abi` permutes tasks and ids, which its properties treat alike.

### Fairness

`DelayQueue`: the executor polls a woken task and a poll runs to its end; time
passes; and the host answers a delay (strong fairness: its answers come through a
first-in first-out channel, so one that is due gets its turn although the task is
often busy).  `EveryEntryExpires` supposes that the operations stop, for a task that
always resets its entries postpones them, and speaks of deadlines within the clock.
`RingReconciler`: events arrive, reconciles start, the informer resyncs.  Calls may
fail any number of times but not always (strong fairness of `Get` and of a write
that is answered or refused); without it a server that is never reachable is a
counterexample.  `RuntimeStart`: its tasks run, and somebody boots a dead process.
`WasmRuntime`: a task that can run is scheduled (`PollWork`, `Unwind`), and a file
operation ends, well or badly.  tokio's scheduler polls woken tasks, and its
blocking threads finish.  Nothing obliges an owner to call, so `NoStarvation`
assumes what it needs in its own statement: that permits keep coming back.
`ControllerModule`: the task runs when it is woken, timers fire, time passes,
file operations end.  Nothing obliges the network to answer, the guest to issue
requests, or another module to give up its permit.  `module_prediction` is a
safety run of `Spec`: `LoadedBeforePrediction` speaks of a task that is asleep, with
no timer due and no work under way, so it needs no assumption on how fast the
scheduler, the disk or the other modules are.  It says that the task was woken to
load in time, not that the load is over before the predicted moment, which nothing
in the code can promise.

## 4. The disagreements found

**A module can be swapped out right after an event** (`stream_swap`).
`module.rs:276` sets `last_event_time` for finished results only, and the values of
a watch stream are never finished.  A module that watches a stream, as every
controller of this repository does, can be swapped out at the poll after it was given
a watch event, although line 25 says "if inactive for x ms, shut down" and line 46
that the interval counts "from last event" (by which it means the "last async
request"; the code counts from results).  `SwapOnlyWhenQuiet`, which
`module_events` checks and `ControllerModule_proof` proves, is what does hold: the
interval counts from the last result that is not the value of a stream.

**A stream can lose a value, or its end, in the guest** (`guest_busy`).  The
slot of `executor.rs:101` is written whether or not it was read.  A task that
awaits another request between two values of a stream finds the later value
only; when what came meanwhile is the end (a null pointer), it finds the value
and then waits for an end that it was already sent.  `requestor.rs:25` hands the
slot out to "get next values from stream trait".  `guest_abi` and the proofs
show that it is sound for readers that await nothing else: run_until_stalled
returns only when they are back at an empty slot, and the host delivers one
result per call.

**A task can be parked past a deadline** (`delay_reset`).  `reset_at` adjusts the
delay only when there is one (`delay_queue.rs:787`), and there may be none while an
overdue entry is on the stack: `remove` of the last entry of the wheel drops the
delay.  A `reset_at` that moves the overdue entry ahead then leaves the wheel
occupied and the queue without a delay.  A poll would repair that, but an
`insert_at` before it finds no delay and sets one for its own entry, however late
(line 559), and the next poll parks on it: the reset entry is returned only when
the later one is due, although `Poll::Pending` promises that "the current task will
be notified once the deadline has been reached" (line 41).  The search for an inductive
invariant behind `ParkedOnTime` led to this case; `DelayKept` states that this
`reset_at` is the only step that can leave the delay, or the host's answer to it,
behind.

### Observations that no run is about

* A module can return Ok with a result unread.  The last chunk and the end of its
  only stream arrive while it is swapped out; the chunk's wakeup waits for the
  swap file, so the poll at `module.rs:98` is Pending; the file is read before line
  100, which is Ready; the tail finds `pending_ops` empty (line 108) although the
  final result is still in the channel, where the comment at line 107 says "when all
  instructions are over".  The same can happen to the answer of a delay.
  `WebAnswersReadFirst` shows that it cannot happen to a web call, during which the
  module is in memory.
* At the predicted instant itself neither comparison of `module.rs:308-323` is true,
  both being strict, so a swap-out may begin there that a moment before or after
  would not.  The model has this state; no property is about it.
* A cache file that a killed process left short is never repaired: `exists()`
  accepts it at every later start and the module fails to load.  One module that
  does not compile, or cannot be read, ends the start task, and no later module
  starts.  `EveryModuleStarts` excepts exactly these two cases, so no
  property would notice a change for the worse in them.
* `reset_at` to a deadline in the past leaves a delay in place although the wheel
  is empty, so that a later poll of an empty queue can return Pending, where the
  comment at `delay_queue.rs:51` promises `Ready(None)`.  The task is woken when
  that delay ends.  An entry can come out up to a millisecond early, because the
  host is asked for whole milliseconds rounded down.
* A deadline that crosses the next multiple of 2^36 milliseconds since the start of
  the queue has no level, although it is within `MAX_DURATION`: the insertion
  panics with an index out of bounds instead of `InsertError::Invalid`.
* `reset_at` and `remove` replace the `Sleep` without waking the stored waker; if a
  task other than the polling one called them, a parked task could miss an earlier
  deadline.  The model lets the polling task call them.
* The Go controller retries a resource that is gone although the comment at
  `controller.go:159` says "we stop processing"; it creates resources with nonce 0
  and depends on the resync to copy the real one.  A Rust controller does not
  recreate a resource that was deleted in the next namespace until its own changes:
  `Propagates` therefore excepts deletions.

## 5. What is proved

TLAPS proves the following for every number of modules and requests, every pool
size, channel capacity and set of memory contents, every radix and number of levels
of a wheel, and every bound on a slab, a clock and a deadline.

* `WasmRuntime_proof`: type correctness, `PermitsConserved`, `QueueIsTheWaiting`,
  `SlotForEveryPermit`, `WorkFindsInstance`.  None is inductive: that a permit is
  conserved through the death of a module depends on whether that module holds
  one, which depends on how far its future was.  `IInv` adds `Shape`, which tells
  for each stage what `inner` is and whether permit and slot are held, and `Queue`,
  which relates the semaphore's queue to the stages.  Each step changes one
  module's stage; `AcquireKeepsSemaphore` and `ReleaseKeepsSemaphore` carry the
  count over it.  `SlotForEveryPermit` follows by counting: while nothing is
  orphaned, the slots are a proper subset of the holders.
  Its last part proves `SwapFileFits`, and that `WasmRuntime` implements
  `ResidentPool` (`MemoryPreserved`).  The invariant `Saved` adds that file and
  snapshot of a swapped-out module agree in size, that a write which ended well
  left the image in the file, and that an instance being reloaded is still
  fresh.  The refinement maps a guest's memory to the live image, or to what a
  reload will rebuild.  `Restore` is then a stutter, `SwapOut` an eviction that
  leaves the memory alone, and every failure a death.
* `OpsRunner_proof`: type correctness (with it, that `nr_web_calls` is never
  decremented below zero), `WebCallsCounted`, `NoOpForgotten`, and the back-pressure
  of the channel (`ChannelBounded`: mostly tokio's promise, on which the rest
  rests; no run checks it).
  `Wakers` says that a pending operation is being polled, queued, or hooked to
  what it waits for, exactly one of these; `Senders` that an operation that waits
  for a place in the channel is queued there once.  `ResultsInOrder` needs a second
  invariant, which follows the results of each request from its future to the
  guest: `Sent` tells from the stage what the future has sent, `Heard` what the
  guest has read, and `InTurn` that each unread result is the next one after what
  is read or unread before it.
* `ControllerModule_proof`: type correctness, `ResidentDuringWebCall`,
  `NoLostWakeup`, `WebAnswersReadFirst`, `SwapOnlyWhenQuiet` and
  `LoadedBeforePrediction`, and that the
  module drives its parts as their specifications allow (`ImplementsOpsRunner`,
  `ImplementsWasmRuntime`).  The proof instantiates the proof modules of the two
  parts and takes over their invariants, then relates the parts:
  `Kept` (a module that is swapped out has no web call), which rests on the count
  of `WebCallsCounted`; `Places`, which tells for each place of the task how far its
  work and the loop of `resolve_async_ops` are and who holds its waker; and `Read`
  (the rest of an answer whose request has returned is read before the task gets
  to the tail of `poll_event_loop`, and by a guest in memory).
  `WebAnswersReadFirst` is `Read` in the tail.  `SwapOnlyWhenQuiet` holds although
  `last_event_time` is not set by results that are not final: unless such a result is
  the value of a stream, it is the first half of an answer, whose request is still
  counted, or whose end is unread, which `Read` excludes in the tail.
  `LoadedBeforePrediction`: `Timers` says that a prediction outside of the window in
  which the tail loads has a timer that ends in it, and `Due` that a swapped-out
  module that sleeps in the window has a timer that is due.
* `GuestAbi_proof`: for a patient guest, type correctness, `WakeupFindsState`,
  `NobodyWaitsForever`, `NoUnwrapOfNone`, and that `GuestAbi` implements
  `ResultQueue` (`ResultsAreQueued`).  That no value is replaced needs that the
  slot of every request that is read is empty between two calls.  The invariant
  gets it from `Parked` (a task inside of a request is running, woken, or has
  left its waker in an empty slot) and `Calls` (between two calls none is running
  or woken); `Sync` relates the slot and the last value read to the number of
  results delivered, which is what makes each unwrap succeed.  `Patient` is a
  hypothesis of each theorem: without it `guest_busy` is a counterexample.
* `RuntimeStart_proof`: type correctness and `RunsOwnCode`, for any number of modules,
  codes, kills and replacements.  `Cached` says that the file of a hash holds
  nothing, something short, or the code of that hash.  That a module is not given
  the code of two reads, or two modules one id, needs that none is spawned twice:
  `Order` says that the modules after the `nextId`-th are, in their order, the
  current command, those on their way and those not yet sent, and `Started` that
  module `Modules[i + 1]` is the one with id `i`.
* `TimerWheel_proof` has lemmas only, about the wheel as a data structure.  `Digits(t, l)`
  is a time in base `Radix` without its `l` lowest digits; the level of a deadline is
  then the highest digit in which it differs from the elapsed time (`LevelForIs`,
  `LevelForFacts`), and the deadline of a slot the number whose digits are those of
  the elapsed time above the level, then the slot, then zeros (`DeadlineFacts`).
  `Exact` says that each key is in the slot that its deadline and the elapsed time
  tell, and in no other.  It is not preserved inside of a poll: `poll_expiration`
  moves the entries of a slot down by one level each, where they may not belong, and
  sets the elapsed time when the slot is empty.  `Cascading` and `Settling` are what
  is left of it there: an entry may be too high up only while nothing lies below and
  the time is at the start of its slot, so it is among the first and the next round
  moves it further.  `FirstExpiration` shows that the slot which `next_expiration` finds
  at the lowest occupied level is the first of all levels.
* `DelayQueue_proof`: type correctness, `WheelExact`, `KeysResolve`, `NoAssertFails`,
  `DelayKept`, `ParkedOnTime`, and that the queue implements `DeadlineMap`
  (`ImplementsDeadlineMap`).  `IInv` relates, at each stage of a poll, the wheel
  (`Exact`, `Settling` or `Cascading`) and the stack to the entries of the slab;
  `SlabOK` says that the keys handed out and the occupied indices are in bijection,
  whether or not `compact` has been called; `StackOK` that an overdue entry has the
  elapsed time as its deadline; `ClockInv` that the elapsed time is not ahead of
  `wheelNow`, and `wheelNow` less than a millisecond ahead of the clock, from which
  "at most a millisecond early" and the assertion of `set_elapsed` follow.
  In the refinement, an entry that the poll gives out is the earliest: from the stack,
  because the entries in the wheel lie at or after the elapsed time; from the wheel,
  by `PopExact`.  Cascading and `compact` are stutters.
  `NormalizeOnTime` shows that a deadline is the instant asked for rounded up.
  `DelayKept` goes through the steps with `Covers`, for the end of the delay
  (`AtCovers`); the host's answer comes no later, because the delay it is given is
  rounded down (`SleepOK`).  `ParkedOnTime` is not an invariant of
  `Spec` (run `delay_reset`); `ParkedInTime` proves it of the behaviours without a
  `ResetUndelayed` step, the one step that `DelayKept` excepts: each of them parks in
  time unless it does what section 4 describes.
* `RingReconciler_proof`: type correctness, `NoncesNeverFall` and
  `SettledRingIsQuiet`, for a ring of any size and any mix of kinds.  What a write
  does depends on a get that may be long ago; `Fresh` says that a replacement whose
  version is still the latest carries a nonce above the present one, which every
  `Put` preserves by making all earlier gets out of date (`PutFresh`).  `Bounded`
  says that no nonce anywhere is above what the user asked for, so in a settled
  ring there is nothing above to write.

Assumptions: those named in the modules (`PoolAssumption`, `MemoryAssumption`,
`OpsAssumption`, `PartsAssumption`, `TimeAssumption`, `GuestAssumption`,
`StartAssumption`, `RingAssumption`, `WheelAssumption`, `DelayQueueAssumption`,
`NoneAssumption`): finitely many modules and ids, a positive pool
size and capacity, a fresh memory no larger than the largest, modules that are
different files, a ring of at least two; periods that are whole numbers, a prediction
timer that is late by at least one tick (5 ms in the code), and "no prediction" at
least as far ahead as `TIME_BEFORE_PREDICTED_MS` (999 days in the code); a radix of at least two, and a "no deadline" that is no number.

**Only model-checked**: all liveness (`NoStarvation`, `DeadReturnsPool`,
`IdleIsSwapped`, `DelayIsAnswered`, `EveryEntryExpires`, `Propagates`,
`EveryModuleStarts`; liveness under fairness is outside the prover's
reach), and that `LevelFor` is the leading-zero formula of the code, which `MCDelayQueue`
evaluates for radix 64.

## 6. What is not modelled

* The bytes of requests and results, the Kubernetes client service and HTTP: an
  operation answers or fails.
* The history that is sent to the prediction server, and the server's model.
* How long a worker thread is blocked by the prediction request.
* Globals a guest does not export: the code does not save them, and whether a
  compiler exports its stack pointer is outside this development.
* Wall-clock adjustments; the model has one clock.
* In the guest: a pending future that is dropped (its late result wakes whoever
  left the waker, and is ignored), the memory that `allocate` hands out and
  `wakeup` takes over, and the text of requests.
* The comb controller (the ring's reconcile on a chain of namespaces, all in one
  process) and the simple controller, which adds one to a counter for every event
  and states no property of the count: an event that is repeated, or a write whose
  answer is lost, is counted twice.
* Capacity, reserve and shrink of the delay queue, and the limit of `MAX_ENTRIES`.
* Crates that are only configured: the client service, wasmtime's engine, tracing.

## 7. Plan

Order by what the system depends on most.

1. *(done)* `WasmRuntime`, `ResidentPool`, `OpsRunner`, `ControllerModule`, and their
   proof modules.
2. *(done)* `GuestAbi`, `ResultQueue` and their proof.
3. *(done)* `RuntimeStart` and its proof.
4. *(done)* `TimerWheel`, `SlabStorage`, `DelayQueue`, `DeadlineMap`.
5. *(done)* `RingReconciler` with the Go controller, and its proof.
6. *(done)* Proofs: `ResultsInOrder`; the safety of `ControllerModule` from an
   inductive invariant that takes over those of its two parts.
7. *(done)* Proofs: the safety of the delay queue and its refinement of `DeadlineMap`.
8. The comb controller as another topology of `RingReconciler`, with its theorems for
   any topology.
9. A proof that the bit-level formula of `level_for` is `LevelFor`, for the radix of the
   code.

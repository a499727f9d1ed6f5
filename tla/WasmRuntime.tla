---------------------------- MODULE WasmRuntime ----------------------------
(***************************************************************************)
(* The WasmRuntime of every controller module, and what the modules share: *)
(* the active-client semaphore, the slots of the pooling allocator and the *)
(* swap directory (src/pkg/controller/src/modules/wasm.rs).                *)
(*                                                                         *)
(* A WasmRuntime owns a MaybeInst (inner) and at most one boxed future     *)
(* (wasm_work) that starts, wakes, swaps out or loads the instance.  Each  *)
(* future is cut where another thread can be seen: at an await, and where  *)
(* a permit or a slot changes hands.  stage is the place the future of m   *)
(* has reached:                                                            *)
(*   none        wasm_work is None                                         *)
(*   begin       set, not polled yet                                       *)
(*   permit      awaiting acquire_owned, or granted and about to           *)
(*               instantiate                                               *)
(*   io          awaiting the swap file; kind tells read from write        *)
(*   guest       inside _start or wakeup                                   *)
(*   swapped     UnsInst is set, the permit is not dropped yet             *)
(*   writeFailed the swap write returned Err: instance and permit are      *)
(*               dropped before the store                                  *)
(*   unwind      the task ended (Err, panic or Ok): locals, then the       *)
(*               ControllerModule, are being dropped                       *)
(*   gone        nothing is left of the module                             *)
(* The `unreachable!` of the futures has no action: WorkFindsInstance says *)
(* that it is not reached.                                                 *)
(***************************************************************************)
EXTENDS Naturals, Sequences, FiniteSets

CONSTANTS
    Modules,    \* the controller modules of one runtime
    PoolSize,   \* POOL_SIZE: permits of the semaphore, slots of the allocator
    Contents,   \* what a linear memory, or the exported globals, can hold
    Blank,      \* the contents of a fresh instance
    BasePages,  \* pages of a fresh instance
    MaxPages    \* bound: pages a guest can grow its memory to

ASSUME PoolAssumption == /\ PoolSize \in Nat \ {0}
                         /\ IsFiniteSet(Modules)
ASSUME MemoryAssumption == /\ Blank \in Contents
                           /\ BasePages \in Nat \ {0}
                           /\ MaxPages \in Nat
                           /\ BasePages <= MaxPages

VARIABLES
    inner,            \* MaybeInst of each module
    kind, stage,      \* wasm_work: which future, and how far it is
    io,               \* the file operation the future awaits
    uninstantiating,  \* WasmRuntime::uninstantiating
    permits,          \* free permits of the semaphore
    waiters,          \* its FIFO queue
    holders,          \* modules a permit is assigned to
    slots,            \* modules whose store occupies a pool slot
    image,            \* memory and exported mutable globals of the instance
    file,             \* the swap files
    snapshot          \* the Snapshot kept in UnsInst

semVars  == <<permits, waiters, holders>>
memVars  == <<image, file, snapshot>>
workVars == <<kind, stage, io>>
vars == <<inner, workVars, uninstantiating, semVars, slots, memVars>>

Kinds  == {"none", "start", "wakeup", "uninstantiate", "load"}
Stages == {"none", "begin", "permit", "io", "guest", "swapped",
           "writeFailed", "unwind", "gone"}

Image    == [heap : Contents, globals : Contents, pages : BasePages..MaxPages]
Snapshot == [globals : Contents, memory_min : BasePages..MaxPages]
File     == [heap : Contents, pages : 0..MaxPages]

Fresh == [heap |-> Blank, globals |-> Blank, pages |-> BasePages]
Empty == [heap |-> Blank, pages |-> 0]  \* a file that was just truncated

\* Faulty: one file for all.
SwapPath_Shared(m) == CHOOSE n \in Modules : TRUE

\* worker_{id}_mem.bin, with an id no two modules of the runtime share.
SwapPath(m) == m

TypeOK ==
    /\ inner \in [Modules -> {"Locked", "NotInst", "UnsInst", "GotInst"}]
    /\ kind \in [Modules -> Kinds]
    /\ stage \in [Modules -> Stages]
    /\ io \in [Modules -> {"idle", "busy", "ok", "error"}]
    /\ uninstantiating \in [Modules -> BOOLEAN]
    /\ permits \in 0..PoolSize
    /\ waiters \in Seq(Modules)
    /\ holders \in SUBSET Modules
    /\ slots \in SUBSET Modules
    /\ image \in [Modules -> Image]
    /\ file \in [Modules -> File]
    /\ snapshot \in [Modules -> Snapshot]

\* The swap files are left from an earlier run of the process.
Init ==
    /\ inner = [m \in Modules |-> "NotInst"]
    /\ kind = [m \in Modules |-> "none"]
    /\ stage = [m \in Modules |-> "none"]
    /\ io = [m \in Modules |-> "idle"]
    /\ uninstantiating = [m \in Modules |-> TRUE]
    /\ permits = PoolSize
    /\ waiters = <<>>
    /\ holders = {}
    /\ slots = {}
    /\ image = [m \in Modules |-> Fresh]
    /\ \E c \in Contents :
          file = [m \in Modules |-> [heap |-> c, pages |-> BasePages]]
    /\ snapshot = [m \in Modules |-> [globals |-> Blank, memory_min |-> BasePages]]

----------------------------------------------------------------------------
(* The semaphore: tokio hands a released permit to the longest waiter.     *)

Acquire(m) ==
    /\ \/ permits > 0 /\ permits' = permits - 1
                      /\ holders' = holders \cup {m}
                      /\ UNCHANGED waiters
       \/ permits = 0 /\ waiters' = Append(waiters, m)
                      /\ UNCHANGED <<permits, holders>>

\* Faulty: the permit is handed to the last waiter.
Release_Lifo(m) ==
    IF waiters = <<>>
    THEN permits' = permits + 1 /\ holders' = holders \ {m} /\ UNCHANGED waiters
    ELSE /\ holders' = (holders \ {m}) \cup {waiters[Len(waiters)]}
         /\ waiters' = SubSeq(waiters, 1, Len(waiters) - 1)
         /\ UNCHANGED permits

\* Faulty: the permit goes back to the counter while others queue.
Release_NoHandOff(m) ==
    permits' = permits + 1 /\ holders' = holders \ {m} /\ UNCHANGED waiters

\* Faulty: the waiter that is served stays in the queue.
Release_KeepsWaiter(m) ==
    IF waiters = <<>>
    THEN permits' = permits + 1 /\ holders' = holders \ {m} /\ UNCHANGED waiters
    ELSE holders' = (holders \ {m}) \cup {Head(waiters)} /\ UNCHANGED <<permits, waiters>>

Release(m) ==
    \/ /\ waiters = <<>>
       /\ permits' = permits + 1
       /\ holders' = holders \ {m}
       /\ UNCHANGED waiters
    \/ /\ waiters # <<>>
       /\ holders' = (holders \ {m}) \cup {Head(waiters)}
       /\ waiters' = Tail(waiters)
       /\ UNCHANGED permits

----------------------------------------------------------------------------
(* What the owner of the runtime calls.  Every call asserts that wasm_work *)
(* is None and sets it; the future runs when it is polled.                 *)

SetWork(m, k) ==
    /\ stage[m] = "none"
    /\ kind' = [kind EXCEPT ![m] = k]
    /\ stage' = [stage EXCEPT ![m] = "begin"]
    /\ uninstantiating' = [uninstantiating EXCEPT ![m] = (k = "uninstantiate")]
    /\ UNCHANGED <<inner, io, semVars, slots, memVars>>

\* ControllerModule::start calls it once, before anything else.
CallStart(m) == inner[m] = "NotInst" /\ SetWork(m, "start")

CallWakeup(m)        == inner[m] # "NotInst" /\ SetWork(m, "wakeup")
CallUninstantiate(m) == inner[m] # "NotInst" /\ SetWork(m, "uninstantiate")
CallLoad(m)          == inner[m] # "NotInst" /\ SetWork(m, "load")

\* The owner's task is over, with Ok or with an error of its own.
TaskEnds(m) ==
    /\ stage[m] = "none"
    /\ inner[m] # "NotInst"
    /\ stage' = [stage EXCEPT ![m] = "unwind"]
    /\ UNCHANGED <<inner, kind, io, uninstantiating, semVars, slots, memVars>>

----------------------------------------------------------------------------
(* Polling the future.                                                     *)

\* poll_unpin gets Ready(Ok(())): wasm_work is None again.
WorkDone(m) == /\ stage' = [stage EXCEPT ![m] = "none"]
               /\ kind' = [kind EXCEPT ![m] = "none"]

Loads(m) == kind[m] \in {"wakeup", "load"}

\* take_not, take_uns: the instance is missing, so a permit is acquired.
BeginAcquire(m) ==
    /\ stage[m] = "begin"
    /\ \/ kind[m] = "start" /\ inner[m] = "NotInst"
       \/ Loads(m) /\ inner[m] = "UnsInst"
    /\ inner' = [inner EXCEPT ![m] = "Locked"]
    /\ stage' = [stage EXCEPT ![m] = "permit"]
    /\ Acquire(m)
    /\ UNCHANGED <<kind, io, uninstantiating, slots, memVars>>

\* The instance is in memory already.
BeginResident(m) ==
    /\ stage[m] = "begin"
    /\ inner[m] = "GotInst"
    /\ \/ /\ kind[m] \in {"start", "wakeup"}
          /\ stage' = [stage EXCEPT ![m] = "guest"]
          /\ UNCHANGED kind
       \/ kind[m] = "load" /\ WorkDone(m)
    /\ UNCHANGED <<inner, io, uninstantiating, semVars, slots, memVars>>

\* take_got, then tokio::fs::write, which truncates the file first.
BeginWrite(m) ==
    /\ stage[m] = "begin"
    /\ kind[m] = "uninstantiate"
    /\ inner[m] = "GotInst"
    /\ inner' = [inner EXCEPT ![m] = "Locked"]
    /\ stage' = [stage EXCEPT ![m] = "io"]
    /\ io' = [io EXCEPT ![m] = "busy"]
    /\ file' = [file EXCEPT ![SwapPath(m)] = Empty]
    /\ UNCHANGED <<kind, uninstantiating, semVars, slots, image, snapshot>>

\* Nothing is in memory: uninstantiate returns Ok and changes nothing.
BeginNothingToWrite(m) ==
    /\ stage[m] = "begin"
    /\ kind[m] = "uninstantiate"
    /\ inner[m] = "UnsInst"
    /\ WorkDone(m)
    /\ UNCHANGED <<inner, io, uninstantiating, semVars, slots, memVars>>

\* deserialize_file and instantiate; start goes on into _start, the others
\* open the swap file.
Instantiate(m) ==
    /\ stage[m] = "permit"
    /\ m \in holders
    /\ Cardinality(slots) < PoolSize
    /\ slots' = slots \cup {m}
    /\ image' = [image EXCEPT ![m] = Fresh]
    /\ \/ /\ kind[m] = "start"
          /\ inner' = [inner EXCEPT ![m] = "GotInst"]
          /\ stage' = [stage EXCEPT ![m] = "guest"]
          /\ UNCHANGED io
       \/ /\ Loads(m)
          /\ stage' = [stage EXCEPT ![m] = "io"]
          /\ io' = [io EXCEPT ![m] = "busy"]
          /\ UNCHANGED inner
    /\ UNCHANGED <<kind, uninstantiating, semVars, file, snapshot>>

\* The module does not deserialize or link, or the pool has no free slot.
InstantiateFails(m) ==
    /\ stage[m] = "permit"
    /\ m \in holders
    /\ stage' = [stage EXCEPT ![m] = "unwind"]
    /\ UNCHANGED <<inner, kind, io, uninstantiating, semVars, slots, memVars>>

\* memory_min > mem_size: the fresh memory grows to the snapshot's size.
GrownPages(m) ==
    IF snapshot[m].memory_min > image[m].pages THEN snapshot[m].memory_min
                                               ELSE image[m].pages

\* Faulty: the globals of the snapshot are not set.
RestoredImage_NoGlobals(m) ==
    [heap |-> file[SwapPath(m)].heap, globals |-> Blank, pages |-> GrownPages(m)]

RestoredImage(m) == [heap |-> file[SwapPath(m)].heap,
                     globals |-> snapshot[m].globals,
                     pages |-> GrownPages(m)]

\* read_exact fills the memory, and the assertion finds the size it expects.
Readable(m) == /\ io[m] = "ok"
               /\ GrownPages(m) <= file[SwapPath(m)].pages
               /\ GrownPages(m) = snapshot[m].memory_min

\* The memory is read and the exported globals are set; wakeup goes on into
\* the guest.
Restore(m) ==
    /\ stage[m] = "io"
    /\ Loads(m)
    /\ Readable(m)
    /\ image' = [image EXCEPT ![m] = RestoredImage(m)]
    /\ inner' = [inner EXCEPT ![m] = "GotInst"]
    /\ io' = [io EXCEPT ![m] = "idle"]
    /\ \/ /\ kind[m] = "wakeup"
          /\ stage' = [stage EXCEPT ![m] = "guest"]
          /\ UNCHANGED kind
       \/ kind[m] = "load" /\ WorkDone(m)
    /\ UNCHANGED <<uninstantiating, semVars, slots, file, snapshot>>

\* Faulty: the error is taken for the end of the work.
RestoreFails_Ignored(m) ==
    /\ stage[m] = "io" /\ Loads(m) /\ io[m] = "error"
    /\ WorkDone(m)
    /\ io' = [io EXCEPT ![m] = "idle"]
    /\ UNCHANGED <<inner, uninstantiating, semVars, slots, memVars>>

\* The file cannot be opened, read, or is not of the expected size.
RestoreFails(m) ==
    /\ stage[m] = "io"
    /\ Loads(m)
    /\ io[m] # "busy"
    /\ ~Readable(m)
    /\ stage' = [stage EXCEPT ![m] = "unwind"]
    /\ UNCHANGED <<inner, kind, io, uninstantiating, semVars, slots, memVars>>

\* The write is done: snapshot, and into_data destroys the store.
SwapOut(m) ==
    /\ stage[m] = "io"
    /\ kind[m] = "uninstantiate"
    /\ io[m] = "ok"
    /\ snapshot' = [snapshot EXCEPT ![m] = [globals |-> image[m].globals,
                                            memory_min |-> image[m].pages]]
    /\ inner' = [inner EXCEPT ![m] = "UnsInst"]
    /\ slots' = slots \ {m}
    /\ image' = [image EXCEPT ![m] = Fresh]
    /\ io' = [io EXCEPT ![m] = "idle"]
    /\ stage' = [stage EXCEPT ![m] = "swapped"]
    /\ UNCHANGED <<kind, uninstantiating, semVars, file>>

\* drop(permit), and the future is done.
DropPermit(m) ==
    /\ stage[m] = "swapped"
    /\ Release(m)
    /\ WorkDone(m)
    /\ UNCHANGED <<inner, io, uninstantiating, slots, memVars>>

SwapOutFails(m) ==
    /\ stage[m] = "io"
    /\ kind[m] = "uninstantiate"
    /\ io[m] = "error"
    /\ stage' = [stage EXCEPT ![m] = "writeFailed"]
    /\ UNCHANGED <<inner, kind, io, uninstantiating, semVars, slots, memVars>>

\* `store, permit, instance` are dropped last to first.
DropPermitBeforeStore(m) ==
    /\ stage[m] = "writeFailed"
    /\ Release(m)
    /\ stage' = [stage EXCEPT ![m] = "unwind"]
    /\ UNCHANGED <<inner, kind, io, uninstantiating, slots, memVars>>

\* _start or wakeup runs in the instance and returns.
GuestReturns(m) ==
    /\ stage[m] = "guest"
    /\ \E c \in Contents, p \in image[m].pages..MaxPages :
          image' = [image EXCEPT ![m] = [heap |-> c, globals |-> c, pages |-> p]]
    /\ WorkDone(m)
    /\ UNCHANGED <<inner, io, uninstantiating, semVars, slots, file, snapshot>>

\* The guest traps, or a host function it calls panics.
GuestTraps(m) ==
    /\ stage[m] = "guest"
    /\ stage' = [stage EXCEPT ![m] = "unwind"]
    /\ UNCHANGED <<inner, kind, io, uninstantiating, semVars, slots, memVars>>

\* Everywhere else the store is dropped before the permit.
UnwindStore(m) ==
    /\ stage[m] = "unwind"
    /\ m \in slots
    /\ slots' = slots \ {m}
    /\ image' = [image EXCEPT ![m] = Fresh]
    /\ UNCHANGED <<inner, workVars, uninstantiating, semVars, file, snapshot>>

\* Faulty: the permit is released again after a failed write, is never
\* released, or is released while the store still lives.
UnwindPermit_Twice(m) ==
    /\ stage[m] = "unwind" /\ m \notin slots
    /\ Release(m)
    /\ stage' = [stage EXCEPT ![m] = "gone"]
    /\ UNCHANGED <<inner, kind, io, uninstantiating, slots, memVars>>
UnwindPermit_Never(m) ==
    /\ stage[m] = "unwind" /\ m \notin slots
    /\ stage' = [stage EXCEPT ![m] = "gone"]
    /\ UNCHANGED <<inner, kind, io, uninstantiating, semVars, slots, memVars>>
UnwindPermit_StoreLeaked(m) ==
    /\ stage[m] = "unwind" /\ m \in holders
    /\ Release(m)
    /\ stage' = [stage EXCEPT ![m] = "gone"]
    /\ UNCHANGED <<inner, kind, io, uninstantiating, slots, memVars>>

UnwindPermit(m) ==
    /\ stage[m] = "unwind"
    /\ m \notin slots
    /\ \/ m \in holders /\ Release(m)
       \/ m \notin holders /\ UNCHANGED semVars
    /\ stage' = [stage EXCEPT ![m] = "gone"]
    /\ UNCHANGED <<inner, kind, io, uninstantiating, slots, memVars>>

\* The blocking thread of tokio::fs finishes the open, read or write.
IoCompletes(m) ==
    /\ io[m] = "busy"
    /\ \/ /\ io' = [io EXCEPT ![m] = "ok"]
          /\ \/ /\ kind[m] = "uninstantiate"
                /\ file' = [file EXCEPT ![SwapPath(m)] =
                              [heap |-> image[m].heap, pages |-> image[m].pages]]
             \/ Loads(m) /\ UNCHANGED file
       \/ io' = [io EXCEPT ![m] = "error"] /\ UNCHANGED file
    /\ UNCHANGED <<inner, kind, stage, uninstantiating, semVars, slots, image, snapshot>>

----------------------------------------------------------------------------
Call(m) == \/ CallStart(m)
           \/ CallWakeup(m)
           \/ CallUninstantiate(m)
           \/ CallLoad(m)
           \/ TaskEnds(m)

\* One segment of the future, in a poll of the module's task.
PollWork(m) == \/ BeginAcquire(m)
               \/ BeginResident(m)
               \/ BeginWrite(m)
               \/ BeginNothingToWrite(m)
               \/ Instantiate(m)
               \/ InstantiateFails(m)
               \/ Restore(m)
               \/ RestoreFails(m)
               \/ SwapOut(m)
               \/ DropPermit(m)
               \/ SwapOutFails(m)
               \/ DropPermitBeforeStore(m)
               \/ GuestReturns(m)
               \/ GuestTraps(m)

Unwind(m) == UnwindStore(m) \/ UnwindPermit(m)

Next == \E m \in Modules : \/ Call(m)
                           \/ PollWork(m)
                           \/ Unwind(m)
                           \/ IoCompletes(m)

\* A task that can run is scheduled, and file operations end.  Nothing obliges
\* the owner to call.
Fairness == \A m \in Modules : /\ WF_vars(PollWork(m))
                               /\ WF_vars(Unwind(m))
                               /\ WF_vars(IoCompletes(m))

Spec == Init /\ [][Next]_vars /\ Fairness

----------------------------------------------------------------------------
(* Properties.                                                             *)

Waiting(m) == stage[m] = "permit" /\ m \notin holders

\* Every permit is free or assigned to one module, whatever path a future or
\* a dying task takes, and nobody queues while one is free.
PermitsConserved ==
    /\ permits + Cardinality(holders) = PoolSize
    /\ permits > 0 => waiters = <<>>

\* A module is queued for a permit exactly once, and exactly while its future
\* awaits acquire_owned (no stale waiter can swallow a permit).
QueueIsTheWaiting ==
    /\ {waiters[i] : i \in 1..Len(waiters)} = {m \in Modules : Waiting(m)}
    /\ \A i, j \in 1..Len(waiters) : waiters[i] = waiters[j] => i = j

\* A module whose store is alive although its permit went back to the pool.
Orphaned(m) == m \in slots \ holders

\* Whoever holds a permit finds a free slot in the pooling allocator; the one
\* exception is the window after a failed swap write (wasm.rs:144-153).
SlotForEveryPermit ==
    (\E m \in Modules : stage[m] = "permit" /\ m \in holders
                        /\ Cardinality(slots) >= PoolSize)
        => \E n \in Modules : Orphaned(n) /\ stage[n] = "unwind"

\* A future that is polled for the first time finds the MaybeInst in a state
\* it handles: the `unreachable!` of wasm.rs:224,301,379 is not reached.
WorkFindsInstance ==
    \A m \in Modules : stage[m] = "begin" =>
        IF kind[m] = "start" THEN inner[m] = "NotInst"
                             ELSE inner[m] \in {"UnsInst", "GotInst"}

\* read_exact gets a file of the size the snapshot promises: neither the short
\* read of wasm.rs:284 nor the assertion of wasm.rs:285 ends a module.
SwapFileFits ==
    \A m \in Modules : (stage[m] = "io" /\ Loads(m) /\ io[m] = "ok") =>
        Readable(m)

\* A module that dies gives its slot and its permit back.
DeadReturnsPool ==
    \A m \in Modules : stage[m] \in {"unwind", "writeFailed"}
                            ~> m \notin slots \cup holders

\* No waiter starves while permits keep coming back: the queue is fair.
NoStarvation ==
    \A m \in Modules : []<>(\E n \in Modules : stage[n] = "swapped")
        => (Waiting(m) ~> m \in holders)

(* Refinement: swap files, snapshots and permits implement ResidentPool.   *)

\* Not an Image: it has no page.
Lost == [heap |-> Blank, globals |-> Blank, pages |-> 0]

\* What the guest of m finds when it runs next: the live instance, or what a
\* reload will rebuild from the swap file and the snapshot.
GuestMemory(m) ==
    IF stage[m] \in {"writeFailed", "unwind", "gone"} THEN Lost
    ELSE IF inner[m] = "GotInst" \/ (stage[m] = "io" /\ kind[m] = "uninstantiate")
         THEN image[m]
    ELSE IF inner[m] = "UnsInst" \/ (inner[m] = "Locked" /\ Loads(m))
         THEN [heap |-> file[SwapPath(m)].heap,
               globals |-> snapshot[m].globals,
               pages |-> file[SwapPath(m)].pages]
    ELSE Fresh

Running == {m \in Modules : stage[m] = "guest"}

Pool == INSTANCE ResidentPool
          WITH Images <- Image, FreshImage <- Fresh,
               memory <- [m \in Modules |-> GuestMemory(m)],
               resident <- slots, running <- Running

\* Swapping is invisible: a guest that is called finds the memory and globals its
\* last call left (wasm.rs:135-194, 239-314), and at most PoolSize modules are
\* resident.
MemoryPreserved == Pool!Spec
============================================================================

------------------------- MODULE WasmRuntime_proof -------------------------
(***************************************************************************)
(* Proofs about WasmRuntime, for any modules and any pool size.            *)
(*                                                                         *)
(* The inductive invariant says, for each module, what its stage tells of  *)
(* its MaybeInst, its permit and its slot (Shape), and that the semaphore  *)
(* is consistent with the stages (Semaphore).                              *)
(* ControllerModule_proof needs of the runtime it polls what the flag      *)
(* uninstantiating tells (Intent), and what a step of one module leaves    *)
(* alone.                                                                  *)
(* The last part is the refinement of ResidentPool: Saved adds to IInv     *)
(* what the swap file and the snapshot hold when an instance is not in     *)
(* memory.                                                                 *)
(***************************************************************************)
EXTENDS WasmRuntime, TLAPS, FiniteSetTheorems

Shape(m) ==
    /\ stage[m] \in {"none", "begin"} =>
         /\ inner[m] # "Locked"
         /\ m \in holders <=> inner[m] = "GotInst"
         /\ m \in slots <=> inner[m] = "GotInst"
    /\ stage[m] = "begin" =>
         /\ kind[m] # "none"
         /\ kind[m] = "start" <=> inner[m] = "NotInst"
    /\ stage[m] = "permit" => /\ inner[m] = "Locked"
                              /\ kind[m] \in {"start", "wakeup", "load"}
                              /\ m \notin slots
    /\ stage[m] = "io" => inner[m] = "Locked" /\ m \in holders /\ m \in slots
    /\ stage[m] = "guest" => inner[m] = "GotInst" /\ m \in holders /\ m \in slots
    /\ stage[m] = "swapped" => inner[m] = "UnsInst" /\ m \in holders /\ m \notin slots
    /\ stage[m] = "writeFailed" => m \in holders /\ m \in slots
    /\ stage[m] = "gone" => m \notin holders /\ m \notin slots

Queue ==
    /\ \A m \in Modules : Waiting(m) <=> \E i \in 1..Len(waiters) : waiters[i] = m
    /\ \A i, j \in 1..Len(waiters) : waiters[i] = waiters[j] => i = j

Semaphore ==
    /\ permits \in 0..PoolSize
    /\ waiters \in Seq(Modules)
    /\ holders \in SUBSET Modules
    /\ PermitsConserved
    /\ Queue

\* The type of everything but the semaphore.
Typed ==
    /\ inner \in [Modules -> {"Locked", "NotInst", "UnsInst", "GotInst"}]
    /\ kind \in [Modules -> Kinds]
    /\ stage \in [Modules -> Stages]
    /\ io \in [Modules -> {"idle", "busy", "ok", "error"}]
    /\ uninstantiating \in [Modules -> BOOLEAN]
    /\ slots \in SUBSET Modules
    /\ image \in [Modules -> Image]
    /\ file \in [Modules -> File]
    /\ snapshot \in [Modules -> Snapshot]

IInv == Typed /\ Semaphore /\ \A m \in Modules : Shape(m)

----------------------------------------------------------------------------
(* The semaphore.                                                          *)

\* A permit that is acquired, or queued for, by a module that is neither a
\* holder nor a waiter.
LEMMA AcquireKeepsSemaphore ==
    ASSUME Typed, Semaphore, NEW m \in Modules,
           m \notin holders, stage[m] # "permit",
           Acquire(m), stage' = [stage EXCEPT ![m] = "permit"]
    PROVE  /\ Semaphore'
           /\ holders' \in {holders, holders \cup {m}}
  <1> USE PoolAssumption DEF Semaphore, Typed
  <1>1. IsFiniteSet(holders) /\ Cardinality(holders) \in Nat
    BY FS_Subset, FS_CardinalityType
  <1>2. CASE permits > 0
    <2>1. /\ permits' = permits - 1
          /\ holders' = holders \cup {m}
          /\ waiters' = waiters
      BY <1>2 DEF Acquire
    <2>2. Cardinality(holders') = Cardinality(holders) + 1
      BY <1>1, <2>1, FS_AddElement
    <2>3. waiters = <<>>
      BY <1>2 DEF PermitsConserved
    <2>4. PermitsConserved'
      BY <1>1, <2>1, <2>2, <2>3 DEF PermitsConserved
    <2>5. \A n \in Modules : Waiting(n)' => Waiting(n)
      BY <2>1 DEF Waiting
    <2>6. Queue'
      BY <2>1, <2>3, <2>5 DEF Queue
    <2> QED
      BY <1>2, <2>1, <2>4, <2>6
  <1>3. CASE ~(permits > 0)
    <2>1. /\ permits = 0
          /\ permits' = permits
          /\ holders' = holders
          /\ waiters' = Append(waiters, m)
      BY <1>3 DEF Acquire
    <2>2. PermitsConserved'
      BY <2>1 DEF PermitsConserved
    <2>3. \A n \in Modules : Waiting(n)' <=> (Waiting(n) \/ n = m)
      BY <2>1 DEF Waiting
    <2>4. /\ waiters' \in Seq(Modules)
          /\ Len(waiters') = Len(waiters) + 1
          /\ waiters'[Len(waiters) + 1] = m
          /\ \A i \in 1..Len(waiters) : waiters'[i] = waiters[i]
      BY <2>1
    <2>5. \A i \in 1..Len(waiters) : waiters[i] # m /\ waiters[i] \in Modules
      BY DEF Queue, Waiting
    <2>6. \A i : i \in 1..Len(waiters') <=> i \in 1..Len(waiters) \/ i = Len(waiters) + 1
      BY <2>4
    <2>7. \A n \in Modules : (\E i \in 1..Len(waiters') : waiters'[i] = n)
                             <=> (\E i \in 1..Len(waiters) : waiters[i] = n) \/ n = m
      BY <2>4, <2>6
    <2>8. \A n \in Modules : Waiting(n)' <=> \E i \in 1..Len(waiters') : waiters'[i] = n
      BY <2>3, <2>7 DEF Queue
    <2>9. \A i, j \in 1..Len(waiters') : waiters'[i] = waiters'[j] => i = j
      <3> SUFFICES ASSUME NEW i \in 1..Len(waiters'), NEW j \in 1..Len(waiters'),
                          waiters'[i] = waiters'[j]
                   PROVE  i = j
        OBVIOUS
      <3>1. CASE i \in 1..Len(waiters) /\ j \in 1..Len(waiters)
        <4>1. waiters[i] = waiters[j]
          BY <2>4, <3>1
        <4> QED
          BY <3>1, <4>1 DEF Queue
      <3>2. CASE i = Len(waiters) + 1 \/ j = Len(waiters) + 1
        BY <2>4, <2>5, <2>6, <3>2
      <3> QED
        BY <2>6, <3>1, <3>2
    <2>10. Queue'
      BY <2>8, <2>9 DEF Queue
    <2> QED
      BY <2>1, <2>2, <2>4, <2>10
  <1> QED
    BY <1>2, <1>3

\* A permit that goes back to the pool, or to the first waiter, while the
\* module that held it leaves for a stage that does not await a permit.
LEMMA ReleaseKeepsSemaphore ==
    ASSUME Typed, Semaphore, NEW m \in Modules, NEW s,
           m \in holders, stage[m] # "permit", s # "permit",
           Release(m), stage' = [stage EXCEPT ![m] = s]
    PROVE  /\ Semaphore'
           /\ m \notin holders'
           /\ \A n \in Modules \ {m} : n \in holders' =>
                                          n \in holders \/ stage[n] = "permit"
           /\ \A n \in Modules \ {m} : n \in holders => n \in holders'
  <1> USE PoolAssumption DEF Semaphore, Typed
  <1>1. IsFiniteSet(holders) /\ Cardinality(holders) \in Nat
    BY FS_Subset, FS_CardinalityType
  <1>2. IsFiniteSet(holders \ {m}) /\ Cardinality(holders \ {m}) = Cardinality(holders) - 1
    BY <1>1, FS_RemoveElement
  <1>3. CASE waiters = <<>>
    <2>1. permits' = permits + 1 /\ holders' = holders \ {m} /\ waiters' = waiters
      BY <1>3 DEF Release
    <2>2. Cardinality(holders') = Cardinality(holders) - 1 /\ Cardinality(holders') \in Nat
      BY <1>2, <2>1, FS_CardinalityType
    <2>5. PermitsConserved' /\ permits' \in 0..PoolSize
      BY <1>1, <1>3, <2>1, <2>2 DEF PermitsConserved
    <2>3. \A n \in Modules : Waiting(n)' <=> Waiting(n)
      BY <2>1 DEF Waiting
    <2>4. Queue'
      BY <2>1, <2>3 DEF Queue
    <2> QED
      BY <2>1, <2>4, <2>5
  <1>4. CASE waiters # <<>>
    <2> DEFINE h == Head(waiters)
    <2>1. holders' = (holders \ {m}) \cup {h} /\ waiters' = Tail(waiters) /\ permits' = permits
      BY <1>4 DEF Release
    <2>2. /\ Len(waiters) \in Nat /\ Len(waiters) >= 1
          /\ h = waiters[1] /\ h \in Modules
          /\ Tail(waiters) \in Seq(Modules)
          /\ Len(Tail(waiters)) = Len(waiters) - 1
          /\ \A i \in 1..(Len(waiters) - 1) : Tail(waiters)[i] = waiters[i + 1]
      BY <1>4
    <2>3. Waiting(h)
      BY <2>2 DEF Queue
    <2>4. h # m /\ h \notin holders \ {m} /\ stage[h] = "permit"
      BY <2>3 DEF Waiting
    <2>5. Cardinality(holders') = Cardinality(holders)
      <3>1. Cardinality((holders \ {m}) \cup {h}) = Cardinality(holders \ {m}) + 1
        BY <1>2, <2>4, FS_AddElement
      <3> QED
        BY <1>1, <1>2, <2>1, <3>1
    <2>6. PermitsConserved'
      BY <1>4, <2>1, <2>5 DEF PermitsConserved
    <2>7. \A n \in Modules : Waiting(n)' <=> (Waiting(n) /\ n # h)
      BY <2>1, <2>4 DEF Waiting
    <2>8. \A i : i \in 1..Len(waiters) <=> i = 1 \/ (i - 1 \in 1..Len(waiters') /\ i \in Nat)
      BY <2>1, <2>2
    <2>9. \A n \in Modules : (\E i \in 1..Len(waiters') : waiters'[i] = n)
                             <=> (\E i \in 1..Len(waiters) : waiters[i] = n) /\ n # h
      <3> TAKE n \in Modules
      <3>1. ASSUME NEW i \in 1..Len(waiters'), waiters'[i] = n
            PROVE  i + 1 \in 1..Len(waiters) /\ waiters[i + 1] = n /\ n # h
        BY <2>1, <2>2, <3>1 DEF Queue
      <3>2. ASSUME NEW i \in 1..Len(waiters), waiters[i] = n, n # h
            PROVE  i - 1 \in 1..Len(waiters') /\ waiters'[i - 1] = n
        BY <2>1, <2>2, <3>2
      <3> QED
        BY <3>1, <3>2
    <2>10. \A n \in Modules : Waiting(n)' <=> \E i \in 1..Len(waiters') : waiters'[i] = n
      BY <2>7, <2>9 DEF Queue
    <2>11. ASSUME NEW i \in 1..Len(waiters'), NEW j \in 1..Len(waiters'),
                  waiters'[i] = waiters'[j]
           PROVE  i = j
      BY <2>1, <2>2, <2>11 DEF Queue
    <2>12. Queue'
      BY <2>10, <2>11 DEF Queue
    <2> QED
      BY <2>1, <2>2, <2>4, <2>6, <2>12
  <1> QED
    BY <1>3, <1>4

\* A step that leaves the semaphore alone, and no module starts or stops waiting.
LEMMA OthersKeepSemaphore ==
    ASSUME Semaphore, UNCHANGED semVars,
           \A n \in Modules : Waiting(n)' <=> Waiting(n)
    PROVE  Semaphore'
  BY DEF Semaphore, semVars, PermitsConserved, Queue

----------------------------------------------------------------------------
(* The inductive invariant.                                                *)

\* A runtime that just started: all permits are free and nothing is resident.
LEMMA InitEstablishesIInv == Init => IInv
  <1> SUFFICES ASSUME Init PROVE IInv
    OBVIOUS
  <1> USE PoolAssumption, MemoryAssumption DEF Init
  <1>1. Typed
    BY DEF Typed, Kinds, Stages, Image, File, Snapshot, Fresh
  <1>2. Semaphore
    BY FS_EmptySet DEF Semaphore, PermitsConserved, Queue, Waiting
  <1>3. \A m \in Modules : Shape(m)
    BY DEF Shape
  <1> QED
    BY <1>1, <1>2, <1>3 DEF IInv

\* A call of the owner: the semaphore and the instances are left alone.
LEMMA CallKeepsIInv ==
    ASSUME IInv, NEW m \in Modules, Call(m)
    PROVE  IInv'
  <1> USE DEF IInv, semVars, memVars, workVars
  <1>1. CASE CallStart(m)
    <2>1. Typed'
      BY <1>1 DEF Typed, CallStart, SetWork, Kinds, Stages
    <2>2. Semaphore'
      BY <1>1, OthersKeepSemaphore DEF Typed, Waiting, CallStart, SetWork
    <2>3. \A n \in Modules : Shape(n)'
      BY <1>1 DEF Typed, CallStart, SetWork, Shape
    <2> QED
      BY <2>1, <2>2, <2>3
  <1>2. CASE CallWakeup(m)
    <2>1. Typed'
      BY <1>2 DEF Typed, CallWakeup, SetWork, Kinds, Stages
    <2>2. Semaphore'
      BY <1>2, OthersKeepSemaphore DEF Typed, Waiting, CallWakeup, SetWork
    <2>3. \A n \in Modules : Shape(n)'
      BY <1>2 DEF Typed, CallWakeup, SetWork, Shape
    <2> QED
      BY <2>1, <2>2, <2>3
  <1>3. CASE CallUninstantiate(m)
    <2>1. Typed'
      BY <1>3 DEF Typed, CallUninstantiate, SetWork, Kinds, Stages
    <2>2. Semaphore'
      BY <1>3, OthersKeepSemaphore DEF Typed, Waiting, CallUninstantiate, SetWork
    <2>3. \A n \in Modules : Shape(n)'
      BY <1>3 DEF Typed, CallUninstantiate, SetWork, Shape
    <2> QED
      BY <2>1, <2>2, <2>3
  <1>4. CASE CallLoad(m)
    <2>1. Typed'
      BY <1>4 DEF Typed, CallLoad, SetWork, Kinds, Stages
    <2>2. Semaphore'
      BY <1>4, OthersKeepSemaphore DEF Typed, Waiting, CallLoad, SetWork
    <2>3. \A n \in Modules : Shape(n)'
      BY <1>4 DEF Typed, CallLoad, SetWork, Shape
    <2> QED
      BY <2>1, <2>2, <2>3
  <1>5. CASE TaskEnds(m)
    <2>1. Typed'
      BY <1>5 DEF Typed, TaskEnds, Stages
    <2>2. Semaphore'
      BY <1>5, OthersKeepSemaphore DEF Typed, Waiting, TaskEnds, Stages
    <2>3. \A n \in Modules : Shape(n)'
      BY <1>5 DEF Typed, TaskEnds, Stages, Shape
    <2> QED
      BY <2>1, <2>2, <2>3
  <1> QED
    BY <1>1, <1>2, <1>3, <1>4, <1>5 DEF Call

\* A segment of a future.
LEMMA PollWorkKeepsIInv ==
    ASSUME IInv, NEW m \in Modules, PollWork(m)
    PROVE  IInv'
  <1> USE PoolAssumption, MemoryAssumption DEF IInv, semVars, memVars, workVars
  <1>1. CASE BeginAcquire(m)
    <2>1. Typed'
      BY <1>1 DEF Typed, BeginAcquire, Kinds, Stages
    <2>2. /\ Semaphore'
          /\ holders' \in {holders, holders \cup {m}}
      BY <1>1, AcquireKeepsSemaphore DEF Shape, BeginAcquire
    <2>3. \A n \in Modules : Shape(n)'
      BY <1>1, <2>2 DEF Typed, BeginAcquire, Loads, Shape
    <2> QED
      BY <2>1, <2>2, <2>3
  <1>2. CASE BeginResident(m)
    <2>1. Typed'
      BY <1>2 DEF Typed, BeginResident, Kinds, Stages, WorkDone
    <2>2. Semaphore'
      BY <1>2, OthersKeepSemaphore DEF Typed, Waiting, BeginResident, WorkDone
    <2>3. \A n \in Modules : Shape(n)'
      BY <1>2 DEF Typed, BeginResident, WorkDone, Shape
    <2> QED
      BY <2>1, <2>2, <2>3
  <1>3. CASE BeginWrite(m)
    <2>1. Typed'
      BY <1>3
      DEF Typed, BeginWrite, Kinds, Stages, Image, File, Snapshot, Fresh, Empty, SwapPath
    <2>2. Semaphore'
      BY <1>3, OthersKeepSemaphore DEF Typed, Waiting, BeginWrite
    <2>3. \A n \in Modules : Shape(n)'
      BY <1>3 DEF Typed, BeginWrite, Shape
    <2> QED
      BY <2>1, <2>2, <2>3
  <1>4. CASE BeginNothingToWrite(m)
    <2>1. Typed'
      BY <1>4 DEF Typed, BeginNothingToWrite, Kinds, Stages, WorkDone
    <2>2. Semaphore'
      BY <1>4, OthersKeepSemaphore DEF Typed, Waiting, BeginNothingToWrite, WorkDone
    <2>3. \A n \in Modules : Shape(n)'
      BY <1>4 DEF Typed, BeginNothingToWrite, WorkDone, Shape
    <2> QED
      BY <2>1, <2>2, <2>3
  <1>5. CASE Instantiate(m)
    <2>1. Typed'
      <3>1. Fresh \in Image
        BY DEF Fresh, Image
      <3>2. image' \in [Modules -> Image]
        BY <1>5, <3>1 DEF Typed, Instantiate
      <3> QED
        BY <1>5, <3>2 DEF Typed, Instantiate, Stages
    <2>2. Semaphore'
      BY <1>5, OthersKeepSemaphore DEF Typed, Waiting, Instantiate
    <2>3. \A n \in Modules : Shape(n)'
      BY <1>5 DEF Typed, Instantiate, Shape
    <2> QED
      BY <2>1, <2>2, <2>3
  <1>6. CASE InstantiateFails(m)
    <2>1. Typed'
      BY <1>6 DEF Typed, InstantiateFails, Kinds, Stages
    <2>2. Semaphore'
      BY <1>6, OthersKeepSemaphore DEF Typed, Waiting, InstantiateFails
    <2>3. \A n \in Modules : Shape(n)'
      BY <1>6 DEF Typed, InstantiateFails, Shape
    <2> QED
      BY <2>1, <2>2, <2>3
  <1>7. CASE Restore(m)
    <2>1. Typed'
      BY <1>7
      DEF Typed, Restore, Kinds, Stages, Image, File, Snapshot, Fresh, WorkDone, Loads, RestoredImage, GrownPages, SwapPath
    <2>2. Semaphore'
      BY <1>7, OthersKeepSemaphore DEF Typed, Waiting, Restore, WorkDone, Loads
    <2>3. \A n \in Modules : Shape(n)'
      BY <1>7 DEF Typed, Restore, WorkDone, Loads, Shape
    <2> QED
      BY <2>1, <2>2, <2>3
  <1>8. CASE RestoreFails(m)
    <2>1. Typed'
      BY <1>8 DEF Typed, RestoreFails, Kinds, Stages
    <2>2. Semaphore'
      BY <1>8, OthersKeepSemaphore DEF Typed, Waiting, RestoreFails
    <2>3. \A n \in Modules : Shape(n)'
      BY <1>8 DEF Typed, RestoreFails, Shape
    <2> QED
      BY <2>1, <2>2, <2>3
  <1>9. CASE SwapOut(m)
    <2>1. Typed'
      BY <1>9 DEF Typed, SwapOut, Kinds, Stages, Image, File, Snapshot, Fresh
    <2>2. Semaphore'
      BY <1>9, OthersKeepSemaphore DEF Typed, Waiting, SwapOut
    <2>3. \A n \in Modules : Shape(n)'
      BY <1>9 DEF Typed, SwapOut, Shape
    <2> QED
      BY <2>1, <2>2, <2>3
  <1>10. CASE DropPermit(m)
    <2>1. Typed'
      BY <1>10 DEF Typed, DropPermit, Kinds, Stages, WorkDone
    <2>2. /\ Semaphore'
          /\ m \notin holders'
          /\ \A n \in Modules \ {m} : n \in holders' => n \in holders \/ stage[n] = "permit"
          /\ \A n \in Modules \ {m} : n \in holders => n \in holders'
      BY <1>10, ReleaseKeepsSemaphore DEF Shape, WorkDone, DropPermit
    <2>3. \A n \in Modules : Shape(n)'
      BY <1>10, <2>2 DEF Typed, DropPermit, WorkDone, Shape
    <2> QED
      BY <2>1, <2>2, <2>3
  <1>11. CASE SwapOutFails(m)
    <2>1. Typed'
      BY <1>11 DEF Typed, SwapOutFails, Kinds, Stages
    <2>2. Semaphore'
      BY <1>11, OthersKeepSemaphore DEF Typed, Waiting, SwapOutFails
    <2>3. \A n \in Modules : Shape(n)'
      BY <1>11 DEF Typed, SwapOutFails, Shape
    <2> QED
      BY <2>1, <2>2, <2>3
  <1>12. CASE DropPermitBeforeStore(m)
    <2>1. Typed'
      BY <1>12 DEF Typed, DropPermitBeforeStore, Kinds, Stages
    <2>2. /\ Semaphore'
          /\ m \notin holders'
          /\ \A n \in Modules \ {m} : n \in holders' => n \in holders \/ stage[n] = "permit"
          /\ \A n \in Modules \ {m} : n \in holders => n \in holders'
      BY <1>12, ReleaseKeepsSemaphore DEF Shape, WorkDone, DropPermitBeforeStore
    <2>3. \A n \in Modules : Shape(n)'
      BY <1>12, <2>2 DEF Typed, DropPermitBeforeStore, Shape
    <2> QED
      BY <2>1, <2>2, <2>3
  <1>13. CASE GuestReturns(m)
    <2>1. Typed'
      BY <1>13 DEF Typed, GuestReturns, Kinds, Stages, Image, File, Snapshot, Fresh, WorkDone
    <2>2. Semaphore'
      BY <1>13, OthersKeepSemaphore DEF Typed, Waiting, GuestReturns, WorkDone
    <2>3. \A n \in Modules : Shape(n)'
      BY <1>13 DEF Typed, GuestReturns, WorkDone, Shape
    <2> QED
      BY <2>1, <2>2, <2>3
  <1>14. CASE GuestTraps(m)
    <2>1. Typed'
      BY <1>14 DEF Typed, GuestTraps, Kinds, Stages
    <2>2. Semaphore'
      BY <1>14, OthersKeepSemaphore DEF Typed, Waiting, GuestTraps
    <2>3. \A n \in Modules : Shape(n)'
      BY <1>14 DEF Typed, GuestTraps, Shape
    <2> QED
      BY <2>1, <2>2, <2>3
  <1> QED
    BY <1>1, <1>2, <1>3, <1>4, <1>5, <1>6, <1>7, <1>8, <1>9, <1>10, <1>11, <1>12, <1>13, <1>14
    DEF PollWork

\* A module dies, or the disk answers.
LEMMA RestKeepsIInv ==
    ASSUME IInv, NEW m \in Modules, Unwind(m) \/ IoCompletes(m)
    PROVE  IInv'
  <1> USE PoolAssumption, MemoryAssumption DEF IInv, semVars, memVars, workVars
  <1>1. CASE UnwindStore(m)
    <2>1. Typed'
      BY <1>1 DEF Typed, UnwindStore, Kinds, Stages, Image, File, Snapshot, Fresh
    <2>2. Semaphore'
      BY <1>1, OthersKeepSemaphore DEF Typed, Waiting, UnwindStore
    <2>3. \A n \in Modules : Shape(n)'
      BY <1>1 DEF Typed, UnwindStore, Shape
    <2> QED
      BY <2>1, <2>2, <2>3
  <1>2. CASE UnwindPermit(m) /\ m \in holders
    <2>1. Typed'
      BY <1>2 DEF Typed, UnwindPermit, Kinds, Stages
    <2>2. /\ Semaphore'
          /\ m \notin holders'
          /\ \A n \in Modules \ {m} : n \in holders' => n \in holders \/ stage[n] = "permit"
          /\ \A n \in Modules \ {m} : n \in holders => n \in holders'
      BY <1>2, ReleaseKeepsSemaphore DEF UnwindPermit
    <2>3. \A n \in Modules : Shape(n)'
      BY <1>2, <2>2 DEF Typed, UnwindPermit, Shape
    <2> QED
      BY <2>1, <2>2, <2>3
  <1>3. CASE UnwindPermit(m) /\ m \notin holders
    <2>1. Typed'
      BY <1>3 DEF Typed, UnwindPermit, Kinds, Stages
    <2>2. Semaphore'
      BY <1>3, OthersKeepSemaphore DEF Typed, Waiting, UnwindPermit
    <2>3. \A n \in Modules : Shape(n)'
      BY <1>3 DEF Typed, UnwindPermit, Shape
    <2> QED
      BY <2>1, <2>2, <2>3
  <1>4. CASE IoCompletes(m)
    <2>1. Typed'
      <3>1. [heap |-> image[m].heap, pages |-> image[m].pages] \in File
        BY DEF Typed, Image, File
      <3>2. file' \in [Modules -> File]
        BY <1>4, <3>1 DEF Typed, IoCompletes, SwapPath
      <3> QED
        BY <1>4, <3>2 DEF Typed, IoCompletes
    <2>2. Semaphore'
      BY <1>4, OthersKeepSemaphore DEF Typed, Waiting, IoCompletes
    <2>3. \A n \in Modules : Shape(n)'
      BY <1>4 DEF Typed, IoCompletes, Loads, Shape
    <2> QED
      BY <2>1, <2>2, <2>3
  <1> QED
    BY <1>1, <1>2, <1>3, <1>4 DEF Unwind

\* Every step of every module keeps the invariant.
LEMMA NextKeepsIInv == IInv /\ [Next]_vars => IInv'
  <1> SUFFICES ASSUME IInv, [Next]_vars PROVE IInv'
    OBVIOUS
  <1>1. CASE Next
    BY <1>1, CallKeepsIInv, PollWorkKeepsIInv, RestKeepsIInv DEF Next
  <1>2. CASE UNCHANGED vars
    BY <1>2 DEF vars, workVars, semVars, memVars, IInv, Typed, Semaphore, PermitsConserved,
                Queue, Waiting, Shape
  <1> QED
    BY <1>1, <1>2

\* In every reachable state the stage of a module's future tells where its
\* instance, its permit and its slot are, and the semaphore agrees (wasm.rs:95-388).
THEOREM InductiveInvariant == Spec => []IInv
  BY InitEstablishesIInv, NextKeepsIInv, PTL DEF Spec

----------------------------------------------------------------------------
(* The theorems.                                                           *)

\* What an orphan is: only a module that dies after a failed swap write.
LEMMA OrphansUnwind ==
    ASSUME IInv, NEW m \in Modules, Orphaned(m)
    PROVE  stage[m] = "unwind"
  BY DEF IInv, Typed, Shape, Orphaned, Stages

\* While nothing is orphaned, a module that holds a permit for its instance
\* to come finds room: every other slot belongs to another permit.
LEMMA RoomWithoutOrphans ==
    ASSUME IInv, \A n \in Modules : ~Orphaned(n),
           NEW m \in Modules, stage[m] = "permit", m \in holders
    PROVE  Cardinality(slots) < PoolSize
  <1> USE PoolAssumption DEF IInv, Typed, Semaphore
  <1>1. slots \subseteq holders \ {m}
    BY DEF Orphaned, Shape
  <1>2. IsFiniteSet(holders) /\ Cardinality(holders) \in Nat
    BY FS_Subset, FS_CardinalityType
  <1>3. /\ IsFiniteSet(holders \ {m})
        /\ Cardinality(holders \ {m}) = Cardinality(holders) - 1
    BY <1>2, FS_RemoveElement
  <1>4. Cardinality(slots) <= Cardinality(holders \ {m}) /\ Cardinality(slots) \in Nat
    BY <1>1, <1>3, FS_Subset, FS_CardinalityType
  <1>5. Cardinality(holders) <= PoolSize
    BY <1>2 DEF PermitsConserved
  <1> QED
    BY <1>2, <1>3, <1>4, <1>5

\* The variables keep their types (wasm.rs:26-93 and the semaphore).
THEOREM TypeCorrect == Spec => []TypeOK
  <1>1. IInv => TypeOK
    BY DEF IInv, Typed, Semaphore, TypeOK
  <1> QED
    BY <1>1, InductiveInvariant, PTL

\* For every pool size and any number of modules no permit is lost, forged or
\* kept from a waiter, through failed writes, traps and deaths.
THEOREM PermitsAreConserved == Spec => []PermitsConserved
  <1>1. IInv => PermitsConserved
    BY DEF IInv, Semaphore
  <1> QED
    BY <1>1, InductiveInvariant, PTL

\* The semaphore's queue holds each module that awaits acquire_owned, once.
THEOREM QueueIsExact == Spec => []QueueIsTheWaiting
  <1>1. ASSUME IInv PROVE QueueIsTheWaiting
    <2>1. \A i \in 1..Len(waiters) : waiters[i] \in Modules
      BY <1>1 DEF IInv, Semaphore
    <2> QED
      BY <1>1, <2>1 DEF IInv, Semaphore, Queue, QueueIsTheWaiting
  <1> QED
    BY <1>1, InductiveInvariant, PTL

\* A permit is a promise of a slot in the pooling allocator, except while a
\* module whose swap write failed still drops its store.
THEOREM PermitsHaveSlots == Spec => []SlotForEveryPermit
  <1>1. ASSUME IInv PROVE SlotForEveryPermit
    <2>1. Cardinality(slots) \in Nat
      BY <1>1, PoolAssumption, FS_Subset, FS_CardinalityType DEF IInv, Typed
    <2> QED
      BY <1>1, <2>1, PoolAssumption, OrphansUnwind, RoomWithoutOrphans DEF SlotForEveryPermit
  <1> QED
    BY <1>1, InductiveInvariant, PTL

\* No future of wasm.rs reaches its `unreachable!`.
THEOREM FuturesFindTheirInstance == Spec => []WorkFindsInstance
  <1>1. IInv => WorkFindsInstance
    BY DEF IInv, Typed, Shape, WorkFindsInstance
  <1> QED
    BY <1>1, InductiveInvariant, PTL
----------------------------------------------------------------------------
(* What the owner of a runtime relies on (ControllerModule_proof).         *)

\* What the flag uninstantiating tells of the future and of the instance.
Intent(m) ==
    /\ stage[m] \in {"begin", "permit", "io", "guest", "swapped"} =>
         (uninstantiating[m] <=> kind[m] = "uninstantiate")
    /\ stage[m] = "guest" => kind[m] \in {"start", "wakeup"}
    /\ stage[m] = "swapped" => kind[m] = "uninstantiate"
    /\ stage[m] = "none" /\ ~uninstantiating[m] => inner[m] = "GotInst"

\* What a segment of a future does to its own module.
LEMMA PollWorkFacts ==
    ASSUME IInv, NEW m \in Modules, PollWork(m)
    PROVE  /\ uninstantiating' = uninstantiating
           /\ kind'[m] \in {kind[m], "none"}
           /\ stage[m] # "none"
           /\ ~Waiting(m)
           /\ stage[m] = "io" => io[m] # "busy"
  <1> USE DEF IInv, Typed
  <1>1. CASE \/ BeginAcquire(m) \/ BeginResident(m) \/ BeginWrite(m)
             \/ BeginNothingToWrite(m)
    BY <1>1 DEF BeginAcquire, BeginResident, BeginWrite, BeginNothingToWrite, WorkDone, Waiting
  <1>2. CASE Instantiate(m) \/ InstantiateFails(m)
    BY <1>2 DEF Instantiate, InstantiateFails, Waiting
  <1>3. CASE Restore(m) \/ RestoreFails(m) \/ SwapOut(m) \/ SwapOutFails(m)
    BY <1>3 DEF Restore, RestoreFails, SwapOut, SwapOutFails, WorkDone, Waiting, Readable
  <1>4. CASE \/ DropPermit(m) \/ DropPermitBeforeStore(m)
             \/ GuestReturns(m) \/ GuestTraps(m)
    BY <1>4 DEF DropPermit, DropPermitBeforeStore, GuestReturns, GuestTraps, WorkDone, Waiting
  <1> QED
    BY <1>1, <1>2, <1>3, <1>4 DEF PollWork

\* A step of one module leaves what the others' futures are at alone.
LEMMA OthersLeftAlone ==
    ASSUME IInv, NEW m \in Modules, NEW n \in Modules, n # m,
           Call(m) \/ PollWork(m) \/ Unwind(m) \/ IoCompletes(m)
    PROVE  /\ stage'[n] = stage[n] /\ kind'[n] = kind[n] /\ inner'[n] = inner[n]
           /\ io'[n] = io[n] /\ uninstantiating'[n] = uninstantiating[n]
  <1> USE DEF IInv, Typed
  <1>1. CASE Call(m)
    BY <1>1 DEF Call, CallStart, CallWakeup, CallUninstantiate, CallLoad, TaskEnds, SetWork
  <1>2. CASE \/ BeginAcquire(m) \/ BeginResident(m) \/ BeginWrite(m)
             \/ BeginNothingToWrite(m)
    BY <1>2 DEF BeginAcquire, BeginResident, BeginWrite, BeginNothingToWrite, WorkDone
  <1>3. CASE Instantiate(m) \/ InstantiateFails(m)
    BY <1>3 DEF Instantiate, InstantiateFails
  <1>4. CASE Restore(m) \/ RestoreFails(m) \/ SwapOut(m) \/ SwapOutFails(m)
    BY <1>4 DEF Restore, RestoreFails, SwapOut, SwapOutFails, WorkDone
  <1>5. CASE \/ DropPermit(m) \/ DropPermitBeforeStore(m)
             \/ GuestReturns(m) \/ GuestTraps(m)
    BY <1>5 DEF DropPermit, DropPermitBeforeStore, GuestReturns, GuestTraps, WorkDone
  <1>6. CASE Unwind(m) \/ IoCompletes(m)
    BY <1>6 DEF Unwind, UnwindStore, UnwindPermit, IoCompletes, workVars
  <1> QED
    BY <1>1, <1>2, <1>3, <1>4, <1>5, <1>6 DEF PollWork

\* The wakeup of a resident instance goes straight to the guest.
LEMMA ResidentPoll ==
    ASSUME IInv, NEW m \in Modules, PollWork(m), inner[m] = "GotInst",
           stage[m] \in {"begin", "guest", "none", "unwind"},
           stage[m] = "begin" => kind[m] = "wakeup"
    PROVE  inner'[m] = "GotInst" /\ stage'[m] \in {"guest", "none", "unwind"}
  <1> USE DEF IInv, Typed
  <1>1. BeginResident(m) \/ GuestReturns(m) \/ GuestTraps(m)
    BY DEF PollWork, BeginAcquire, BeginWrite, BeginNothingToWrite, Instantiate,
           InstantiateFails, Restore, RestoreFails, SwapOut, DropPermit, SwapOutFails,
           DropPermitBeforeStore
  <1> QED
    BY <1>1 DEF BeginResident, GuestReturns, GuestTraps, WorkDone

\* The flag of a runtime that just started.
LEMMA InitEstablishesIntent == Init => \A m \in Modules : Intent(m)
  BY DEF Init, Intent

\* Only a call sets the flag, for the future that it sets.
LEMMA NextKeepsIntent ==
    ASSUME IInv, [Next]_vars, \A m \in Modules : Intent(m)
    PROVE  \A m \in Modules : Intent(m)'
  <1>1. ASSUME NEW m \in Modules,
               Call(m) \/ PollWork(m) \/ Unwind(m) \/ IoCompletes(m)
        PROVE  Intent(m)'
    <2> USE DEF IInv, Typed, Intent
    <2>1. CASE Call(m)
      BY <2>1 DEF Call, CallStart, CallWakeup, CallUninstantiate, CallLoad, TaskEnds, SetWork
    <2>2. CASE \/ BeginAcquire(m) \/ BeginResident(m) \/ BeginWrite(m)
               \/ BeginNothingToWrite(m)
      BY <2>2 DEF BeginAcquire, BeginResident, BeginWrite, BeginNothingToWrite, WorkDone, Loads
    <2>3. CASE Instantiate(m) \/ InstantiateFails(m)
      BY <2>3 DEF Instantiate, InstantiateFails, Loads
    <2>4. CASE Restore(m) \/ RestoreFails(m) \/ SwapOut(m) \/ SwapOutFails(m)
      BY <2>4 DEF Restore, RestoreFails, SwapOut, SwapOutFails, WorkDone, Loads
    <2>5. CASE \/ DropPermit(m) \/ DropPermitBeforeStore(m)
               \/ GuestReturns(m) \/ GuestTraps(m)
      BY <2>5 DEF DropPermit, DropPermitBeforeStore, GuestReturns, GuestTraps, WorkDone, Shape
    <2>6. CASE Unwind(m) \/ IoCompletes(m)
      BY <2>6 DEF Unwind, UnwindStore, UnwindPermit, IoCompletes, workVars
    <2> QED
      BY <1>1, <2>1, <2>2, <2>3, <2>4, <2>5, <2>6 DEF PollWork
  <1>2. ASSUME NEW m \in Modules, NEW n \in Modules,
               Call(m) \/ PollWork(m) \/ Unwind(m) \/ IoCompletes(m)
        PROVE  Intent(n)'
    <2>1. CASE n = m
      BY <1>1, <1>2, <2>1
    <2>2. CASE n # m
      BY <1>2, <2>2, OthersLeftAlone DEF Intent
    <2> QED
      BY <2>1, <2>2
  <1>3. CASE UNCHANGED vars
    BY <1>3 DEF vars, workVars, Intent
  <1> QED
    BY <1>2, <1>3 DEF Next

----------------------------------------------------------------------------
(* WasmRuntime implements ResidentPool: swapping is invisible to the guests.*)

Dying(m) == stage[m] \in {"writeFailed", "unwind", "gone"}

\* The guest's memory is in the swap file and the snapshot.
Outside(m) == /\ ~Dying(m)
              /\ inner[m] = "UnsInst" \/ (inner[m] = "Locked" /\ Loads(m))

Saved(m) ==
    /\ Outside(m) => file[m].pages = snapshot[m].memory_min
    /\ stage[m] = "io" => Loads(m) \/ kind[m] = "uninstantiate"
    /\ stage[m] = "io" /\ Loads(m) => image[m] = Fresh
    /\ stage[m] = "io" /\ kind[m] = "uninstantiate" /\ io[m] = "ok" =>
         /\ file[m].heap = image[m].heap
         /\ file[m].pages = image[m].pages
    /\ io[m] = "busy" => stage[m] = "io"

SavedInv == IInv /\ \A m \in Modules : Saved(m)

----------------------------------------------------------------------------
(* The strengthened invariant.                                             *)

\* No module is swapped out at the start, so nothing is promised of its file.
LEMMA InitEstablishesSaved == Init => SavedInv
  BY InitEstablishesIInv DEF SavedInv, Saved, Outside, Dying, Loads, Init

\* Every step keeps file and snapshot of a swapped-out module in agreement.
LEMMA NextKeepsSaved == SavedInv /\ [Next]_vars => SavedInv'
  <1> SUFFICES ASSUME SavedInv, [Next]_vars
               PROVE  \A n \in Modules : Saved(n)'
    BY NextKeepsIInv DEF SavedInv
  <1> USE DEF SavedInv, IInv, Typed, Saved, Outside, Dying, Loads, semVars, memVars, workVars
  <1>1. ASSUME NEW m \in Modules, Call(m) PROVE \A n \in Modules : Saved(n)'
    <2>1. CASE CallStart(m)
      BY <2>1 DEF CallStart, SetWork
    <2>2. CASE CallWakeup(m)
      BY <2>2 DEF CallWakeup, SetWork, Shape
    <2>3. CASE CallUninstantiate(m)
      BY <2>3 DEF CallUninstantiate, SetWork, Shape
    <2>4. CASE CallLoad(m)
      BY <2>4 DEF CallLoad, SetWork, Shape
    <2>5. CASE TaskEnds(m)
      BY <2>5 DEF TaskEnds
    <2> QED
      BY <1>1, <2>1, <2>2, <2>3, <2>4, <2>5 DEF Call
  <1>2. ASSUME NEW m \in Modules, PollWork(m) PROVE \A n \in Modules : Saved(n)'
    <2>1. CASE BeginAcquire(m)
      BY <2>1 DEF BeginAcquire, Shape
    <2>2. CASE BeginResident(m)
      BY <2>2 DEF BeginResident, WorkDone
    <2>3. CASE BeginWrite(m)
      BY <2>3 DEF BeginWrite, SwapPath, Empty
    <2>4. CASE BeginNothingToWrite(m)
      BY <2>4 DEF BeginNothingToWrite, WorkDone
    <2>5. CASE Instantiate(m)
      BY <2>5 DEF Instantiate, Shape
    <2>6. CASE InstantiateFails(m)
      BY <2>6 DEF InstantiateFails
    <2>7. CASE Restore(m)
      BY <2>7 DEF Restore, WorkDone
    <2>8. CASE RestoreFails(m)
      BY <2>8 DEF RestoreFails
    <2>9. CASE SwapOut(m)
      BY <2>9 DEF SwapOut, Shape
    <2>10. CASE DropPermit(m)
      BY <2>10 DEF DropPermit, WorkDone, Shape
    <2>11. CASE SwapOutFails(m)
      BY <2>11 DEF SwapOutFails
    <2>12. CASE DropPermitBeforeStore(m)
      BY <2>12 DEF DropPermitBeforeStore
    <2>13. CASE GuestReturns(m)
      BY <2>13 DEF GuestReturns, WorkDone, Shape
    <2>14. CASE GuestTraps(m)
      BY <2>14 DEF GuestTraps
    <2> QED
      BY <1>2, <2>1, <2>2, <2>3, <2>4, <2>5, <2>6, <2>7, <2>8, <2>9, <2>10, <2>11, <2>12,
         <2>13, <2>14 DEF PollWork
  <1>3. ASSUME NEW m \in Modules, Unwind(m) \/ IoCompletes(m)
        PROVE  \A n \in Modules : Saved(n)'
    <2>1. CASE UnwindStore(m)
      BY <2>1 DEF UnwindStore, Shape
    <2>2. CASE UnwindPermit(m)
      BY <2>2 DEF UnwindPermit, Shape
    <2>3. CASE IoCompletes(m)
      <3>1. stage[m] = "io" /\ inner[m] = "Locked"
        BY <2>3 DEF IoCompletes, Shape
      <3>2. CASE kind[m] = "uninstantiate"
        <4>1. io'[m] = "ok" => file'[m].heap = image[m].heap /\ file'[m].pages = image[m].pages
          BY <2>3, <3>2 DEF IoCompletes, SwapPath
        <4>2. Saved(m)'
          BY <2>3, <3>1, <3>2, <4>1 DEF IoCompletes
        <4>3. \A n \in Modules \ {m} : Saved(n)'
          BY <2>3 DEF IoCompletes, SwapPath
        <4> QED
          BY <4>2, <4>3
      <3>3. CASE Loads(m)
        BY <2>3, <3>1, <3>3 DEF IoCompletes
      <3> QED
        BY <3>1, <3>2, <3>3
    <2> QED
      BY <1>3, <2>1, <2>2, <2>3 DEF Unwind
  <1>4. CASE UNCHANGED vars
    BY <1>4 DEF vars
  <1> QED
    BY <1>1, <1>2, <1>3, <1>4 DEF Next

\* What a reload reads is what the swap-out promised: no short read, and the
\* assertion on the sizes (wasm.rs:284-285) holds.
THEOREM SwapFilesFit == Spec => []SwapFileFits
  <1>1. SavedInv => SwapFileFits
    <2> SUFFICES ASSUME SavedInv, NEW m \in Modules, stage[m] = "io", Loads(m), io[m] = "ok"
                 PROVE  Readable(m)
      BY DEF SwapFileFits
    <2>1. inner[m] = "Locked"
      BY DEF SavedInv, IInv, Shape
    <2>2. file[m].pages = snapshot[m].memory_min /\ image[m] = Fresh
      BY <2>1 DEF SavedInv, Saved, Outside, Dying
    <2>3. snapshot[m].memory_min \in BasePages..MaxPages
      BY DEF SavedInv, IInv, Typed, Snapshot
    <2> QED
      BY <2>2, <2>3, MemoryAssumption DEF Readable, GrownPages, SwapPath, Fresh
  <1> QED
    BY <1>1, InitEstablishesSaved, NextKeepsSaved, PTL DEF Spec

----------------------------------------------------------------------------
(* The refinement: every step is a step of ResidentPool, or changes neither *)
(* a guest's memory nor who is resident or running.                        *)

SameMemory == \A n \in Modules : GuestMemory(n)' = GuestMemory(n)

OthersSameMemory(m) == \A n \in Modules \ {m} : GuestMemory(n)' = GuestMemory(n)

Invisible == SameMemory /\ slots' = slots /\ Running' = Running

\* A step that changes neither a guest's memory, nor the slots, nor who runs is
\* a stutter.
LEMMA InvisibleStutters == Invisible => UNCHANGED Pool!vars
  BY DEF Invisible, SameMemory, Pool!vars

\* A future that fails, a guest that traps or a task that ends is a death.
LEMMA DeathIsDie ==
    ASSUME NEW m \in Modules, GuestMemory(m)' = Lost, OthersSameMemory(m),
           slots' = slots, Running' = Running \ {m}
    PROVE  Pool!Next
  <1>1. [n \in Modules |-> GuestMemory(n)]'
           = [[n \in Modules |-> GuestMemory(n)] EXCEPT ![m] = Lost]
    BY DEF OthersSameMemory
  <1> QED
    BY <1>1 DEF Pool!Next, Pool!Die

\* What the file and the snapshot hold is not the memory of a dead module.
LEMMA SwapOutIsEvict ==
    ASSUME NEW m \in Modules, SameMemory, m \in slots, m \notin Running,
           slots' = slots \ {m}, Running' = Running
    PROVE  Pool!Next
  <1>1. UNCHANGED [n \in Modules |-> GuestMemory(n)]
    BY DEF SameMemory
  <1> QED
    BY <1>1 DEF Pool!Next, Pool!Evict

\* The guest of a resident module is called.
LEMMA CallIsEnter ==
    ASSUME NEW m \in Modules, SameMemory, m \in slots, GuestMemory(m) # Lost,
           slots' = slots, Running' = Running \cup {m}
    PROVE  Pool!Next
  <1>1. UNCHANGED [n \in Modules |-> GuestMemory(n)]
    BY DEF SameMemory
  <1>2. [n \in Modules |-> GuestMemory(n)][m] # Lost
    OBVIOUS
  <1> QED
    BY <1>1, <1>2 DEF Pool!Next, Pool!Enter

\* Every step of a future is one step of ResidentPool or none.
LEMMA StepsRefine == SavedInv /\ SavedInv' /\ [Next]_vars => [Pool!Next]_Pool!vars
  <1> SUFFICES ASSUME SavedInv, SavedInv', [Next]_vars
               PROVE  [Pool!Next]_Pool!vars
    OBVIOUS
  <1> USE MemoryAssumption DEF SavedInv, IInv, Typed, GuestMemory, Running, Loads, semVars,
                           memVars, workVars
  <1>1. ASSUME NEW m \in Modules, Call(m) PROVE [Pool!Next]_Pool!vars
    <2>1. CASE CallStart(m)
      <3>1. Invisible
        BY <2>1 DEF Invisible, SameMemory, CallStart, SetWork
      <3> QED
        BY <3>1, InvisibleStutters
    <2>2. CASE CallWakeup(m)
      <3>1. Invisible
        BY <2>2 DEF Invisible, SameMemory, CallWakeup, SetWork, Shape
      <3> QED
        BY <3>1, InvisibleStutters
    <2>3. CASE CallUninstantiate(m)
      <3>1. Invisible
        BY <2>3 DEF Invisible, SameMemory, CallUninstantiate, SetWork, Shape
      <3> QED
        BY <3>1, InvisibleStutters
    <2>4. CASE CallLoad(m)
      <3>1. Invisible
        BY <2>4 DEF Invisible, SameMemory, CallLoad, SetWork, Shape
      <3> QED
        BY <3>1, InvisibleStutters
    <2>5. CASE TaskEnds(m)
      <3>1. GuestMemory(m)' = Lost /\ OthersSameMemory(m) /\ slots' = slots
        BY <2>5 DEF TaskEnds, OthersSameMemory
      <3>2. Running' = Running \ {m}
        BY <2>5 DEF TaskEnds
      <3> QED
        BY <3>1, <3>2, DeathIsDie
    <2> QED
      BY <1>1, <2>1, <2>2, <2>3, <2>4, <2>5 DEF Call
  <1>2. ASSUME NEW m \in Modules, PollWork(m) PROVE [Pool!Next]_Pool!vars
    <2>1. CASE BeginAcquire(m)
      <3>1. Invisible
        BY <2>1 DEF Invisible, SameMemory, BeginAcquire
      <3> QED
        BY <3>1, InvisibleStutters
    <2>2. CASE BeginResident(m)
      <3>1. SameMemory /\ slots' = slots /\ m \in slots
        BY <2>2 DEF SameMemory, BeginResident, WorkDone, Shape
      <3>2. CASE kind[m] = "load"
        <4>1. Running' = Running
          BY <2>2, <3>2 DEF BeginResident, WorkDone
        <4> QED
          BY <3>1, <4>1, InvisibleStutters DEF Invisible
      <3>3. CASE kind[m] # "load"
        <4>1. Running' = Running \cup {m}
          BY <2>2, <3>3 DEF BeginResident
        <4>2. GuestMemory(m) # Lost
          BY <2>2 DEF BeginResident, Image, Lost
        <4> QED
          BY <3>1, <4>1, <4>2, CallIsEnter
      <3> QED
        BY <3>2, <3>3
    <2>3. CASE BeginWrite(m)
      <3>1. Invisible
        BY <2>3 DEF Invisible, SameMemory, BeginWrite, SwapPath
      <3> QED
        BY <3>1, InvisibleStutters
    <2>4. CASE BeginNothingToWrite(m)
      <3>1. Invisible
        BY <2>4 DEF Invisible, SameMemory, BeginNothingToWrite, WorkDone
      <3> QED
        BY <3>1, InvisibleStutters
    <2>5. CASE Instantiate(m)
      <3>1. SameMemory
        BY <2>5 DEF SameMemory, Instantiate, Shape
      <3>2. m \notin slots /\ Cardinality(slots) < PoolSize /\ slots' = slots \cup {m}
        BY <2>5 DEF Instantiate, Shape
      <3>3. GuestMemory(m) # Lost
        <4>1. stage[m] = "permit" /\ inner[m] = "Locked"
          BY <2>5 DEF Instantiate, Shape
        <4>2. CASE Loads(m)
          <5>1. file[m].pages = snapshot[m].memory_min
            BY <4>1, <4>2 DEF Saved, Outside, Dying
          <5>2. file[m].pages \in BasePages..MaxPages
            BY <5>1 DEF Snapshot
          <5>3. GuestMemory(m).pages = file[m].pages
            BY <4>1, <4>2 DEF SwapPath
          <5> QED
            BY <5>2, <5>3 DEF Lost
        <4>3. CASE ~Loads(m)
          BY <4>1, <4>3 DEF Fresh, Lost
        <4> QED
          BY <4>2, <4>3
      <3>4. UNCHANGED [n \in Modules |-> GuestMemory(n)]
        BY <3>1 DEF SameMemory
      <3>5. [n \in Modules |-> GuestMemory(n)][m] # Lost
        BY <3>3
      <3> HIDE DEF GuestMemory
      <3>6. Cardinality(slots) = Pool!Cardinality(slots)
        BY DEF Cardinality, Pool!Cardinality
      <3>7. Running' \in {Running, Running \cup {m}}
        BY <2>5 DEF Instantiate
      <3>8. Pool!Admit(m)
        BY <3>2, <3>4, <3>5, <3>6, <3>7 DEF Pool!Admit
      <3> QED
        BY <3>8 DEF Pool!Next
    <2>6. CASE InstantiateFails(m)
      <3>1. GuestMemory(m)' = Lost /\ OthersSameMemory(m) /\ slots' = slots
        BY <2>6 DEF InstantiateFails, OthersSameMemory
      <3>2. Running' = Running \ {m}
        BY <2>6 DEF InstantiateFails
      <3> QED
        BY <3>1, <3>2, DeathIsDie
    <2>7. CASE Restore(m)
      <3>1. image'[m] = [heap |-> file[m].heap, globals |-> snapshot[m].globals,
                         pages |-> file[m].pages]
        BY <2>7 DEF Restore, Readable, RestoredImage, SwapPath, Saved, Outside, Dying, Shape
      <3>2. SameMemory /\ slots' = slots
        <4>1. GuestMemory(m) = [heap |-> file[m].heap, globals |-> snapshot[m].globals,
                                pages |-> file[m].pages]
          BY <2>7 DEF Restore, SwapPath, Shape
        <4>2. GuestMemory(m)' = image'[m]
          BY <2>7 DEF Restore, WorkDone
        <4>3. OthersSameMemory(m) /\ slots' = slots
          BY <2>7 DEF OthersSameMemory, Restore, WorkDone, SwapPath
        <4> HIDE DEF GuestMemory
        <4> QED
          BY <3>1, <4>1, <4>2, <4>3 DEF SameMemory, OthersSameMemory
      <3>3. CASE kind[m] = "load"
        <4>1. Running' = Running
          BY <2>7, <3>3 DEF Restore, WorkDone
        <4> QED
          BY <3>2, <4>1, InvisibleStutters DEF Invisible
      <3>4. CASE kind[m] = "wakeup"
        <4>1. Running' = Running \cup {m}
          BY <2>7, <3>4 DEF Restore
        <4>2. m \in slots
          BY <2>7 DEF Restore, Shape
        <4>3. GuestMemory(m)' # Lost
          BY <2>7 DEF Restore, WorkDone, Image, Lost
        <4>4. GuestMemory(m) # Lost
          BY <3>2, <4>3 DEF SameMemory, Lost
        <4> HIDE DEF GuestMemory
        <4> QED
          BY <3>2, <4>1, <4>2, <4>4, CallIsEnter
      <3> QED
        BY <2>7, <3>3, <3>4 DEF Restore
    <2>8. CASE RestoreFails(m)
      <3>1. GuestMemory(m)' = Lost /\ OthersSameMemory(m) /\ slots' = slots
        BY <2>8 DEF RestoreFails, OthersSameMemory
      <3>2. Running' = Running \ {m}
        BY <2>8 DEF RestoreFails
      <3> QED
        BY <3>1, <3>2, DeathIsDie
    <2>9. CASE SwapOut(m)
      <3>1. image[m] = [heap |-> image[m].heap, globals |-> image[m].globals,
                        pages |-> image[m].pages]
        BY DEF Image
      <3>2. SameMemory
        BY <2>9, <3>1 DEF SameMemory, SwapOut, SwapPath, Saved, Shape
      <3>3. m \in slots /\ slots' = slots \ {m}
        BY <2>9 DEF SwapOut, Shape
      <3>4. m \notin Running /\ Running' = Running
        BY <2>9 DEF SwapOut
      <3> QED
        BY <3>2, <3>3, <3>4, SwapOutIsEvict
    <2>10. CASE DropPermit(m)
      <3>1. Invisible
        BY <2>10 DEF Invisible, SameMemory, DropPermit, WorkDone, Shape
      <3> QED
        BY <3>1, InvisibleStutters
    <2>11. CASE SwapOutFails(m)
      <3>1. GuestMemory(m)' = Lost /\ OthersSameMemory(m) /\ slots' = slots
        BY <2>11 DEF SwapOutFails, OthersSameMemory
      <3>2. Running' = Running \ {m}
        BY <2>11 DEF SwapOutFails
      <3> QED
        BY <3>1, <3>2, DeathIsDie
    <2>12. CASE DropPermitBeforeStore(m)
      <3>1. Invisible
        BY <2>12 DEF Invisible, SameMemory, DropPermitBeforeStore
      <3> QED
        BY <3>1, InvisibleStutters
    <2>13. CASE GuestReturns(m)
      <3>1. PICK i \in Image : image' = [image EXCEPT ![m] = i]
        <4>1. PICK c \in Contents, p \in image[m].pages..MaxPages :
                image' = [image EXCEPT ![m] = [heap |-> c, globals |-> c, pages |-> p]]
          BY <2>13 DEF GuestReturns
        <4>2. p \in BasePages..MaxPages
          BY DEF Image
        <4>3. [heap |-> c, globals |-> c, pages |-> p] \in Image
          BY <4>2 DEF Image
        <4> QED
          BY <4>1, <4>3
      <3>2. inner[m] = "GotInst" /\ m \in slots
        BY <2>13 DEF GuestReturns, Shape
      <3>3. GuestMemory(m)' = i /\ OthersSameMemory(m) /\ slots' = slots
        BY <2>13, <3>1, <3>2 DEF GuestReturns, WorkDone, OthersSameMemory
      <3>4. GuestMemory(m) # Lost
        BY <2>13, <3>2 DEF GuestReturns, Image, Lost
      <3>5. m \in Running /\ Running' = Running \ {m}
        BY <2>13 DEF GuestReturns, WorkDone
      <3> HIDE DEF GuestMemory
      <3>6. [n \in Modules |-> GuestMemory(n)]'
               = [[n \in Modules |-> GuestMemory(n)] EXCEPT ![m] = i]
        BY <3>3 DEF OthersSameMemory
      <3>7. [n \in Modules |-> GuestMemory(n)][m] # Lost
        BY <3>4
      <3> HIDE DEF Running
      <3>8. Pool!Run(m)
        BY <3>1, <3>3, <3>5, <3>6, <3>7 DEF Pool!Run
      <3> QED
        BY <3>8 DEF Pool!Next
    <2>14. CASE GuestTraps(m)
      <3>1. GuestMemory(m)' = Lost /\ OthersSameMemory(m) /\ slots' = slots
        BY <2>14 DEF GuestTraps, OthersSameMemory
      <3>2. Running' = Running \ {m}
        BY <2>14 DEF GuestTraps
      <3> QED
        BY <3>1, <3>2, DeathIsDie
    <2> QED
      BY <1>2, <2>1, <2>2, <2>3, <2>4, <2>5, <2>6, <2>7, <2>8, <2>9, <2>10, <2>11, <2>12,
         <2>13, <2>14 DEF PollWork
  <1>3. ASSUME NEW m \in Modules, Unwind(m) \/ IoCompletes(m) PROVE [Pool!Next]_Pool!vars
    <2>1. CASE UnwindStore(m)
      <3>1. SameMemory /\ m \in slots /\ slots' = slots \ {m}
        BY <2>1 DEF SameMemory, UnwindStore
      <3>2. m \notin Running /\ Running' = Running
        BY <2>1 DEF UnwindStore
      <3> QED
        BY <3>1, <3>2, SwapOutIsEvict
    <2>2. CASE UnwindPermit(m)
      <3>1. Invisible
        BY <2>2 DEF Invisible, SameMemory, UnwindPermit
      <3> QED
        BY <3>1, InvisibleStutters
    <2>3. CASE IoCompletes(m)
      <3>1. \A n \in Modules : file'[n] # file[n] => n = m /\ kind[m] = "uninstantiate"
        BY <2>3 DEF IoCompletes, SwapPath
      <3>2. stage[m] = "io" /\ inner[m] = "Locked"
        BY <2>3 DEF IoCompletes, Saved, Shape
      <3>3. Invisible
        BY <2>3, <3>1, <3>2 DEF Invisible, SameMemory, IoCompletes, SwapPath
      <3> QED
        BY <3>3, InvisibleStutters
    <2> QED
      BY <1>3, <2>1, <2>2, <2>3 DEF Unwind
  <1>4. CASE UNCHANGED vars
    <2>1. Invisible
      BY <1>4 DEF Invisible, SameMemory, vars
    <2> QED
      BY <2>1, InvisibleStutters
  <1> QED
    BY <1>1, <1>2, <1>3, <1>4 DEF Next

\* A guest finds the memory and the exported globals it left, whatever was
\* swapped out in between, and at most PoolSize modules are resident
\* (wasm.rs:135-194, 239-314, 317-388).
THEOREM SwappingIsInvisible == Spec => MemoryPreserved
  <1>1. Init => Pool!Init
    BY DEF Init, Pool!Init, GuestMemory, Running
  <1> QED
    BY <1>1, InitEstablishesSaved, NextKeepsSaved, StepsRefine, PTL
    DEF Spec, MemoryPreserved, Pool!Spec
=============================================================================

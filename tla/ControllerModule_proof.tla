----------------------- MODULE ControllerModule_proof -----------------------
(***************************************************************************)
(* Proofs about ControllerModule, for any request ids, channel capacity,   *)
(* other modules, pool size, periods and predictions.                      *)
(*                                                                         *)
(* The parts of the module keep their own inductive invariants, because    *)
(* every step of the module is a step of each part or leaves it alone.     *)
(* Above them the invariant says what relates the parts: when a web call   *)
(* can be in flight (Kept), what the place of the task tells of its work   *)
(* and of its wakers (Places), and where the end of an answer can still be *)
(* unread (Read).  The times and the timers have invariants of their own.  *)
(***************************************************************************)
EXTENDS ControllerModule, TLAPS

OP == INSTANCE OpsRunner_proof WITH stage <- opStage
WP == INSTANCE WasmRuntime_proof

----------------------------------------------------------------------------
(* The two instances of each part, the model's and the proof module's, are *)
(* the same definitions.                                                   *)

\* The runner's assumption holds of the constants given to it.
LEMMA RunnerAssumed == OP!OpsAssumption
  BY PartsAssumption DEF O!OpsAssumption, OP!OpsAssumption, O!IsFiniteSet, OP!IsFiniteSet

\* The runtime's assumptions hold of the constants given to it.
LEMMA RuntimeAssumed == WP!PoolAssumption /\ WP!MemoryAssumption
  BY PartsAssumption DEF W!PoolAssumption, WP!PoolAssumption, W!MemoryAssumption,
                         WP!MemoryAssumption, W!IsFiniteSet, WP!IsFiniteSet

\* What the owner reads of the runner.
LEMMA SameRunnerState ==
    /\ O!Init <=> OP!Init
    /\ O!TypeOK <=> OP!TypeOK
    /\ O!InFlight = OP!InFlight
    /\ \A i : O!Blocked(i) <=> OP!Blocked(i)
    /\ \A i : O!MaySend(i) <=> OP!MaySend(i)
    /\ \A i : O!Sending(i) <=> OP!Sending(i)
    /\ \A i : O!Returned(i) <=> OP!Returned(i)
    /\ \A r : O!Finished(r) <=> OP!Finished(r)
  <1>1. \A S : O!Cardinality(S) = OP!Cardinality(S)
    BY DEF O!Cardinality, OP!Cardinality
  <1>2. \A i : O!MaySend(i) <=> OP!MaySend(i)
    BY <1>1 DEF O!MaySend, OP!MaySend, O!Room, OP!Room
  <1>3. \A i : (O!Sending(i) <=> OP!Sending(i)) /\ (O!Returned(i) <=> OP!Returned(i))
    BY DEF O!Sending, OP!Sending, O!Returned, OP!Returned
  <1>4. \A i : O!Blocked(i) <=> OP!Blocked(i)
    BY <1>2, <1>3 DEF O!Blocked, OP!Blocked
  <1>5. O!Init <=> OP!Init
    BY DEF O!Init, OP!Init
  <1>6. O!TypeOK <=> OP!TypeOK
    BY DEF O!TypeOK, OP!TypeOK, O!Result, OP!Result
  <1>7. O!InFlight = OP!InFlight /\ \A r : O!Finished(r) <=> OP!Finished(r)
    BY DEF O!InFlight, OP!InFlight, O!Finished, OP!Finished
  <1> QED
    BY <1>2, <1>3, <1>4, <1>5, <1>6, <1>7

\* The steps of one operation.
LEMMA SameOperations ==
    ASSUME NEW i
    PROVE  /\ O!OpProceeds(i) <=> OP!OpProceeds(i)
           /\ O!OpSends(i) <=> OP!OpSends(i)
           /\ O!HandleOpcall(i) <=> OP!HandleOpcall(i)
           /\ O!PollOp(i) <=> OP!PollOp(i)
           /\ O!OpPends(i) <=> OP!OpPends(i)
           /\ O!OpReturns(i) <=> OP!OpReturns(i)
           /\ O!OpFails(i) <=> OP!OpFails(i)
           /\ O!Arrive(i) <=> OP!Arrive(i)
  <1> USE DEF O!Goto, OP!Goto, O!chanVars, OP!chanVars, O!opVars, OP!opVars
  <1>1. (O!Sending(i) <=> OP!Sending(i)) /\ (O!Returned(i) <=> OP!Returned(i))
    BY SameRunnerState
  <1>2. (O!MaySend(i) <=> OP!MaySend(i)) /\ (O!Blocked(i) <=> OP!Blocked(i))
    BY SameRunnerState
  <1>3. O!OpProceeds(i) <=> OP!OpProceeds(i)
    BY <1>1 DEF O!OpProceeds, OP!OpProceeds
  <1>4. O!OpSends(i) <=> OP!OpSends(i)
    BY <1>2 DEF O!OpSends, OP!OpSends
  <1>5. O!JoinQueue(i) <=> OP!JoinQueue(i)
    BY <1>1 DEF O!JoinQueue, OP!JoinQueue
  <1>6. O!HandleOpcall(i) <=> OP!HandleOpcall(i)
    BY <1>1, <1>2, <1>5 DEF O!HandleOpcall, OP!HandleOpcall
  <1>7. O!PollOp(i) <=> OP!PollOp(i)
    BY DEF O!PollOp, OP!PollOp
  <1>8. O!OpPends(i) <=> OP!OpPends(i)
    BY <1>2, <1>5 DEF O!OpPends, OP!OpPends
  <1>9. (O!OpReturns(i) <=> OP!OpReturns(i)) /\ (O!OpFails(i) <=> OP!OpFails(i))
    BY DEF O!OpReturns, OP!OpReturns, O!OpFails, OP!OpFails, O!WebCalls, OP!WebCalls
  <1>10. O!Notify(i) <=> OP!Notify(i)
    BY DEF O!Notify, OP!Notify
  <1>11. O!Arrive(i) <=> OP!Arrive(i)
    BY <1>1, <1>10 DEF O!Arrive, OP!Arrive
  <1> QED
    BY <1>3, <1>4, <1>6, <1>7, <1>8, <1>9, <1>11

\* The steps of the runner.
LEMMA SameRunner ==
    /\ O!Guest <=> OP!Guest
    /\ O!Step <=> OP!Step
    /\ O!Outside <=> OP!Outside
    /\ O!ResolveBegins <=> OP!ResolveBegins
    /\ O!RecvSome <=> OP!RecvSome
    /\ O!RecvNone <=> OP!RecvNone
    /\ O!TaskPolled <=> OP!TaskPolled
    /\ O!WokenElsewhere <=> OP!WokenElsewhere
  <1> USE DEF O!chanVars, OP!chanVars, O!opVars, OP!opVars
  <1>1. ASSUME NEW i, NEW k PROVE O!HandleRequest(i, k) <=> OP!HandleRequest(i, k)
    BY DEF O!HandleRequest, OP!HandleRequest, O!Unused, OP!Unused, O!Goto, OP!Goto
  <1>2. O!Guest <=> OP!Guest
    BY <1>1 DEF O!Guest, OP!Guest
  <1>3. O!PollNextEnds <=> OP!PollNextEnds
    BY DEF O!PollNextEnds, OP!PollNextEnds
  <1>4. \A i : O!Notify(i) <=> OP!Notify(i)
    BY DEF O!Notify, OP!Notify
  <1>5. O!RecvSome <=> OP!RecvSome
    BY <1>4 DEF O!RecvSome, OP!RecvSome
  <1>6. O!RecvNone <=> OP!RecvNone
    BY DEF O!RecvNone, OP!RecvNone
  <1>7. O!Step <=> OP!Step
    BY <1>3, <1>5, <1>6, SameOperations DEF O!Step, OP!Step
  <1>8. O!Outside <=> OP!Outside
    BY SameOperations DEF O!Outside, OP!Outside
  <1>9. /\ O!ResolveBegins <=> OP!ResolveBegins
        /\ O!TaskPolled <=> OP!TaskPolled
        /\ O!WokenElsewhere <=> OP!WokenElsewhere
    BY DEF O!ResolveBegins, OP!ResolveBegins, O!TaskPolled, OP!TaskPolled,
           O!WokenElsewhere, OP!WokenElsewhere
  <1> QED
    BY <1>2, <1>5, <1>6, <1>7, <1>8, <1>9

\* What the owner reads of the runtime.
LEMMA SameRuntimeState ==
    /\ W!Init <=> WP!Init
    /\ \A m : W!Waiting(m) <=> WP!Waiting(m)
    /\ WP!IInv => W!TypeOK
  <1>1. W!Init <=> WP!Init
    BY DEF W!Init, WP!Init, W!Fresh, WP!Fresh
  <1>2. \A m : W!Waiting(m) <=> WP!Waiting(m)
    BY DEF W!Waiting, WP!Waiting
  <1>3. WP!IInv => W!TypeOK
    BY DEF WP!IInv, WP!Typed, WP!Semaphore, W!TypeOK, W!Kinds, WP!Kinds, W!Stages, WP!Stages,
           W!Image, WP!Image, W!File, WP!File, W!Snapshot, WP!Snapshot
  <1> QED
    BY <1>1, <1>2, <1>3

\* The calls of the owner.
LEMMA SameCallsOf ==
    ASSUME NEW m
    PROVE  /\ W!CallStart(m) <=> WP!CallStart(m)
           /\ W!CallWakeup(m) <=> WP!CallWakeup(m)
           /\ W!CallUninstantiate(m) <=> WP!CallUninstantiate(m)
           /\ W!CallLoad(m) <=> WP!CallLoad(m)
           /\ W!TaskEnds(m) <=> WP!TaskEnds(m)
           /\ W!Call(m) <=> WP!Call(m)
  <1> USE DEF W!semVars, WP!semVars, W!memVars, WP!memVars
  <1>1. \A k : W!SetWork(m, k) <=> WP!SetWork(m, k)
    BY DEF W!SetWork, WP!SetWork
  <1>2. /\ W!CallStart(m) <=> WP!CallStart(m)
        /\ W!CallWakeup(m) <=> WP!CallWakeup(m)
        /\ W!CallUninstantiate(m) <=> WP!CallUninstantiate(m)
        /\ W!CallLoad(m) <=> WP!CallLoad(m)
    BY <1>1 DEF W!CallStart, WP!CallStart, W!CallWakeup, WP!CallWakeup, W!CallLoad, WP!CallLoad,
                W!CallUninstantiate, WP!CallUninstantiate
  <1>3. W!TaskEnds(m) <=> WP!TaskEnds(m)
    BY DEF W!TaskEnds, WP!TaskEnds
  <1>4. W!Call(m) <=> WP!Call(m)
    BY <1>2, <1>3 DEF W!Call, WP!Call
  <1> QED
    BY <1>2, <1>3, <1>4

\* The steps of the runtime.
LEMMA SameRuntime ==
    ASSUME NEW m
    PROVE  /\ W!PollWork(m) <=> WP!PollWork(m)
           /\ W!Unwind(m) <=> WP!Unwind(m)
           /\ W!IoCompletes(m) <=> WP!IoCompletes(m)
  <1> USE DEF W!semVars, WP!semVars, W!memVars, WP!memVars, W!workVars, WP!workVars,
              W!SwapPath, WP!SwapPath, W!Fresh, WP!Fresh, W!Empty, WP!Empty
  <1>1. (W!WorkDone(m) <=> WP!WorkDone(m)) /\ (W!Loads(m) <=> WP!Loads(m))
    BY DEF W!WorkDone, WP!WorkDone, W!Loads, WP!Loads
  <1>2. (W!Acquire(m) <=> WP!Acquire(m)) /\ (W!Release(m) <=> WP!Release(m))
    BY DEF W!Acquire, WP!Acquire, W!Release, WP!Release
  <1>3. /\ W!BeginAcquire(m) <=> WP!BeginAcquire(m)
        /\ W!BeginResident(m) <=> WP!BeginResident(m)
    BY <1>1, <1>2 DEF W!BeginAcquire, WP!BeginAcquire, W!BeginResident, WP!BeginResident
  <1>4. /\ W!BeginWrite(m) <=> WP!BeginWrite(m)
        /\ W!BeginNothingToWrite(m) <=> WP!BeginNothingToWrite(m)
    BY <1>1 DEF W!BeginWrite, WP!BeginWrite, W!BeginNothingToWrite, WP!BeginNothingToWrite
  <1>5. \A S : W!Cardinality(S) = WP!Cardinality(S)
    BY DEF W!Cardinality, WP!Cardinality
  <1>6. /\ W!Instantiate(m) <=> WP!Instantiate(m)
        /\ W!InstantiateFails(m) <=> WP!InstantiateFails(m)
    BY <1>1, <1>5 DEF W!Instantiate, WP!Instantiate, W!InstantiateFails, WP!InstantiateFails
  <1>7. /\ W!GrownPages(m) = WP!GrownPages(m)
        /\ W!RestoredImage(m) = WP!RestoredImage(m)
        /\ W!Readable(m) <=> WP!Readable(m)
    BY DEF W!GrownPages, WP!GrownPages, W!RestoredImage, WP!RestoredImage, W!Readable, WP!Readable
  <1>8. (W!Restore(m) <=> WP!Restore(m)) /\ (W!RestoreFails(m) <=> WP!RestoreFails(m))
    BY <1>1, <1>7 DEF W!Restore, WP!Restore, W!RestoreFails, WP!RestoreFails
  <1>9. (W!SwapOut(m) <=> WP!SwapOut(m)) /\ (W!SwapOutFails(m) <=> WP!SwapOutFails(m))
    BY DEF W!SwapOut, WP!SwapOut, W!SwapOutFails, WP!SwapOutFails
  <1>10. /\ W!DropPermit(m) <=> WP!DropPermit(m)
         /\ W!DropPermitBeforeStore(m) <=> WP!DropPermitBeforeStore(m)
    BY <1>1, <1>2 DEF W!DropPermit, WP!DropPermit, W!DropPermitBeforeStore,
                      WP!DropPermitBeforeStore
  <1>11. /\ W!GuestReturns(m) <=> WP!GuestReturns(m)
         /\ W!GuestTraps(m) <=> WP!GuestTraps(m)
    BY <1>1 DEF W!GuestReturns, WP!GuestReturns, W!GuestTraps, WP!GuestTraps
  <1>12. W!PollWork(m) <=> WP!PollWork(m)
    BY <1>3, <1>4, <1>6, <1>8, <1>9, <1>10, <1>11 DEF W!PollWork, WP!PollWork
  <1>13. W!Unwind(m) <=> WP!Unwind(m)
    BY <1>2 DEF W!Unwind, WP!Unwind, W!UnwindStore, WP!UnwindStore, W!UnwindPermit,
                WP!UnwindPermit
  <1>14. W!IoCompletes(m) <=> WP!IoCompletes(m)
    BY <1>1 DEF W!IoCompletes, WP!IoCompletes
  <1> QED
    BY <1>12, <1>13, <1>14

----------------------------------------------------------------------------
(* The inductive invariant.                                                *)

\* The type of the task's own variables.
Own ==
    /\ at \in {"new", "parked", "work1", "resolve", "work2", "tail", "ended"}
    /\ idleFor \in 0..(Interval + 1)
    /\ ahead \in (-Grace)..Far
    /\ timers \subseteq Nat
    /\ firstEvent \in BOOLEAN
    /\ sinceEvent \in 0..(Interval + 1)
    /\ sinceAnswer \in 0..(Interval + 1)
    /\ answered \in BOOLEAN

\* The invariants of the parts.
Parts ==
    /\ WP!IInv
    /\ \A m \in Modules : WP!Intent(m)
    /\ OP!IInv
    /\ OP!Order
    /\ OP!Placed

\* A module that is swapped out, or on its way, has no web call.
Kept == (at # "new" /\ loop # "failed" /\ uninstantiating[Self]) => OP!Calls = {}

\* Where the task is tells how far the wasm work and resolve_async_ops are, and
\* who will wake the task.
Places ==
    /\ at \notin {"resolve", "ended"} => loop = "idle"
    /\ at \in {"resolve", "tail"} => stage[Self] = "none"
    /\ at = "resolve" => /\ loop # "idle"
                         /\ opsWaker \/ woken
                         /\ loop = "none" => notified = <<>> \/ woken
    /\ at \in {"work2", "parked"} =>
         woken \/ WorkBlocked \/ (stage[Self] = "none" /\ OP!Quiet)
    /\ at = "tail" => woken \/ OP!Quiet

\* The result of a web call that has returned is read before the task gets to
\* the tail of poll_event_loop, and the guest that reads it is in memory.
Read ==
    OP!Loose => /\ at \in {"resolve", "work1", "ended"}
                /\ at # "ended" => ~uninstantiating[Self]
                /\ at = "work1" => /\ inner[Self] = "GotInst"
                                   /\ stage[Self] \in {"begin", "guest", "none", "unwind"}
                                   /\ stage[Self] = "begin" => kind[Self] = "wakeup"

IInv == Own /\ Parts /\ Kept /\ Places /\ Read

----------------------------------------------------------------------------
(* A step of the module is a step of each part, or leaves it alone.        *)

\* The runner's part of a step.
LEMMA RunnerStep ==
    ASSUME [Next]_vars
    PROVE  OP!Next \/ UNCHANGED oVars
  <1>1. CASE \/ Start \/ PollWork \/ GuestEnds \/ WorkPending \/ Fails \/ Finish
             \/ PredictionPanics \/ Unwind \/ Tick \/ UNCHANGED vars
    BY <1>1 DEF Start, PollWork, GuestEnds, WorkPending, Fails, Finish, PredictionPanics,
                Unwind, Tick, vars
  <1>2. CASE GuestRequests \/ Resolve \/ NoResult \/ Deliver \/ Arrival
    <2>1. OP!Guest \/ OP!Step \/ OP!Outside \/ OP!RecvSome \/ OP!RecvNone
      BY <1>2, SameRunner DEF GuestRequests, Resolve, NoResult, Deliver, Arrival
    <2> QED
      BY <2>1 DEF OP!Next, OP!Step
  <1>3. CASE Poll \/ WorkReady
    <2>1. OP!TaskPolled \/ OP!ResolveBegins \/ UNCHANGED oVars
      BY <1>3, SameRunner DEF Poll, WorkReady
    <2> QED
      BY <2>1 DEF OP!Next
  <1>4. CASE Load \/ Swap \/ Stay \/ TimerFires \/ IoCompletes \/ \E m \in Others : OtherModule(m)
    <2>1. OP!WokenElsewhere \/ UNCHANGED oVars
      BY <1>4, SameRunner DEF Load, Swap, Stay, TimerFires, IoCompletes, OtherModule, Wake
    <2> QED
      BY <2>1 DEF OP!Next
  <1> QED
    BY <1>1, <1>2, <1>3, <1>4 DEF Next, Untimed, Task

\* The runtime's part of a step.
LEMMA RuntimeStep ==
    ASSUME [Next]_vars
    PROVE  WP!Next \/ UNCHANGED wVars
  <1>1. Self \in Modules /\ \A m \in Others : m \in Modules
    BY DEF Modules
  <1>2. CASE \/ Poll \/ GuestRequests \/ WorkPending \/ WorkReady \/ Resolve \/ NoResult \/ Stay
             \/ TimerFires \/ Tick \/ Arrival \/ UNCHANGED vars
    BY <1>2 DEF Poll, GuestRequests, WorkPending, WorkReady, Resolve, NoResult, Stay,
                TimerFires, Tick, Arrival, vars
  <1>3. CASE Start \/ Deliver \/ Fails \/ Finish \/ Load \/ Swap \/ PredictionPanics
    <2>1. WP!Call(Self) \/ UNCHANGED wVars
      BY <1>3, SameCallsOf DEF Start, Deliver, Fails, Finish, Load, Swap, PredictionPanics, W!Call
    <2> QED
      BY <1>1, <2>1 DEF WP!Next
  <1>4. CASE PollWork \/ GuestEnds \/ Unwind \/ IoCompletes
    <2>1. WP!PollWork(Self) \/ WP!Unwind(Self) \/ WP!IoCompletes(Self)
      BY <1>4, SameRuntime DEF PollWork, GuestEnds, Unwind, IoCompletes
    <2> QED
      BY <1>1, <2>1 DEF WP!Next
  <1>5. ASSUME NEW m \in Others, OtherModule(m) PROVE WP!Next
    <2>1. WP!Call(m) \/ WP!PollWork(m) \/ WP!Unwind(m) \/ WP!IoCompletes(m)
      BY <1>5, SameRuntime, SameCallsOf DEF OtherModule
    <2> QED
      BY <1>1, <2>1 DEF WP!Next
  <1> QED
    BY <1>2, <1>3, <1>4, <1>5 DEF Next, Untimed, Task

\* The parts keep their invariants.
LEMMA PartsNext ==
    ASSUME Parts, [Next]_vars
    PROVE  Parts'
  <1>1. OP!Next \/ OP!vars' = OP!vars
    BY RunnerStep DEF oVars, OP!vars, OP!opVars, OP!chanVars
  <1>2. WP!Next \/ WP!vars' = WP!vars
    BY RuntimeStep DEF wVars, WP!vars, WP!workVars, WP!semVars, WP!memVars
  <1>3. OP!IInv' /\ OP!Placed'
    BY <1>1, RunnerAssumed, OP!NextKeepsIInv, OP!NextKeepsPlaced
    DEF Parts, OP!OpsAssumption
  <1>4. OP!Order'
    BY <1>1, RunnerAssumed, OP!NextKeepsOrder DEF Parts, OP!OpsAssumption, OP!IInv
  <1>5. WP!IInv' /\ \A m \in Modules : WP!Intent(m)'
    BY <1>2, RuntimeAssumed, WP!NextKeepsIInv, WP!NextKeepsIntent
    DEF Parts, WP!PoolAssumption, WP!MemoryAssumption
  <1> QED
    BY <1>3, <1>4, <1>5 DEF Parts

\* A step of another module leaves this one's future alone.
LEMMA OtherModuleFacts ==
    ASSUME Parts, NEW m \in Others, OtherModule(m)
    PROVE  /\ stage'[Self] = stage[Self] /\ kind'[Self] = kind[Self]
           /\ inner'[Self] = inner[Self] /\ io'[Self] = io[Self]
           /\ uninstantiating'[Self] = uninstantiating[Self]
           /\ UNCHANGED mVars
           /\ UNCHANGED <<op, opStage, source, pending, notified, hooked, polling, eager, unpolled,
                          nrWebCalls, chan, sendq, granted, loop, opsWaker, rxWaker, received>>
           /\ woken => woken'
           /\ WorkBlocked => WorkBlocked' \/ woken'
  <1>1. Self \in Modules /\ m \in Modules /\ Self # m
    BY PartsAssumption DEF Modules
  <1>2. WP!Call(m) \/ WP!PollWork(m) \/ WP!Unwind(m) \/ WP!IoCompletes(m)
    BY SameRuntime, SameCallsOf DEF OtherModule
  <1>3. /\ stage'[Self] = stage[Self] /\ kind'[Self] = kind[Self]
        /\ inner'[Self] = inner[Self] /\ io'[Self] = io[Self]
        /\ uninstantiating'[Self] = uninstantiating[Self]
    BY <1>1, <1>2, RuntimeAssumed, WP!OthersLeftAlone
    DEF Parts, WP!PoolAssumption, WP!MemoryAssumption
  <1>4. /\ UNCHANGED <<op, opStage, source, pending, notified, hooked, polling, eager, unpolled,
                       nrWebCalls, chan, sendq, granted, loop, opsWaker, rxWaker, received>>
        /\ woken' = woken \/ woken'
        /\ W!Waiting(Self) /\ Self \in holders' => woken'
    BY DEF OtherModule, Wake, O!WokenElsewhere, oVars, O!opVars, O!chanVars
  <1>5. UNCHANGED mVars
    BY DEF OtherModule
  <1>6. woken => woken'
    BY DEF OtherModule, Wake, O!WokenElsewhere, oVars
  <1>7. WorkBlocked => WorkBlocked' \/ woken'
    BY <1>3, <1>4 DEF WorkBlocked, W!Waiting
  <1> QED
    BY <1>3, <1>4, <1>5, <1>6, <1>7

----------------------------------------------------------------------------
(* Each part of the invariant.                                             *)

\* The largest of zero and n, as Tick needs it.
LEMMA MaxOfTwo ==
    ASSUME NEW n \in Int
    PROVE  Max({0, n}) = IF n < 0 THEN 0 ELSE n
  <1>1. \E x \in {0, n} : \A y \in {0, n} : y <= x
    OBVIOUS
  <1>2. /\ Max({0, n}) \in {0, n}
        /\ \A y \in {0, n} : y <= Max({0, n})
    BY <1>1 DEF Max
  <1> QED
    BY <1>2

\* The predictions stay between the end of the grace period and Far.
LEMMA PredictedFacts ==
    ASSUME Own
    PROVE  /\ Predicted \in {ahead, Far}
           /\ Predicted \in (-Grace)..Far
  BY TimeAssumption DEF Own, Predicted

\* The times and timers keep their type.
LEMMA OwnNext ==
    ASSUME Own, [Next]_vars
    PROVE  Own'
  <1> USE TimeAssumption
  <1>1. CASE Tick
    <2>1. \A t \in timers : Max({0, t - 1}) \in Nat
      BY MaxOfTwo DEF Own
    <2>2. timers' \subseteq Nat
      BY <1>1, <2>1 DEF Tick
    <2>3. /\ idleFor' \in 0..(Interval + 1)
          /\ sinceEvent' \in 0..(Interval + 1) /\ sinceAnswer' \in 0..(Interval + 1)
      BY <1>1 DEF Tick, Later, Own
    <2>4. ahead' \in (-Grace)..Far
      BY <1>1 DEF Tick, Own
    <2> QED
      BY <1>1, <2>2, <2>3, <2>4 DEF Tick, Own
  <1>2. CASE Deliver
    <2>1. Interval + Slack \in Nat /\ 0 \in 0..(Interval + 1) /\ Far \in (-Grace)..Far
      OBVIOUS
    <2>2. /\ idleFor' \in {0, idleFor}
          /\ timers' \in {timers, timers \cup {Interval + Slack}}
          /\ ahead' \in {Far, ahead}
      BY <1>2 DEF Deliver, Sleep, InactivityTimer
    <2>3. answered' \in BOOLEAN /\ firstEvent' \in BOOLEAN
      BY <1>2 DEF Deliver
    <2>4. at' = "work1" /\ sinceEvent' = 0
      BY <1>2 DEF Deliver
    <2>5. idleFor' \in 0..(Interval + 1) /\ timers' \subseteq Nat /\ ahead' \in (-Grace)..Far
      BY <2>1, <2>2 DEF Own
    <2>6. sinceAnswer' \in {0, sinceAnswer}
      BY <1>2 DEF Deliver
    <2>7. sinceAnswer' \in 0..(Interval + 1)
      BY <2>1, <2>6 DEF Own
    <2> QED
      BY <2>1, <2>3, <2>4, <2>5, <2>7 DEF Own
  <1>3. CASE Load \/ Swap \/ Stay
    <2>1. Predicted \in (-Grace)..Far
      BY PredictedFacts
    <2>2. \A p \in Predictions : p \in (-Grace)..Far /\ PredictionTimer(p) \in Nat
      BY DEF PredictionTimer, Abs
    <2>3. Grace + Before \in Nat /\ timers \subseteq Nat
      BY DEF Own
    <2>4. ASSUME AskPrediction PROVE ahead' \in (-Grace)..Far /\ timers' \subseteq Nat
      BY <2>1, <2>2, <2>3, <2>4 DEF AskPrediction, Sleep
    <2>5. ahead' \in (-Grace)..Far /\ timers' \subseteq Nat
      BY <1>3, <2>1, <2>3, <2>4 DEF Load, Swap, Stay, Sleep
    <2>6. at' = "parked" /\ UNCHANGED <<idleFor, sinceEvent, sinceAnswer, answered>>
      BY <1>3 DEF Load, Swap, Stay, TailPends
    <2>7. firstEvent' \in {TRUE, firstEvent}
      BY <1>3 DEF Load, Swap, Stay
    <2> QED
      BY <2>5, <2>6, <2>7 DEF Own
  <1>4. CASE TimerFires
    BY <1>4 DEF TimerFires, Own
  <1>5. CASE \/ Start \/ Poll \/ WorkPending \/ WorkReady \/ NoResult \/ Fails \/ Finish
             \/ PredictionPanics
    BY <1>5 DEF Start, Poll, WorkPending, WorkReady, NoResult, Fails, Finish, PredictionPanics,
                clock, Own
  <1>6. CASE \/ PollWork \/ GuestRequests \/ GuestEnds \/ Resolve \/ Unwind \/ IoCompletes
             \/ Arrival \/ (\E m \in Others : OtherModule(m)) \/ UNCHANGED vars
    BY <1>6 DEF PollWork, GuestRequests, GuestEnds, Resolve, Unwind, IoCompletes, Arrival,
                OtherModule, vars, mVars, clock, Own
  <1> QED
    BY <1>1, <1>2, <1>3, <1>4, <1>5, <1>6 DEF Next, Untimed, Task

\* A call sets the work and the flag of this module's runtime.
LEMMA CallFacts ==
    ASSUME Parts, NEW k, W!SetWork(Self, k)
    PROVE  /\ stage[Self] = "none" /\ stage'[Self] = "begin"
           /\ kind'[Self] = k
           /\ uninstantiating'[Self] = (k = "uninstantiate")
           /\ inner' = inner
  BY DEF Parts, WP!IInv, WP!Typed, W!SetWork, Modules

\* The guest is not called for a swap.
LEMMA GuestIsKept ==
    ASSUME Parts, stage[Self] = "guest"
    PROVE  ~uninstantiating[Self]
  BY DEF Parts, WP!Intent, Modules

\* A segment of this module's work.
LEMMA SelfPolls ==
    ASSUME Parts, W!PollWork(Self)
    PROVE  /\ uninstantiating' = uninstantiating
           /\ kind'[Self] \in {kind[Self], "none"}
           /\ stage[Self] # "none"
           /\ ~WorkBlocked
  <1>1. Self \in Modules
    BY DEF Modules
  <1>2. /\ uninstantiating' = uninstantiating
        /\ kind'[Self] \in {kind[Self], "none"}
        /\ stage[Self] # "none"
        /\ ~WP!Waiting(Self)
        /\ stage[Self] = "io" => io[Self] # "busy"
    BY <1>1, RuntimeAssumed, SameRuntime, WP!PollWorkFacts
    DEF Parts, WP!PoolAssumption, WP!MemoryAssumption
  <1> QED
    BY <1>2, SameRuntimeState DEF WorkBlocked

\* No step but a call changes the flag.
LEMMA FlagKept ==
    ASSUME Parts, [Next]_vars, ~Start, ~Deliver, ~Load, ~Swap
    PROVE  uninstantiating'[Self] = uninstantiating[Self] /\ (at' # "new" => at # "new")
  <1>1. CASE PollWork \/ GuestEnds
    BY <1>1, SelfPolls DEF PollWork, GuestEnds, Polling, mVars
  <1>2. CASE \E m \in Others : OtherModule(m)
    BY <1>2, OtherModuleFacts DEF mVars
  <1>3. CASE Finish \/ PredictionPanics \/ Fails
    BY <1>3 DEF Finish, PredictionPanics, Fails, W!TaskEnds, Polling, wVars
  <1>4. CASE IoCompletes \/ Unwind
    BY <1>4 DEF IoCompletes, W!IoCompletes, Unwind, W!Unwind, W!UnwindStore, W!UnwindPermit, mVars
  <1>5. CASE \/ Poll \/ GuestRequests \/ WorkPending \/ WorkReady \/ Resolve \/ NoResult \/ Stay
             \/ TimerFires \/ Tick \/ Arrival \/ UNCHANGED vars
    BY <1>5 DEF Poll, GuestRequests, WorkPending, WorkReady, Resolve, NoResult, Stay, TailPends,
                TimerFires, Tick, Arrival, vars, wVars, mVars
  <1> QED
    BY <1>1, <1>2, <1>3, <1>4, <1>5 DEF Next, Untimed, Task

\* Only the guest issues requests, and it is in memory then.
LEMMA RunnerShrinks ==
    ASSUME Parts, [Next]_vars, ~GuestRequests
    PROVE  OP!Calls' \subseteq OP!Calls /\ (loop = "failed" => loop' = "failed")
  <1>1. CASE \/ Start \/ PollWork \/ GuestEnds \/ WorkPending \/ Fails \/ Finish
             \/ PredictionPanics \/ Unwind \/ Tick \/ UNCHANGED vars
    <2>1. OP!vars' = OP!vars
      BY <1>1 DEF Start, PollWork, GuestEnds, WorkPending, Fails, Finish, PredictionPanics,
                  Unwind, Tick, vars, oVars, OP!vars, OP!opVars, OP!chanVars
    <2> QED
      BY <2>1, RunnerAssumed, OP!CallsShrink DEF Parts, OP!OpsAssumption
  <1>2. CASE \/ Poll \/ WorkReady \/ Resolve \/ NoResult \/ Deliver \/ Load \/ Swap \/ Stay
             \/ TimerFires \/ IoCompletes \/ Arrival \/ (\E m \in Others : OtherModule(m))
    <2>1. \/ O!TaskPolled \/ O!ResolveBegins \/ O!Step \/ O!WokenElsewhere \/ O!Outside
          \/ UNCHANGED oVars
      BY <1>2 DEF Poll, WorkReady, Resolve, NoResult, Deliver, Load, Swap, Stay, TimerFires,
                  IoCompletes, Arrival, OtherModule, Wake, O!Step
    <2>2. \/ OP!Step \/ OP!Outside \/ OP!ResolveBegins \/ OP!TaskPolled \/ OP!WokenElsewhere
          \/ OP!vars' = OP!vars
      BY <2>1, SameRunner DEF oVars, OP!vars, OP!opVars, OP!chanVars
    <2> QED
      BY <2>2, RunnerAssumed, OP!CallsShrink DEF Parts, OP!OpsAssumption
  <1> QED
    BY <1>1, <1>2 DEF Next, Untimed, Task

\* A module is swapped out only without web calls, and issues none before it is
\* back.
LEMMA KeptNext ==
    ASSUME IInv, [Next]_vars
    PROVE  Kept'
  <1>1. Parts /\ Kept /\ Places
    BY DEF IInv
  <1>2. CASE Start \/ Deliver \/ Load
    <2>1. PICK k \in {"start", "wakeup", "load"} : W!SetWork(Self, k)
      BY <1>2 DEF Start, Deliver, Load, W!CallStart, W!CallWakeup, W!CallLoad
    <2>2. ~uninstantiating'[Self]
      BY <1>1, <2>1, CallFacts
    <2> QED
      BY <2>2 DEF Kept
  <1>3. CASE Swap
    <2>1. nrWebCalls = 0 /\ loop # "failed"
      BY <1>1, <1>3 DEF Swap, MaySwap, TailPends, Places
    <2>2. OP!Calls = {}
      BY <1>1, <2>1, RunnerAssumed, OP!NoCalls DEF Parts, OP!OpsAssumption
    <2>3. ~GuestRequests
      BY <1>3 DEF Swap, TailPends, GuestRequests, Polling
    <2>4. OP!Calls' \subseteq OP!Calls
      BY <1>1, <2>3, RunnerShrinks
    <2> QED
      BY <2>2, <2>4 DEF Kept
  <1>4. CASE GuestRequests
    <2>1. ~uninstantiating'[Self]
      BY <1>1, <1>4, GuestIsKept DEF GuestRequests, wVars
    <2> QED
      BY <2>1 DEF Kept
  <1>5. CASE ~Start /\ ~Deliver /\ ~Load /\ ~Swap /\ ~GuestRequests
    BY <1>1, <1>5, FlagKept, RunnerShrinks DEF Kept
  <1> QED
    BY <1>2, <1>3, <1>4, <1>5

\* The loop that has ended a round polls nothing.
LEMMA RoundOver ==
    ASSUME Parts, loop \in {"item", "none"}
    PROVE  polling = None
  BY DEF Parts, OP!IInv, OP!Wakers

\* A request of the guest leaves the loop idle and the task woken if it was.
LEMMA GuestRequestFacts ==
    ASSUME Parts, Places, GuestRequests
    PROVE  /\ stage[Self] = "guest" /\ UNCHANGED <<wVars, mVars>>
           /\ at \in {"work1", "work2"}
           /\ loop = "idle" /\ loop' = "idle"
           /\ woken => woken'
  <1>1. /\ stage[Self] = "guest" /\ UNCHANGED <<wVars, mVars>>
        /\ at \in {"work1", "work2"} /\ loop = "idle"
    BY DEF GuestRequests, Polling, Places
  <1>2. CASE O!Guest
    BY <1>1, <1>2 DEF O!Guest, O!HandleRequest
  <1>3. CASE polling # None /\ O!Step
    <2>1. loop' = loop /\ (woken => woken')
      BY <1>1, <1>3, SameRunner, RunnerAssumed, OP!EagerStep DEF Parts, OP!OpsAssumption
    <2> QED
      BY <1>1, <2>1
  <1> QED
    BY <1>1, <1>2, <1>3 DEF GuestRequests

\* Whoever makes the task sleep has left a waker for what it waits for.
LEMMA PlacesNext ==
    ASSUME IInv, [Next]_vars
    PROVE  Places'
  <1> USE DEF Places
  <1>1. Parts /\ Places
    BY DEF IInv
  <1>2. CASE Start \/ Poll \/ Deliver
    <2>1. at' = "work1" /\ loop' = "idle"
      BY <1>1, <1>2 DEF Start, Poll, Deliver, O!TaskPolled, O!RecvSome, oVars
    <2> QED
      BY <2>1
  <1>3. CASE PollWork \/ GuestEnds
    <2>1. /\ UNCHANGED <<at, loop, woken>> /\ at \in {"work1", "work2"}
          /\ stage[Self] # "none" /\ ~WorkBlocked
      BY <1>1, <1>3, SelfPolls DEF PollWork, GuestEnds, Polling, oVars, mVars
    <2> QED
      BY <1>1, <2>1
  <1>4. CASE GuestRequests
    <2>1. /\ stage[Self] = "guest" /\ at' = at /\ at \in {"work1", "work2"}
          /\ loop' = "idle" /\ (woken => woken')
      BY <1>1, <1>4, GuestRequestFacts DEF mVars
    <2>2. ~WorkBlocked
      BY <2>1 DEF WorkBlocked, W!Waiting
    <2> QED
      BY <1>1, <2>1, <2>2
  <1>5. CASE WorkPending
    <2>1. at' \in {"work2", "parked"} /\ loop' = "idle"
      BY <1>1, <1>5 DEF WorkPending, oVars
    <2>2. WorkBlocked'
      BY <1>5 DEF WorkPending, WorkBlocked, W!Waiting, wVars
    <2> QED
      BY <2>1, <2>2
  <1>6. CASE WorkReady
    <2>1. stage[Self] = "none" /\ stage' = stage
      BY <1>6 DEF WorkReady, wVars
    <2>2. CASE at = "work1"
      BY <1>6, <2>1, <2>2 DEF WorkReady, O!ResolveBegins
    <2>3. CASE at # "work1"
      <3>1. at = "work2" /\ at' = "tail" /\ UNCHANGED oVars
        BY <1>6, <2>3 DEF WorkReady
      <3>2. ~WorkBlocked
        BY <2>1 DEF WorkBlocked, W!Waiting
      <3> QED
        BY <1>1, <2>1, <3>1, <3>2 DEF oVars, OP!Quiet
    <2> QED
      BY <2>2, <2>3
  <1>7. CASE Resolve
    <2>1. /\ at = "resolve" /\ at' = at /\ stage' = stage
          /\ loop # "idle" /\ loop' # "idle" /\ O!Step
      BY <1>7 DEF Resolve, wVars, mVars
    <2>2. /\ opsWaker \/ woken => opsWaker' \/ woken'
          /\ (loop = "none" => notified = <<>> \/ woken)
               => (loop' = "none" => notified' = <<>> \/ woken')
      BY <1>1, <2>1, SameRunner, RunnerAssumed, OP!ResolveStep DEF Parts, OP!OpsAssumption
    <2> QED
      BY <1>1, <2>1, <2>2
  <1>8. CASE NoResult
    <2>1. /\ at = "resolve" /\ at' = "work2" /\ stage' = stage /\ loop' = "idle"
          /\ loop = "none" /\ chan = <<>>
          /\ UNCHANGED <<chan, notified, polling, opsWaker, woken>>
      BY <1>8 DEF NoResult, O!RecvNone, O!chanVars, wVars
    <2>2. polling = None
      BY <1>1, <2>1, RoundOver
    <2>3. woken' \/ OP!Quiet'
      BY <1>1, <2>1, <2>2 DEF OP!Quiet
    <2> QED
      BY <1>1, <2>1, <2>3
  <1>9. CASE Fails \/ Finish \/ PredictionPanics \/ Unwind
    BY <1>9 DEF Fails, Finish, PredictionPanics, Unwind, mVars
  <1>10. CASE Load \/ Swap
    <2>1. at' = "parked" /\ woken' /\ loop' = "idle"
      BY <1>1, <1>10 DEF Load, Swap, TailPends, Wake, O!WokenElsewhere
    <2> QED
      BY <2>1
  <1>11. CASE Stay
    <2>1. at = "tail" /\ at' = "parked" /\ stage' = stage
      BY <1>11 DEF Stay, TailPends, wVars
    <2>2. CASE Wake
      BY <1>1, <2>1, <2>2 DEF Wake, O!WokenElsewhere
    <2>3. CASE UNCHANGED oVars
      BY <1>1, <2>1, <2>3 DEF oVars, OP!Quiet
    <2> QED
      BY <1>11, <2>2, <2>3 DEF Stay
  <1>12. CASE TimerFires \/ IoCompletes
    <2>1. UNCHANGED <<at, stage, loop>> /\ woken'
      BY <1>12 DEF TimerFires, IoCompletes, W!IoCompletes, Wake, O!WokenElsewhere, wVars, mVars
    <2> QED
      BY <1>1, <2>1
  <1>13. CASE Tick \/ UNCHANGED vars
    <2>1. UNCHANGED <<wVars, oVars, at>>
      BY <1>13 DEF Tick, vars, mVars
    <2> QED
      BY <1>1, <2>1 DEF wVars, oVars, OP!Quiet, WorkBlocked, W!Waiting
  <1>14. CASE Arrival
    <2>1. O!Outside /\ UNCHANGED <<wVars, at>>
      BY <1>14 DEF Arrival, mVars
    <2>2. /\ loop' = loop
          /\ woken => woken'
          /\ opsWaker \/ woken => opsWaker' \/ woken'
          /\ (notified = <<>> \/ woken) /\ (opsWaker \/ woken) => notified' = <<>> \/ woken'
          /\ OP!Quiet => OP!Quiet' \/ woken'
      BY <1>1, <2>1, SameRunner, RunnerAssumed, OP!OutsideWakes DEF Parts, OP!OpsAssumption
    <2>3. WorkBlocked => WorkBlocked'
      BY <2>1 DEF WorkBlocked, W!Waiting, wVars
    <2>4. stage' = stage /\ at' = at
      BY <2>1 DEF wVars
    <2> QED
      BY <1>1, <2>2, <2>3, <2>4
  <1>15. ASSUME NEW m \in Others, OtherModule(m) PROVE Places'
    <2>1. /\ stage'[Self] = stage[Self]
          /\ UNCHANGED <<at, chan, notified, polling, loop, opsWaker>>
          /\ woken => woken'
          /\ WorkBlocked => WorkBlocked' \/ woken'
      BY <1>1, <1>15, OtherModuleFacts DEF mVars
    <2>2. OP!Quiet => OP!Quiet'
      BY <2>1 DEF OP!Quiet
    <2> QED
      BY <1>1, <2>1, <2>2
  <1> QED
    BY <1>2, <1>3, <1>4, <1>5, <1>6, <1>7, <1>8, <1>9, <1>10, <1>11, <1>12, <1>13, <1>14, <1>15
    DEF Next, Untimed, Task

\* The rest of an answer is read before the task looks for something else to do.
LEMMA ReadNext ==
    ASSUME IInv, [Next]_vars
    PROVE  Read'
  <1> SUFFICES ASSUME OP!Loose'
               PROVE  /\ at' \in {"resolve", "work1", "ended"}
                      /\ at' # "ended" => ~uninstantiating'[Self]
                      /\ at' = "work1" =>
                           /\ inner'[Self] = "GotInst"
                           /\ stage'[Self] \in {"begin", "guest", "none", "unwind"}
                           /\ stage'[Self] = "begin" => kind'[Self] = "wakeup"
    BY DEF Read
  <1>1. Parts /\ Kept /\ Places /\ Read
    BY DEF IInv
  <1>2. OP!Loose \/ (OP!Calls # {} /\ loop = "picking")
    <2>1. OP!Next \/ OP!vars' = OP!vars
      BY RunnerStep DEF oVars, OP!vars, OP!opVars, OP!chanVars
    <2> QED
      BY <1>1, <2>1, RunnerAssumed, OP!LooseNext DEF Parts, OP!OpsAssumption
  <1>3. /\ at \in {"resolve", "work1", "ended"}
        /\ at # "ended" => ~uninstantiating[Self]
        /\ at = "work1" => /\ inner[Self] = "GotInst"
                           /\ stage[Self] \in {"begin", "guest", "none", "unwind"}
                           /\ stage[Self] = "begin" => kind[Self] = "wakeup"
    <2>1. CASE OP!Loose
      BY <1>1, <2>1 DEF Read
    <2>2. CASE OP!Calls # {} /\ loop = "picking"
      BY <1>1, <2>2 DEF IInv, Own, Places, Kept
    <2> QED
      BY <1>2, <2>1, <2>2
  <1>4. ASSUME NEW x, x = Self, at' = at,
               stage'[x] = stage[x], kind'[x] = kind[x], inner'[x] = inner[x],
               uninstantiating'[x] = uninstantiating[x]
        PROVE  /\ at' \in {"resolve", "work1", "ended"}
               /\ at' # "ended" => ~uninstantiating'[Self]
               /\ at' = "work1" =>
                    /\ inner'[Self] = "GotInst"
                    /\ stage'[Self] \in {"begin", "guest", "none", "unwind"}
                    /\ stage'[Self] = "begin" => kind'[Self] = "wakeup"
    BY <1>3, <1>4
  <1>5. CASE \/ GuestRequests \/ Resolve \/ TimerFires \/ Tick \/ IoCompletes \/ Arrival
             \/ UNCHANGED vars
    <2>1. UNCHANGED <<at, stage, kind, inner, uninstantiating>>
      BY <1>5 DEF GuestRequests, Resolve, TimerFires, Tick, IoCompletes, W!IoCompletes, Arrival,
                  vars, wVars, mVars
    <2> QED
      BY <1>4, <2>1
  <1>6. ASSUME NEW m \in Others, OtherModule(m)
        PROVE  /\ at' = at /\ stage'[Self] = stage[Self] /\ kind'[Self] = kind[Self]
               /\ inner'[Self] = inner[Self]
               /\ uninstantiating'[Self] = uninstantiating[Self]
    BY <1>1, <1>6, OtherModuleFacts DEF mVars
  <1>7. CASE NoResult
    <2>1. chan' = <<>>
      BY <1>7 DEF NoResult, O!RecvNone, O!chanVars
    <2> QED
      BY <2>1 DEF OP!Loose
  <1>8. CASE Deliver
    <2>1. /\ at = "resolve" /\ at' = "work1"
          /\ \E k \in {"wakeup"} : W!SetWork(Self, k)
      BY <1>8 DEF Deliver, W!CallWakeup
    <2>2. /\ stage[Self] = "none" /\ stage'[Self] = "begin" /\ kind'[Self] = "wakeup"
          /\ ~uninstantiating'[Self] /\ inner' = inner
      BY <1>1, <2>1, CallFacts
    <2>3. inner[Self] = "GotInst"
      BY <1>1, <1>3, <2>1, <2>2 DEF Parts, WP!Intent, Modules
    <2> QED
      BY <2>1, <2>2, <2>3
  <1>9. CASE PollWork \/ GuestEnds
    <2>1. WP!PollWork(Self) /\ at' = at /\ uninstantiating' = uninstantiating /\ at = "work1"
      BY <1>1, <1>3, <1>9, SelfPolls, SameRuntime DEF PollWork, GuestEnds, Polling, mVars
    <2>2. inner'[Self] = "GotInst" /\ stage'[Self] \in {"guest", "none", "unwind"}
      <3>1. Self \in Modules
        BY DEF Modules
      <3> QED
        BY <1>1, <1>3, <2>1, <3>1, RuntimeAssumed, WP!ResidentPoll
        DEF Parts, WP!PoolAssumption, WP!MemoryAssumption
    <2> QED
      BY <1>3, <2>1, <2>2
  <1>10. CASE WorkReady
    <2>1. at' = "resolve" /\ uninstantiating' = uninstantiating /\ at = "work1"
      BY <1>3, <1>10 DEF WorkReady, wVars
    <2> QED
      BY <1>3, <2>1
  <1>11. ~WorkPending
    BY <1>3 DEF WorkPending, WorkBlocked, W!Waiting
  <1>12. ~Start /\ ~Poll /\ ~Load /\ ~Swap /\ ~Stay
    BY <1>3 DEF Start, Poll, Load, Swap, Stay, TailPends
  <1>13. CASE Fails \/ Finish \/ PredictionPanics \/ Unwind
    BY <1>13 DEF Fails, Finish, PredictionPanics, Unwind, mVars
  <1> QED
    BY <1>4, <1>5, <1>6, <1>7, <1>8, <1>9, <1>10, <1>11, <1>12, <1>13 DEF Next, Untimed, Task

----------------------------------------------------------------------------
(* Safety, with any scheduler.                                             *)

\* The task before start.
LEMMA InitEstablishesIInv == Init => IInv
  <1> SUFFICES ASSUME Init PROVE IInv
    OBVIOUS
  <1>1. OP!Init /\ WP!Init
    BY SameRunnerState, SameRuntimeState DEF Init
  <1>2. OP!IInv /\ OP!Order /\ OP!Placed
    BY <1>1, RunnerAssumed, OP!InitEstablishesIInv, OP!InitEstablishesOrder DEF OP!OpsAssumption
  <1>3. WP!IInv /\ \A m \in Modules : WP!Intent(m)
    BY <1>1, RuntimeAssumed, WP!InitEstablishesIInv, WP!InitEstablishesIntent
    DEF WP!PoolAssumption, WP!MemoryAssumption
  <1>4. Own
    <2>1. firstEvent \in BOOLEAN /\ answered \in BOOLEAN
      BY DEF Init
    <2>2. /\ at = "new" /\ idleFor \in 0..(Interval + 1) /\ ahead \in (-Grace)..Far
          /\ timers \subseteq Nat /\ sinceEvent \in 0..(Interval + 1)
          /\ sinceAnswer \in 0..(Interval + 1)
      BY TimeAssumption DEF Init
    <2> QED
      BY <2>1, <2>2 DEF Own
  <1>5. Kept /\ Places /\ Read
    BY <1>1 DEF Init, OP!Init, Kept, Places, Read, OP!Loose
  <1> QED
    BY <1>2, <1>3, <1>4, <1>5 DEF IInv, Parts

\* Every step keeps the invariant.
LEMMA NextKeepsIInv == IInv /\ [Next]_vars => IInv'
  BY OwnNext, PartsNext, KeptNext, PlacesNext, ReadNext DEF IInv

\* In every reachable state, whatever the network, the clock, the other modules
\* and the scheduler do, the place of the task tells how far its work and its
\* operations are (module.rs:92-215).
THEOREM InductiveInvariant == Spec => []IInv
  BY InitEstablishesIInv, NextKeepsIInv, PTL DEF Spec

\* The variables of the module and of its parts keep their types.
THEOREM TypeCorrect == Spec => []TypeOK
  <1>1. IInv => TypeOK
    BY SameRunnerState, SameRuntimeState DEF IInv, Own, Parts, OP!IInv, TypeOK
  <1> QED
    BY <1>1, InductiveInvariant, PTL

\* The check of nr_web_calls at module.rs:153 keeps a module in memory from the
\* first to the last moment of each of its web calls.
THEOREM ResidentDuringWebCalls == Spec => []ResidentDuringWebCall
  <1>1. HttpInFlight = OP!Calls
    BY SameRunnerState DEF HttpInFlight, OP!Calls
  <1>2. IInv => ResidentDuringWebCall
    BY <1>1 DEF IInv, Kept, ResidentDuringWebCall
  <1> QED
    BY <1>2, InductiveInvariant, PTL

\* A task that poll_event_loop leaves Pending and unscheduled has left a waker for
\* everything that it waits for (module.rs:92-215).
THEOREM NoWakeupIsLost == Spec => []NoLostWakeup
  <1>1. ASSUME IInv PROVE NoLostWakeup
    <2> SUFFICES ASSUME at = "parked", ~woken, ~WorkBlocked
                 PROVE  /\ stage[Self] = "none"
                        /\ chan = <<>>
                        /\ \A i \in pending : i \in hooked /\ O!Blocked(i)
                        /\ opsWaker
      BY DEF NoLostWakeup
    <2>1. stage[Self] = "none" /\ OP!Quiet
      BY <1>1 DEF IInv, Places
    <2>2. \A i \in pending : i \in hooked /\ OP!Blocked(i)
      BY <1>1, <2>1, RunnerAssumed, OP!QuietWaits DEF IInv, Parts, OP!OpsAssumption
    <2> QED
      BY <2>1, <2>2, SameRunnerState DEF OP!Quiet
  <1> QED
    BY <1>1, InductiveInvariant, PTL

\* The result that ends a web call is read before the tail: while it is unread the
\* module is in memory, so that line 98 is ready and resolve_async_ops is called
\* again (module.rs:98-111,229).
THEOREM WebAnswersAreReadFirst == Spec => []WebAnswersReadFirst
  <1>1. ASSUME IInv PROVE WebAnswersReadFirst
    <2>1. at = "tail" => ~OP!Loose
      BY <1>1 DEF IInv, Read
    <2> QED
      BY <2>1, SameRunnerState DEF OP!Loose, WebAnswersReadFirst
  <1> QED
    BY <1>1, InductiveInvariant, PTL

\* The module drives its runner as OpsRunner allows: all that is proved of the
\* operations holds of them in a module (module.rs:218-248).
THEOREM ImplementsOpsRunner == Spec => O!Spec
  <1>1. Init => O!Init
    BY DEF Init
  <1>2. [Next]_vars => [O!Next]_(O!vars)
    <2> SUFFICES ASSUME [Next]_vars PROVE [O!Next]_(O!vars)
      OBVIOUS
    <2>1. OP!Next \/ UNCHANGED oVars
      BY RunnerStep
    <2>2. OP!Next => O!Next
      BY SameRunner DEF OP!Next, O!Next
    <2> QED
      BY <2>1, <2>2 DEF oVars, O!vars, O!opVars, O!chanVars
  <1> QED
    BY <1>1, <1>2, PTL DEF Spec, O!Spec

\* The modules share the pool as WasmRuntime allows: all that is proved of the
\* permits, the slots and the instances holds when modules are driven by their
\* event loops (module.rs:76-215).
THEOREM ImplementsWasmRuntime == Spec => W!Init /\ [][W!Next]_(W!vars)
  <1>1. Init => W!Init
    BY DEF Init
  <1>2. [Next]_vars => [W!Next]_(W!vars)
    <2> SUFFICES ASSUME [Next]_vars PROVE [W!Next]_(W!vars)
      OBVIOUS
    <2>1. WP!Next \/ UNCHANGED wVars
      BY RuntimeStep
    <2>2. WP!Next => W!Next
      BY SameRuntime, SameCallsOf DEF WP!Next, W!Next
    <2> QED
      BY <2>1, <2>2 DEF wVars, W!vars, W!workVars, W!semVars, W!memVars
  <1> QED
    BY <1>1, <1>2, PTL DEF Spec

----------------------------------------------------------------------------
(* The inactivity.  A result that is not final does not set                *)
(* last_event_time, but unless it is the value of a stream it is the first *)
(* part of an answer whose request is still counted or whose last part is  *)
(* still unread.                                                           *)

Times == sinceAnswer = idleFor \/ OP!HalfHeard

\* Both times begin with the module.
LEMMA InitEstablishesTimes == Init => Times
  BY DEF Init, Times

\* last_event_time is the time of the latest answer, or an answer is half heard.
LEMMA TimesNext ==
    ASSUME IInv, Times, [Next]_vars
    PROVE  Times'
  <1>1. OP!Next \/ OP!vars' = OP!vars
    BY RunnerStep DEF oVars, OP!vars, OP!opVars, OP!chanVars
  <1>2. OP!IInv /\ OP!TypeOK /\ OP!Order
    BY DEF IInv, Parts, OP!IInv
  <1>3. CASE Deliver
    <2>1. OP!RecvSome
      BY <1>3, SameRunner DEF Deliver
    <2>2. OP!Finished(Head(chan)) => sinceAnswer' = idleFor'
      BY <1>3, SameRunnerState DEF Deliver, IsEvent, IsValue
    <2>3. CASE op[Head(chan).id] # "stream"
      BY <1>2, <2>1, <2>2, <2>3, RunnerAssumed, OP!RecvFacts DEF Times, OP!OpsAssumption
    <2>4. CASE op[Head(chan).id] = "stream"
      <3>1. OP!HalfHeard => OP!HalfHeard'
        BY <1>2, <2>1, <2>4, RunnerAssumed, OP!StreamsKeepHalfHeard DEF OP!OpsAssumption
      <3>2. ~OP!Finished(Head(chan)) => sinceAnswer' = sinceAnswer /\ idleFor' = idleFor
        BY <1>3, <2>4, SameRunnerState DEF Deliver, IsEvent, IsValue
      <3> QED
        BY <2>2, <3>1, <3>2 DEF Times
    <2> QED
      BY <2>3, <2>4
  <1>4. CASE ~Deliver
    <2>1. CASE GuestRequests \/ Resolve
      <3>1. ~OP!RecvSome
        BY <2>1, GuestRequestFacts DEF IInv, Resolve, OP!RecvSome
      <3>2. OP!HalfHeard => OP!HalfHeard'
        BY <1>1, <1>2, <3>1, RunnerAssumed, OP!HalfHeardNext DEF OP!OpsAssumption
      <3>3. UNCHANGED <<idleFor, sinceAnswer>>
        BY <2>1 DEF GuestRequests, Resolve, mVars, clock
      <3> QED
        BY <3>2, <3>3 DEF Times
    <2>2. CASE ~GuestRequests /\ ~Resolve
      <3>1. UNCHANGED <<op, received>>
        <4>1. CASE \/ Start \/ PollWork \/ GuestEnds \/ WorkPending \/ Fails \/ Finish
                   \/ PredictionPanics \/ Unwind \/ Tick \/ UNCHANGED vars
          BY <4>1 DEF Start, PollWork, GuestEnds, WorkPending, Fails, Finish, PredictionPanics,
                      Unwind, Tick, vars, oVars
        <4>2. CASE Poll \/ WorkReady \/ NoResult \/ Arrival
          BY <4>2 DEF Poll, WorkReady, NoResult, Arrival, O!TaskPolled, O!ResolveBegins,
                      O!RecvNone, O!Outside, O!Arrive, O!opVars, oVars
        <4>3. CASE Load \/ Swap \/ Stay \/ TimerFires \/ IoCompletes
          BY <4>3 DEF Load, Swap, Stay, TimerFires, IoCompletes, Wake, O!WokenElsewhere,
                      O!opVars, oVars
        <4>4. CASE \E m \in Others : OtherModule(m)
          BY <4>4, OtherModuleFacts DEF IInv
        <4> QED
          BY <1>4, <2>2, <4>1, <4>2, <4>3, <4>4 DEF Next, Untimed, Task
      <3>2. OP!HalfHeard => OP!HalfHeard'
        BY <3>1 DEF OP!HalfHeard
      <3>3. sinceAnswer = idleFor => sinceAnswer' = idleFor'
        BY <1>4, <2>2 DEF Next, Untimed, Task, Start, Poll, PollWork, GuestEnds, WorkPending,
              WorkReady, NoResult, Fails, Finish, Load, Swap, Stay, PredictionPanics, TailPends,
              Unwind, TimerFires, IoCompletes, Arrival, OtherModule, Tick, vars, mVars, clock
      <3> QED
        BY <3>2, <3>3 DEF Times
    <2> QED
      BY <2>1, <2>2
  <1> QED
    BY <1>3, <1>4

\* Only the tail of poll_event_loop begins to swap the module out.
LEMMA SwapIsInTail ==
    ASSUME Parts, [Next]_vars, SwapBegins
    PROVE  Swap
  <1>1. ~(Start \/ Deliver \/ Load)
    <2>1. ASSUME Start \/ Deliver \/ Load PROVE FALSE
      <3>1. PICK k \in {"start", "wakeup", "load"} : W!SetWork(Self, k)
        BY <2>1 DEF Start, Deliver, Load, W!CallStart, W!CallWakeup, W!CallLoad
      <3>2. kind'[Self] = k
        BY <3>1, CallFacts
      <3> QED
        BY <3>2 DEF SwapBegins
    <2> QED
      BY <2>1
  <1>2. ~(PollWork \/ GuestEnds)
    BY SelfPolls DEF PollWork, GuestEnds, SwapBegins
  <1>3. ~(Fails \/ Finish \/ PredictionPanics \/ Unwind \/ IoCompletes)
    BY DEF Fails, Finish, PredictionPanics, Unwind, IoCompletes, W!TaskEnds, W!Unwind,
           W!UnwindStore, W!UnwindPermit, W!IoCompletes, W!workVars, wVars, SwapBegins
  <1>4. ~\E m \in Others : OtherModule(m)
    BY OtherModuleFacts DEF SwapBegins
  <1>5. ~(\/ Poll \/ GuestRequests \/ WorkPending \/ WorkReady \/ Resolve \/ NoResult \/ Stay
          \/ TimerFires \/ Tick \/ Arrival \/ UNCHANGED vars)
    BY DEF Poll, GuestRequests, WorkPending, WorkReady, Resolve, NoResult, Stay, TimerFires,
           Tick, Arrival, vars, wVars, SwapBegins
  <1> QED
    BY <1>1, <1>2, <1>3, <1>4, <1>5 DEF Next, Untimed, Task

\* In the tail, with no web call counted, no answer is half heard.
LEMMA SwapIsQuiet ==
    ASSUME IInv, Times, Swap
    PROVE  sinceAnswer > Interval
  <1>1. nrWebCalls = 0 /\ idleFor > Interval /\ at = "tail" /\ loop # "failed"
    BY DEF IInv, Places, Swap, TailPends, MaySwap, Inactive
  <1>2. OP!Calls = {}
    BY <1>1, RunnerAssumed, OP!NoCalls DEF IInv, Parts, OP!OpsAssumption
  <1>3. ~OP!Loose
    BY <1>1 DEF IInv, Read
  <1>4. ~OP!HalfHeard
    BY <1>1, <1>2, <1>3, RunnerAssumed, OP!HalfHeardFacts DEF IInv, Parts, OP!OpsAssumption
  <1> QED
    BY <1>1, <1>4 DEF Times

\* A module is swapped out only when it got no answer for
\* SHUTDOWN_INACTIVE_INTERVAL_MS, although only final results set last_event_time:
\* the first part of an Http answer keeps nr_web_calls above zero, or its last part
\* is read first (module.rs:25,151-153,255-285).
THEOREM SwapOnlyAfterQuiet == Spec => SwapOnlyWhenQuiet
  <1>1. IInv /\ Times /\ [Next]_vars => Times'
    BY TimesNext
  <1>2. IInv /\ Times /\ [Next]_vars => [SwapBegins => sinceAnswer > Interval]_vars
    BY SwapIsInTail, SwapIsQuiet DEF IInv
  <1> QED
    BY <1>1, <1>2, InductiveInvariant, InitEstablishesTimes, PTL DEF Spec, SwapOnlyWhenQuiet

----------------------------------------------------------------------------
(* The prediction.                                                         *)

\* The moment from which the tail loads a module back: the timer falls into it.
Window == Before - Lead

\* A prediction that is further away has its timer.
Timers == (ahead < Far /\ ahead > Window /\ ahead > 0) => ahead - Window \in timers

\* A swapped-out module that sleeps in the window has a timer that is due.
Due ==
    (/\ at = "parked" /\ ~woken
     /\ stage[Self] = "none" /\ uninstantiating[Self]
     /\ 0 < ahead /\ ahead <= Window) => 0 \in timers

\* There is no prediction at first.
LEMMA InitEstablishesTimers == Init => Timers /\ Due
  BY TimeAssumption DEF Init, Timers, Due

\* A timer that has time left keeps running until a tick takes it to zero.
LEMMA TimersTick ==
    ASSUME Own, Tick, NEW t \in timers
    PROVE  Max({0, t - 1}) \in timers' /\ (t > 0 => t - 1 \in timers')
  <1>1. t \in Nat /\ Max({0, t - 1}) \in timers'
    BY DEF Own, Tick
  <1>2. t > 0 => Max({0, t - 1}) = t - 1
    BY <1>1, MaxOfTwo
  <1> QED
    BY <1>1, <1>2

\* Each prediction is set together with its timer, and a timer is dropped only
\* when it elapses.
LEMMA TimersNext ==
    ASSUME Own, Timers, [Next]_vars
    PROVE  Timers'
  <1> USE TimeAssumption DEF Window
  <1>1. ahead \in Int /\ Window \in Int /\ timers \subseteq Nat
    BY DEF Own
  <1>2. CASE Tick
    <2> SUFFICES ASSUME ahead' < Far, ahead' > Window, ahead' > 0
                 PROVE  ahead' - Window \in timers'
      BY DEF Timers
    <2>1. ahead' = IF ahead \in {Far, -Grace} THEN ahead ELSE ahead - 1
      BY <1>2 DEF Tick
    <2>2. ahead \in (-Grace)..Far /\ Grace \in Nat
      BY DEF Own
    <2>3. ahead' = ahead - 1 /\ ahead < Far
      BY <2>1, <2>2
    <2>4. ahead - Window \in timers
      BY <1>1, <2>3 DEF Timers
    <2>5. PICK t \in timers : t = ahead - Window
      BY <2>4
    <2>6. t > 0
      BY <1>1, <2>3, <2>5
    <2>7. t - 1 \in timers'
      BY <1>2, <2>6, TimersTick
    <2> QED
      BY <1>1, <2>3, <2>5, <2>7
  <1>3. CASE TimerFires
    BY <1>1, <1>3 DEF TimerFires, Timers
  <1>4. ASSUME ahead' \in {ahead, Far}, timers \subseteq timers' PROVE Timers'
    BY <1>1, <1>4 DEF Timers
  <1>5. CASE Deliver
    <2>1. ahead' \in {ahead, Far} /\ timers \subseteq timers'
      BY <1>5 DEF Deliver, Sleep
    <2> QED
      BY <1>4, <2>1
  <1>6. CASE Load \/ Stay
    <2>1. ahead' \in {ahead, Far} /\ timers \subseteq timers'
      BY <1>6, PredictedFacts DEF Load, Stay, Sleep
    <2> QED
      BY <1>4, <2>1
  <1>7. CASE Swap
    <2>1. ASSUME NEW p \in Predictions, ahead' = p, Sleep(PredictionTimer(p)) PROVE Timers'
      <3>1. PredictionTimer(p) \in timers' /\ p \in Int
        BY <2>1 DEF Sleep
      <3>2. p > Window => PredictionTimer(p) = p - Window
        BY <3>1 DEF PredictionTimer, Abs
      <3> QED
        BY <2>1, <3>1, <3>2 DEF Timers
    <2>2. CASE ahead' = Predicted /\ UNCHANGED timers
      BY <1>4, <2>2, PredictedFacts
    <2> QED
      BY <1>7, <2>1, <2>2 DEF Swap, AskPrediction
  <1>8. CASE UNCHANGED <<ahead, timers>>
    BY <1>4, <1>8
  <1>9. \/ Tick \/ TimerFires \/ Deliver \/ Load \/ Stay \/ Swap \/ UNCHANGED <<ahead, timers>>
    BY DEF Next, Untimed, Task, Start, Poll, PollWork, GuestRequests, GuestEnds, WorkPending,
           WorkReady, Resolve, NoResult, Fails, Finish, PredictionPanics, Unwind, IoCompletes,
           Arrival, OtherModule, vars, mVars, clock
  <1> QED
    BY <1>2, <1>3, <1>5, <1>6, <1>7, <1>8, <1>9

\* The tail loads the module when it finds the prediction in the window, and time
\* takes a sleeping task into the window only together with a timer.
LEMMA DueNext ==
    ASSUME IInv, Timers, Due, [Next]_vars
    PROVE  Due'
  <1> USE TimeAssumption DEF Window
  <1>1. ahead \in Int /\ Window \in Int /\ timers \subseteq Nat /\ Parts /\ Own
    BY DEF IInv, Own
  <1> SUFFICES ASSUME at' = "parked", ~woken', stage'[Self] = "none",
                      uninstantiating'[Self], 0 < ahead', ahead' <= Window
               PROVE  0 \in timers'
    BY DEF Due
  <1>2. CASE Tick
    <2>1. at = "parked" /\ ~woken /\ stage[Self] = "none" /\ uninstantiating[Self]
      BY <1>2 DEF Tick, wVars, oVars
    <2>2. 0 \in timers => 0 \in timers'
      <3>1. 0 \in timers => Max({0, 0 - 1}) \in timers'
        BY <1>1, <1>2, TimersTick
      <3>2. 0 - 1 \in Int /\ 0 - 1 < 0
        OBVIOUS
      <3>3. Max({0, 0 - 1}) = 0
        BY <3>2, MaxOfTwo
      <3> QED
        BY <3>1, <3>3
    <2> SUFFICES ASSUME 0 \notin timers PROVE 0 \in timers'
      BY <2>2
    <2>3. ~(0 < ahead /\ ahead <= Window)
      BY <2>1 DEF Due
    <2>4. ahead' \in {ahead, ahead - 1}
      BY <1>2 DEF Tick
    <2>5. ahead' = ahead - 1 /\ ahead = Window + 1
      BY <1>1, <2>3, <2>4
    <2>6. ahead # Far
      BY <1>1, <1>2, <2>5 DEF Tick
    <2>7. ahead < Far
      BY <1>1, <2>6 DEF Own
    <2>8. 1 \in timers
      BY <1>1, <2>5, <2>7 DEF Timers
    <2>9. 1 > 0 => 1 - 1 \in timers'
      BY <1>1, <1>2, <2>8, TimersTick
    <2> QED
      BY <2>9
  <1>3. CASE Load \/ Swap \/ TimerFires \/ IoCompletes
    BY <1>3 DEF Load, Swap, TimerFires, IoCompletes, Wake, O!WokenElsewhere
  <1>4. CASE Stay
    <2>1. uninstantiating[Self] /\ ~InBefore(Predicted) /\ ahead' = Predicted
      BY <1>4 DEF Stay, MustLoad, wVars
    <2>2. Predicted \in Int
      BY <1>1, PredictedFacts
    <2> QED
      BY <1>1, <2>1, <2>2 DEF InBefore
  <1>5. CASE WorkPending
    <2>1. stage[Self] = "none"
      BY <1>5 DEF WorkPending, wVars
    <2> QED
      BY <1>5, <2>1 DEF WorkPending, WorkBlocked, W!Waiting
  <1>6. CASE Arrival
    <2>1. O!Outside /\ UNCHANGED <<wVars, mVars>>
      BY <1>6 DEF Arrival
    <2>2. woken => woken'
      BY <1>1, <2>1, SameRunner, RunnerAssumed, OP!OutsideWakes DEF Parts, OP!OpsAssumption
    <2> QED
      BY <2>1, <2>2 DEF Due, wVars, mVars, clock
  <1>7. ASSUME NEW m \in Others, OtherModule(m) PROVE 0 \in timers'
    BY <1>1, <1>7, OtherModuleFacts DEF Due, mVars, clock
  <1>8. CASE UNCHANGED vars
    BY <1>8 DEF vars, wVars, oVars, mVars, clock, Due
  <1>9. ~(\/ Start \/ Poll \/ PollWork \/ GuestRequests \/ GuestEnds \/ WorkReady \/ Resolve
          \/ NoResult \/ Deliver \/ Fails \/ Finish \/ PredictionPanics \/ Unwind)
    BY DEF Start, Poll, PollWork, GuestRequests, GuestEnds, Polling, WorkReady, Resolve, NoResult,
           Deliver, Fails, Finish, PredictionPanics, Unwind, mVars
  <1> QED
    BY <1>2, <1>3, <1>4, <1>5, <1>6, <1>7, <1>8, <1>9 DEF Next, Untimed, Task

\* The timer of module.rs:183-194 and the check of module.rs:139 bring a swapped-out
\* module back before a sleeping task comes to the predicted time, for any periods,
\* any answer of the prediction server and any delay of the scheduler.
THEOREM PredictionIsMet == Spec => []LoadedBeforePrediction
  <1>1. IInv /\ Timers /\ Due /\ [Next]_vars => Timers' /\ Due'
    BY TimersNext, DueNext DEF IInv
  <1>2. IInv /\ Due => LoadedBeforePrediction
    BY DEF Due, Window, Sleeping, LoadedBeforePrediction
  <1> QED
    BY <1>1, <1>2, InductiveInvariant, InitEstablishesTimers, PTL DEF Spec
=============================================================================

--------------------------- MODULE ControllerModule ---------------------------
(***************************************************************************)
(* One ControllerModule (modules/module.rs): the event loop that polls the *)
(* wasm work and the operations of a module, and decides when the module   *)
(* is swapped out and loaded back.  It composes OpsRunner with the         *)
(* WasmRuntimes of all modules; the other modules (Others) do whatever     *)
(* WasmRuntime allows.                                                     *)
(*                                                                         *)
(* at is where the task is: new, parked (poll_event_loop returned          *)
(* Pending), work1 (module.rs:98, polling the wasm work), resolve (in      *)
(* resolve_async_ops), work2 (module.rs:100, polling it again), tail       *)
(* (module.rs:105-212), ended.                                             *)
(*                                                                         *)
(* Time is relative, in ticks: idleFor is now - last_event_time, ahead is  *)
(* predicted_wakeup - now, and a timer of sleep_vec is the time left.      *)
(***************************************************************************)
EXTENDS Integers, Sequences, FiniteSets

CONSTANTS
    Self, Others, PoolSize,         \* this module, the others, POOL_SIZE
    Ids, OpKinds, Capacity, None,   \* as in OpsRunner
    Contents, Blank, BasePages, MaxPages,  \* as in WasmRuntime
    WithUninstantiate,  \* COMPILE_WITH_UNINSTANTIATE
    Interval,           \* SHUTDOWN_INACTIVE_INTERVAL_MS
    Before,             \* TIME_BEFORE_PREDICTED_MS
    Grace,              \* GRACE_PERIOD_MS
    Slack,              \* the 10 ms added to the inactivity timer
    Lead,               \* the 5 ms by which the prediction timer is late
    Far,                \* no prediction: 999 days ahead
    Predictions         \* bound: answers of the server, relative to now

ASSUME TimeAssumption ==
    /\ {Interval, Before, Grace, Slack} \subseteq Nat
    /\ Lead \in Nat \ {0}
    /\ Far \in Nat
    /\ Before <= Far
    /\ Predictions \subseteq Int
    /\ \A p \in Predictions : -Grace <= p /\ p < Far
    /\ WithUninstantiate \in BOOLEAN

VARIABLES
    inner, kind, stage, io, uninstantiating, permits, waiters, holders,
    slots, image, file, snapshot,
    op, opStage, source, pending, notified, hooked, polling, eager, unpolled,
    nrWebCalls, chan, sendq, granted, loop, opsWaker, rxWaker, woken, received,
    at,             \* where the task is
    idleFor, ahead, \* last_event_time and predicted_wakeup, relative to now
    timers,         \* sleep_vec: the time left of each timer that has not fired
    firstEvent,     \* first_event_after_shutdown
    sinceEvent,     \* history: time since the guest got its latest result
    sinceAnswer,    \* history: the same, but for the values of streams
    answered        \* history: the guest got the final result of some request

Modules == {Self} \cup Others

W == INSTANCE WasmRuntime
O == INSTANCE OpsRunner WITH stage <- opStage

\* The assumptions of the two parts, on the constants given to them.
ASSUME PartsAssumption == /\ Self \notin Others
                          /\ W!PoolAssumption
                          /\ W!MemoryAssumption
                          /\ O!OpsAssumption

wVars == <<inner, kind, stage, io, uninstantiating, permits, waiters, holders,
           slots, image, file, snapshot>>
oVars == <<op, opStage, source, pending, notified, hooked, polling, eager, unpolled,
           nrWebCalls, chan, sendq, granted, loop, opsWaker, rxWaker, woken, received>>
clock == <<idleFor, ahead, timers, sinceEvent, sinceAnswer>>
mVars == <<at, clock, firstEvent, answered>>
vars  == <<wVars, oVars, mVars>>

Max(S) == CHOOSE x \in S : \A y \in S : y <= x
Abs(n) == IF n < 0 THEN -n ELSE n

TypeOK ==
    /\ W!TypeOK
    /\ O!TypeOK
    /\ at \in {"new", "parked", "work1", "resolve", "work2", "tail", "ended"}
    /\ idleFor \in 0..(Interval + 1)
    /\ ahead \in (-Grace)..Far
    /\ timers \subseteq Nat
    /\ firstEvent \in BOOLEAN
    /\ sinceEvent \in 0..(Interval + 1)
    /\ sinceAnswer \in 0..(Interval + 1)
    /\ answered \in BOOLEAN

Init ==
    /\ W!Init
    /\ O!Init
    /\ at = "new"
    /\ idleFor = 0
    /\ ahead = Far
    /\ timers = {}
    /\ firstEvent = TRUE
    /\ sinceEvent = 0
    /\ sinceAnswer = 0
    /\ answered = FALSE

----------------------------------------------------------------------------
(* The periods of module.rs:304-332; milliseconds are whole ticks.         *)

InBefore(a) == 0 < a /\ a < Before
InGrace(a)  == 0 < -a /\ -a < Grace
Inactive    == idleFor > Interval

\* A Sleep that is polled once, so that it wakes the task when it elapses.
Sleep(t) == timers' = timers \cup {t}

----------------------------------------------------------------------------
(* start, and a poll of the task.                                          *)

Start ==
    /\ at = "new"
    /\ W!CallStart(Self)
    /\ at' = "work1"
    /\ UNCHANGED <<oVars, clock, firstEvent, answered>>

Poll ==
    /\ at = "parked"
    /\ O!TaskPolled
    /\ at' = "work1"
    /\ UNCHANGED <<wVars, clock, firstEvent, answered>>

Wake == O!WokenElsewhere

Polling == at \in {"work1", "work2"}

\* A segment of the wasm work that is not the guest's.
PollWork ==
    /\ Polling
    /\ stage[Self] # "guest"
    /\ W!PollWork(Self)
    /\ UNCHANGED <<oVars, mVars>>

\* The guest issues a request; its future is polled eagerly.
GuestRequests ==
    /\ Polling
    /\ stage[Self] = "guest"
    /\ O!Guest \/ (polling # None /\ O!Step)
    /\ UNCHANGED <<wVars, mVars>>

GuestEnds ==
    /\ Polling
    /\ stage[Self] = "guest"
    /\ polling = None
    /\ W!PollWork(Self)
    /\ UNCHANGED <<oVars, mVars>>

\* What the wasm work awaits is not there.
WorkBlocked == \/ W!Waiting(Self)
               \/ stage[Self] = "io" /\ io[Self] = "busy"

WorkPending ==
    /\ WorkBlocked
    /\ \/ at = "work1" /\ at' = "work2"
       \/ at = "work2" /\ at' = "parked"
    /\ UNCHANGED <<wVars, oVars, clock, firstEvent, answered>>

\* The work is done, or there was none: resolve_async_ops the first time.
WorkReady ==
    /\ stage[Self] = "none"
    /\ \/ at = "work1" /\ at' = "resolve" /\ O!ResolveBegins
       \/ at = "work2" /\ at' = "tail" /\ UNCHANGED oVars
    /\ UNCHANGED <<wVars, clock, firstEvent, answered>>

----------------------------------------------------------------------------
(* resolve_async_ops.                                                      *)

Resolve ==
    /\ at = "resolve"
    /\ loop # "idle"
    /\ O!Step
    /\ loop' # "idle"
    /\ UNCHANGED <<wVars, mVars>>

NoResult ==
    /\ at = "resolve"
    /\ O!RecvNone
    /\ loop' = "idle"
    /\ at' = "work2"
    /\ UNCHANGED <<wVars, clock, firstEvent, answered>>

\* Faulty: only the first part of an answer counts.
IsEvent_Meta(r) == r.what = "meta"
\* The results that set last_event_time.
IsEvent(r) == O!Finished(r)

\* A result of a stream that is not its end.
IsValue(r) == op[r.id] = "stream" /\ ~O!Finished(r)

\* Faulty: the timer elapses when the module is not inactive yet.
InactivityTimer_NoSlack == Interval
InactivityTimer == Interval + Slack

\* A result: the event times are kept, and the guest is woken up with it.
Deliver ==
    /\ at = "resolve"
    /\ O!RecvSome
    /\ W!CallWakeup(Self)
    /\ firstEvent' = FALSE
    /\ ahead' = IF uninstantiating[Self] THEN Far ELSE ahead
    /\ IF IsEvent(Head(chan))
       THEN idleFor' = 0 /\ Sleep(InactivityTimer)
       ELSE UNCHANGED <<idleFor, timers>>
    /\ sinceEvent' = 0
    /\ sinceAnswer' = IF IsValue(Head(chan)) THEN sinceAnswer ELSE 0
    /\ answered' = (answered \/ O!Finished(Head(chan)))
    /\ at' = "work1"

\* The error of an operation, or of the wasm work, ends the task.
Fails ==
    /\ at' = "ended"
    /\ \/ at = "resolve" /\ loop = "failed" /\ W!TaskEnds(Self)
       \/ Polling /\ stage[Self] = "unwind" /\ UNCHANGED wVars
    /\ UNCHANGED <<oVars, clock, firstEvent, answered>>

----------------------------------------------------------------------------
(* The tail of poll_event_loop, with the lock of the runner held.          *)

\* No operation is left: the module returns Ok.
Finish ==
    /\ at = "tail"
    /\ pending = {}
    /\ W!TaskEnds(Self)
    /\ at' = "ended"
    /\ UNCHANGED <<oVars, clock, firstEvent, answered>>

Overdue == ahead < 0 /\ ~InGrace(ahead)

\* predicted_wakeup after the reset of a missed prediction.
Predicted == IF Overdue THEN Far ELSE ahead

MustLoad == uninstantiating[Self] /\ InBefore(Predicted)

\* Faulty: nr_web_calls is not looked at.
MaySwap_IgnoresCalls == /\ WithUninstantiate /\ ~uninstantiating[Self] /\ Inactive
                        /\ ~InBefore(Predicted) /\ ~InGrace(Predicted)

MaySwap  == /\ WithUninstantiate
            /\ nrWebCalls = 0
            /\ ~uninstantiating[Self]
            /\ Inactive
            /\ ~InBefore(Predicted)
            /\ ~InGrace(Predicted)

TailPends ==
    /\ at = "tail"
    /\ pending # {}
    /\ at' = "parked"
    /\ UNCHANGED <<idleFor, sinceEvent, sinceAnswer, answered>>

\* The prediction is close.
Load ==
    /\ TailPends
    /\ MustLoad
    /\ W!CallLoad(Self)
    /\ Wake
    /\ ahead' = Predicted
    /\ Sleep(Grace + Before)
    /\ UNCHANGED firstEvent

\* Faulty: the timer elapses a moment before the period in which Load runs.
PredictionTimer_Early(p) == Abs(p - Before)
PredictionTimer(p) == Abs(p - Before + Lead)

\* Unless no event came since the module was last swapped out, the server is
\* asked for a prediction; it may not answer.
AskPrediction ==
    \/ /\ ~firstEvent
       /\ \E p \in Predictions : ahead' = p /\ Sleep(PredictionTimer(p))
    \/ ahead' = Predicted /\ UNCHANGED timers

\* Faulty: the work is set and the task not woken to poll it.
Swap_WithoutWake ==
    /\ TailPends /\ MaySwap /\ W!CallUninstantiate(Self)
    /\ UNCHANGED oVars
    /\ AskPrediction
    /\ firstEvent' = TRUE

\* Inactive: the module is swapped out.
Swap ==
    /\ TailPends
    /\ MaySwap
    /\ W!CallUninstantiate(Self)
    /\ Wake
    /\ AskPrediction
    /\ firstEvent' = TRUE

\* resp.json().unwrap() panics.
PredictionPanics ==
    /\ at = "tail"
    /\ pending # {}
    /\ MaySwap
    /\ ~firstEvent
    /\ W!TaskEnds(Self)
    /\ at' = "ended"
    /\ UNCHANGED <<oVars, clock, firstEvent, answered>>

Stay ==
    /\ TailPends
    /\ ~MustLoad
    /\ ~MaySwap
    /\ ahead' = Predicted
    /\ IF unpolled \/ Overdue THEN Wake ELSE UNCHANGED oVars
    /\ UNCHANGED <<wVars, timers, firstEvent>>

----------------------------------------------------------------------------
(* What happens around the task.                                           *)

\* A timer of sleep_vec elapses; retain drops it.
TimerFires ==
    /\ at # "ended"
    /\ 0 \in timers
    /\ timers' = timers \ {0}
    /\ Wake
    /\ UNCHANGED <<wVars, at, idleFor, ahead, sinceEvent, sinceAnswer, firstEvent, answered>>

\* A time that has passed stops where a longer one changes nothing.
Later(t) == IF t > Interval THEN t ELSE t + 1

\* Time passes.
Tick ==
    /\ at # "ended"
    /\ idleFor' = Later(idleFor)
    /\ sinceEvent' = Later(sinceEvent)
    /\ sinceAnswer' = Later(sinceAnswer)
    /\ ahead' = IF ahead \in {Far, -Grace} THEN ahead ELSE ahead - 1
    /\ timers' = {Max({0, t - 1}) : t \in timers}
    /\ UNCHANGED <<wVars, oVars, at, firstEvent, answered>>

IoCompletes ==
    /\ W!IoCompletes(Self)
    /\ Wake
    /\ UNCHANGED mVars

Arrival ==
    /\ at # "ended"
    /\ O!Outside
    /\ UNCHANGED <<wVars, mVars>>

\* The ControllerModule is dropped.
Unwind ==
    /\ at = "ended"
    /\ W!Unwind(Self)
    /\ UNCHANGED <<oVars, mVars>>

\* A step of another module, which may hand its permit to this one.
OtherModule(m) ==
    /\ W!Call(m) \/ W!PollWork(m) \/ W!Unwind(m) \/ W!IoCompletes(m)
    /\ IF W!Waiting(Self) /\ Self \in holders' THEN Wake ELSE UNCHANGED oVars
    /\ UNCHANGED mVars

----------------------------------------------------------------------------
Task == \/ Start
        \/ Poll
        \/ PollWork
        \/ GuestRequests
        \/ GuestEnds
        \/ WorkPending
        \/ WorkReady
        \/ Resolve
        \/ NoResult
        \/ Deliver
        \/ Fails
        \/ Finish
        \/ Load
        \/ Swap
        \/ PredictionPanics
        \/ Stay
        \/ Unwind

Untimed == \/ Task
           \/ TimerFires
           \/ IoCompletes
           \/ Arrival
           \/ \E m \in Others : OtherModule(m)

Next == Untimed \/ Tick

\* A woken task is scheduled, timers fire, time passes, file operations end.
\* Nothing obliges the network to answer or another module to call.
Fairness == /\ WF_vars(Task)
            /\ WF_vars(TimerFires)
            /\ WF_vars(Tick)
            /\ WF_vars(IoCompletes)

Spec == Init /\ [][Next]_vars /\ Fairness

----------------------------------------------------------------------------
(* Properties.                                                             *)

HttpInFlight == {i \in O!InFlight : op[i] = "http"}

\* A module is not swapped out, nor on its way, while an Http request of it is
\* in flight (module.rs:153): every answer of a web call finds it resident.
ResidentDuringWebCall ==
    (at # "new" /\ loop # "failed" /\ HttpInFlight # {}) => ~uninstantiating[Self]

\* A parked task that nobody has scheduled has nothing to do: it awaits its wasm
\* work, or else every operation waits for the outside with a live waker and no
\* result is unread ("always do a wake after it!", module.rs:52).
NoLostWakeup ==
    (at = "parked" /\ ~woken) =>
        \/ WorkBlocked
        \/ /\ stage[Self] = "none"
           /\ chan = <<>>
           /\ \A i \in pending : i \in hooked /\ O!Blocked(i)
           /\ opsWaker

\* The last result of a web call is given to the guest before the tail decides
\* that the module has ended or may be swapped out: nr_web_calls was lowered when
\* its future returned (module.rs:229), and only the module's being in memory then
\* makes line 98 look at the channel again ("executed when all instructions are
\* over", module.rs:107).  Results of streams and delays can be left unread.
WebAnswersReadFirst ==
    at = "tail" => \A n \in 1..Len(chan) :
                       op[chan[n].id] = "http" => chan[n].id \in O!InFlight

SwapBegins == kind'[Self] = "uninstantiate" /\ kind[Self] # "uninstantiate"

\* A module is swapped out only when it got no answer for longer than
\* SHUTDOWN_INACTIVE_INTERVAL_MS.  The values of a stream are not answers: only
\* finished results set last_event_time (module.rs:275).  The first part of an
\* Http answer does not set it either, but counts here.
SwapOnlyWhenQuiet == [][SwapBegins => sinceAnswer > Interval]_vars

\* The same for every result: "if inactive for x ms, shut down" (module.rs:25),
\* counted "from last event" (module.rs:46).  The values of a stream are events
\* that it does not count.
SwapOnlyAfterEvents == [][SwapBegins => sinceEvent > Interval]_vars

Idle == /\ at # "ended"
        /\ ~uninstantiating[Self]
        /\ nrWebCalls = 0
        /\ sinceEvent > Interval

\* A module that was answered once does not stay in memory for ever without
\* events: some timer or wakeup leads to the tail that swaps it out.
IdleIsSwapped == WithUninstantiate => ~<>[](answered /\ Idle)

\* A delay that has elapsed is answered, unless the module ends before.
DelayIsAnswered ==
    \A i \in Ids : (i \in pending /\ op[i] = "delay" /\ source[i] = "ready")
                        ~> (received[i] = "final" \/ at = "ended")

\* The task is asleep, and no timer is due.
Sleeping == /\ at = "parked"
            /\ ~woken
            /\ 0 \notin timers
            /\ stage[Self] = "none"

\* The task does not sleep on in the time before a prediction while the module
\* is swapped out: the timer of module.rs:183-194 falls into the period in which
\* module.rs:139 loads it, however long a poll or a permit takes.
LoadedBeforePrediction ==
    (Sleeping /\ 0 < ahead /\ ahead <= Before - Lead) => ~uninstantiating[Self]
=============================================================================

----------------------------- MODULE DelayQueue -----------------------------
(***************************************************************************)
(* src/pkg/wasm-delay-queue: a queue of entries that poll_expired returns  *)
(* when their deadline has come.  It keeps the entries ahead in a timing   *)
(* wheel, those inserted too late on a stack, and one Sleep, a delay of    *)
(* the host, for the next thing to do.                                     *)
(*                                                                         *)
(* The clock counts Unit units in a millisecond, from the start of the     *)
(* queue.  One task polls the queue (pc): it is idle between two polls,    *)
(* parked when the last poll returned Pending, or inside poll_idx: at the  *)
(* delay, in the loop of Wheel::poll, or in that of poll_expiration.  It   *)
(* is this task that changes the queue between polls; insert_at, which     *)
(* wakes the parked task, may be called by another one.                    *)
(***************************************************************************)
EXTENDS TimerWheel, SlabStorage

CONSTANTS
    Unit,       \* units of the clock in a millisecond
    MaxNow,     \* bound: the clock, in units
    Instants    \* the instants asked for, in units

ASSUME DelayQueueAssumption == /\ Unit \in Nat \ {0}
                               /\ MaxEntries \in Nat \ {0}
                               /\ MaxNow \in Nat
                               /\ Instants \subseteq Nat

VARIABLES
    now,        \* Instant::now()
    wheel, slab, expired, wheelNow,
    delay,      \* None, or the Sleep: its deadline, when the host may answer,
                \* whether it has, and whether the task is its waker
    waker,      \* a waker is stored
    pc,         \* where the polling task is, or how it ended
    expiration, \* the slot that poll_expiration empties, or None
    returned    \* history: the key just given out

vars == <<now, wheel, slab, expired, wheelNow, delay, waker, pc, expiration, returned>>

Sleeps == [at : Nat, fireAt : Nat, fired : BOOLEAN, hooked : BOOLEAN]
Expirations == [level : Levels, slot : Slots, deadline : Nat]
Entries == [when : Nat, expired : BOOLEAN]

ASSUME NoneAssumption == None \notin Nat \cup Sleeps \cup Expirations

TypeOK ==
    /\ now \in 0..MaxNow
    /\ wheel.elapsed \in Nat
    /\ \A l \in Levels : /\ wheel.occupied[l] \subseteq Slots
                         /\ \A s \in Slots : wheel.slot[l][s] \in Seq(Nat)
    /\ DOMAIN slab.inner \subseteq 0..(MaxEntries - 1)
    /\ \A i \in DOMAIN slab.inner : slab.inner[i] \in Entries
    /\ slab.keyMap \in [DOMAIN slab.keyMap -> DOMAIN slab.inner]
    /\ DOMAIN slab.keyMap \cup {slab.nextKey} \subseteq Nat
    /\ slab.compactCalled \in BOOLEAN
    /\ expired \in Seq(Nat)
    /\ wheelNow \in Nat
    /\ delay \in Sleeps \cup {None}
    /\ waker \in BOOLEAN
    /\ pc \in {"idle", "parked", "delay", "wheel", "cascade", "panicked", "asserted"}
    /\ expiration \in Expirations \cup {None}
    /\ returned \in Nat \cup {None}

Init ==
    /\ now = 0
    /\ wheel = NewWheel
    /\ slab = NewSlab
    /\ expired = <<>>
    /\ wheelNow = 0
    /\ delay = None
    /\ waker = FALSE
    /\ pc = "idle"
    /\ expiration = None
    /\ returned = None

\* Faulty: deadlines are rounded down.
NormalizeDeadline_Down(at) ==
    IF at \div Unit >= wheel.elapsed THEN at \div Unit ELSE wheel.elapsed

\* Faulty: a deadline may lie before the time of the wheel.
NormalizeDeadline_Past(at) == (at + Unit - 1) \div Unit

\* ms, rounding up, and no earlier than the wheel.
NormalizeDeadline(at) ==
    LET ms == (at + Unit - 1) \div Unit IN
    IF ms >= wheel.elapsed THEN ms ELSE wheel.elapsed

\* Faulty: the delay of the host is rounded up, as the deadlines are.
HostDelay_Up(at) == Unit * ((at * Unit - now + Unit - 1) \div Unit)

\* register_delay is given whole milliseconds, rounded down.
HostDelay(at) == Unit * ((at * Unit - now) \div Unit)

\* A new Sleep, which no task waits for yet; also what reset puts in place.
Sleep(at) ==
    [at |-> at, hooked |-> FALSE,
     fired  |-> at * Unit < now,
     fireAt |-> IF at * Unit < now THEN 0 ELSE now + HostDelay(at)]

SleepUntil(at) == IF at = None THEN None ELSE Sleep(at)

----------------------------------------------------------------------------
(* The operations.                                                         *)

\* insert_idx of key k into wheel w, for a deadline that the wheel accepts.
InsertIdx(w, s, e, k, when) ==
    /\ wheel' = IF Elapsed(w, when) THEN w ELSE WheelInsert(w, when, k)
    /\ expired' = IF Elapsed(w, when) THEN Push(e, k) ELSE e
    /\ slab' = SetData(s, k, [when |-> when, expired |-> Elapsed(w, when)])

\* The wheel has no slot for the deadline: the insertion panics.
Rejected(when) == ~Elapsed(wheel, when) /\ ~Valid(wheel, when)

Stop(how) == /\ pc' = how
             /\ UNCHANGED <<now, wheel, slab, expired, wheelNow, delay, waker, expiration,
                            returned>>
Panic       == Stop("panicked")
AssertFails == Stop("asserted")

ShouldSetDelay(when) == delay = None \/ NormalizeDeadline(delay.at * Unit) > when

QueueInsertAt(at, index) ==
    /\ pc \in {"idle", "parked"}
    /\ index \in Vacant(slab)
    /\ LET when == NormalizeDeadline(at)
           new == SlabInsert(slab, index, [when |-> when, expired |-> FALSE])
       IN IF Rejected(when) THEN Panic
          ELSE /\ InsertIdx(wheel, new.slab, expired, new.key, when)
               /\ delay' = IF ShouldSetDelay(when) THEN Sleep(when) ELSE delay
               /\ waker' = (waker /\ ~ShouldSetDelay(when))
               /\ pc' = IF ShouldSetDelay(when) /\ waker THEN "idle" ELSE pc
               /\ returned' = None
               /\ UNCHANGED <<now, wheelNow, expiration>>

\* remove_key: the wheel and the stack without k, and whether the assertions on
\* the way hold.
WheelWithout(k) == IF Data(slab, k).expired THEN wheel
                   ELSE WheelRemove(wheel, Data(slab, k).when, k)
StackWithout(k) == IF Data(slab, k).expired THEN Unlink(expired, k) ELSE expired
KeyRemovable(k) == IF Data(slab, k).expired THEN Contains(expired, k)
                   ELSE Removable(wheel, Data(slab, k).when, k)

QueueRemove(k) ==
    /\ pc = "idle"
    /\ k \in Live(slab)
    /\ wheel' = WheelWithout(k)
    /\ expired' = StackWithout(k)
    /\ slab' = SlabRemove(slab, k)
    /\ delay' = IF PollAt(wheel') = PollAt(wheel) THEN delay ELSE SleepUntil(PollAt(wheel'))
    /\ pc' = IF KeyRemovable(k) THEN "idle" ELSE "asserted"
    /\ returned' = None
    /\ UNCHANGED <<now, wheelNow, waker, expiration>>

ResetDelay(at) == IF delay # None /\ at # None THEN Sleep(at) ELSE delay

QueueResetAt(k, at) ==
    /\ pc = "idle"
    /\ k \in Live(slab)
    /\ LET when == NormalizeDeadline(at) IN
       IF ~KeyRemovable(k) THEN AssertFails
       ELSE IF Rejected(when) THEN Panic
       ELSE /\ InsertIdx(WheelWithout(k), slab, StackWithout(k), k, when)
            /\ delay' = ResetDelay(PollAt(wheel'))
            /\ returned' = None
            /\ UNCHANGED <<now, wheelNow, waker, pc, expiration>>

\* The time of the wheel starts again at 0; wheelNow stays.
Clear ==
    /\ pc = "idle"
    /\ slab' = SlabClear(slab)
    /\ expired' = <<>>
    /\ wheel' = NewWheel
    /\ delay' = None
    /\ returned' = None
    /\ UNCHANGED <<now, wheelNow, waker, pc, expiration>>

Compact(moved) ==
    /\ pc = "idle"
    /\ moved \in Remappings(slab)
    /\ slab' = SlabCompact(slab, moved)
    /\ returned' = None
    /\ UNCHANGED <<now, wheel, expired, wheelNow, delay, waker, pc, expiration>>

----------------------------------------------------------------------------
(* poll_expired, one step for each of its stages.                          *)

\* The task is given key k.
Return(k) ==
    /\ slab' = SlabRemove(slab, k)
    /\ returned' = k
    /\ pc' = "idle"

PollExpired ==
    /\ pc = "idle"
    /\ waker' = TRUE
    /\ \/ /\ expired # <<>>
          /\ expired' = Pop(expired)
          /\ Return(Head(expired))
       \/ /\ expired = <<>>
          /\ pc' = "delay"
          /\ returned' = None
          /\ UNCHANGED <<expired, slab>>
    /\ UNCHANGED <<now, wheel, wheelNow, delay, expiration>>

DelayOver == delay.at * Unit < now \/ delay.fired

PollDelay ==
    /\ pc = "delay"
    /\ \/ /\ delay = None
          /\ pc' = "wheel"
          /\ UNCHANGED <<wheelNow, delay>>
       \/ /\ delay # None
          /\ DelayOver
          /\ wheelNow' = delay.at
          /\ pc' = "wheel"
          /\ delay' = delay
       \/ /\ delay # None
          /\ ~DelayOver
          /\ delay' = [delay EXCEPT !.hooked = TRUE]
          /\ pc' = "parked"
          /\ wheelNow' = wheelNow
    /\ UNCHANGED <<now, wheel, slab, expired, waker, expiration, returned>>

Deadline(k) == Data(slab, k).when
DeadlineOf  == [k \in Live(slab) |-> Deadline(k)]

\* One round of the loop in Wheel::poll.
PollWheel ==
    /\ pc = "wheel"
    /\ LET e == NextExpiration(wheel) IN
       \/ /\ Expires(wheel, wheelNow)
          /\ e.level = 0
          /\ wheel' = PopEntry(wheel, e)
          /\ delay' = SleepUntil(PollAt(wheel'))
          /\ Return(Head(wheel.slot[0][e.slot]))
          /\ UNCHANGED expiration
       \/ /\ Expires(wheel, wheelNow)
          /\ e.level > 0
          /\ expiration' = e
          /\ pc' = "cascade"
          /\ UNCHANGED <<wheel, slab, delay, returned>>
       \/ /\ ~Expires(wheel, wheelNow)
          /\ wheel' = SetElapsed(wheel, wheelNow)
          /\ delay' = SleepUntil(PollAt(wheel'))
          /\ pc' = IF wheel.elapsed > wheelNow THEN "asserted"
                   ELSE IF delay' = None THEN "idle" ELSE "delay"
          /\ UNCHANGED <<slab, expiration, returned>>
    /\ UNCHANGED <<now, expired, wheelNow, waker>>

\* One round of the loop in poll_expiration above level 0, and its end.
PollExpiration ==
    /\ pc = "cascade"
    /\ LET list == wheel.slot[expiration.level][expiration.slot] IN
       \/ /\ list # <<>>
          /\ wheel' = Cascade(wheel, expiration, Deadline(Head(list)))
          /\ UNCHANGED <<pc, expiration>>
       \/ /\ list = <<>>
          /\ wheel' = SetElapsed(wheel, expiration.deadline)
          /\ pc' = IF wheel.elapsed > expiration.deadline THEN "asserted" ELSE "wheel"
          /\ expiration' = None
    /\ UNCHANGED <<now, slab, expired, wheelNow, delay, waker, returned>>

----------------------------------------------------------------------------
(* The clock, the host and the other wakers of the task.                   *)

Tick ==
    /\ now < MaxNow
    /\ pc \notin {"panicked", "asserted"}
    /\ now' = now + 1
    /\ UNCHANGED <<wheel, slab, expired, wheelNow, delay, waker, pc, expiration, returned>>

\* The host answers the delay; it enters the guest only while no task runs.
HostAnswers ==
    /\ pc \in {"idle", "parked"}
    /\ delay # None
    /\ ~delay.fired
    /\ now >= delay.fireAt
    /\ delay' = [delay EXCEPT !.fired = TRUE]
    /\ pc' = IF delay.hooked THEN "idle" ELSE pc
    /\ UNCHANGED <<now, wheel, slab, expired, wheelNow, waker, expiration, returned>>

\* The task is woken by something else it waits for.
WokenOtherwise ==
    /\ pc = "parked"
    /\ pc' = "idle"
    /\ UNCHANGED <<now, wheel, slab, expired, wheelNow, delay, waker, expiration, returned>>

Operation ==
    \/ \E at \in Instants : \/ \E index \in Vacant(slab) : QueueInsertAt(at, index)
                            \/ \E k \in Live(slab) : QueueResetAt(k, at)
    \/ \E k \in Live(slab) : QueueRemove(k)
    \/ Clear
    \/ \E moved \in Remappings(slab) : Compact(moved)

Poll == PollExpired \/ PollDelay \/ PollWheel \/ PollExpiration

\* What goes on without the callers of the operations.
Progress == Tick \/ HostAnswers \/ WokenOtherwise \/ Poll

Next == Operation \/ Progress

\* The executor polls a task that was woken, a poll runs to its end, and time
\* passes.  The host's answers form a queue: that of a delay gets its turn
\* however often the task is woken for something else.
Fairness == WF_vars(Poll) /\ SF_vars(HostAnswers) /\ WF_vars(Tick)

Spec     == Init /\ [][Next]_vars
FairSpec == Spec /\ Fairness

----------------------------------------------------------------------------
(* Properties.                                                             *)

Between == pc \in {"idle", "parked"}
Running == pc \notin {"panicked", "asserted"}

\* Between two polls every entry that lies ahead is in exactly the slot that
\* remove will look in and in no other, the entries that are overdue are on the
\* stack, and the bit fields tell which slots are empty: the wheel cascades
\* entries with the elapsed time of one moment and removes them with that of
\* another (wheel/mod.rs 119-132, 205-225).
WheelExact ==
    Between =>
    /\ \A l \in Levels : wheel.occupied[l] = {s \in Slots : wheel.slot[l][s] # <<>>}
    /\ \A l \in Levels, s \in Slots : ToSet(wheel.slot[l][s]) =
           {k \in Live(slab) : LET d == Data(slab, k) IN
                /\ ~d.expired
                /\ LevelFor(wheel.elapsed, d.when) = l
                /\ SlotFor(d.when, l) = s}
    /\ ToSet(expired) = {k \in Live(slab) : Data(slab, k).expired}
    /\ \A l \in Levels, s \in Slots : IsInjective(wheel.slot[l][s])
    /\ IsInjective(expired)

\* Keys handed out stay distinct and each leads to an entry of its own, in
\* whatever order compact, insert_at, remove and clear are called
\* (delay_queue.rs 191-274).
KeysResolve ==
    Running => /\ \A k \in Live(slab) : RemapKey(slab, k) \in DOMAIN slab.inner
               /\ \A i \in DOMAIN slab.inner :
                     Cardinality({k \in Live(slab) : RemapKey(slab, k) = i}) = 1

\* No assertion of the wheel fails: its time never runs backwards, although
\* wheel_now outlives clear, and an entry is found where it is looked for
\* (wheel/mod.rs 122, 228).
NoAssertFails == pc # "asserted"

Ahead == {k \in Live(slab) : ~Data(slab, k).expired}

\* Outside the wheel, the delay is over when the first entry ahead is due, and the
\* host, which is given it in whole milliseconds, may answer by then.
DelayCovers ==
    pc \in {"idle", "parked", "delay"} /\ Ahead # {} =>
        /\ delay # None
        /\ \A k \in Ahead : /\ delay.at <= Deadline(k)
                            /\ delay.fireAt <= Deadline(k) * Unit

\* reset_at, which sets no delay where there is none, moves an entry ahead.
ResetUndelayed ==
    /\ delay = None
    /\ \E k \in Live(slab) \ Ahead : k \in Ahead'

\* The delay and the host's answer to it stay ahead of the entries whatever is
\* inserted, removed, reset or polled, however the times are rounded
\* (delay.rs 11-14), and the loops of poll_idx always bring it back there; the one step
\* that may leave it behind is a reset_at with no delay set
\* (delay_queue.rs 554-573, 726-732, 786-790, 1038).
DelayKept == [][DelayCovers /\ ~ResetUndelayed => DelayCovers']_vars

\* A parked task with entries to come will be woken by a delay that ends no
\* later than the first of them, as "the current task will be notified once
\* the deadline has been reached" says (delay_queue.rs 41-42).
ParkedOnTime ==
    (pc = "parked" /\ Live(slab) # {}) =>
        /\ delay # None
        /\ delay.hooked
        /\ \A k \in Live(slab) : delay.fireAt <= Deadline(k) * Unit

Map == INSTANCE DeadlineMap WITH live <- DeadlineOf

\* The queue is a map of deadlines that gives out the earliest entry, at most
\* a millisecond early, and loses and invents none (delay_queue.rs 56-59); a
\* deadline is the instant asked for, or now, rounded up to a millisecond
\* (delay_queue.rs 1051-1059).
ImplementsDeadlineMap == Map!Spec

Awaited(k) == Running /\ Deadline(k) * Unit <= MaxNow
OperationsStop == <>[][Progress]_vars

\* If the operations stop, every entry is given out, as far as the clock goes.
EveryEntryExpires == OperationsStop => <>[](\A k \in Live(slab) : ~Awaited(k))
=============================================================================

------------------------------ MODULE GuestAbi ------------------------------
(***************************************************************************)
(* The guest's side of the ABI (src/pkg/kube-runtime-abi): one AsyncState  *)
(* for each request, filled by wakeup and emptied by the future or stream  *)
(* that the guest polls on its LocalPool.                                  *)
(*                                                                         *)
(* A task is anything with a waker of its own.  It is straight-line code:  *)
(* requests[t] are the requests it is inside of, the innermost last; it    *)
(* polls that one, or (own) is in its own code between two polls.  The     *)
(* host calls wakeup once for each result, in the order that OpsRunner     *)
(* guarantees (ResultsInOrder), and never while a call is in progress.     *)
(*                                                                         *)
(* Results are numbered; Null is the null pointer of a result without      *)
(* value.  An id is used again once nothing refers to it.                  *)
(***************************************************************************)
EXTENDS Naturals, Sequences, FiniteSets

CONSTANTS
    Tasks, Ids,
    None,         \* no task
    Null,         \* no value
    Patient,      \* a task awaits nothing else while it reads a stream
    MaxResults    \* bound: results with a value that a stream has

ASSUME GuestAssumption == /\ None \notin Tasks
                          /\ Null \notin Nat
                          /\ Patient \in BOOLEAN
                          /\ MaxResults \in Nat \ {0, 1}

VARIABLES
    kind,              \* what the id was requested with
    count, closed,     \* results the host has delivered, and whether the last
    registered,        \* keys of get_pending_async()
    hasValue, value, waker,  \* AsyncState
    inCall,            \* _start or wakeup is running
    ready,             \* tasks that LocalPool has to poll
    running, own,      \* the task being polled, and whether it is in its own code
    requests,          \* the requests each task is inside of
    got,               \* history: the latest value each request gave its reader
    panicked           \* an unwrap() of None

hostVars  == <<kind, count, closed>>
stateVars == <<registered, hasValue, value, waker>>
vars == <<hostVars, stateVars, inCall, ready, running, own, requests, got, panicked>>

Values == 0..MaxResults \cup {Null}

TypeOK ==
    /\ kind \in [Ids -> {"http", "stream", "delay"}]
    /\ count \in [Ids -> 0..MaxResults]
    /\ closed \in [Ids -> BOOLEAN]
    /\ registered \in SUBSET Ids
    /\ hasValue \in [Ids -> BOOLEAN]
    /\ value \in [Ids -> Values]
    /\ \A i \in Ids : value[i] # Null => hasValue[i]
    /\ waker \in [Ids -> Tasks \cup {None}]
    /\ inCall \in BOOLEAN
    /\ ready \in SUBSET Tasks
    /\ running \in Tasks \cup {None}
    /\ own \in BOOLEAN
    /\ requests \in [Tasks -> Seq(Ids)]
    /\ got \in [Ids -> Values]
    /\ panicked \in BOOLEAN

\* main has spawned the tasks and calls run_until_stalled.
Init ==
    /\ kind = [i \in Ids |-> "delay"]
    /\ count = [i \in Ids |-> 0]
    /\ closed = [i \in Ids |-> TRUE]
    /\ registered = {}
    /\ hasValue = [i \in Ids |-> FALSE]
    /\ value = [i \in Ids |-> Null]
    /\ waker = [i \in Ids |-> None]
    /\ inCall = TRUE
    /\ ready = Tasks
    /\ running = None
    /\ own = FALSE
    /\ requests = [t \in Tasks |-> <<>>]
    /\ got = [i \in Ids |-> 0]
    /\ panicked = FALSE

Reads(t, i) == \E n \in 1..Len(requests[t]) : requests[t][n] = i
Held        == {i \in Ids : \E t \in Tasks : Reads(t, i)}
Innermost(t) == requests[t][Len(requests[t])]
Leave(t)     == [requests EXCEPT ![t] = SubSeq(@, 1, Len(@) - 1)]

----------------------------------------------------------------------------
(* wakeup, called by the host.                                             *)

\* Faulty: the state is forgotten with the first result.
Forgets_Always(finished) == TRUE
Forgets(finished) == finished

\* The slot takes the value, the waker fires, and the last result forgets the id.
Wakeup(i, v, finished) ==
    /\ i \in registered
    /\ value' = IF v = Null THEN value ELSE [value EXCEPT ![i] = v]
    /\ hasValue' = [hasValue EXCEPT ![i] = TRUE]
    /\ ready' = ready \cup ({waker[i]} \ {None})
    /\ registered' = IF Forgets(finished) THEN registered \ {i} ELSE registered
    /\ inCall' = TRUE
    /\ closed' = [closed EXCEPT ![i] = finished]
    /\ count' = IF v = Null THEN count ELSE [count EXCEPT ![i] = v]
    /\ UNCHANGED <<kind, waker, running, own, requests, got, panicked>>

\* The next result of a request: OpsRunner sends a meta and a body, or a meta,
\* chunks and an end, or the end of a delay.
HostWakesUp(i) ==
    /\ ~inCall
    /\ ~closed[i]
    /\ \/ /\ kind[i] # "delay"
          /\ count[i] = 0
          /\ Wakeup(i, 1, FALSE)
       \/ /\ kind[i] = "http"
          /\ count[i] = 1
          /\ Wakeup(i, 2, TRUE)
       \/ /\ kind[i] = "stream"
          /\ count[i] \in 1..(MaxResults - 1)
          /\ Wakeup(i, count[i] + 1, FALSE)
       \/ /\ kind[i] = "stream"
          /\ count[i] > 0
          /\ Wakeup(i, Null, TRUE)
       \/ /\ kind[i] = "delay"
          /\ Wakeup(i, Null, TRUE)

----------------------------------------------------------------------------
(* run_until_stalled.                                                      *)

RunTask(t) ==
    /\ inCall
    /\ running = None
    /\ t \in ready
    /\ ready' = ready \ {t}
    /\ running' = t
    /\ own' = (requests[t] = <<>>)
    /\ UNCHANGED <<hostVars, stateVars, inCall, requests, got, panicked>>

\* request or delay gives an id, start_async registers its state, and the
\* future that it returns is awaited.
StartAsync(t, i, k) ==
    /\ running = t
    /\ own
    /\ Patient => requests[t] = <<>>
    /\ closed[i] /\ i \notin registered \cup Held
    /\ kind' = [kind EXCEPT ![i] = k]
    /\ count' = [count EXCEPT ![i] = 0]
    /\ closed' = [closed EXCEPT ![i] = FALSE]
    /\ registered' = registered \cup {i}
    /\ hasValue' = [hasValue EXCEPT ![i] = FALSE]
    /\ value' = [value EXCEPT ![i] = Null]
    /\ waker' = [waker EXCEPT ![i] = None]
    /\ requests' = [requests EXCEPT ![t] = Append(@, i)]
    /\ got' = [got EXCEPT ![i] = 0]
    /\ own' = FALSE
    /\ UNCHANGED <<inCall, ready, running, panicked>>

\* Faulty: the waker of an earlier poll is kept.
PollPending_KeepsNoop(t) ==
    LET i == Innermost(t) IN
    /\ running = t /\ ~own /\ ~hasValue[i]
    /\ running' = None
    /\ UNCHANGED <<hostVars, stateVars, inCall, ready, own, requests, got, panicked>>

\* AsyncState has no value: it keeps the waker.
PollPending(t) ==
    LET i == Innermost(t) IN
    /\ running = t
    /\ ~own
    /\ ~hasValue[i]
    /\ waker' = [waker EXCEPT ![i] = t]
    /\ running' = None
    /\ UNCHANGED <<hostVars, registered, hasValue, value, inCall, ready, own,
                   requests, got, panicked>>

\* Faulty: the value is copied, or has_value is not reset.
TakeValue_Copies(i) == /\ got' = [got EXCEPT ![i] = value[i]]
                       /\ hasValue' = [hasValue EXCEPT ![i] = FALSE]
                       /\ UNCHANGED value
TakeValue_Stays(i) == /\ got' = [got EXCEPT ![i] = value[i]]
                      /\ value' = [value EXCEPT ![i] = Null]
                      /\ UNCHANGED hasValue

\* has_value = false; value.take()
TakeValue(i) == /\ got' = [got EXCEPT ![i] = value[i]]
                /\ hasValue' = [hasValue EXCEPT ![i] = FALSE]
                /\ value' = [value EXCEPT ![i] = Null]

\* A value that execute_request unwraps, and whether it is the last awaited one.
Unwraps(i) == kind[i] = "http" \/ (kind[i] = "stream" /\ got[i] = 0)
LastOf(i)  == \/ kind[i] = "delay"
              \/ kind[i] = "http" /\ got[i] # 0
              \/ kind[i] = "stream" /\ got[i] # 0 /\ value[i] = Null

PollReady(t) ==
    LET i == Innermost(t) IN
    /\ running = t
    /\ ~own
    /\ hasValue[i]
    /\ TakeValue(i)
    /\ panicked' = (panicked \/ (Unwraps(i) /\ value[i] = Null))
    /\ requests' = IF LastOf(i) THEN Leave(t) ELSE requests
    /\ own' = (kind[i] # "http" \/ LastOf(i))
    /\ UNCHANGED <<hostVars, registered, waker, inCall, ready, running>>

\* The task polls the request it is inside of (again).
PollAgain(t) ==
    /\ running = t
    /\ own
    /\ requests[t] # <<>>
    /\ own' = FALSE
    /\ UNCHANGED <<hostVars, stateVars, inCall, ready, running, requests, got, panicked>>

\* The task drops a stream that it does not want any more.
DropStream(t) ==
    /\ running = t
    /\ own
    /\ requests[t] # <<>>
    /\ requests' = Leave(t)
    /\ UNCHANGED <<hostVars, stateVars, inCall, ready, running, own, got, panicked>>

\* The task is over.
TaskEnds(t) ==
    /\ running = t
    /\ own
    /\ requests[t] = <<>>
    /\ running' = None
    /\ UNCHANGED <<hostVars, stateVars, inCall, ready, own, requests, got, panicked>>

\* Faulty: only some of the woken tasks are polled.
Stalled_Early ==
    /\ inCall /\ running = None
    /\ inCall' = FALSE
    /\ UNCHANGED <<hostVars, stateVars, ready, running, own, requests, got, panicked>>

\* No task is left to poll: the call returns to the host.
Stalled ==
    /\ inCall
    /\ running = None
    /\ ready = {}
    /\ inCall' = FALSE
    /\ UNCHANGED <<hostVars, stateVars, ready, running, own, requests, got, panicked>>

----------------------------------------------------------------------------
TaskStep(t) == \/ RunTask(t)
               \/ \E i \in Ids, k \in {"http", "stream", "delay"} : StartAsync(t, i, k)
               \/ PollPending(t)
               \/ PollReady(t)
               \/ PollAgain(t)
               \/ DropStream(t)
               \/ TaskEnds(t)

\* A panic is a trap: the module ends.
Next == /\ ~panicked
        /\ \/ \E i \in Ids : HostWakesUp(i)
           \/ \E t \in Tasks : TaskStep(t)
           \/ Stalled

Spec == Init /\ [][Next]_vars

----------------------------------------------------------------------------
(* Properties.                                                             *)

\* get(&stream_id).unwrap() of wakeup (executor.rs:96) finds a state for every
\* result that is still to come.
WakeupFindsState == \A i \in Ids : ~closed[i] => i \in registered

\* When a call into the guest returns, every request that a task awaits has a
\* result to come, and its waker is that of the task: nobody waits for ever
\* (executor.rs:107-114, 128-137).
NobodyWaitsForever ==
    ~inCall => \A t \in Tasks : requests[t] # <<>> =>
                  /\ Innermost(t) \in registered
                  /\ waker[Innermost(t)] = t

\* No unwrap() of execute_request or execute_request_stream meets a result
\* without value (requestor.rs:21,36,40).
NoUnwrapOfNone == ~panicked

\* A stream gives its reader the values one after the other, and its end after
\* the last ("get next values from stream trait", requestor.rs:25).
NextValues ==
    [][\A i \in Ids : (i \in Held /\ got'[i] # got[i]) =>
          \/ got'[i] = Null /\ got[i] = count[i]
          \/ got[i] # Null /\ got'[i] = got[i] + 1]_vars

(* Refinement: one slot for each request implements its queue of results.  *)
\* What is in the slot of a request that is held.
Unread == [i \in Ids |-> IF i \in Held /\ hasValue[i] THEN <<value[i]>> ELSE <<>>]

Queue == INSTANCE ResultQueue WITH Nothing <- 0, held <- Held, queue <- Unread

\* To a patient guest the single slot of AsyncState (executor.rs:118-151) is a
\* queue: no result is replaced before it was read.
ResultsAreQueued == Queue!Spec
=============================================================================

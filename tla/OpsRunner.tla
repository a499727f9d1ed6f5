----------------------------- MODULE OpsRunner -----------------------------
(***************************************************************************)
(* The asynchronous operations of one controller module: OpsRunner         *)
(* (modules/runner.rs), the eagerly polled OpCall (abi/opcall.rs) and the  *)
(* loop of resolve_async_ops that drives them (modules/module.rs:218-248). *)
(*                                                                         *)
(* An operation is a future inside a FuturesUnordered.  It is polled once  *)
(* with a no-op waker when the guest issues it, and afterwards only by the *)
(* module's own task.  What it waits for arrives from outside (source); it *)
(* answers through a bounded channel.  stage is where it awaits:           *)
(*   call      start_request_executor          sendMeta   sending the meta *)
(*   body      the body, or the next chunk     sendChunk  sending a chunk  *)
(*   sleep     tokio::time::sleep              sendFinal  the last result  *)
(*   done, failed   the future has returned Ok, Err                        *)
(* A request id is used again once nothing refers to its last use, so that *)
(* a run has no end; the u64 counter of the code never repeats one.        *)
(***************************************************************************)
EXTENDS Integers, Sequences, FiniteSets

CONSTANTS
    Ids,        \* request ids
    OpKinds,    \* the kinds of request the guest issues
    Capacity,   \* of the result channel (10 in the code)
    None        \* not an id

ASSUME OpsAssumption == /\ IsFiniteSet(Ids)
                        /\ OpKinds \subseteq {"http", "stream", "delay"}
                        /\ Capacity \in Nat \ {0}
                        /\ None \notin Ids

VARIABLES
    op,            \* AsyncRequestValue of each id
    stage, source, \* where its future awaits, and what has arrived for it
    pending,       \* pending_ops
    notified,      \* its ready-to-run queue, in order
    hooked,        \* ids that left a waker of pending_ops where they await
    polling, eager,\* the operation being polled, and whether by OpCall::eager
    unpolled,      \* have_unpolled_ops
    nrWebCalls,    \* nr_web_calls
    chan,          \* results sent and not read
    sendq, granted,\* senders queued for channel space; space handed to a sender
    loop,          \* the loop of resolve_async_ops
    opsWaker,      \* pending_ops holds the waker of the module's task
    rxWaker,       \* the receiver holds the waker of the module's task
    woken,         \* the task is scheduled to be polled (again)
    received       \* history: the latest result read for each id

chanVars == <<chan, sendq, granted>>
opVars   == <<op, stage, source>>
vars == <<opVars, pending, notified, hooked, polling, eager, unpolled,
          nrWebCalls, chanVars, loop, opsWaker, rxWaker, woken, received>>

Result == [id : Ids, what : {"meta", "chunk", "final"}]

\* AsyncResult::finished.
Finished(r) == r.what = "final"

TypeOK ==
    /\ op \in [Ids -> {"http", "stream", "delay"}]
    /\ stage \in [Ids -> {"call", "sendMeta", "body", "sendChunk", "sleep",
                          "sendFinal", "done", "failed"}]
    /\ source \in [Ids -> {"waiting", "ready", "end", "error"}]
    /\ pending \in SUBSET Ids
    /\ notified \in Seq(Ids)
    /\ hooked \in SUBSET pending
    /\ polling \in Ids \cup {None}
    /\ eager \in BOOLEAN
    /\ unpolled \in BOOLEAN
    /\ nrWebCalls \in Nat
    /\ chan \in Seq(Result)
    /\ sendq \in Seq(Ids)
    /\ granted \in SUBSET Ids
    /\ loop \in {"idle", "picking", "item", "none", "failed"}
    /\ opsWaker \in BOOLEAN
    /\ rxWaker \in BOOLEAN
    /\ woken \in BOOLEAN
    /\ received \in [Ids -> {"nothing", "meta", "chunk", "final"}]

Init ==
    /\ op = [i \in Ids |-> "delay"]
    /\ stage = [i \in Ids |-> "done"]
    /\ source = [i \in Ids |-> "waiting"]
    /\ pending = {}
    /\ notified = <<>>
    /\ hooked = {}
    /\ polling = None
    /\ eager = FALSE
    /\ unpolled = FALSE
    /\ nrWebCalls = 0
    /\ chan = <<>>
    /\ sendq = <<>>
    /\ granted = {}
    /\ loop = "idle"
    /\ opsWaker = FALSE
    /\ rxWaker = FALSE
    /\ woken = FALSE
    /\ received = [i \in Ids |-> "nothing"]

----------------------------------------------------------------------------
(* Wakers.                                                                 *)

\* The waker a pending operation left behind fires: the operation is queued
\* in pending_ops, which wakes the task if it holds its waker.
Notify(i) ==
    IF i \in hooked
    THEN /\ hooked' = hooked \ {i}
         /\ notified' = Append(notified, i)
         /\ woken' = (woken \/ opsWaker)
         /\ opsWaker' = FALSE
    ELSE UNCHANGED <<hooked, notified, woken, opsWaker>>

----------------------------------------------------------------------------
(* The futures of handle_request.                                          *)

Sending(i)  == stage[i] \in {"sendMeta", "sendChunk", "sendFinal"}
Returned(i) == stage[i] \in {"done", "failed"}
Room        == Len(chan) + Cardinality(granted) < Capacity
MaySend(i)  == i \in granted \/ Room
Blocked(i)  == IF Sending(i) THEN ~MaySend(i)
                             ELSE ~Returned(i) /\ source[i] = "waiting"

Goto(i, s) == stage' = [stage EXCEPT ![i] = s]

\* An await of the network or of the timer is over.
OpProceeds(i) ==
    /\ polling = i
    /\ ~Sending(i) /\ ~Returned(i)
    /\ \/ source[i] = "error" /\ Goto(i, "failed")
       \/ source[i] = "ready" /\ stage[i] = "call" /\ Goto(i, "sendMeta")
       \/ source[i] = "ready" /\ stage[i] = "body" /\ op[i] = "stream" /\ Goto(i, "sendChunk")
       \/ source[i] = "ready" /\ stage[i] = "body" /\ op[i] = "http" /\ Goto(i, "sendFinal")
       \/ source[i] = "end" /\ Goto(i, "sendFinal")
       \/ source[i] = "ready" /\ stage[i] = "sleep" /\ Goto(i, "sendFinal")
    /\ source' = [source EXCEPT ![i] = "waiting"]
    /\ UNCHANGED <<op, pending, notified, hooked, polling, eager, unpolled, nrWebCalls,
                   chanVars, loop, opsWaker, rxWaker, woken, received>>

\* Faulty: the loop over the chunks goes on after the final result.
OpSends_NoEnd(i) ==
    /\ polling = i /\ MaySend(i) /\ Sending(i)
    /\ granted' = granted \ {i}
    /\ chan' = Append(chan, [id |-> i, what |-> CASE stage[i] = "sendMeta" -> "meta"
                                              [] stage[i] = "sendChunk" -> "chunk"
                                              [] stage[i] = "sendFinal" -> "final"])
    /\ Goto(i, IF op[i] = "delay" THEN "done" ELSE "body")
    /\ woken' = (woken \/ rxWaker)
    /\ rxWaker' = FALSE
    /\ UNCHANGED <<op, source, pending, notified, hooked, polling, eager, unpolled,
                   nrWebCalls, sendq, loop, opsWaker, received>>

\* result_sender.send(..).await finds space, and wakes a waiting receiver.
OpSends(i) ==
    /\ polling = i
    /\ MaySend(i)
    /\ granted' = granted \ {i}
    /\ \/ /\ stage[i] = "sendMeta"
          /\ chan' = Append(chan, [id |-> i, what |-> "meta"])
          /\ Goto(i, "body")
       \/ /\ stage[i] = "sendChunk"
          /\ chan' = Append(chan, [id |-> i, what |-> "chunk"])
          /\ Goto(i, "body")
       \/ /\ stage[i] = "sendFinal"
          /\ chan' = Append(chan, [id |-> i, what |-> "final"])
          /\ Goto(i, "done")
    /\ woken' = (woken \/ rxWaker)
    /\ rxWaker' = FALSE
    /\ UNCHANGED <<op, source, pending, notified, hooked, polling, eager, unpolled,
                   nrWebCalls, sendq, loop, opsWaker, received>>

\* A send that finds no space joins the queue, once.
JoinQueue(i) ==
    IF Sending(i) /\ \A n \in 1..Len(sendq) : sendq[n] # i
    THEN sendq' = Append(sendq, i)
    ELSE UNCHANGED sendq

\* Outside: a response, a chunk, the end of a stream or of a sleep, an error.
Arrive(i) ==
    /\ i \in pending \/ polling = i
    /\ ~Sending(i) /\ ~Returned(i)
    /\ source[i] = "waiting"
    /\ \/ source' = [source EXCEPT ![i] = "ready"]
       \/ op[i] = "stream" /\ stage[i] = "body" /\ source' = [source EXCEPT ![i] = "end"]
       \/ op[i] # "delay" /\ source' = [source EXCEPT ![i] = "error"]
    /\ Notify(i)
    /\ UNCHANGED <<op, stage, pending, polling, eager, unpolled, nrWebCalls, chanVars,
                   loop, rxWaker, received>>

----------------------------------------------------------------------------
(* The guest issues a request: handle_request, which polls the future once *)
(* and then adds it to pending_ops.                                        *)

Unused(i) == /\ i \notin pending
             /\ polling # i
             /\ \A n \in 1..Len(chan) : chan[n].id # i
             /\ received[i] \in {"nothing", "final"}

HandleRequest(i, k) ==
    /\ loop = "idle"
    /\ polling = None
    /\ Unused(i)
    /\ op' = [op EXCEPT ![i] = k]
    /\ Goto(i, IF k = "delay" THEN "sleep" ELSE "call")
    /\ source' = [source EXCEPT ![i] = "waiting"]
    /\ received' = [received EXCEPT ![i] = "nothing"]
    /\ nrWebCalls' = IF k = "http" THEN nrWebCalls + 1 ELSE nrWebCalls
    /\ polling' = i
    /\ eager' = TRUE
    /\ UNCHANGED <<pending, notified, hooked, unpolled, chanVars, loop, opsWaker,
                   rxWaker, woken>>

\* Faulty: the operation is not queued for a second poll.
HandleOpcall_NotQueued(i) ==
    /\ polling = i /\ eager /\ (Blocked(i) \/ Returned(i))
    /\ pending' = pending \cup {i}
    /\ unpolled' = TRUE
    /\ polling' = None
    /\ eager' = FALSE
    /\ JoinQueue(i)
    /\ UNCHANGED <<opVars, notified, hooked, nrWebCalls, chan, granted, loop, opsWaker,
                   rxWaker, woken, received>>

\* The eager poll is over; a no-op waker is left where the future awaits.
HandleOpcall(i) ==
    /\ polling = i
    /\ eager
    /\ Blocked(i) \/ Returned(i)
    /\ pending' = pending \cup {i}
    /\ notified' = Append(notified, i)
    /\ unpolled' = TRUE
    /\ polling' = None
    /\ eager' = FALSE
    /\ JoinQueue(i)
    /\ UNCHANGED <<opVars, hooked, nrWebCalls, chan, granted, loop, opsWaker, rxWaker,
                   woken, received>>

----------------------------------------------------------------------------
(* The loop of resolve_async_ops.                                          *)

ResolveBegins ==
    /\ loop = "idle"
    /\ polling = None
    /\ loop' = "picking"
    /\ unpolled' = FALSE
    /\ opsWaker' = TRUE
    /\ UNCHANGED <<opVars, pending, notified, hooked, polling, eager, nrWebCalls,
                   chanVars, rxWaker, woken, received>>

\* poll_next takes the first operation off its ready-to-run queue.
PollOp(i) ==
    /\ loop = "picking"
    /\ polling = None
    /\ notified # <<>>
    /\ i = Head(notified)
    /\ notified' = Tail(notified)
    /\ polling' = i
    /\ UNCHANGED <<opVars, pending, hooked, eager, unpolled, nrWebCalls, chanVars,
                   loop, opsWaker, rxWaker, woken, received>>

\* The operation is not done.  poll_next goes on, or yields and wakes the task
\* (it has polled as many operations as there are).
OpPends(i) ==
    /\ polling = i
    /\ ~eager
    /\ Blocked(i)
    /\ polling' = None
    /\ hooked' = hooked \cup {i}
    /\ JoinQueue(i)
    /\ \/ UNCHANGED <<loop, woken>>
       \/ loop' = "none" /\ woken' = TRUE
    /\ UNCHANGED <<opVars, pending, notified, eager, unpolled, nrWebCalls, chan,
                   granted, opsWaker, rxWaker, received>>

\* What nr_web_calls loses: val is true for an Http request.
WebCalls_All(i) == 1   \* Faulty: every operation is counted off.
WebCalls_None(i) == 0  \* Faulty: none is.
WebCalls(i) == IF op[i] = "http" THEN 1 ELSE 0

\* Ready(Some(Ok(val))).
OpReturns(i) ==
    /\ polling = i
    /\ ~eager
    /\ stage[i] = "done"
    /\ pending' = pending \ {i}
    /\ nrWebCalls' = nrWebCalls - WebCalls(i)
    /\ polling' = None
    /\ loop' = "item"
    /\ UNCHANGED <<opVars, notified, hooked, eager, unpolled, chanVars, opsWaker,
                   rxWaker, woken, received>>

\* Ready(Some(Err(err))): resolve_async_ops returns the error.
OpFails(i) ==
    /\ polling = i
    /\ ~eager
    /\ stage[i] = "failed"
    /\ pending' = pending \ {i}
    /\ polling' = None
    /\ loop' = "failed"
    /\ UNCHANGED <<opVars, notified, hooked, eager, unpolled, nrWebCalls, chanVars,
                   opsWaker, rxWaker, woken, received>>

\* Ready(None), or Pending with nothing in the ready-to-run queue.
PollNextEnds ==
    /\ loop = "picking"
    /\ polling = None
    /\ notified = <<>>
    /\ loop' = "none"
    /\ UNCHANGED <<opVars, pending, notified, hooked, polling, eager, unpolled,
                   nrWebCalls, chanVars, opsWaker, rxWaker, woken, received>>

\* poll_recv takes a result and hands the space to the longest queued sender.
RecvSome ==
    /\ loop \in {"item", "none"}
    /\ chan # <<>>
    /\ chan' = Tail(chan)
    /\ received' = [received EXCEPT ![Head(chan).id] = Head(chan).what]
    /\ loop' = "idle"
    /\ \/ sendq = <<>> /\ UNCHANGED <<sendq, granted, hooked, notified, woken, opsWaker>>
       \/ /\ sendq # <<>>
          /\ sendq' = Tail(sendq)
          /\ granted' = granted \cup {Head(sendq)}
          /\ Notify(Head(sendq))
    /\ UNCHANGED <<opVars, pending, polling, eager, unpolled, nrWebCalls, rxWaker>>

\* poll_recv is Pending: poll the operations again if one has just returned.
RecvNone ==
    /\ loop \in {"item", "none"}
    /\ chan = <<>>
    /\ rxWaker' = TRUE
    /\ \/ loop = "item" /\ loop' = "picking" /\ opsWaker' = TRUE
       \/ loop = "none" /\ loop' = "idle" /\ UNCHANGED opsWaker
    /\ UNCHANGED <<opVars, pending, notified, hooked, polling, eager, unpolled,
                   nrWebCalls, chanVars, woken, received>>

\* The task is polled: its scheduled flag is cleared.
TaskPolled ==
    /\ woken
    /\ woken' = FALSE
    /\ UNCHANGED <<opVars, pending, notified, hooked, polling, eager, unpolled,
                   nrWebCalls, chanVars, loop, opsWaker, rxWaker, received>>

\* Something else wakes the task: a timer, a file operation, a permit, itself.
WokenElsewhere ==
    /\ woken' = TRUE
    /\ UNCHANGED <<opVars, pending, notified, hooked, polling, eager, unpolled,
                   nrWebCalls, chanVars, loop, opsWaker, rxWaker, received>>

----------------------------------------------------------------------------
Guest == \E i \in Ids : \E k \in OpKinds : HandleRequest(i, k)

Step == \/ \E i \in Ids : \/ OpProceeds(i)
                          \/ OpSends(i)
                          \/ HandleOpcall(i)
                          \/ PollOp(i)
                          \/ OpPends(i)
                          \/ OpReturns(i)
                          \/ OpFails(i)
        \/ PollNextEnds
        \/ RecvSome
        \/ RecvNone

Outside == \E i \in Ids : Arrive(i)

Next == Guest \/ ResolveBegins \/ Step \/ Outside \/ TaskPolled \/ WokenElsewhere

Spec == Init /\ [][Next]_vars

----------------------------------------------------------------------------
(* Properties.                                                             *)

InFlight == pending \cup (IF eager THEN {polling} ELSE {})

\* nr_web_calls, which decides whether a module may be swapped out, is the
\* number of Http requests whose future has not returned (runner.rs:54,
\* module.rs:229): streams and delays never count, an error never uncounts.
WebCallsCounted ==
    loop # "failed" =>
        nrWebCalls = Cardinality({i \in InFlight : op[i] = "http"})

\* An operation is either queued to be polled, or it really waits for something
\* and left the waker of pending_ops there: the no-op waker of OpCall::eager
\* (opcall.rs:23) never swallows an arrival.
NoOpForgotten ==
    \A i \in pending : \/ i = polling
                       \/ \E n \in 1..Len(notified) : notified[n] = i
                       \/ i \in hooked /\ Blocked(i)

\* Back-pressure: the channel never holds more than its capacity, and a sender
\* queues only while there is no space (runner.rs:27).
ChannelBounded ==
    /\ Len(chan) + Cardinality(granted) <= Capacity
    /\ sendq # <<>> => ~Room
    /\ \A i \in granted : Sending(i) /\ i \in pending

\* The results of one request reach the guest in the order of runner.rs:60-158,
\* whatever the other requests and the channel do, and none follows the final
\* one: the guest has forgotten the id by then (executor.rs:96 would panic).
ResultOrder(i) ==
    LET was == received[i]
        is  == received'[i]
    IN  /\ is = "meta"  => was = "nothing" /\ op[i] # "delay"
        /\ is = "chunk" => was \in {"meta", "chunk"} /\ op[i] = "stream"
        /\ is = "final" => IF op[i] = "delay" THEN was = "nothing"
                           ELSE was = "meta" \/ (was = "chunk" /\ op[i] = "stream")
ResultsInOrder ==
    [][\A i \in Ids : (loop # "idle" /\ loop' = "idle" /\ chan # <<>> /\ Head(chan).id = i)
                        => ResultOrder(i)]_vars
============================================================================

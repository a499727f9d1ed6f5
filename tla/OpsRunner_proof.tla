-------------------------- MODULE OpsRunner_proof --------------------------
(***************************************************************************)
(* Proofs about OpsRunner, for any ids and any channel capacity.           *)
(*                                                                         *)
(* The inductive invariant has a part for the wakers (where a pending      *)
(* operation can be: polled, queued, or hooked to what it waits for), one  *)
(* for the senders (an operation that waits for channel space is queued    *)
(* exactly once, and a granted one is not), and the count of web calls.    *)
(* A second one, Order and Placed, follows the results of each request     *)
(* through the channel to the guest.  The last part has the lemmas that    *)
(* ControllerModule_proof needs of the runner it polls.                    *)
(***************************************************************************)
EXTENDS OpsRunner, TLAPS, FiniteSetTheorems

In(s, x)    == \E n \in 1..Len(s) : s[n] = x
Distinct(s) == \A n, k \in 1..Len(s) : s[n] = s[k] => n = k

Wakers ==
    /\ Distinct(notified)
    /\ \A i \in Ids : In(notified, i) => i \in pending /\ i \notin hooked
    /\ eager => polling # None /\ polling \notin pending /\ loop = "idle"
    /\ (polling # None /\ ~eager) =>
         /\ polling \in pending
         /\ polling \notin hooked
         /\ ~In(notified, polling)
         /\ loop = "picking"
    /\ \A i \in pending : i = polling \/ In(notified, i) \/ i \in hooked
    /\ \A i \in hooked : Blocked(i)

Senders ==
    /\ Distinct(sendq)
    /\ \A i \in Ids : In(sendq, i) => i \in pending /\ Sending(i) /\ i \notin granted
    /\ \A i \in hooked : Sending(i) => In(sendq, i)
    /\ ChannelBounded

IInv == TypeOK /\ Wakers /\ Senders /\ WebCallsCounted

(* The results of one request, in order: what the future of i has sent     *)
(* when it is at its stage (Sent), what the guest has read (Heard), and    *)
(* what is between them in the channel (InTurn).                           *)

Unread(i)      == \E n \in 1..Len(chan) : chan[n].id = i
UnreadFinal(i) == \E n \in 1..Len(chan) : chan[n].id = i /\ chan[n].what = "final"

Nothing(i) == received[i] = "nothing" /\ ~Unread(i)
Begun(i)   == received[i] \in {"meta", "chunk"} \/ Unread(i)
Ended(i)   == received[i] = "final" \/ UnreadFinal(i)

Sent(i) ==
    /\ stage[i] \in {"call", "sendMeta"} => op[i] # "delay" /\ Nothing(i)
    /\ stage[i] = "sleep" => op[i] = "delay" /\ Nothing(i)
    /\ stage[i] = "body" => op[i] # "delay" /\ Begun(i) /\ ~Ended(i)
    /\ stage[i] = "sendChunk" => op[i] = "stream" /\ Begun(i) /\ ~Ended(i)
    /\ stage[i] = "sendFinal" => IF op[i] = "delay" THEN Nothing(i)
                                                    ELSE Begun(i) /\ ~Ended(i)
    /\ stage[i] = "done" => (Begun(i) => UnreadFinal(i))
    /\ source[i] = "end" => op[i] = "stream" /\ stage[i] = "body"

Heard(i) ==
    /\ received[i] = "meta" => op[i] # "delay"
    /\ received[i] = "chunk" => op[i] = "stream"
    /\ received[i] = "final" => ~Unread(i)

First(n) == \A k \in 1..(n - 1) : chan[k].id # chan[n].id

InTurn(n) ==
    LET i == chan[n].id IN
    /\ chan[n].what = "meta" =>
         op[i] # "delay" /\ received[i] = "nothing" /\ First(n)
    /\ chan[n].what = "chunk" =>
         op[i] = "stream" /\ (First(n) => received[i] \in {"meta", "chunk"})
    /\ chan[n].what = "final" =>
         /\ \A k \in (n + 1)..Len(chan) : chan[k].id # i
         /\ IF op[i] = "delay" THEN First(n) /\ received[i] = "nothing"
                               ELSE First(n) => received[i] \in {"meta", "chunk"}

Order == /\ \A i \in Ids : Sent(i) /\ Heard(i)
         /\ \A n \in 1..Len(chan) : InTurn(n)

\* A future that has not returned is in flight; one that failed is, or the
\* module is about to end.
Placed == \A i \in Ids : /\ ~Returned(i) => i \in InFlight
                         /\ stage[i] = "failed" => i \in InFlight \/ loop = "failed"


----------------------------------------------------------------------------
(* Sequences.                                                              *)

\* Append adds one element, which is new if the sequence did not hold it.
LEMMA AppendFacts ==
    ASSUME NEW S, NEW s \in Seq(S), NEW x \in S
    PROVE  /\ Append(s, x) \in Seq(S)
           /\ Append(s, x) # <<>>
           /\ \A y : In(Append(s, x), y) <=> In(s, y) \/ y = x
           /\ Distinct(s) /\ ~In(s, x) => Distinct(Append(s, x))
  <1> DEFINE t == Append(s, x)
  <1>1. /\ t \in Seq(S)
        /\ Len(s) \in Nat
        /\ Len(t) = Len(s) + 1
        /\ t[Len(s) + 1] = x
        /\ \A n \in 1..Len(s) : t[n] = s[n]
    OBVIOUS
  <1>2. \A n : n \in 1..Len(t) <=> n \in 1..Len(s) \/ n = Len(s) + 1
    BY <1>1
  <1> HIDE DEF t
  <1>3. \A y : In(t, y) <=> In(s, y) \/ y = x
    BY <1>1, <1>2 DEF In
  <1>4. ASSUME Distinct(s), ~In(s, x), NEW n \in 1..Len(t), NEW k \in 1..Len(t), t[n] = t[k]
        PROVE  n = k
    <2>1. CASE n \in 1..Len(s) /\ k \in 1..Len(s)
      <3>1. s[n] = s[k]
        BY <1>1, <1>4, <2>1
      <3> QED
        BY <1>4, <2>1, <3>1 DEF Distinct
    <2>2. CASE n = Len(s) + 1 \/ k = Len(s) + 1
      BY <1>1, <1>2, <1>4, <2>2 DEF In
    <2> QED
      BY <1>2, <2>1, <2>2
  <1>5. t # <<>>
    BY <1>1
  <1> QED
    BY <1>1, <1>3, <1>4, <1>5 DEF t, Distinct

\* Tail removes the first element, and that one only.
LEMMA TailFacts ==
    ASSUME NEW S, NEW s \in Seq(S), s # <<>>
    PROVE  /\ Head(s) \in S
           /\ Tail(s) \in Seq(S)
           /\ Len(s) = Len(Tail(s)) + 1
           /\ \A y : In(s, y) <=> In(Tail(s), y) \/ y = Head(s)
           /\ Distinct(s) => Distinct(Tail(s)) /\ ~In(Tail(s), Head(s))
  <1> DEFINE t == Tail(s)
  <1>1. /\ Len(s) \in Nat /\ Len(s) >= 1
        /\ Head(s) = s[1] /\ Head(s) \in S
        /\ t \in Seq(S)
        /\ Len(t) = Len(s) - 1
        /\ \A n \in 1..Len(t) : t[n] = s[n + 1]
    OBVIOUS
  <1> HIDE DEF t
  <1>2. \A n \in 1..Len(t) : n + 1 \in 1..Len(s) /\ n + 1 # 1
    BY <1>1
  <1>3. \A n \in 1..Len(s) : n # 1 => n - 1 \in 1..Len(t) /\ t[n - 1] = s[n]
    BY <1>1
  <1>4. 1 \in 1..Len(s)
    BY <1>1
  <1>5. \A y : In(s, y) <=> In(t, y) \/ y = Head(s)
    <2>1. ASSUME NEW y, In(s, y) PROVE In(t, y) \/ y = Head(s)
      BY <1>1, <1>3, <2>1 DEF In
    <2>2. ASSUME NEW y, In(t, y) \/ y = Head(s) PROVE In(s, y)
      BY <1>1, <1>2, <1>4, <2>2 DEF In
    <2> QED
      BY <2>1, <2>2
  <1>6. ASSUME Distinct(s) PROVE Distinct(t) /\ ~In(t, Head(s))
    <2>1. ASSUME NEW n \in 1..Len(t), NEW k \in 1..Len(t), t[n] = t[k] PROVE n = k
      <3>1. n + 1 = k + 1
        BY <1>1, <1>2, <1>6, <2>1 DEF Distinct
      <3> QED
        BY <3>1
    <2>2. ~In(t, Head(s))
      BY <1>1, <1>2, <1>4, <1>6 DEF Distinct, In
    <2> QED
      BY <2>1, <2>2 DEF Distinct
  <1> QED
    BY <1>1, <1>5, <1>6 DEF t

----------------------------------------------------------------------------
(* Actions.                                                                *)

\* The web calls in flight.
Calls == {i \in InFlight : op[i] = "http"}

\* nr_web_calls counts a finite set: the requests of one guest (runner.rs:54).
LEMMA CallsFinite == TypeOK => IsFiniteSet(Calls) /\ Cardinality(Calls) \in Nat
  <1> SUFFICES ASSUME TypeOK PROVE IsFiniteSet(Calls) /\ Cardinality(Calls) \in Nat
    OBVIOUS
  <1>1. Calls \subseteq Ids \cup {None}
    BY DEF Calls, InFlight, TypeOK
  <1>2. IsFiniteSet(Ids \cup {None})
    BY OpsAssumption, FS_AddElement
  <1> QED
    BY <1>1, <1>2, FS_Subset, FS_CardinalityType

\* A step that changes no request and no membership keeps the count.
LEMMA SameCalls ==
    ASSUME WebCallsCounted, Calls' = Calls, nrWebCalls' = nrWebCalls,
           loop = "failed" => loop' = "failed"
    PROVE  WebCallsCounted'
  BY DEF WebCallsCounted, Calls

\* The places of the channel can be counted (runner.rs:27).
LEMMA GrantedFinite ==
    TypeOK => /\ IsFiniteSet(granted)
              /\ Cardinality(granted) \in Nat
              /\ Len(chan) \in Nat
  BY OpsAssumption, FS_Subset, FS_CardinalityType DEF TypeOK

\* Before the first request nothing is pending, queued or counted.
LEMMA InitEstablishesIInv == Init => IInv
  <1> SUFFICES ASSUME Init PROVE IInv
    OBVIOUS
  <1> USE OpsAssumption
  <1>1. chan \in Seq(Result) /\ notified \in Seq(Ids) /\ sendq \in Seq(Ids)
    BY DEF Init
  <1>2. TypeOK
    BY <1>1 DEF Init, TypeOK
  <1>3. Wakers
    BY DEF Init, Wakers, Distinct, In
  <1>4. Senders
    BY FS_EmptySet DEF Init, Senders, Distinct, In, ChannelBounded
  <1>5. InFlight = {}
    BY DEF Init, InFlight
  <1>6. WebCallsCounted
    BY <1>5, FS_EmptySet DEF Init, WebCallsCounted
  <1> QED
    BY <1>2, <1>3, <1>4, <1>6 DEF IInv

\* The operation that is being polled is nowhere else.
LEMMA PolledFacts ==
    ASSUME IInv, NEW i \in Ids, polling = i
    PROVE  /\ i \notin hooked /\ ~In(notified, i)
           /\ eager => i \notin pending /\ ~In(sendq, i) /\ i \notin granted
           /\ ~eager => i \in pending /\ loop = "picking"
  BY OpsAssumption DEF IInv, TypeOK, Wakers, Senders, ChannelBounded

\* A step of the loop, or of the task, that touches neither an operation, nor
\* a queue, nor the channel.
LEMMA LoopKeepsIInv ==
    ASSUME IInv, TypeOK',
           UNCHANGED <<opVars, pending, notified, hooked, polling, eager, nrWebCalls, chanVars>>,
           loop' # loop => polling = None /\ loop # "failed"
    PROVE  IInv'
  <1> USE DEF IInv, opVars, chanVars
  <1>1. Wakers'
    BY DEF Wakers, Blocked, MaySend, Room, Sending, Returned
  <1>2. Senders'
    BY DEF Senders, ChannelBounded, Room, Sending
  <1>3. WebCallsCounted'
    BY SameCalls DEF Calls, InFlight
  <1> QED
    BY <1>1, <1>2, <1>3

\* An await of the polled operation is over.
LEMMA OpProceedsKeepsIInv ==
    ASSUME IInv, NEW i \in Ids, OpProceeds(i)
    PROVE  IInv'
  <1> USE OpsAssumption DEF IInv, OpProceeds, opVars, chanVars
  <1>1. TypeOK'
    BY DEF TypeOK, Goto
  <1>2. \A k \in Ids \ {i} : /\ Sending(k)' <=> Sending(k)
                             /\ Blocked(k)' <=> Blocked(k)
    BY DEF TypeOK, Goto, Sending, Returned, Blocked, MaySend, Room
  <1>3. i \notin hooked /\ ~In(notified, i)
    BY PolledFacts
  <1>4. Wakers'
    BY <1>2, <1>3 DEF TypeOK, Wakers
  <1>5. /\ \A k \in Ids : In(sendq, k)' => k \in pending' /\ Sending(k)' /\ k \notin granted'
        /\ \A k \in hooked' : Sending(k)' => In(sendq, k)'
    BY <1>2, <1>3 DEF TypeOK, Senders
  <1>6. Senders'
    BY <1>2, <1>5 DEF TypeOK, Senders, ChannelBounded, Room
  <1>7. WebCallsCounted'
    BY SameCalls DEF Calls, InFlight
  <1> QED
    BY <1>1, <1>4, <1>6, <1>7

\* A result enters the channel: through a granted place, or because there is room.
LEMMA OpSendsKeepsIInv ==
    ASSUME IInv, NEW i \in Ids, OpSends(i)
    PROVE  IInv'
  <1> USE OpsAssumption DEF IInv, opVars, chanVars
  <1>1. PICK w \in {"meta", "chunk", "final"}, t \in {"body", "done"} :
          /\ chan' = Append(chan, [id |-> i, what |-> w])
          /\ stage' = [stage EXCEPT ![i] = t]
          /\ Sending(i)
    BY DEF OpSends, Goto, Sending
  <1>2. /\ polling = i /\ MaySend(i) /\ granted' = granted \ {i} /\ rxWaker' = FALSE
        /\ woken' = (woken \/ rxWaker)
        /\ UNCHANGED <<op, source, pending, notified, hooked, polling, eager, unpolled,
                       nrWebCalls, sendq, loop, opsWaker, received>>
    BY DEF OpSends
  <1>3. chan' \in Seq(Result) /\ Len(chan') = Len(chan) + 1
    BY <1>1 DEF TypeOK, Result
  <1>4. TypeOK'
    BY <1>1, <1>2, <1>3 DEF TypeOK
  <1>5. /\ IsFiniteSet(granted) /\ Cardinality(granted) \in Nat /\ Len(chan) \in Nat
        /\ Cardinality(granted') = IF i \in granted THEN Cardinality(granted) - 1
                                                    ELSE Cardinality(granted)
    BY <1>2, GrantedFinite, FS_RemoveElement
  <1>6. /\ Len(chan') + Cardinality(granted') <= Capacity
        /\ ~Room => ~Room'
        /\ Room /\ i \notin granted => sendq = <<>>
    BY <1>2, <1>3, <1>5 DEF Senders, ChannelBounded, Room, MaySend
  <1>7. \A k \in Ids \ {i} : /\ Sending(k)' <=> Sending(k)
                             /\ Blocked(k) => Blocked(k)'
    BY <1>1, <1>2, <1>6 DEF TypeOK, Sending, Returned, Blocked, MaySend
  <1>8. i \notin hooked /\ ~In(notified, i)
    BY <1>2, PolledFacts
  <1>9. ~In(sendq, i)
    BY <1>2, <1>6 DEF Senders, MaySend, In
  <1>10. Wakers'
    BY <1>2, <1>7, <1>8 DEF TypeOK, Wakers
  <1>11. /\ \A k \in Ids : In(sendq, k)' => k \in pending' /\ Sending(k)' /\ k \notin granted'
         /\ \A k \in hooked' : Sending(k)' => In(sendq, k)'
    BY <1>2, <1>7, <1>8, <1>9 DEF TypeOK, Senders
  <1>12. /\ sendq' # <<>> => ~Room'
         /\ \A k \in granted' : Sending(k)' /\ k \in pending'
    BY <1>2, <1>6, <1>7 DEF TypeOK, Senders, ChannelBounded
  <1>13. Senders'
    BY <1>2, <1>6, <1>11, <1>12 DEF Senders, ChannelBounded
  <1>14. WebCallsCounted'
    BY <1>2, SameCalls DEF Calls, InFlight
  <1> QED
    BY <1>4, <1>10, <1>13, <1>14

\* A waker moves its operation from the hooked ones to the queue.
LEMMA NotifyFacts ==
    ASSUME IInv, NEW i \in Ids, Notify(i)
    PROVE  /\ hooked' = hooked \ {i}
           /\ notified' \in Seq(Ids)
           /\ Distinct(notified')
           /\ \A k \in Ids : In(notified', k) <=> In(notified, k) \/ (i \in hooked /\ k = i)
           /\ woken' \in BOOLEAN /\ opsWaker' \in BOOLEAN
  <1> USE DEF IInv, TypeOK
  <1>1. CASE i \in hooked
    <2>1. ~In(notified, i)
      BY <1>1 DEF Wakers
    <2>2. /\ hooked' = hooked \ {i}
          /\ notified' = Append(notified, i)
          /\ woken' = (woken \/ opsWaker)
          /\ opsWaker' = FALSE
      BY <1>1 DEF Notify
    <2>3. /\ notified' \in Seq(Ids)
          /\ Distinct(notified')
          /\ \A k \in Ids : In(notified', k) <=> In(notified, k) \/ k = i
      BY <2>1, <2>2, AppendFacts DEF Wakers
    <2>4. woken' \in BOOLEAN /\ opsWaker' \in BOOLEAN
      BY <2>2
    <2> QED
      BY <1>1, <2>2, <2>3, <2>4
  <1>2. CASE i \notin hooked
    BY <1>2 DEF Notify, Wakers
  <1> QED
    BY <1>1, <1>2

\* A blocked sender is in the queue, once.
LEMMA JoinQueueFacts ==
    ASSUME IInv, NEW i \in Ids, JoinQueue(i)
    PROVE  /\ sendq' \in Seq(Ids)
           /\ Distinct(sendq')
           /\ \A k \in Ids : In(sendq', k) <=> In(sendq, k) \/ (Sending(i) /\ k = i)
           /\ sendq' # <<>> => sendq # <<>> \/ Sending(i)
  <1> USE DEF IInv, TypeOK
  <1>1. CASE Sending(i) /\ ~In(sendq, i)
    <2>1. sendq' = Append(sendq, i)
      BY <1>1 DEF JoinQueue, In
    <2> QED
      BY <1>1, <2>1, AppendFacts DEF Senders
  <1>2. CASE ~(Sending(i) /\ ~In(sendq, i))
    <2>1. sendq' = sendq
      BY <1>2 DEF JoinQueue, In
    <2> QED
      BY <1>2, <2>1 DEF Senders
  <1> QED
    BY <1>1, <1>2

\* Something arrives from outside.
LEMMA ArriveKeepsIInv ==
    ASSUME IInv, NEW i \in Ids, Arrive(i)
    PROVE  IInv'
  <1> USE OpsAssumption DEF IInv, chanVars
  <1>1. /\ UNCHANGED <<op, stage, pending, polling, eager, unpolled, nrWebCalls, chanVars,
                       loop, rxWaker, received>>
        /\ Notify(i)
        /\ i \in pending \/ polling = i
        /\ ~Sending(i)
        /\ \E t \in {"ready", "end", "error"} : source' = [source EXCEPT ![i] = t]
    BY DEF Arrive
  <1>2. /\ hooked' = hooked \ {i}
        /\ notified' \in Seq(Ids)
        /\ Distinct(notified')
        /\ \A k \in Ids : In(notified', k) <=> In(notified, k) \/ (i \in hooked /\ k = i)
        /\ woken' \in BOOLEAN /\ opsWaker' \in BOOLEAN
    BY <1>1, NotifyFacts
  <1>3. TypeOK'
    BY <1>1, <1>2 DEF TypeOK
  <1>4. \A k \in Ids \ {i} : Blocked(k)' <=> Blocked(k)
    BY <1>1 DEF TypeOK, Blocked, Sending, Returned, MaySend, Room
  <1>5. \A k \in Ids : Sending(k)' <=> Sending(k)
    BY <1>1 DEF Sending
  <1>6. Wakers'
    BY <1>1, <1>2, <1>4 DEF TypeOK, Wakers
  <1>7. Senders'
    BY <1>1, <1>2, <1>5 DEF TypeOK, Senders, ChannelBounded, Room
  <1>8. WebCallsCounted'
    BY <1>1, SameCalls DEF Calls, InFlight
  <1> QED
    BY <1>3, <1>6, <1>7, <1>8

\* The guest issues a request with an id that nothing refers to.
LEMMA HandleRequestKeepsIInv ==
    ASSUME IInv, NEW i \in Ids, NEW k \in OpKinds, HandleRequest(i, k)
    PROVE  IInv'
  <1> USE OpsAssumption DEF IInv, chanVars
  <1>1. /\ i \notin pending /\ loop = "idle" /\ polling = None
        /\ op' = [op EXCEPT ![i] = k]
        /\ stage' \in {[stage EXCEPT ![i] = t] : t \in {"sleep", "call"}}
        /\ source' = [source EXCEPT ![i] = "waiting"]
        /\ received' = [received EXCEPT ![i] = "nothing"]
        /\ nrWebCalls' = IF k = "http" THEN nrWebCalls + 1 ELSE nrWebCalls
        /\ polling' = i /\ eager' = TRUE
        /\ UNCHANGED <<pending, notified, hooked, unpolled, chanVars, loop, opsWaker,
                       rxWaker, woken>>
    BY DEF HandleRequest, Unused, Goto
  <1>2. TypeOK'
    BY <1>1 DEF TypeOK
  <1>3. \A n \in Ids \ {i} : /\ Sending(n)' <=> Sending(n)
                             /\ Blocked(n)' <=> Blocked(n)
    BY <1>1 DEF TypeOK, Sending, Returned, Blocked, MaySend, Room
  <1>4. i \notin hooked /\ i \notin granted /\ ~In(sendq, i)
    BY <1>1 DEF TypeOK, Senders, ChannelBounded
  <1>5. ~eager
    BY <1>1 DEF Wakers
  <1>6. Wakers'
    BY <1>1, <1>3, <1>4 DEF TypeOK, Wakers
  <1>7. /\ \A n \in Ids : In(sendq, n)' => n \in pending' /\ Sending(n)' /\ n \notin granted'
        /\ \A n \in hooked' : Sending(n)' => In(sendq, n)'
        /\ \A n \in granted' : Sending(n)' /\ n \in pending'
    BY <1>1, <1>3, <1>4 DEF TypeOK, Senders, ChannelBounded
  <1>8. Senders'
    BY <1>1, <1>7 DEF Senders, ChannelBounded, Room
  <1>9. Calls' = (IF k = "http" THEN Calls \cup {i} ELSE Calls) /\ i \notin Calls
    BY <1>1, <1>5 DEF TypeOK, Calls, InFlight
  <1>10. Cardinality(Calls') = IF k = "http" THEN Cardinality(Calls) + 1 ELSE Cardinality(Calls)
    BY <1>9, CallsFinite, FS_AddElement
  <1>11. WebCallsCounted'
    BY <1>1, <1>10, CallsFinite DEF WebCallsCounted, Calls
  <1> QED
    BY <1>2, <1>6, <1>8, <1>11

\* The eager poll is over: the operation is queued for a poll that counts.
LEMMA HandleOpcallKeepsIInv ==
    ASSUME IInv, NEW i \in Ids, HandleOpcall(i)
    PROVE  IInv'
  <1> USE OpsAssumption DEF IInv, opVars
  <1>1. /\ polling = i /\ eager /\ JoinQueue(i)
        /\ Blocked(i) \/ Returned(i)
        /\ pending' = pending \cup {i}
        /\ notified' = Append(notified, i)
        /\ unpolled' = TRUE /\ polling' = None /\ eager' = FALSE
        /\ UNCHANGED <<opVars, hooked, nrWebCalls, chan, granted, loop, opsWaker, rxWaker,
                       woken, received>>
    BY DEF HandleOpcall
  <1>2. i \notin hooked /\ ~In(notified, i) /\ i \notin granted /\ i \notin pending
    BY <1>1, PolledFacts
  <1>3. /\ notified' \in Seq(Ids)
        /\ Distinct(notified')
        /\ \A k \in Ids : In(notified', k) <=> In(notified, k) \/ k = i
    BY <1>1, <1>2, AppendFacts DEF TypeOK, Wakers
  <1>4. /\ sendq' \in Seq(Ids)
        /\ Distinct(sendq')
        /\ \A k \in Ids : In(sendq', k) <=> In(sendq, k) \/ (Sending(i) /\ k = i)
        /\ sendq' # <<>> => sendq # <<>> \/ Sending(i)
    BY <1>1, JoinQueueFacts
  <1>5. TypeOK'
    BY <1>1, <1>3, <1>4 DEF TypeOK
  <1>6. \A k \in Ids : /\ Sending(k)' <=> Sending(k)
                       /\ Blocked(k)' <=> Blocked(k)
    BY <1>1 DEF Sending, Returned, Blocked, MaySend, Room
  <1>7. Wakers'
    BY <1>1, <1>2, <1>3, <1>6 DEF TypeOK, Wakers
  <1>8. Sending(i) => ~Room
    BY <1>1 DEF Blocked, MaySend, Sending, Returned
  <1>9. Senders'
    BY <1>1, <1>2, <1>4, <1>6, <1>8 DEF TypeOK, Senders, ChannelBounded, Room
  <1>10. Calls' = Calls
    BY <1>1 DEF Calls, InFlight
  <1>11. WebCallsCounted'
    BY <1>1, <1>10, SameCalls
  <1> QED
    BY <1>5, <1>7, <1>9, <1>11

\* poll_next takes an operation off its queue.
LEMMA PollOpKeepsIInv ==
    ASSUME IInv, NEW i \in Ids, PollOp(i)
    PROVE  IInv'
  <1> USE OpsAssumption DEF IInv, opVars, chanVars
  <1>1. /\ loop = "picking" /\ polling = None /\ notified # <<>> /\ i = Head(notified)
        /\ notified' = Tail(notified)
        /\ polling' = i
        /\ UNCHANGED <<opVars, pending, hooked, eager, unpolled, nrWebCalls, chanVars,
                       loop, opsWaker, rxWaker, woken, received>>
    BY DEF PollOp
  <1>2. /\ notified' \in Seq(Ids)
        /\ Distinct(notified')
        /\ ~In(notified', i)
        /\ \A k \in Ids : In(notified, k) <=> In(notified', k) \/ k = i
    BY <1>1, TailFacts DEF TypeOK, Wakers
  <1>3. TypeOK'
    BY <1>1, <1>2 DEF TypeOK
  <1>4. ~eager
    BY <1>1 DEF Wakers
  <1>5. \A k \in Ids : /\ Sending(k)' <=> Sending(k)
                       /\ Blocked(k)' <=> Blocked(k)
    BY <1>1 DEF Sending, Returned, Blocked, MaySend, Room
  <1>6. Wakers'
    BY <1>1, <1>2, <1>4, <1>5 DEF TypeOK, Wakers
  <1>7. Senders'
    BY <1>1, <1>5 DEF TypeOK, Senders, ChannelBounded, Room
  <1>8. WebCallsCounted'
    BY <1>1, <1>4, SameCalls DEF Calls, InFlight
  <1> QED
    BY <1>3, <1>6, <1>7, <1>8

\* The polled operation is not done: it leaves its waker where it waits.
LEMMA OpPendsKeepsIInv ==
    ASSUME IInv, NEW i \in Ids, OpPends(i)
    PROVE  IInv'
  <1> USE OpsAssumption DEF IInv, opVars
  <1>1. /\ polling = i /\ ~eager /\ Blocked(i) /\ JoinQueue(i)
        /\ polling' = None
        /\ hooked' = hooked \cup {i}
        /\ loop' \in {loop, "none"} /\ woken' \in {woken, TRUE}
        /\ UNCHANGED <<opVars, pending, notified, eager, unpolled, nrWebCalls, chan,
                       granted, opsWaker, rxWaker, received>>
    BY DEF OpPends
  <1>2. i \in pending /\ ~In(notified, i) /\ loop = "picking"
    BY <1>1, PolledFacts
  <1>3. /\ sendq' \in Seq(Ids)
        /\ Distinct(sendq')
        /\ \A k \in Ids : In(sendq', k) <=> In(sendq, k) \/ (Sending(i) /\ k = i)
        /\ sendq' # <<>> => sendq # <<>> \/ Sending(i)
    BY <1>1, JoinQueueFacts
  <1>4. TypeOK'
    BY <1>1, <1>2, <1>3 DEF TypeOK
  <1>5. \A k \in Ids : /\ Sending(k)' <=> Sending(k)
                       /\ Blocked(k)' <=> Blocked(k)
    BY <1>1 DEF Sending, Returned, Blocked, MaySend, Room
  <1>6. Wakers'
    BY <1>1, <1>2, <1>5 DEF TypeOK, Wakers
  <1>7. Sending(i) => ~Room /\ i \notin granted
    BY <1>1 DEF Blocked, MaySend
  <1>8. Senders'
    BY <1>1, <1>2, <1>3, <1>5, <1>7 DEF TypeOK, Senders, ChannelBounded, Room
  <1>9. Calls' = Calls
    BY <1>1 DEF Calls, InFlight
  <1>10. WebCallsCounted'
    BY <1>1, <1>2, <1>9, SameCalls
  <1> QED
    BY <1>4, <1>6, <1>8, <1>10

\* An operation whose future has returned leaves pending_ops.
LEMMA OpLeaves ==
    ASSUME IInv, NEW i \in Ids, polling = i, ~eager, Returned(i),
           pending' = pending \ {i}, polling' = None,
           UNCHANGED <<opVars, notified, hooked, eager, chanVars>>
    PROVE  /\ Wakers'
           /\ Senders'
           /\ pending' \in SUBSET Ids /\ hooked' \in SUBSET pending'
  <1> USE OpsAssumption DEF IInv, opVars, chanVars
  <1>1. i \in pending /\ i \notin hooked /\ ~In(notified, i) /\ ~Sending(i)
    BY PolledFacts DEF Returned, Sending
  <1>2. \A k \in Ids : /\ Sending(k)' <=> Sending(k)
                       /\ Blocked(k)' <=> Blocked(k)
    BY DEF Sending, Returned, Blocked, MaySend, Room
  <1>3. Wakers'
    BY <1>1, <1>2 DEF TypeOK, Wakers
  <1>4. Senders'
    BY <1>1, <1>2 DEF TypeOK, Senders, ChannelBounded, Room
  <1> QED
    BY <1>1, <1>3, <1>4 DEF TypeOK

\* Ready(Some(Ok(val))): an Http request is counted off.
LEMMA OpReturnsKeepsIInv ==
    ASSUME IInv, NEW i \in Ids, OpReturns(i)
    PROVE  IInv'
  <1> USE OpsAssumption DEF IInv, OpReturns
  <1>1. /\ Wakers'
        /\ Senders'
        /\ pending' \in SUBSET Ids /\ hooked' \in SUBSET pending'
    BY OpLeaves DEF Returned
  <1>2. i \in pending /\ loop = "picking"
    BY PolledFacts
  <1>3. /\ Calls' = Calls \ {i}
        /\ i \in Calls <=> op[i] = "http"
    BY <1>2 DEF Calls, InFlight, opVars
  <1>4. /\ Cardinality(Calls') = Cardinality(Calls) - WebCalls(i)
        /\ Cardinality(Calls) - WebCalls(i) \in Nat
    <2>1. CASE i \in Calls
      <3>1. /\ IsFiniteSet(Calls)
            /\ Cardinality(Calls \ {i}) = Cardinality(Calls) - 1
        BY <2>1, CallsFinite, FS_RemoveElement
      <3>2. Cardinality(Calls \ {i}) \in Nat
        BY <3>1, FS_RemoveElement, FS_CardinalityType
      <3> QED
        BY <1>3, <2>1, <3>1, <3>2 DEF WebCalls
    <2>2. CASE i \notin Calls
      <3>1. Calls' = Calls
        BY <1>3, <2>2
      <3>2. WebCalls(i) = 0
        BY <1>3, <2>2 DEF WebCalls
      <3>3. Cardinality(Calls) \in Nat
        BY CallsFinite
      <3> QED
        BY <3>1, <3>2, <3>3
    <2> QED
      BY <2>1, <2>2
  <1>5. nrWebCalls = Cardinality(Calls)
    BY <1>2 DEF WebCallsCounted, Calls
  <1>6. WebCallsCounted' /\ nrWebCalls' \in Nat
    BY <1>4, <1>5 DEF WebCallsCounted, Calls
  <1>7. TypeOK'
    BY <1>1, <1>6 DEF TypeOK, opVars, chanVars
  <1> QED
    BY <1>1, <1>6, <1>7

\* Ready(Some(Err(err))).
LEMMA OpFailsKeepsIInv ==
    ASSUME IInv, NEW i \in Ids, OpFails(i)
    PROVE  IInv'
  <1> USE DEF IInv, OpFails
  <1>1. /\ Wakers'
        /\ Senders'
        /\ pending' \in SUBSET Ids /\ hooked' \in SUBSET pending'
    BY OpLeaves DEF Returned
  <1>2. TypeOK'
    BY <1>1, OpsAssumption DEF TypeOK, opVars, chanVars
  <1>3. WebCallsCounted'
    BY DEF WebCallsCounted
  <1> QED
    BY <1>1, <1>2, <1>3

\* A result is read, and its place granted to the longest queued sender.
LEMMA RecvSomeKeepsIInv ==
    ASSUME IInv, RecvSome
    PROVE  IInv'
  <1> USE OpsAssumption DEF IInv, opVars
  <1>1. /\ loop \in {"item", "none"} /\ chan # <<>> /\ chan' = Tail(chan) /\ loop' = "idle"
        /\ received' = [received EXCEPT ![Head(chan).id] = Head(chan).what]
        /\ UNCHANGED <<opVars, pending, polling, eager, unpolled, nrWebCalls, rxWaker>>
    BY DEF RecvSome
  <1>2. /\ Head(chan) \in Result
        /\ chan' \in Seq(Result)
        /\ Len(chan) = Len(chan') + 1
        /\ Len(chan') \in Nat
    BY <1>1, TailFacts DEF TypeOK
  <1>3. received' \in [Ids -> {"nothing", "meta", "chunk", "final"}]
    BY <1>1, <1>2 DEF TypeOK, Result
  <1>4. polling = None /\ ~eager
    BY <1>1 DEF Wakers
  <1>5. IsFiniteSet(granted) /\ Cardinality(granted) \in Nat
    BY GrantedFinite
  <1>6. \A k \in Ids : Sending(k)' <=> Sending(k)
    BY <1>1 DEF Sending
  <1>7. WebCallsCounted'
    BY <1>1, SameCalls DEF Calls, InFlight
  <1>8. CASE sendq = <<>>
    <2>1. UNCHANGED <<sendq, granted, hooked, notified, woken, opsWaker>>
      BY <1>8 DEF RecvSome
    <2>2. \A k \in hooked : ~Sending(k)
      BY <1>8 DEF Senders, In
    <2>3. \A k \in hooked : Blocked(k)'
      BY <1>1, <2>1, <2>2 DEF Wakers, Blocked, Sending, Returned
    <2>4. Wakers'
      BY <1>1, <1>4, <2>1, <2>3 DEF Wakers
    <2>5. Senders'
      BY <1>1, <1>2, <1>5, <1>6, <1>8, <2>1 DEF TypeOK, Senders, ChannelBounded
    <2>6. TypeOK'
      BY <1>1, <1>2, <1>3, <2>1 DEF TypeOK
    <2> QED
      BY <1>7, <2>4, <2>5, <2>6
  <1>9. CASE sendq # <<>>
    <2> DEFINE h == Head(sendq)
    <2>1. /\ sendq' = Tail(sendq) /\ granted' = granted \cup {h} /\ Notify(h)
      BY <1>9 DEF RecvSome
    <2>2. /\ h \in Ids
          /\ sendq' \in Seq(Ids)
          /\ Distinct(sendq')
          /\ ~In(sendq', h)
          /\ \A k \in Ids : In(sendq, k) <=> In(sendq', k) \/ k = h
      BY <1>9, <2>1, TailFacts DEF TypeOK, Senders
    <2>3. h \in pending /\ Sending(h) /\ h \notin granted
      BY <2>2 DEF Senders
    <2>4. /\ hooked' = hooked \ {h}
          /\ notified' \in Seq(Ids)
          /\ Distinct(notified')
          /\ \A k \in Ids : In(notified', k) <=> In(notified, k) \/ (h \in hooked /\ k = h)
          /\ woken' \in BOOLEAN /\ opsWaker' \in BOOLEAN
      BY <2>1, <2>2, NotifyFacts
    <2> HIDE DEF h
    <2>5. Cardinality(granted') = Cardinality(granted) + 1
      BY <1>5, <2>1, <2>3, FS_AddElement
    <2>6. ~Room /\ ~Room'
      BY <1>2, <1>5, <1>9, <2>5 DEF Senders, ChannelBounded, Room
    <2>7. \A k \in hooked' : Blocked(k)'
      BY <1>1, <2>1, <2>4, <2>6 DEF TypeOK, Wakers, Blocked, Sending, Returned, MaySend
    <2>8. TypeOK'
      BY <1>1, <1>2, <1>3, <2>1, <2>2, <2>4 DEF TypeOK
    <2>9. Wakers'
      BY <1>1, <1>4, <2>2, <2>4, <2>7 DEF TypeOK, Wakers
    <2>10. /\ \A k \in Ids : In(sendq', k) => k \in pending' /\ Sending(k)' /\ k \notin granted'
           /\ \A k \in hooked' : Sending(k)' => In(sendq', k)
           /\ \A k \in granted' : Sending(k)' /\ k \in pending'
      BY <1>1, <1>6, <2>1, <2>2, <2>3, <2>4 DEF TypeOK, Senders, ChannelBounded
    <2>11. Len(chan') + Cardinality(granted') <= Capacity
      BY <1>2, <1>5, <2>5 DEF Senders, ChannelBounded
    <2>12. Senders'
      BY <2>2, <2>6, <2>10, <2>11 DEF Senders, ChannelBounded
    <2> QED
      BY <1>7, <2>8, <2>9, <2>12
  <1> QED
    BY <1>8, <1>9

----------------------------------------------------------------------------
(* The order of the results.                                               *)

\* A step that leaves the operations, the channel and the guest alone.
LEMMA SameOrder ==
    ASSUME Order, UNCHANGED <<opVars, chan, received>>
    PROVE  Order'
  BY DEF Order, Sent, Heard, InTurn, First, Nothing, Begun, Ended, Unread, UnreadFinal, opVars

\* A step that sends and reads nothing keeps the channel in order.
LEMMA SameChannel ==
    ASSUME Order, UNCHANGED <<op, chan, received>>
    PROVE  /\ \A k \in Ids : Heard(k)'
           /\ \A n \in 1..Len(chan') : InTurn(n)'
           /\ \A k \in Ids : /\ Nothing(k)' <=> Nothing(k)
                             /\ Begun(k)' <=> Begun(k)
                             /\ Ended(k)' <=> Ended(k)
                             /\ UnreadFinal(k)' <=> UnreadFinal(k)
  BY DEF Order, Heard, InTurn, First, Nothing, Begun, Ended, Unread, UnreadFinal

\* The future moves on to the send that is due.
LEMMA OpProceedsKeepsOrder ==
    ASSUME TypeOK, Order, NEW i \in Ids, OpProceeds(i)
    PROVE  Order'
  <1>1. UNCHANGED <<op, chan, received>>
    BY DEF OpProceeds, chanVars
  <1>2. /\ \A k \in Ids : Heard(k)'
        /\ \A n \in 1..Len(chan') : InTurn(n)'
        /\ \A k \in Ids : /\ Nothing(k)' <=> Nothing(k)
                          /\ Begun(k)' <=> Begun(k)
                          /\ Ended(k)' <=> Ended(k)
                          /\ UnreadFinal(k)' <=> UnreadFinal(k)
    BY <1>1, SameChannel
  <1>3. /\ source' = [source EXCEPT ![i] = "waiting"]
        /\ \E t \in {"failed", "sendMeta", "sendChunk", "sendFinal"} : stage' = [stage EXCEPT ![i] = t]
    BY DEF OpProceeds, Goto
  <1>4. ASSUME NEW k \in Ids \ {i} PROVE Sent(k)'
    <2>1. stage'[k] = stage[k] /\ source'[k] = source[k] /\ op'[k] = op[k]
      BY <1>1, <1>3 DEF TypeOK
    <2>2. Sent(k)
      BY DEF Order
    <2> QED
      BY <1>2, <2>1, <2>2 DEF Sent
  <1>5. Sent(i)'
    <2>1. Sent(i)
      BY DEF Order
    <2>2. source'[i] = "waiting" /\ op'[i] = op[i]
      BY <1>1, <1>3 DEF TypeOK
    <2>3. \/ stage'[i] = "failed"
          \/ stage[i] = "call" /\ stage'[i] = "sendMeta"
          \/ stage[i] = "body" /\ op[i] = "stream" /\ stage'[i] \in {"sendChunk", "sendFinal"}
          \/ stage[i] = "body" /\ op[i] = "http" /\ stage'[i] = "sendFinal"
          \/ stage[i] = "sleep" /\ stage'[i] = "sendFinal"
      BY <2>1 DEF OpProceeds, Goto, TypeOK, Sent
    <2> QED
      BY <1>2, <2>1, <2>2, <2>3 DEF Sent
  <1> QED
    BY <1>2, <1>4, <1>5 DEF Order

\* What arrives is the end of a stream only while chunks are awaited.
LEMMA ArriveKeepsOrder ==
    ASSUME TypeOK, Order, NEW i \in Ids, Arrive(i)
    PROVE  Order'
  <1>1. UNCHANGED <<op, stage, chan, received>>
    BY DEF Arrive, chanVars
  <1>2. /\ \A k \in Ids : Heard(k)'
        /\ \A n \in 1..Len(chan') : InTurn(n)'
        /\ \A k \in Ids : /\ Nothing(k)' <=> Nothing(k)
                          /\ Begun(k)' <=> Begun(k)
                          /\ Ended(k)' <=> Ended(k)
                          /\ UnreadFinal(k)' <=> UnreadFinal(k)
    BY <1>1, SameChannel
  <1>3. ASSUME NEW k \in Ids
        PROVE  source'[k] = "end" => source[k] = "end" \/ (op[k] = "stream" /\ stage[k] = "body")
    BY DEF Arrive, TypeOK
  <1>4. ASSUME NEW k \in Ids PROVE Sent(k)'
    <2>1. Sent(k) /\ op'[k] = op[k] /\ stage'[k] = stage[k]
      BY <1>1 DEF Order
    <2> QED
      BY <1>2, <1>3, <2>1 DEF Sent
  <1> QED
    BY <1>2, <1>4 DEF Order

\* An id is used again only when none of its results is unread.
LEMMA HandleRequestKeepsOrder ==
    ASSUME TypeOK, Order, NEW i \in Ids, NEW k \in OpKinds, HandleRequest(i, k)
    PROVE  Order'
  <1>1. /\ op' = [op EXCEPT ![i] = k]
        /\ stage' = [stage EXCEPT ![i] = IF k = "delay" THEN "sleep" ELSE "call"]
        /\ source' = [source EXCEPT ![i] = "waiting"]
        /\ received' = [received EXCEPT ![i] = "nothing"]
        /\ chan' = chan
    BY DEF HandleRequest, Goto, chanVars
  <1>2. ~Unread(i) /\ ~Unread(i)'
    BY <1>1 DEF HandleRequest, Unused, Unread
  <1>3. \A j \in Ids \ {i} : /\ op'[j] = op[j] /\ stage'[j] = stage[j]
                             /\ source'[j] = source[j] /\ received'[j] = received[j]
    BY <1>1 DEF TypeOK
  <1>4. /\ op'[i] = k /\ stage'[i] = (IF k = "delay" THEN "sleep" ELSE "call")
        /\ source'[i] = "waiting" /\ received'[i] = "nothing"
    BY <1>1 DEF TypeOK
  <1>5. ASSUME NEW j \in Ids \ {i} PROVE Sent(j)' /\ Heard(j)'
    <2>1. Sent(j) /\ Heard(j)
      BY DEF Order
    <2>2. (Unread(j)' <=> Unread(j)) /\ (UnreadFinal(j)' <=> UnreadFinal(j))
      BY <1>1 DEF Unread, UnreadFinal
    <2> QED
      BY <1>3, <2>1, <2>2 DEF Sent, Heard, Nothing, Begun, Ended
  <1>6. Sent(i)' /\ Heard(i)'
    BY <1>2, <1>4 DEF Sent, Heard, Nothing
  <1>7. ASSUME NEW n \in 1..Len(chan) PROVE InTurn(n)'
    <2> chan[n] \in Result
      BY DEF TypeOK
    <2>1. chan[n].id \in Ids \ {i}
      BY <1>2 DEF Unread, Result
    <2>2. InTurn(n)
      BY DEF Order
    <2>3. /\ op'[chan[n].id] = op[chan[n].id]
          /\ received'[chan[n].id] = received[chan[n].id]
      BY <1>3, <2>1
    <2> QED
      BY <1>1, <2>2, <2>3 DEF InTurn, First
  <1> QED
    BY <1>1, <1>5, <1>6, <1>7 DEF Order

\* The result that is sent comes after those of the same request.
LEMMA OpSendsKeepsOrder ==
    ASSUME TypeOK, Order, NEW i \in Ids, OpSends(i)
    PROVE  Order'
  <1>1. PICK w \in {"meta", "chunk", "final"} :
          /\ chan' = Append(chan, [id |-> i, what |-> w])
          /\ stage' = [stage EXCEPT ![i] = IF w = "final" THEN "done" ELSE "body"]
          /\ stage[i] = (CASE w = "meta" -> "sendMeta"
                          [] w = "chunk" -> "sendChunk"
                          [] w = "final" -> "sendFinal")
    BY DEF OpSends, Goto
  <1>2. UNCHANGED <<op, source, received>>
    BY DEF OpSends
  <1> DEFINE r == [id |-> i, what |-> w]
  <1>3. /\ Len(chan) \in Nat /\ Len(chan') = Len(chan) + 1
        /\ \A n \in 1..Len(chan) : chan'[n] = chan[n]
        /\ chan'[Len(chan) + 1] = r
    BY <1>1 DEF TypeOK, Result
  <1>4. r.id = i /\ r.what = w
    OBVIOUS
  <1> HIDE DEF r
  <1>5. \A n : n \in 1..Len(chan') <=> n \in 1..Len(chan) \/ n = Len(chan) + 1
    BY <1>3
  <1>6. \A k \in Ids : /\ Unread(k)' <=> Unread(k) \/ k = i
                       /\ UnreadFinal(k)' <=> UnreadFinal(k) \/ (k = i /\ w = "final")
    BY <1>3, <1>4, <1>5 DEF Unread, UnreadFinal
  <1>7. \A k \in Ids \ {i} : stage'[k] = stage[k]
    BY <1>1 DEF TypeOK
  <1>8. stage'[i] = IF w = "final" THEN "done" ELSE "body"
    BY <1>1 DEF TypeOK
  <1>9. Sent(i) /\ Heard(i)
    BY DEF Order
  <1>10. /\ w = "meta" => op[i] # "delay" /\ Nothing(i)
         /\ w = "chunk" => op[i] = "stream" /\ Begun(i) /\ ~Ended(i)
         /\ w = "final" => IF op[i] = "delay" THEN Nothing(i) ELSE Begun(i) /\ ~Ended(i)
    BY <1>1, <1>9 DEF Sent
  <1>11. ~UnreadFinal(i) /\ received[i] # "final"
    BY <1>10 DEF Nothing, Ended, Unread, UnreadFinal
  <1>12. ASSUME NEW k \in Ids \ {i} PROVE Sent(k)' /\ Heard(k)'
    <2>1. Sent(k) /\ Heard(k)
      BY DEF Order
    <2> QED
      BY <1>2, <1>6, <1>7, <2>1 DEF Sent, Heard, Nothing, Begun, Ended
  <1>13. Sent(i)' /\ Heard(i)'
    <2>1. source[i] # "end"
      BY <1>1, <1>9 DEF Sent
    <2> QED
      BY <1>2, <1>6, <1>8, <1>9, <1>10, <1>11, <2>1 DEF Sent, Heard, Nothing, Begun, Ended
  <1>14. ASSUME NEW n \in 1..Len(chan) PROVE InTurn(n)'
    <2>1. InTurn(n)
      BY DEF Order
    <2>2. /\ n \in Nat /\ chan'[n] = chan[n]
          /\ \A k \in 1..(n - 1) : chan'[k] = chan[k]
      BY <1>3
    <2>3. First(n)' <=> First(n)
      BY <2>2 DEF First
    <2>4. chan[n].what = "final" => chan[n].id # i
      BY <1>11 DEF UnreadFinal
    <2>5. chan[n].what = "final" => \A k \in (n + 1)..Len(chan') : chan'[k].id # chan[n].id
      <3> SUFFICES ASSUME chan[n].what = "final", NEW k \in (n + 1)..Len(chan')
                   PROVE  chan'[k].id # chan[n].id
        OBVIOUS
      <3>1. k \in (n + 1)..Len(chan) \/ k = Len(chan) + 1
        BY <1>3, <2>2
      <3>2. CASE k \in (n + 1)..Len(chan)
        <4>1. chan'[k] = chan[k]
          BY <1>3, <2>2, <3>2
        <4> QED
          BY <2>1, <3>2, <4>1 DEF InTurn
      <3>3. CASE k = Len(chan) + 1
        BY <1>3, <1>4, <2>4, <3>3
      <3> QED
        BY <3>1, <3>2, <3>3
    <2> QED
      BY <1>2, <2>1, <2>2, <2>3, <2>5 DEF InTurn
  <1>15. ASSUME NEW e, e = Len(chan) + 1 PROVE InTurn(e)'
    <2>1. First(e)' <=> ~Unread(i)
      BY <1>3, <1>4, <1>15 DEF First, Unread
    <2>2. \A k \in (e + 1)..Len(chan') : FALSE
      BY <1>3, <1>15
    <2>3. chan'[e] = r
      BY <1>3, <1>15
    <2>4. First(e)' => /\ w = "meta" => op'[i] # "delay" /\ received'[i] = "nothing"
                       /\ w = "chunk" => received'[i] \in {"meta", "chunk"}
                       /\ w = "final" /\ op'[i] # "delay" => received'[i] \in {"meta", "chunk"}
      BY <1>2, <1>10, <2>1 DEF Nothing, Begun
    <2>5. w = "meta" \/ (w = "final" /\ op[i] = "delay") =>
            First(e)' /\ received'[i] = "nothing"
      BY <1>2, <1>10, <2>1 DEF Nothing
    <2>6. (w = "meta" => op'[i] # "delay") /\ (w = "chunk" => op'[i] = "stream")
      BY <1>2, <1>10
    <2> QED
      BY <1>2, <1>4, <2>2, <2>3, <2>4, <2>5, <2>6 DEF InTurn
  <1> QED
    BY <1>5, <1>12, <1>13, <1>14, <1>15 DEF Order

\* The guest reads the first result of the channel, and its request goes on.
LEMMA RecvSomeKeepsOrder ==
    ASSUME TypeOK, Order, RecvSome
    PROVE  Order'
  <1>1. chan # <<>> /\ chan' = Tail(chan) /\ UNCHANGED <<op, stage, source>>
    BY DEF RecvSome, opVars
  <1>2. /\ Len(chan) \in Nat /\ Len(chan) >= 1
        /\ Head(chan) = chan[1] /\ chan[1] \in Result
        /\ Len(chan') = Len(chan) - 1
        /\ \A n \in 1..Len(chan') : chan'[n] = chan[n + 1]
    BY <1>1 DEF TypeOK
  <1>3. PICK h \in Result : h = chan[1]
    BY <1>2
  <1> DEFINE i == h.id
  <1>4. /\ i = chan[1].id /\ 1 \in 1..Len(chan)
        /\ i \in Ids /\ h.what \in {"meta", "chunk", "final"}
        /\ received' = [received EXCEPT ![i] = h.what]
    BY <1>2, <1>3 DEF RecvSome, Result
  <1> HIDE DEF i
  <1>5. InTurn(1)
    BY <1>4 DEF Order
  <1>6. /\ h.what = "meta"  => op[i] # "delay"
        /\ h.what = "chunk" => op[i] = "stream"
        /\ h.what = "final" => \A k \in 2..Len(chan) : chan[k].id # i
    BY <1>2, <1>3, <1>4, <1>5 DEF InTurn
  <1>7. \A k \in Ids \ {i} : received'[k] = received[k]
    BY <1>4 DEF TypeOK
  <1>8. received'[i] = h.what
    BY <1>4 DEF TypeOK
  <1>9. \A n \in 1..Len(chan) : n = 1 \/ (n - 1 \in 1..Len(chan') /\ chan'[n - 1] = chan[n])
    BY <1>2
  <1>10. \A n \in 1..Len(chan') : n + 1 \in 2..Len(chan) /\ n + 1 \in 1..Len(chan)
    BY <1>2
  <1>11. \A k \in Ids : /\ Unread(k)' => Unread(k)
                        /\ UnreadFinal(k)' => UnreadFinal(k)
    BY <1>2, <1>10 DEF Unread, UnreadFinal
  <1>12. \A k \in Ids \ {i} : /\ Unread(k) => Unread(k)'
                              /\ UnreadFinal(k) => UnreadFinal(k)'
    BY <1>4, <1>9 DEF Unread, UnreadFinal
  <1>13. Unread(i) /\ (h.what = "final" => UnreadFinal(i) /\ ~Unread(i)')
    BY <1>2, <1>3, <1>4, <1>6, <1>10 DEF Unread, UnreadFinal
  <1>14. UnreadFinal(i) /\ h.what # "final" => UnreadFinal(i)'
    BY <1>2, <1>3, <1>9 DEF UnreadFinal
  <1>15. ASSUME NEW k \in Ids \ {i} PROVE Sent(k)' /\ Heard(k)'
    <2>1. Sent(k) /\ Heard(k)
      BY DEF Order
    <2> QED
      BY <1>1, <1>7, <1>11, <1>12, <2>1 DEF Sent, Heard, Nothing, Begun, Ended
  <1>16. Sent(i)' /\ Heard(i)'
    <2>1. Sent(i)
      BY <1>4 DEF Order
    <2>2. Heard(i)'
      BY <1>1, <1>6, <1>8, <1>13 DEF Heard
    <2>3. Sent(i)'
      BY <1>1, <1>4, <1>8, <1>11, <1>13, <1>14, <2>1 DEF Sent, Nothing, Begun, Ended
    <2> QED
      BY <2>2, <2>3
  <1>17. ASSUME NEW n \in 1..Len(chan') PROVE InTurn(n)'
    <2> DEFINE j == chan[n + 1].id
    <2>1. InTurn(n + 1) /\ n \in Nat
      BY <1>10 DEF Order
    <2>2. chan'[n] = chan[n + 1]
      BY <1>2
    <2>3. j \in Ids
      <3>1. chan[n + 1] \in Result
        BY <1>10 DEF TypeOK
      <3> QED
        BY <3>1 DEF Result
    <2>4. j # i => (First(n)' => First(n + 1))
      <3> SUFFICES ASSUME j # i, First(n)', NEW k \in 1..n PROVE chan[k].id # j
        BY <2>1 DEF First
      <3>1. CASE k = 1
        BY <1>4, <3>1
      <3>2. CASE k # 1
        <4>1. k - 1 \in 1..(n - 1) /\ k - 1 \in 1..Len(chan') /\ k \in Nat
          BY <1>2, <2>1, <3>2
        <4>2. chan'[k - 1] = chan[(k - 1) + 1] /\ (k - 1) + 1 = k
          BY <1>2, <4>1
        <4>3. chan'[k - 1].id # chan'[n].id
          BY <4>1 DEF First
        <4> QED
          BY <2>2, <4>2, <4>3
      <3> QED
        BY <3>1, <3>2
    <2>5. First(n + 1) => j # i /\ First(n)'
      <3> SUFFICES ASSUME First(n + 1) PROVE j # i /\ First(n)'
        OBVIOUS
      <3>1. \A k \in 1..n : chan[k].id # j
        BY <2>1 DEF First
      <3>2. j # i
        BY <1>4, <2>1, <3>1
      <3>3. ASSUME NEW k \in 1..(n - 1) PROVE chan'[k].id # chan'[n].id
        <4>1. k + 1 \in 1..n /\ k \in 1..Len(chan')
          BY <1>2, <2>1
        <4>2. chan'[k] = chan[k + 1]
          BY <1>2, <4>1
        <4> QED
          BY <2>2, <3>1, <4>1, <4>2
      <3> QED
        BY <3>2, <3>3 DEF First
    <2>6. j = i => h.what # "final"
      BY <1>6, <1>10
    <2>7. chan[n + 1].what = "final" => \A k \in (n + 1)..Len(chan') : chan'[k].id # j
      <3> SUFFICES ASSUME chan[n + 1].what = "final", NEW k \in (n + 1)..Len(chan')
                   PROVE  chan'[k].id # j
        OBVIOUS
      <3>1. k \in 1..Len(chan') /\ k + 1 \in ((n + 1) + 1)..Len(chan)
        BY <1>2, <2>1
      <3>2. chan'[k] = chan[k + 1]
        BY <1>2, <3>1
      <3> QED
        BY <2>1, <3>1, <3>2 DEF InTurn
    <2>8. /\ chan[n + 1].what = "meta" =>
               op'[j] # "delay" /\ received'[j] = "nothing" /\ First(n)'
          /\ chan[n + 1].what = "chunk" =>
               op'[j] = "stream" /\ (First(n)' => received'[j] \in {"meta", "chunk"})
          /\ chan[n + 1].what = "final" =>
               IF op'[j] = "delay" THEN First(n)' /\ received'[j] = "nothing"
               ELSE First(n)' => received'[j] \in {"meta", "chunk"}
      <3>1. CASE j = i
        <4>1. ~First(n + 1) /\ received'[j] \in {"meta", "chunk"}
          BY <1>4, <1>8, <2>5, <2>6, <3>1
        <4> QED
          BY <1>1, <2>1, <4>1 DEF InTurn
      <3>2. CASE j # i
        <4>1. received'[j] = received[j] /\ (First(n)' <=> First(n + 1))
          BY <1>7, <2>3, <2>4, <2>5, <3>2
        <4> QED
          BY <1>1, <2>1, <4>1 DEF InTurn
      <3> QED
        BY <3>1, <3>2
    <2> QED
      BY <2>2, <2>7, <2>8 DEF InTurn
  <1> QED
    BY <1>15, <1>16, <1>17 DEF Order

\* Every step keeps the results of a request in order.
LEMMA NextKeepsOrder == TypeOK /\ Order /\ [Next]_vars => Order'
  <1> SUFFICES ASSUME TypeOK, Order, [Next]_vars PROVE Order'
    OBVIOUS
  <1>1. CASE Guest
    BY <1>1, HandleRequestKeepsOrder DEF Guest
  <1>2. CASE Outside
    BY <1>2, ArriveKeepsOrder DEF Outside
  <1>3. CASE \E i \in Ids : OpProceeds(i) \/ OpSends(i)
    BY <1>3, OpProceedsKeepsOrder, OpSendsKeepsOrder
  <1>4. CASE RecvSome
    BY <1>4, RecvSomeKeepsOrder
  <1>5. CASE \E i \in Ids : HandleOpcall(i) \/ PollOp(i) \/ OpPends(i) \/ OpReturns(i) \/ OpFails(i)
    <2>1. UNCHANGED <<opVars, chan, received>>
      BY <1>5 DEF HandleOpcall, PollOp, OpPends, OpReturns, OpFails, chanVars
    <2> QED
      BY <2>1, SameOrder
  <1>6. CASE \/ ResolveBegins \/ PollNextEnds \/ RecvNone
             \/ TaskPolled \/ WokenElsewhere \/ UNCHANGED vars
    <2>1. UNCHANGED <<opVars, chan, received>>
      BY <1>6 DEF ResolveBegins, PollNextEnds, RecvNone, TaskPolled, WokenElsewhere, vars, chanVars
    <2> QED
      BY <2>1, SameOrder
  <1> QED
    BY <1>1, <1>2, <1>3, <1>4, <1>5, <1>6 DEF Next, Step

\* Before the first request no result is unread or read.
LEMMA InitEstablishesOrder == Init => Order /\ Placed
  BY DEF Init, Order, Sent, Heard, InTurn, Nothing, Begun, Ended, Unread, UnreadFinal, Placed,
         Returned

\* A step that changes no stage and keeps every operation in flight.
LEMMA SamePlaced ==
    ASSUME Placed, stage' = stage, InFlight' = InFlight, loop = "failed" => loop' = "failed"
    PROVE  Placed'
  BY DEF Placed, Returned

\* A future leaves pending_ops only when it has returned.
LEMMA NextKeepsPlaced == IInv /\ Placed /\ [Next]_vars => Placed'
  <1> SUFFICES ASSUME IInv, Placed, [Next]_vars PROVE Placed'
    OBVIOUS
  <1> USE OpsAssumption
  <1>1. ASSUME NEW i \in Ids, NEW k \in OpKinds, HandleRequest(i, k) PROVE Placed'
    <2>1. /\ \A n \in Ids \ {i} : stage'[n] = stage[n]
          /\ stage'[i] \in {"sleep", "call"}
          /\ loop' = loop
      BY <1>1 DEF HandleRequest, Goto, IInv, TypeOK
    <2>2. InFlight' = InFlight \cup {i}
      <3>1. polling = None /\ ~eager
        BY <1>1 DEF HandleRequest, IInv, Wakers
      <3> QED
        BY <1>1, <3>1 DEF HandleRequest, InFlight
    <2> QED
      BY <2>1, <2>2 DEF Placed, Returned
  <1>2. ASSUME NEW i \in Ids, OpProceeds(i) \/ OpSends(i) PROVE Placed'
    <2>1. /\ \A n \in Ids \ {i} : stage'[n] = stage[n]
          /\ polling = i
          /\ UNCHANGED <<loop, pending, eager, polling>>
      BY <1>2 DEF OpProceeds, OpSends, Goto, IInv, TypeOK
    <2>2. InFlight' = InFlight /\ i \in InFlight
      BY <2>1, PolledFacts DEF InFlight
    <2> QED
      BY <2>1, <2>2 DEF Placed, Returned
  <1>3. ASSUME NEW i \in Ids, HandleOpcall(i) PROVE Placed'
    <2>1. stage' = stage /\ loop' = loop /\ InFlight' = InFlight
      BY <1>3 DEF HandleOpcall, opVars, InFlight
    <2> QED
      BY <2>1, SamePlaced
  <1>4. ASSUME NEW i \in Ids, PollOp(i) PROVE Placed'
    <2>1. ~eager
      BY <1>4 DEF PollOp, IInv, Wakers
    <2>2. stage' = stage /\ loop' = loop /\ InFlight' = InFlight
      BY <1>4, <2>1 DEF PollOp, opVars, InFlight
    <2> QED
      BY <2>2, SamePlaced
  <1>5. ASSUME NEW i \in Ids, OpPends(i) PROVE Placed'
    <2>1. stage' = stage /\ InFlight' = InFlight
      BY <1>5 DEF OpPends, opVars, InFlight
    <2>2. loop # "failed"
      BY <1>5, PolledFacts DEF OpPends
    <2> QED
      BY <2>1, <2>2, SamePlaced
  <1>6. ASSUME NEW i \in Ids, OpReturns(i) \/ OpFails(i) PROVE Placed'
    <2>1. /\ stage' = stage /\ InFlight' = InFlight \ {i}
          /\ (stage[i] = "done" /\ loop' = "item") \/ loop' = "failed"
          /\ Returned(i)
      BY <1>6 DEF OpReturns, OpFails, opVars, InFlight, Returned
    <2>2. loop # "failed"
      BY <1>6, PolledFacts DEF OpReturns, OpFails
    <2> QED
      BY <2>1, <2>2 DEF Placed, Returned
  <1>7. ASSUME NEW i \in Ids, Arrive(i) PROVE Placed'
    <2>1. stage' = stage /\ loop' = loop /\ InFlight' = InFlight
      BY <1>7 DEF Arrive, InFlight
    <2> QED
      BY <2>1, SamePlaced
  <1>8. ASSUME \/ ResolveBegins \/ PollNextEnds \/ RecvSome \/ RecvNone
               \/ TaskPolled \/ WokenElsewhere \/ UNCHANGED vars
        PROVE  Placed'
    <2>1. /\ stage' = stage /\ InFlight' = InFlight
          /\ loop = "failed" => loop' = "failed"
      BY <1>8 DEF ResolveBegins, PollNextEnds, RecvSome, RecvNone, TaskPolled, WokenElsewhere,
                  vars, opVars, InFlight
    <2> QED
      BY <2>1, SamePlaced
  <1> QED
    BY <1>1, <1>2, <1>3, <1>4, <1>5, <1>6, <1>7, <1>8 DEF Next, Guest, Step, Outside

----------------------------------------------------------------------------
(* The theorems.                                                           *)

\* Every step of the runner, of the network and of the guest keeps the invariant.
LEMMA NextKeepsIInv == IInv /\ [Next]_vars => IInv'
  <1> SUFFICES ASSUME IInv, [Next]_vars PROVE IInv'
    OBVIOUS
  <1> USE DEF opVars, chanVars
  <1>1. CASE Guest
    BY <1>1, HandleRequestKeepsIInv DEF Guest
  <1>2. CASE ResolveBegins
    <2>1. TypeOK'
      BY <1>2 DEF ResolveBegins, IInv, TypeOK
    <2> QED
      BY <1>2, <2>1, LoopKeepsIInv DEF ResolveBegins
  <1>3. CASE Step
    <2>1. CASE \E i \in Ids : OpProceeds(i) \/ OpSends(i) \/ HandleOpcall(i) \/ PollOp(i)
      BY <2>1, OpProceedsKeepsIInv, OpSendsKeepsIInv, HandleOpcallKeepsIInv, PollOpKeepsIInv
    <2>2. CASE \E i \in Ids : OpPends(i) \/ OpReturns(i) \/ OpFails(i)
      BY <2>2, OpPendsKeepsIInv, OpReturnsKeepsIInv, OpFailsKeepsIInv
    <2>3. CASE PollNextEnds
      <3>1. TypeOK'
        BY <2>3 DEF PollNextEnds, IInv, TypeOK
      <3> QED
        BY <2>3, <3>1, LoopKeepsIInv DEF PollNextEnds
    <2>4. CASE RecvSome
      BY <2>4, RecvSomeKeepsIInv
    <2>5. CASE RecvNone
      <3>1. TypeOK'
        BY <2>5 DEF RecvNone, IInv, TypeOK
      <3>2. polling = None
        BY <2>5 DEF RecvNone, IInv, Wakers
      <3> QED
        BY <2>5, <3>1, <3>2, LoopKeepsIInv DEF RecvNone
    <2> QED
      BY <1>3, <2>1, <2>2, <2>3, <2>4, <2>5 DEF Step
  <1>4. CASE Outside
    BY <1>4, ArriveKeepsIInv DEF Outside
  <1>5. CASE TaskPolled \/ WokenElsewhere
    <2>1. TypeOK'
      BY <1>5 DEF TaskPolled, WokenElsewhere, IInv, TypeOK
    <2> QED
      BY <1>5, <2>1, LoopKeepsIInv DEF TaskPolled, WokenElsewhere
  <1>6. CASE UNCHANGED vars
    <2>1. TypeOK'
      BY <1>6 DEF vars, IInv, TypeOK
    <2> QED
      BY <1>6, <2>1, LoopKeepsIInv DEF vars
  <1> QED
    BY <1>1, <1>2, <1>3, <1>4, <1>5, <1>6 DEF Next

\* In every reachable state an operation waits, is queued or is being polled, in
\* one of these ways only, and the channel's senders are where their futures say
\* (runner.rs:50-158, opcall.rs:18-30).
THEOREM InductiveInvariant == Spec => []IInv
  BY InitEstablishesIInv, NextKeepsIInv, PTL DEF Spec

\* The variables keep their types; nr_web_calls, an unsigned number in the
\* code, is never decremented below zero (module.rs:229).
THEOREM TypeCorrect == Spec => []TypeOK
  <1>1. IInv => TypeOK
    BY DEF IInv
  <1> QED
    BY <1>1, InductiveInvariant, PTL

\* nr_web_calls is the number of Http requests in flight, with any number of
\* requests and any interleaving of their answers (runner.rs:54, module.rs:229).
THEOREM WebCallsAreCounted == Spec => []WebCallsCounted
  <1>1. IInv => WebCallsCounted
    BY DEF IInv
  <1> QED
    BY <1>1, InductiveInvariant, PTL

\* An operation that is not queued to be polled waits with a live waker: the
\* eager poll with a no-op waker loses nothing (opcall.rs:23).
THEOREM NoOpIsForgotten == Spec => []NoOpForgotten
  <1>1. IInv => NoOpForgotten
    BY DEF IInv, Wakers, NoOpForgotten, In
  <1> QED
    BY <1>1, InductiveInvariant, PTL

\* Back-pressure of the result channel (runner.rs:27), for any capacity.
THEOREM ChannelIsBounded == Spec => []ChannelBounded
  <1>1. IInv => ChannelBounded
    BY DEF IInv, Senders
  <1> QED
    BY <1>1, InductiveInvariant, PTL
\* The results of one request are in order all the way from its future through
\* the channel to the guest (runner.rs:60-158), and a request whose future has
\* not returned is in flight.
THEOREM OrderInvariant == Spec => [](Order /\ Placed)
  <1>1. IInv /\ (Order /\ Placed) /\ [Next]_vars => (Order /\ Placed)'
    BY NextKeepsOrder, NextKeepsPlaced DEF IInv
  <1> QED
    BY <1>1, InitEstablishesOrder, InductiveInvariant, PTL DEF Spec

\* The guest gets the meta data, the chunks and the final result of a request in
\* this order, each kind only of the operations that have it and none after the
\* final one, with any requests and any channel capacity (runner.rs:60-158,
\* executor.rs:96).
THEOREM ResultsAreInOrder == Spec => ResultsInOrder
  <1> DEFINE A == \A i \in Ids : (loop # "idle" /\ loop' = "idle" /\ chan # <<>>
                                    /\ Head(chan).id = i) => ResultOrder(i)
  <1>1. TypeOK /\ Order /\ [Next]_vars => [A]_vars
    <2> SUFFICES ASSUME TypeOK, Order, Next, NEW i \in Ids,
                        loop # "idle", loop' = "idle", chan # <<>>, Head(chan).id = i
                 PROVE  ResultOrder(i)
      OBVIOUS
    <2>1. RecvSome
      BY DEF Next, Guest, HandleRequest, ResolveBegins, Step, OpProceeds, OpSends, HandleOpcall,
             PollOp, OpPends, OpReturns, OpFails, PollNextEnds, RecvNone, Outside, Arrive,
             TaskPolled, WokenElsewhere
    <2>2. /\ Head(chan) = chan[1] /\ chan[1] \in Result /\ 1 \in 1..Len(chan)
      BY DEF TypeOK
    <2>3. received'[i] = chan[1].what /\ chan[1].id = i
      BY <2>1, <2>2 DEF RecvSome, TypeOK
    <2>4. First(1)
      BY DEF First
    <2>5. InTurn(1) /\ Heard(i)
      BY <2>2 DEF Order
    <2>6. op[i] \in {"http", "stream", "delay"}
      BY DEF TypeOK
    <2> QED
      BY <2>3, <2>4, <2>5, <2>6 DEF ResultOrder, InTurn, Heard
  <1> QED
    BY <1>1, OrderInvariant, TypeCorrect, PTL DEF Spec, ResultsInOrder
----------------------------------------------------------------------------
(* What the owner of the runner relies on (ControllerModule_proof): what   *)
(* its task can sleep on, and what the steps of each kind leave alone.     *)

\* Nothing is unread or queued, and the next arrival wakes the task.
Quiet == chan = <<>> /\ notified = <<>> /\ polling = None /\ opsWaker

\* An unread result of an Http request whose future has returned.
Loose == \E n \in 1..Len(chan) : op[chan[n].id] = "http" /\ chan[n].id \notin InFlight

\* The guest has heard of an answer that is not complete.
HalfHeard == \E i \in Ids : op[i] = "http" /\ received[i] = "meta"

\* When nothing is queued, every operation waits with a live waker.
LEMMA QuietWaits ==
    ASSUME IInv, Quiet
    PROVE  \A i \in pending : i \in hooked /\ Blocked(i)
  <1>1. \A i \in pending : i \in Ids /\ ~In(notified, i) /\ i # polling
    BY OpsAssumption DEF IInv, TypeOK, Quiet, In
  <1> QED
    BY <1>1 DEF IInv, Wakers

\* An arrival wakes the task, or leaves everything that it would look at alone.
LEMMA OutsideWakes ==
    ASSUME IInv, Outside
    PROVE  /\ UNCHANGED <<op, stage, chan, received, loop, pending, polling, eager, nrWebCalls>>
           /\ woken => woken'
           /\ opsWaker \/ woken => opsWaker' \/ woken'
           /\ (notified = <<>> \/ woken) /\ (opsWaker \/ woken) => notified' = <<>> \/ woken'
           /\ Quiet => Quiet' \/ woken'
  <1>1. PICK i \in Ids : Arrive(i)
    BY DEF Outside
  <1>2. /\ UNCHANGED <<op, stage, chan, received, loop, pending, polling, eager, nrWebCalls>>
        /\ Notify(i)
    BY <1>1 DEF Arrive, chanVars
  <1>3. woken \in BOOLEAN /\ opsWaker \in BOOLEAN
    BY DEF IInv, TypeOK
  <1>4. CASE i \in hooked
    <2>1. woken' = (woken \/ opsWaker)
      BY <1>2, <1>4 DEF Notify
    <2> QED
      BY <1>2, <1>3, <2>1 DEF Quiet
  <1>5. CASE i \notin hooked
    <2>1. UNCHANGED <<notified, woken, opsWaker>>
      BY <1>2, <1>5 DEF Notify
    <2> QED
      BY <1>2, <2>1 DEF Quiet
  <1> QED
    BY <1>4, <1>5

\* A send never unschedules the task.
LEMMA OpSendsWakes ==
    ASSUME NEW i, OpSends(i), woken
    PROVE  woken'
  BY Zenon DEF OpSends

\* While the guest runs, a request of it is polled and nothing else happens.
LEMMA EagerStep ==
    ASSUME IInv, Step, loop = "idle", polling # None
    PROVE  /\ \E i \in Ids : OpProceeds(i) \/ OpSends(i) \/ HandleOpcall(i)
           /\ UNCHANGED <<op, loop, received>>
           /\ woken => woken'
  <1>1. eager
    BY DEF IInv, Wakers
  <1>2. \E i \in Ids : OpProceeds(i) \/ OpSends(i) \/ HandleOpcall(i)
    BY <1>1 DEF Step, PollOp, OpPends, OpReturns, OpFails, PollNextEnds, RecvSome, RecvNone
  <1>3. UNCHANGED <<op, loop, received>>
    BY <1>2 DEF OpProceeds, OpSends, HandleOpcall, opVars
  <1>4. woken => woken'
    BY <1>2, OpSendsWakes DEF OpProceeds, HandleOpcall
  <1> QED
    BY <1>2, <1>3, <1>4

\* The loop of resolve_async_ops keeps its waker with pending_ops, or the task is
\* woken, and it ends its round with nothing queued.
LEMMA ResolveStep ==
    ASSUME IInv, Step, loop # "idle", loop' # "idle"
    PROVE  /\ UNCHANGED <<op, received>>
           /\ woken => woken'
           /\ opsWaker \/ woken => opsWaker' \/ woken'
           /\ (loop = "none" => notified = <<>> \/ woken)
                => (loop' = "none" => notified' = <<>> \/ woken')
  <1>1. ~eager
    BY DEF IInv, Wakers
  <1>2. ASSUME NEW i \in Ids, OpPends(i) PROVE loop = "picking"
    BY <1>2, PolledFacts DEF OpPends
  <1>3. ASSUME NEW i \in Ids, OpProceeds(i) \/ OpSends(i)
        PROVE  /\ UNCHANGED <<op, received, notified, opsWaker, loop>>
               /\ woken => woken'
    <2>1. UNCHANGED <<op, received, notified, opsWaker, loop>>
      BY <1>3 DEF OpProceeds, OpSends
    <2>2. woken => woken'
      BY <1>3, OpSendsWakes DEF OpProceeds
    <2> QED
      BY <2>1, <2>2
  <1>4. ASSUME NEW i \in Ids, PollOp(i) \/ OpReturns(i) \/ OpFails(i)
        PROVE  /\ UNCHANGED <<op, received, opsWaker, woken>>
               /\ loop' # "none"
    BY <1>4 DEF PollOp, OpReturns, OpFails, opVars
  <1>5. ASSUME NEW i \in Ids, OpPends(i)
        PROVE  /\ UNCHANGED <<op, received, notified, opsWaker>>
               /\ (loop' = loop /\ woken' = woken) \/ woken'
    BY <1>5 DEF OpPends, opVars
  <1>6. ASSUME PollNextEnds \/ RecvNone
        PROVE  /\ UNCHANGED <<op, received, notified, woken>>
               /\ opsWaker' = opsWaker \/ opsWaker'
               /\ loop' = "none" => notified = <<>>
    BY <1>6 DEF PollNextEnds, RecvNone, opVars
  <1>7. ~RecvSome /\ \A i \in Ids : ~HandleOpcall(i)
    BY <1>1 DEF RecvSome, HandleOpcall
  <1> QED
    BY <1>2, <1>3, <1>4, <1>5, <1>6, <1>7 DEF Step

\* Only the guest adds a web call.
LEMMA CallsShrink ==
    ASSUME IInv,
           \/ Step \/ Outside \/ ResolveBegins \/ TaskPolled \/ WokenElsewhere
           \/ UNCHANGED vars
    PROVE  /\ Calls' \subseteq Calls
           /\ loop = "failed" => loop' = "failed"
  <1> USE OpsAssumption DEF Calls, InFlight, opVars
  <1>1. ASSUME NEW i \in Ids, OpProceeds(i) \/ OpSends(i) \/ HandleOpcall(i) \/ OpFails(i)
        PROVE  Calls' \subseteq Calls /\ (loop = "failed" => loop' = "failed")
    BY <1>1 DEF OpProceeds, OpSends, HandleOpcall, OpFails
  <1>2. ASSUME NEW i \in Ids, PollOp(i) \/ OpPends(i) \/ OpReturns(i)
        PROVE  Calls' \subseteq Calls /\ loop # "failed"
    <2>1. ~eager
      BY <1>2 DEF PollOp, OpPends, OpReturns, IInv, Wakers
    <2>2. loop = "picking"
      BY <1>2, PolledFacts DEF PollOp, OpPends, OpReturns
    <2> QED
      BY <1>2, <2>1, <2>2 DEF PollOp, OpPends, OpReturns
  <1>3. ASSUME PollNextEnds \/ RecvSome \/ RecvNone
        PROVE  Calls' \subseteq Calls /\ loop # "failed"
    BY <1>3 DEF PollNextEnds, RecvSome, RecvNone
  <1>4. ASSUME Outside
        PROVE  Calls' \subseteq Calls /\ (loop = "failed" => loop' = "failed")
    BY <1>4, OutsideWakes
  <1>5. ASSUME ResolveBegins \/ TaskPolled \/ WokenElsewhere \/ UNCHANGED vars
        PROVE  Calls' \subseteq Calls /\ (loop = "failed" => loop' = "failed")
    BY <1>5 DEF ResolveBegins, TaskPolled, WokenElsewhere, vars
  <1> QED
    BY <1>1, <1>2, <1>3, <1>4, <1>5 DEF Step

\* A result stays behind its request only when the request returns.
LEMMA LooseNext ==
    ASSUME IInv, [Next]_vars, Loose'
    PROVE  Loose \/ (Calls # {} /\ loop = "picking")
  <1> USE OpsAssumption
  <1>1. ASSUME NEW i \in Ids, NEW k \in OpKinds, HandleRequest(i, k) PROVE Loose
    <2>1. /\ chan' = chan
          /\ \A n \in 1..Len(chan) : chan[n].id # i
          /\ \A j \in Ids \ {i} : op'[j] = op[j]
      BY <1>1 DEF HandleRequest, Unused, IInv, TypeOK, chanVars
    <2>2. polling = None /\ ~eager
      BY <1>1 DEF HandleRequest, IInv, Wakers
    <2>3. InFlight' = InFlight \cup {i}
      BY <1>1, <2>2 DEF HandleRequest, InFlight
    <2>4. \A n \in 1..Len(chan) : chan[n] \in Result
      BY DEF IInv, TypeOK
    <2>5. \A n \in 1..Len(chan) : chan[n].id \in Ids
      BY <2>4 DEF Result
    <2> QED
      BY <2>1, <2>3, <2>5 DEF Loose
  <1>2. ASSUME NEW i \in Ids, OpSends(i) PROVE Loose
    <2>1. /\ polling = i /\ UNCHANGED <<op, pending, eager, polling>>
          /\ \E w \in {"meta", "chunk", "final"} : chan' = Append(chan, [id |-> i, what |-> w])
      BY <1>2 DEF OpSends
    <2>2. i \in InFlight /\ InFlight' = InFlight
      BY <2>1, PolledFacts DEF InFlight
    <2>3. /\ \A n \in 1..Len(chan) : chan'[n] = chan[n]
          /\ Len(chan) \in Nat /\ Len(chan') = Len(chan) + 1
          /\ chan'[Len(chan) + 1].id = i
      BY <2>1 DEF IInv, TypeOK, Result
    <2>4. \A n \in 1..Len(chan') : n \in 1..Len(chan) \/ n = Len(chan) + 1
      BY <2>3
    <2> QED
      BY <2>1, <2>2, <2>3, <2>4 DEF Loose
  <1>3. ASSUME RecvSome PROVE Loose
    <2>1. UNCHANGED <<op, pending, eager, polling>> /\ chan' = Tail(chan) /\ chan # <<>>
      BY <1>3 DEF RecvSome, opVars
    <2>2. \A n \in 1..Len(chan') : n + 1 \in 1..Len(chan) /\ chan'[n] = chan[n + 1]
      BY <2>1 DEF IInv, TypeOK
    <2>3. InFlight' = InFlight
      BY <2>1 DEF InFlight
    <2> QED
      BY <2>1, <2>2, <2>3 DEF Loose
  <1>4. ASSUME NEW i \in Ids, OpReturns(i) \/ OpFails(i)
        PROVE  Loose \/ (Calls # {} /\ loop = "picking")
    <2>1. UNCHANGED <<op, chan>> /\ InFlight' = InFlight \ {i}
      BY <1>4 DEF OpReturns, OpFails, opVars, chanVars, InFlight
    <2>2. i \in InFlight /\ loop = "picking"
      BY <1>4, PolledFacts DEF OpReturns, OpFails, InFlight
    <2> QED
      BY <2>1, <2>2 DEF Loose, Calls
  <1>5. ASSUME UNCHANGED <<op, chan>>, InFlight' = InFlight PROVE Loose
    BY <1>5 DEF Loose
  <1>6. ASSUME NEW i \in Ids, OpProceeds(i) \/ HandleOpcall(i) \/ OpPends(i) \/ Arrive(i)
        PROVE  UNCHANGED <<op, chan>> /\ InFlight' = InFlight
    BY <1>6 DEF OpProceeds, HandleOpcall, OpPends, Arrive, opVars, chanVars, InFlight
  <1>7. ASSUME NEW i \in Ids, PollOp(i)
        PROVE  UNCHANGED <<op, chan>> /\ InFlight' = InFlight
    <2>1. ~eager
      BY <1>7 DEF PollOp, IInv, Wakers
    <2> QED
      BY <1>7, <2>1 DEF PollOp, opVars, chanVars, InFlight
  <1>8. ASSUME \/ ResolveBegins \/ PollNextEnds \/ RecvNone
               \/ TaskPolled \/ WokenElsewhere \/ UNCHANGED vars
        PROVE  UNCHANGED <<op, chan>> /\ InFlight' = InFlight
    BY <1>8 DEF ResolveBegins, PollNextEnds, RecvNone, TaskPolled, WokenElsewhere, vars,
                opVars, chanVars, InFlight
  <1> QED
    BY <1>1, <1>2, <1>3, <1>4, <1>5, <1>6, <1>7, <1>8 DEF Next, Guest, Step, Outside

\* Only a result changes what the guest has heard, apart from a new request.
LEMMA HalfHeardNext ==
    ASSUME TypeOK, [Next]_vars, ~RecvSome, HalfHeard
    PROVE  HalfHeard'
  <1>1. PICK j \in Ids : op[j] = "http" /\ received[j] = "meta"
    BY DEF HalfHeard
  <1>2. ASSUME NEW i \in Ids, NEW k \in OpKinds, HandleRequest(i, k) PROVE HalfHeard'
    <2>1. j # i
      BY <1>1, <1>2 DEF HandleRequest, Unused
    <2>2. op'[j] = op[j] /\ received'[j] = received[j]
      BY <1>2, <2>1 DEF HandleRequest, TypeOK
    <2> QED
      BY <1>1, <2>2 DEF HalfHeard
  <1>3. ASSUME UNCHANGED <<op, received>> PROVE HalfHeard'
    BY <1>1, <1>3 DEF HalfHeard
  <1>4. Guest \/ UNCHANGED <<op, received>>
    BY DEF Next, Step, OpProceeds, OpSends, HandleOpcall, PollOp, OpPends, OpReturns, OpFails,
           PollNextEnds, RecvNone, ResolveBegins, Outside, Arrive, TaskPolled, WokenElsewhere,
           vars, opVars
  <1> QED
    BY <1>2, <1>3, <1>4 DEF Guest

\* A result is final, or a value of a stream, or the first part of an answer.
LEMMA RecvFacts ==
    ASSUME TypeOK, Order, RecvSome, op[Head(chan).id] # "stream"
    PROVE  Finished(Head(chan)) \/ HalfHeard'
  <1>1. /\ Head(chan) = chan[1] /\ chan[1] \in Result /\ 1 \in 1..Len(chan)
    BY DEF RecvSome, TypeOK
  <1>2. chan[1].id \in Ids /\ chan[1].what \in {"meta", "chunk", "final"}
    BY <1>1 DEF Result
  <1>3. received'[chan[1].id] = chan[1].what /\ op' = op
    BY <1>1, <1>2 DEF RecvSome, TypeOK, opVars
  <1>4. InTurn(1)
    BY <1>1 DEF Order
  <1>5. chan[1].what = "meta" => op[chan[1].id] = "http"
    BY <1>1, <1>2, <1>4 DEF InTurn, TypeOK
  <1>6. chan[1].what # "chunk"
    BY <1>1, <1>2, <1>4 DEF InTurn
  <1> QED
    BY <1>1, <1>2, <1>3, <1>5, <1>6 DEF Finished, HalfHeard

\* A result of a stream is not part of an answer.
LEMMA StreamsKeepHalfHeard ==
    ASSUME TypeOK, RecvSome, HalfHeard, op[Head(chan).id] = "stream"
    PROVE  HalfHeard'
  <1>1. PICK j \in Ids : op[j] = "http" /\ received[j] = "meta"
    BY DEF HalfHeard
  <1>2. j # Head(chan).id
    BY <1>1
  <1>3. received'[j] = received[j] /\ op' = op
    BY <1>1, <1>2 DEF RecvSome, TypeOK, opVars
  <1> QED
    BY <1>1, <1>3 DEF HalfHeard

\* An answer that is not complete is still in flight, or its rest is unread
\* although the request has returned.
LEMMA HalfHeardFacts ==
    ASSUME IInv, Order, Placed, HalfHeard, loop # "failed"
    PROVE  Calls # {} \/ Loose
  <1>1. PICK j \in Ids : op[j] = "http" /\ received[j] = "meta"
    BY DEF HalfHeard
  <1>2. CASE j \in InFlight
    BY <1>1, <1>2 DEF Calls
  <1>3. CASE j \notin InFlight
    <2>1. stage[j] = "done"
      BY <1>3 DEF Placed, Returned
    <2>2. UnreadFinal(j)
      BY <1>1, <2>1 DEF Order, Sent, Begun
    <2> QED
      BY <1>1, <1>3, <2>2 DEF UnreadFinal, Loose
  <1> QED
    BY <1>2, <1>3

\* When nr_web_calls is zero no Http request is in flight.
LEMMA NoCalls ==
    ASSUME IInv, nrWebCalls = 0, loop # "failed"
    PROVE  Calls = {}
  <1>1. Cardinality(Calls) = 0 /\ IsFiniteSet(Calls)
    BY CallsFinite DEF IInv, WebCallsCounted, Calls
  <1> QED
    BY <1>1, FS_EmptySet
=============================================================================

--------------------------- MODULE GuestAbi_proof ---------------------------
(***************************************************************************)
(* Proofs about GuestAbi, for any tasks, ids and lengths of streams, and a *)
(* guest that awaits nothing else while it reads a stream.                 *)
(*                                                                         *)
(* The inductive invariant says that a task is inside of at most one       *)
(* request and no two of the same one, how the slot of a request that is   *)
(* read relates to what the host has delivered (Sync), and that a task     *)
(* that is not about to be polled has left its waker in an empty slot.     *)
(***************************************************************************)
EXTENDS GuestAbi, TLAPS

\* A patient task is inside of at most one request,
Single == \A t \in Tasks : requests[t] = <<>> \/ \E i \in Ids : requests[t] = <<i>>

\* which no other task reads.
Unshared == \A t, u \in Tasks, i \in Ids :
                requests[t] = <<i>> /\ requests[u] = <<i>> => t = u

\* Nothing runs between two calls; a task that polls has something to poll.
Calls == /\ ~inCall => running = None /\ ready = {}
         /\ (running # None /\ ~own) => requests[running] # <<>>

\* The guest forgets an id with the host's last result.
Open == \A i \in Ids : i \in registered <=> ~closed[i]

\* The slot of a request that a task reads.
Sync(i) ==
    /\ kind[i] = "delay" => count[i] = 0
    /\ kind[i] = "http" => count[i] <= 2 /\ (closed[i] <=> count[i] = 2)
    /\ kind[i] = "stream" /\ closed[i] => count[i] >= 1
    /\ ~hasValue[i] => got[i] = count[i] /\ ~closed[i]
    /\ hasValue[i] /\ (~closed[i] \/ kind[i] = "http") =>
         value[i] = count[i] /\ count[i] >= 1 /\ got[i] = count[i] - 1
    /\ hasValue[i] /\ closed[i] /\ kind[i] # "http" =>
         value[i] = Null /\ got[i] = count[i]

\* A task inside of a request will be polled, or is woken by the next result.
Parked(t, i) == running = t \/ t \in ready \/ (~hasValue[i] /\ waker[i] = t)

\* Every request that a task reads.
Served == \A t \in Tasks, i \in Ids : requests[t] = <<i>> => Sync(i) /\ Parked(t, i)

\* What a call into the guest keeps, and what every step starts from.
IInv == TypeOK /\ Single /\ Unshared /\ Calls /\ Open /\ Served /\ ~panicked

----------------------------------------------------------------------------
(* One request at a time.                                                  *)

\* What the provers need to know of a sequence of one element.
LEMMA OneElement ==
    ASSUME NEW S, NEW i \in S
    PROVE  /\ <<i>> \in Seq(S)
           /\ <<i>> # <<>>
           /\ Len(<<i>>) = 1
           /\ <<i>>[1] = i
           /\ SubSeq(<<i>>, 1, Len(<<i>>) - 1) = <<>>
           /\ Append(<<>>, i) = <<i>>
           /\ Append(<<>>, i) # <<>>
           /\ Head(<<i>>) = i
           /\ Tail(<<i>>) = <<>>
  OBVIOUS

\* The request that a task polls is the only one it is inside of.
LEMMA TheRequest ==
    ASSUME NEW t \in Tasks, NEW i \in Ids, requests[t] = <<i>>
    PROVE  Innermost(t) = i
  BY OneElement DEF Innermost

\* Leaving its only request leaves a task outside of all.
LEMMA Leaving ==
    ASSUME TypeOK, NEW t \in Tasks, NEW i \in Ids, requests[t] = <<i>>
    PROVE  Leave(t) = [requests EXCEPT ![t] = <<>>]
  BY OneElement DEF Leave, TypeOK

\* What is in a sequence of at most one element.
LEMMA InOneElement ==
    ASSUME NEW s, s = <<>> \/ \E j \in Ids : s = <<j>>, NEW i \in Ids
    PROVE  (\E n \in 1..Len(s) : s[n] = i) <=> s = <<i>>
<1>1. CASE s = <<>>
  BY <1>1, OneElement
<1>2. ASSUME NEW j \in Ids, s = <<j>>
      PROVE  (\E n \in 1..Len(s) : s[n] = i) <=> s = <<i>>
  BY <1>2, OneElement
<1> QED BY <1>1, <1>2

\* A request is held by the task whose only request it is, now
LEMMA HeldIs ==
    ASSUME Single, NEW i \in Ids
    PROVE  i \in Held <=> \E t \in Tasks : requests[t] = <<i>>
<1>1. \A t \in Tasks : Reads(t, i) <=> requests[t] = <<i>>
  BY InOneElement DEF Reads, Single
<1> QED BY <1>1 DEF Held

\* and after a step.
LEMMA HeldIsNext ==
    ASSUME Single', NEW i \in Ids
    PROVE  i \in Held' <=> \E t \in Tasks : requests'[t] = <<i>>
<1>1. \A t \in Tasks : Reads(t, i)' <=> requests'[t] = <<i>>
  BY InOneElement DEF Reads, Single
<1> QED BY <1>1 DEF Held

----------------------------------------------------------------------------
(* Init, and one lemma for each action.                                    *)

\* The invariant holds when main starts the executor.
LEMMA InitIInv == Init => IInv
<1> SUFFICES ASSUME Init PROVE IInv
  OBVIOUS
<1>1. TypeOK
  <2>1. 0 \in 0..MaxResults /\ 0 \in Values /\ Null \in Values
    BY GuestAssumption DEF Values
  <2>2. <<>> \in Seq(Ids)
    OBVIOUS
  <2> QED BY <2>1, <2>2 DEF Init, TypeOK
<1>2. Single /\ Open /\ Calls /\ ~panicked
  BY GuestAssumption DEF Init, Single, Open, Calls
<1>3. Unshared /\ Served
  BY OneElement DEF Init, Unshared, Served
<1> QED BY <1>1, <1>2, <1>3 DEF IInv

\* What the host can deliver to a request that the guest reads.
Delivery(i, v, finished) ==
    \/ kind[i] # "delay" /\ count[i] = 0 /\ v = 1 /\ ~finished
    \/ kind[i] = "http" /\ count[i] = 1 /\ v = 2 /\ finished
    \/ kind[i] = "stream" /\ count[i] >= 1 /\ v = count[i] + 1 /\ v <= MaxResults /\ ~finished
    \/ kind[i] = "stream" /\ count[i] > 0 /\ v = Null /\ finished
    \/ kind[i] = "delay" /\ v = Null /\ finished

\* A call of wakeup is one of those deliveries.
LEMMA Deliveries ==
    ASSUME TypeOK, NEW i \in Ids, HostWakesUp(i)
    PROVE  \E v \in Values, finished \in BOOLEAN :
             /\ Wakeup(i, v, finished)
             /\ Delivery(i, v, finished)
<1>1. 1 \in Values /\ 2 \in Values /\ Null \in Values
  BY GuestAssumption DEF Values
<1>2. count[i] \in 0..MaxResults /\ MaxResults \in Nat
  BY GuestAssumption DEF TypeOK
<1>3. CASE kind[i] # "delay" /\ count[i] = 0 /\ Wakeup(i, 1, FALSE)
  BY <1>1, <1>3 DEF Delivery
<1>4. CASE kind[i] = "http" /\ count[i] = 1 /\ Wakeup(i, 2, TRUE)
  BY <1>1, <1>4 DEF Delivery
<1>5. CASE kind[i] = "stream" /\ count[i] \in 1..(MaxResults - 1) /\ Wakeup(i, count[i] + 1, FALSE)
  <2>1. count[i] + 1 \in Values /\ count[i] + 1 <= MaxResults /\ count[i] >= 1
    BY <1>2, <1>5 DEF Values
  <2> QED BY <1>5, <2>1 DEF Delivery
<1>6. CASE kind[i] = "stream" /\ count[i] > 0 /\ Wakeup(i, Null, TRUE)
  BY <1>1, <1>6 DEF Delivery
<1>7. CASE kind[i] = "delay" /\ Wakeup(i, Null, TRUE)
  BY <1>1, <1>7 DEF Delivery
<1> QED BY <1>3, <1>4, <1>5, <1>6, <1>7 DEF HostWakesUp

\* A result fills the empty slot of the request and wakes its reader.
LEMMA HostWakesUpIInv ==
    ASSUME IInv, NEW i \in Ids, HostWakesUp(i)
    PROVE  IInv'
<1>1. PICK v \in Values, finished \in BOOLEAN : Wakeup(i, v, finished) /\ Delivery(i, v, finished)
  BY Deliveries DEF IInv
<1>2. MaxResults \in Nat /\ Null \notin Nat /\ MaxResults >= 2 /\ None \notin Tasks
  BY GuestAssumption
<1>3. /\ ~inCall /\ ~closed[i] /\ running = None /\ ready = {}
      /\ count[i] \in 0..MaxResults
  BY DEF IInv, TypeOK, Calls, HostWakesUp
<1>4. v = Null \/ v \in 1..MaxResults
  BY <1>1, <1>2, <1>3 DEF Delivery, Values
<1>5. TypeOK'
  BY <1>1, <1>2, <1>4 DEF IInv, TypeOK, Wakeup
<1>6. Single' /\ Unshared' /\ ~panicked'
  BY <1>1 DEF IInv, Single, Unshared, Wakeup
<1>7. Calls'
  BY <1>1, <1>3 DEF IInv, Calls, Wakeup
<1>8. Open'
  BY <1>1 DEF IInv, Open, Wakeup, Forgets, TypeOK
<1>9. ASSUME NEW t \in Tasks, NEW j \in Ids, requests[t] = <<j>>
      PROVE  Sync(j)' /\ Parked(t, j)'
  <2>1. Sync(j) /\ Parked(t, j)
    BY <1>9 DEF IInv, Served
  <2>2. CASE j # i
    <3>1. /\ kind'[j] = kind[j] /\ count'[j] = count[j] /\ closed'[j] = closed[j]
          /\ hasValue'[j] = hasValue[j] /\ value'[j] = value[j] /\ got'[j] = got[j]
          /\ waker'[j] = waker[j] /\ running' = running /\ ready \subseteq ready'
      BY <1>1, <2>2 DEF IInv, TypeOK, Wakeup
    <3> QED BY <2>1, <3>1 DEF Sync, Parked
  <2>3. CASE j = i
    <3>1. ~hasValue[i] /\ waker[i] = t
      BY <2>1, <2>3, <1>2, <1>3 DEF Parked
    <3>2. Parked(t, i)'
      BY <1>1, <1>2, <3>1 DEF Parked, Wakeup
    <3>3. got[i] = count[i]
      BY <2>1, <2>3, <3>1 DEF Sync
    <3>4. /\ kind'[i] = kind[i] /\ closed'[i] = finished /\ hasValue'[i] = TRUE
          /\ got'[i] = count[i]
      BY <1>1, <3>3 DEF IInv, TypeOK, Wakeup
    <3>5. CASE v = Null
      <4>1. value'[i] = Null /\ count'[i] = count[i]
        BY <1>1, <3>1, <3>5 DEF IInv, TypeOK, Wakeup
      <4>2. finished /\ kind[i] # "http" /\ (kind[i] = "stream" => count[i] >= 1)
        BY <1>1, <1>2, <1>3, <3>5 DEF Delivery
      <4> QED BY <2>1, <2>3, <3>2, <3>4, <4>1, <4>2 DEF Sync
    <3>6. CASE v # Null
      <4>1. value'[i] = v /\ count'[i] = v
        BY <1>1, <3>6 DEF IInv, TypeOK, Wakeup
      <4>2. /\ v = count[i] + 1 /\ kind[i] # "delay"
            /\ kind[i] = "http" => v <= 2 /\ (finished <=> v = 2)
            /\ kind[i] = "stream" => ~finished
        BY <1>1, <1>3, <3>6 DEF Delivery
      <4>3. kind[i] \in {"http", "stream", "delay"}
        BY DEF IInv, TypeOK
      <4> QED BY <1>3, <2>3, <3>2, <3>4, <4>1, <4>2, <4>3 DEF Sync
    <3> QED BY <2>3, <3>5, <3>6
  <2> QED BY <2>2, <2>3
<1>10. Served'
  BY <1>1, <1>9 DEF Served, Wakeup
<1> QED BY <1>5, <1>6, <1>7, <1>8, <1>10 DEF IInv

\* LocalPool takes a woken task.
LEMMA RunTaskIInv ==
    ASSUME IInv, NEW t \in Tasks, RunTask(t)
    PROVE  IInv'
<1>1. TypeOK'
  BY DEF IInv, TypeOK, RunTask, hostVars, stateVars
<1>2. Single' /\ Unshared' /\ Open' /\ ~panicked'
  BY DEF IInv, Single, Unshared, Open, RunTask, hostVars, stateVars
<1>3. Calls'
  BY DEF IInv, Calls, RunTask, TypeOK
<1>4. ASSUME NEW u \in Tasks, NEW j \in Ids, requests[u] = <<j>>
      PROVE  Sync(j)' /\ Parked(u, j)'
  <2>1. Sync(j) /\ Parked(u, j)
    BY <1>4 DEF IInv, Served
  <2>2. Sync(j)'
    BY <2>1 DEF Sync, RunTask, hostVars, stateVars
  <2>3. Parked(u, j)'
    BY <2>1, GuestAssumption DEF Parked, RunTask, stateVars
  <2> QED BY <2>2, <2>3
<1>5. Served'
  BY <1>4 DEF Served, RunTask
<1> QED BY <1>1, <1>2, <1>3, <1>5 DEF IInv

\* A task inside of no request opens one, with an empty slot.
LEMMA StartAsyncIInv ==
    ASSUME Patient, IInv, NEW t \in Tasks, NEW i \in Ids,
           NEW k \in {"http", "stream", "delay"}, StartAsync(t, i, k)
    PROVE  IInv'
<1>1. requests[t] = <<>> /\ requests' = [requests EXCEPT ![t] = <<i>>]
  <2>1. requests[t] = <<>> /\ requests' = [requests EXCEPT ![t] = Append(requests[t], i)]
    BY Zenon DEF StartAsync
  <2> QED BY <2>1, OneElement, Zenon
<1>2. /\ \A u \in Tasks : requests[u] # <<i>>
      /\ <<i>> \in Seq(Ids) /\ <<i>> # <<>>
  BY OneElement, HeldIs DEF IInv, StartAsync
<1>3. \A u \in Tasks : requests'[u] = IF u = t THEN <<i>> ELSE requests[u]
  BY <1>1 DEF IInv, TypeOK
<1>4. 0 \in 0..MaxResults /\ 0 \in Values /\ Null \in Values
  BY GuestAssumption DEF Values
<1>5. TypeOK'
  <2>1. requests' \in [Tasks -> Seq(Ids)]
    BY <1>1, <1>2 DEF IInv, TypeOK
  <2>2. /\ kind' \in [Ids -> {"http", "stream", "delay"}]
        /\ count' \in [Ids -> 0..MaxResults]
        /\ closed' \in [Ids -> BOOLEAN]
        /\ registered' \in SUBSET Ids
    BY <1>4 DEF IInv, TypeOK, StartAsync
  <2>3. /\ hasValue' \in [Ids -> BOOLEAN]
        /\ value' \in [Ids -> Values]
        /\ \A j \in Ids : value'[j] # Null => hasValue'[j]
        /\ waker' \in [Ids -> Tasks \cup {None}]
        /\ got' \in [Ids -> Values]
    BY <1>4 DEF IInv, TypeOK, StartAsync
  <2>4. /\ own' \in BOOLEAN
        /\ UNCHANGED <<inCall, ready, running, panicked>>
    BY DEF StartAsync
  <2> QED BY <2>1, <2>2, <2>3, <2>4 DEF IInv, TypeOK
<1>6. Single'
  BY <1>3 DEF IInv, Single
<1>7. Unshared'
  <2>1. ASSUME NEW u \in Tasks, NEW w \in Tasks, NEW j \in Ids,
               requests'[u] = <<j>>, requests'[w] = <<j>>
        PROVE  u = w
    <3>1. CASE j = i
      BY <1>2, <1>3, <2>1, <3>1
    <3>2. CASE j # i
      <4>1. u # t /\ w # t
        BY <1>3, <2>1, <3>2, OneElement
      <4> QED BY <1>3, <2>1, <4>1 DEF IInv, Unshared
    <3> QED BY <3>1, <3>2
  <2> QED BY <2>1 DEF Unshared
<1>8. Calls'
  BY <1>2, <1>3, GuestAssumption DEF IInv, Calls, StartAsync
<1>9. Open' /\ ~panicked'
  BY DEF IInv, Open, TypeOK, StartAsync
<1>10. ASSUME NEW u \in Tasks, NEW j \in Ids, requests'[u] = <<j>>
       PROVE  Sync(j)' /\ Parked(u, j)'
  <2>1. CASE j = i
    <3>1. u = t
      BY <1>2, <1>3, <1>10, <2>1
    <3>2. /\ count'[i] = 0 /\ ~closed'[i] /\ ~hasValue'[i] /\ got'[i] = 0
          /\ running' = t
      BY DEF IInv, TypeOK, StartAsync
    <3> QED BY <2>1, <3>1, <3>2 DEF Sync, Parked
  <2>2. CASE j # i
    <3>1. u # t /\ requests[u] = <<j>>
      BY <1>3, <1>10, <2>2, OneElement
    <3>2. /\ kind'[j] = kind[j] /\ count'[j] = count[j] /\ closed'[j] = closed[j]
          /\ hasValue'[j] = hasValue[j] /\ value'[j] = value[j] /\ got'[j] = got[j]
          /\ waker'[j] = waker[j] /\ running' = running /\ ready' = ready
      BY <2>2 DEF IInv, TypeOK, StartAsync
    <3>3. Sync(j) /\ Parked(u, j)
      BY <3>1 DEF IInv, Served
    <3> QED BY <3>2, <3>3 DEF Sync, Parked
  <2> QED BY <2>1, <2>2
<1>11. Served'
  BY <1>10 DEF Served
<1> QED BY <1>5, <1>6, <1>7, <1>8, <1>9, <1>11 DEF IInv

\* A task that polls is inside of one request.
LEMMA Polling ==
    ASSUME IInv, NEW t \in Tasks, running = t, ~own
    PROVE  \E i \in Ids : requests[t] = <<i>> /\ Innermost(t) = i
<1>1. requests[t] # <<>>
  BY GuestAssumption DEF IInv, Calls
<1>2. PICK i \in Ids : requests[t] = <<i>>
  BY <1>1 DEF IInv, Single
<1> QED BY <1>2, TheRequest

\* A task that finds nothing leaves its waker.
LEMMA PollPendingIInv ==
    ASSUME IInv, NEW t \in Tasks, PollPending(t)
    PROVE  IInv'
<1>1. PICK i \in Ids : requests[t] = <<i>> /\ Innermost(t) = i
  BY Polling DEF PollPending
<1>2. TypeOK'
  BY <1>1 DEF IInv, TypeOK, PollPending, hostVars
<1>3. Single' /\ Unshared' /\ Open' /\ ~panicked'
  BY DEF IInv, Single, Unshared, Open, PollPending, hostVars
<1>4. Calls'
  BY GuestAssumption DEF IInv, Calls, PollPending
<1>5. ASSUME NEW u \in Tasks, NEW j \in Ids, requests[u] = <<j>>
      PROVE  Sync(j)' /\ Parked(u, j)'
  <2>1. Sync(j) /\ Parked(u, j)
    BY <1>5 DEF IInv, Served
  <2>2. Sync(j)'
    BY <2>1 DEF Sync, PollPending, hostVars
  <2>3. CASE j = i
    <3>1. u = t
      BY <1>1, <1>5, <2>3 DEF IInv, Unshared
    <3> QED BY <1>1, <2>2, <2>3, <3>1 DEF Parked, PollPending, IInv, TypeOK
  <2>4. CASE j # i
    <3>1. u # t
      BY <1>1, <1>5, <2>4, OneElement
    <3>2. waker'[j] = waker[j]
      BY <1>1, <2>4 DEF PollPending, IInv, TypeOK
    <3> QED BY <2>1, <2>2, <3>1, <3>2 DEF Parked, PollPending
  <2> QED BY <2>3, <2>4
<1>6. Served'
  BY <1>5 DEF Served, PollPending
<1> QED BY <1>2, <1>3, <1>4, <1>6 DEF IInv

\* A task that is inside of its request no more disturbs no other.
LEMMA LeavingIInv ==
    ASSUME Single, Unshared, TypeOK, NEW t \in Tasks, NEW i \in Ids, requests[t] = <<i>>,
           requests' = Leave(t)
    PROVE  /\ Single' /\ Unshared'
           /\ requests' \in [Tasks -> Seq(Ids)]
           /\ \A u \in Tasks, j \in Ids :
                requests'[u] = <<j>> => u # t /\ j # i /\ requests[u] = <<j>>
<1>1. requests' = [requests EXCEPT ![t] = <<>>]
  BY Leaving
<1>2. \A u \in Tasks : requests'[u] = IF u = t THEN <<>> ELSE requests[u]
  BY <1>1 DEF TypeOK
<1>3. <<>> \in Seq(Ids)
  OBVIOUS
<1>4. requests' \in [Tasks -> Seq(Ids)]
  BY <1>1, <1>3 DEF TypeOK
<1>5. ASSUME NEW u \in Tasks, NEW j \in Ids, requests'[u] = <<j>>
      PROVE  u # t /\ j # i /\ requests[u] = <<j>>
  <2>1. u # t
    BY <1>2, <1>5, OneElement
  <2> QED BY <1>2, <1>5, <2>1 DEF Unshared
<1>6. Single' /\ Unshared'
  BY <1>2, <1>5 DEF Single, Unshared
<1> QED BY <1>4, <1>5, <1>6

\* The reader takes the result; it leaves the request with the last one.
LEMMA PollReadyIInv ==
    ASSUME IInv, NEW t \in Tasks, PollReady(t)
    PROVE  IInv'
<1>1. PICK i \in Ids : requests[t] = <<i>> /\ Innermost(t) = i
  BY Polling DEF PollReady
<1>2. /\ running = t /\ hasValue[i]
      /\ TakeValue(i)
      /\ panicked' = (panicked \/ (Unwraps(i) /\ value[i] = Null))
      /\ requests' = IF LastOf(i) THEN Leave(t) ELSE requests
      /\ own' = (kind[i] # "http" \/ LastOf(i))
      /\ UNCHANGED <<hostVars, registered, waker, inCall, ready, running>>
  BY <1>1 DEF PollReady
<1>3. Sync(i)
  BY <1>1 DEF IInv, Served
<1>4. Null \notin Nat /\ MaxResults \in Nat
  BY GuestAssumption
<1>5. /\ count[i] \in 0..MaxResults /\ kind[i] \in {"http", "stream", "delay"}
      /\ Null \in Values
  BY DEF IInv, TypeOK, Values
<1>6. ~panicked'
  <2>1. ~(Unwraps(i) /\ value[i] = Null)
    BY <1>2, <1>3, <1>4, <1>5 DEF Unwraps, Sync
  <2> QED BY <1>2, <2>1, Zenon DEF IInv
<1>7. /\ got' = [got EXCEPT ![i] = value[i]]
      /\ hasValue' = [hasValue EXCEPT ![i] = FALSE]
      /\ value' = [value EXCEPT ![i] = Null]
  BY <1>2 DEF TakeValue
<1>8. /\ Single' /\ Unshared' /\ requests' \in [Tasks -> Seq(Ids)]
      /\ LastOf(i) => \A u \in Tasks, j \in Ids :
                        requests'[u] = <<j>> => u # t /\ j # i /\ requests[u] = <<j>>
  <2>1. CASE LastOf(i)
    BY <1>1, <1>2, <2>1, LeavingIInv DEF IInv
  <2>2. CASE ~LastOf(i)
    BY <1>2, <2>2 DEF IInv, Single, Unshared, TypeOK
  <2> QED BY <2>1, <2>2
<1>9. TypeOK'
  <2>1. /\ got' \in [Ids -> Values] /\ hasValue' \in [Ids -> BOOLEAN]
        /\ value' \in [Ids -> Values]
        /\ \A j \in Ids : value'[j] # Null => hasValue'[j]
    BY <1>5, <1>7 DEF IInv, TypeOK
  <2>2. own' \in BOOLEAN /\ panicked' \in BOOLEAN
    BY <1>2, <1>6
  <2>3. UNCHANGED <<kind, count, closed, registered, waker, inCall, ready, running>>
    BY <1>2 DEF hostVars
  <2> QED BY <1>8, <2>1, <2>2, <2>3 DEF IInv, TypeOK
<1>10. Open'
  BY <1>2 DEF IInv, Open, hostVars
<1>11. Calls'
  <2>1. ~own' => requests' = requests
    BY <1>2
  <2> QED BY <1>1, <1>2, <2>1, GuestAssumption, OneElement DEF IInv, Calls
<1>12. ASSUME NEW u \in Tasks, NEW j \in Ids, requests'[u] = <<j>>
       PROVE  Sync(j)' /\ Parked(u, j)'
  <2>1. requests[u] = <<j>>
    BY <1>2, <1>8, <1>12
  <2>2. Sync(j) /\ Parked(u, j)
    BY <2>1 DEF IInv, Served
  <2>3. CASE j # i
    <3>1. /\ hasValue'[j] = hasValue[j] /\ value'[j] = value[j] /\ got'[j] = got[j]
      BY <1>7, <2>3 DEF IInv, TypeOK
    <3> QED BY <1>2, <2>2, <3>1 DEF Sync, Parked, hostVars
  <2>4. CASE j = i
    <3>1. u = t /\ ~LastOf(i)
      BY <1>1, <1>8, <1>12, <2>1, <2>4 DEF IInv, Unshared
    <3>2. value[i] = count[i] /\ ~closed[i]
      BY <1>2, <1>3, <1>4, <1>5, <3>1 DEF LastOf, Sync
    <3>3. ~hasValue'[i] /\ got'[i] = value[i]
      BY <1>7 DEF IInv, TypeOK
    <3>4. kind'[i] = kind[i] /\ count'[i] = count[i] /\ closed'[i] = closed[i]
      BY <1>2 DEF hostVars
    <3>5. Sync(i)'
      BY <1>3, <3>2, <3>3, <3>4 DEF Sync
    <3> QED BY <1>2, <2>4, <3>1, <3>5 DEF Parked
  <2> QED BY <2>3, <2>4
<1>13. Served'
  BY <1>12 DEF Served
<1> QED BY <1>6, <1>8, <1>9, <1>10, <1>11, <1>13 DEF IInv

\* The slots and wakers do not change when only what the task is at does.
LEMMA OwnCodeIInv ==
    ASSUME IInv, NEW t \in Tasks, PollAgain(t) \/ TaskEnds(t)
    PROVE  IInv'
<1>1. /\ UNCHANGED <<hostVars, stateVars, inCall, ready, requests, got, panicked>>
      /\ running = t
  BY DEF PollAgain, TaskEnds
<1>2. TypeOK'
  BY <1>1 DEF IInv, TypeOK, PollAgain, TaskEnds, hostVars, stateVars
<1>3. Single' /\ Unshared' /\ Open' /\ ~panicked'
  BY <1>1 DEF IInv, Single, Unshared, Open, hostVars, stateVars
<1>4. Calls'
  BY GuestAssumption DEF IInv, Calls, PollAgain, TaskEnds
<1>5. ASSUME NEW u \in Tasks, NEW j \in Ids, requests[u] = <<j>>
      PROVE  Sync(j)' /\ Parked(u, j)'
  <2>1. Sync(j) /\ Parked(u, j)
    BY <1>5 DEF IInv, Served
  <2>2. Sync(j)'
    BY <1>1, <2>1 DEF Sync, hostVars, stateVars
  <2>3. running' = running \/ (running' = None /\ requests[running] = <<>>)
    BY DEF PollAgain, TaskEnds
  <2>4. <<j>> # <<>>
    BY OneElement
  <2>5. Parked(u, j)'
    BY <1>1, <1>5, <2>1, <2>3, <2>4, GuestAssumption DEF Parked, stateVars
  <2> QED BY <2>2, <2>5
<1>6. Served'
  BY <1>1, <1>5 DEF Served
<1> QED BY <1>2, <1>3, <1>4, <1>6 DEF IInv

\* A stream that its reader drops is read by nobody.
LEMMA DropStreamIInv ==
    ASSUME IInv, NEW t \in Tasks, DropStream(t)
    PROVE  IInv'
<1>1. PICK i \in Ids : requests[t] = <<i>>
  BY DEF IInv, Single, DropStream
<1>2. /\ UNCHANGED <<hostVars, stateVars, inCall, ready, running, own, got, panicked>>
      /\ running = t /\ own
      /\ requests' = Leave(t)
  BY DEF DropStream
<1>3. /\ Single' /\ Unshared' /\ requests' \in [Tasks -> Seq(Ids)]
      /\ \A u \in Tasks, j \in Ids :
           requests'[u] = <<j>> => u # t /\ j # i /\ requests[u] = <<j>>
  BY <1>1, <1>2, LeavingIInv DEF IInv
<1>4. TypeOK'
  BY <1>2, <1>3 DEF IInv, TypeOK, hostVars, stateVars
<1>5. Calls' /\ Open' /\ ~panicked'
  BY <1>2 DEF IInv, Calls, Open, hostVars, stateVars
<1>6. Served'
  BY <1>2, <1>3 DEF IInv, Served, Sync, Parked, hostVars, stateVars
<1> QED BY <1>3, <1>4, <1>5, <1>6 DEF IInv

\* The call returns when no task is left to poll.
LEMMA StalledIInv ==
    ASSUME IInv, Stalled
    PROVE  IInv'
<1>1. TypeOK'
  BY DEF IInv, TypeOK, Stalled, hostVars, stateVars
<1>2. Single' /\ Unshared' /\ Open' /\ Calls' /\ ~panicked'
  BY DEF IInv, Single, Unshared, Open, Calls, Stalled, hostVars, stateVars
<1>3. Served'
  BY DEF IInv, Served, Sync, Parked, Stalled, hostVars, stateVars
<1> QED BY <1>1, <1>2, <1>3 DEF IInv

\* No step of the host or the guest breaks the invariant.
LEMMA NextIInv ==
    ASSUME Patient, IInv, [Next]_vars
    PROVE  IInv'
<1>1. ASSUME NEW i \in Ids, HostWakesUp(i)  PROVE  IInv'
  BY <1>1, HostWakesUpIInv
<1>2. ASSUME NEW t \in Tasks, TaskStep(t)  PROVE  IInv'
  BY <1>2, RunTaskIInv, StartAsyncIInv, PollPendingIInv, PollReadyIInv, OwnCodeIInv,
     DropStreamIInv, Zenon DEF TaskStep
<1>3. ASSUME UNCHANGED vars  PROVE  IInv'
  <2>1. TypeOK'
    BY <1>3 DEF vars, hostVars, stateVars, IInv, TypeOK
  <2>2. Single' /\ Unshared' /\ Calls' /\ Open' /\ ~panicked'
    BY <1>3 DEF vars, hostVars, stateVars, IInv, Single, Unshared, Calls, Open
  <2>3. Served'
    BY <1>3 DEF vars, hostVars, stateVars, IInv, Served, Sync, Parked
  <2> QED BY <2>1, <2>2, <2>3 DEF IInv
<1> QED BY <1>1, <1>2, <1>3, StalledIInv DEF Next

----------------------------------------------------------------------------
(* The properties.                                                         *)

\* The inductive invariant holds of every behaviour of a patient guest.
LEMMA GuestInvariant == Patient => (Spec => []IInv)
<1> SUFFICES ASSUME Patient PROVE Spec => []IInv
  OBVIOUS
<1>1. IInv /\ [Next]_vars => IInv'
  BY NextIInv
<1> QED BY <1>1, InitIInv, PTL DEF Spec

\* The state of the guest ABI has its type.
THEOREM GuestTypeOK == Patient => (Spec => []TypeOK)
<1>1. IInv => TypeOK
  BY DEF IInv
<1> QED BY <1>1, GuestInvariant, PTL

\* wakeup never meets an id it does not know (executor.rs:96).
THEOREM GuestWakeupFindsState == Patient => (Spec => []WakeupFindsState)
<1>1. IInv => WakeupFindsState
  BY DEF IInv, Open, WakeupFindsState
<1> QED BY <1>1, GuestInvariant, PTL

\* Between two calls every awaited request is registered, with the waker of
\* the task that awaits it (executor.rs:107-114, 128-137).
THEOREM GuestNobodyWaitsForever == Patient => (Spec => []NobodyWaitsForever)
<1>1. ASSUME IInv, ~inCall, NEW t \in Tasks, requests[t] # <<>>
      PROVE  Innermost(t) \in registered /\ waker[Innermost(t)] = t
  <2>1. PICK i \in Ids : requests[t] = <<i>>
    BY <1>1 DEF IInv, Single
  <2>2. Innermost(t) = i
    BY <2>1, TheRequest
  <2>3. ~hasValue[i] /\ waker[i] = t
    BY <1>1, <2>1, GuestAssumption DEF IInv, Served, Parked, Calls
  <2>4. ~closed[i]
    BY <1>1, <2>1, <2>3 DEF IInv, Served, Sync
  <2> QED BY <1>1, <2>2, <2>3, <2>4 DEF IInv, Open
<1>2. IInv => NobodyWaitsForever
  BY <1>1 DEF NobodyWaitsForever
<1> QED BY <1>2, GuestInvariant, PTL

\* Every value that execute_request unwraps is there (requestor.rs:21,36,40).
THEOREM GuestNoUnwrapOfNone == Patient => (Spec => []NoUnwrapOfNone)
<1>1. IInv => NoUnwrapOfNone
  BY DEF IInv, NoUnwrapOfNone
<1> QED BY <1>1, GuestInvariant, PTL

----------------------------------------------------------------------------
(* The single slot implements a queue.                                     *)

\* A step that changes neither what is held nor a slot is a stutter.
LEMMA SameQueue ==
    ASSUME UNCHANGED <<requests, hasValue, value, got>>
    PROVE  UNCHANGED Queue!vars
  BY DEF Queue!vars, Unread, Held, Reads

\* A result joins the queue of a request that is held, and is ignored otherwise.
LEMMA WakeupPuts ==
    ASSUME IInv, NEW i \in Ids, HostWakesUp(i)
    PROVE  [Queue!Next]_(Queue!vars)
<1>1. PICK v \in Values, finished \in BOOLEAN : Wakeup(i, v, finished) /\ Delivery(i, v, finished)
  BY Deliveries DEF IInv
<1>2. /\ UNCHANGED <<requests, got>> /\ hasValue' = [hasValue EXCEPT ![i] = TRUE]
      /\ value' = IF v = Null THEN value ELSE [value EXCEPT ![i] = v]
  BY <1>1 DEF Wakeup
<1>3. Held' = Held
  BY <1>2 DEF Held, Reads
<1>4. \A j \in Ids \ {i} : Unread'[j] = Unread[j]
  BY <1>2, <1>3 DEF Unread, IInv, TypeOK
<1>5. CASE i \notin Held
  <2>1. Unread'[i] = Unread[i]
    BY <1>3, <1>5 DEF Unread
  <2>2. Unread' = Unread
    BY <1>4, <2>1 DEF Unread
  <2> QED BY <1>2, <1>3, <2>2 DEF Queue!vars
<1>6. CASE i \in Held
  <2>1. PICK t \in Tasks : requests[t] = <<i>>
    BY <1>6, HeldIs DEF IInv
  <2>2. ~hasValue[i]
    BY <2>1, GuestAssumption DEF IInv, Served, Parked, Calls, HostWakesUp
  <2>3. Unread[i] = <<>> /\ Unread'[i] = <<value'[i]>>
    BY <1>2, <1>3, <1>6, <2>2 DEF Unread, IInv, TypeOK
  <2>4. value'[i] \in Values
    BY HostWakesUpIInv DEF IInv, TypeOK
  <2>5. Append(Unread[i], value'[i]) = <<value'[i]>>
    BY <2>3, <2>4, OneElement
  <2>6. Unread' = [Unread EXCEPT ![i] = Append(@, value'[i])]
    BY <1>4, <2>3, <2>5 DEF Unread
  <2> QED BY <1>2, <1>3, <1>6, <2>4, <2>6 DEF Queue!Next, Queue!Put
<1> QED BY <1>5, <1>6

\* start_async opens a request whose queue is empty.
LEMMA StartAsyncOpens ==
    ASSUME Patient, IInv, NEW t \in Tasks, NEW i \in Ids,
           NEW k \in {"http", "stream", "delay"}, StartAsync(t, i, k)
    PROVE  Queue!Next
<1>1. IInv'
  BY StartAsyncIInv
<1>2. requests[t] = <<>> /\ requests' = [requests EXCEPT ![t] = <<i>>]
  <2>1. requests[t] = <<>> /\ requests' = [requests EXCEPT ![t] = Append(requests[t], i)]
    BY Zenon DEF StartAsync
  <2> QED BY <2>1, OneElement, Zenon
<1>3. \A u \in Tasks : requests'[u] = IF u = t THEN <<i>> ELSE requests[u]
  BY <1>2 DEF IInv, TypeOK
<1>4. /\ i \notin Held
      /\ hasValue' = [hasValue EXCEPT ![i] = FALSE]
      /\ value' = [value EXCEPT ![i] = Null]
      /\ got' = [got EXCEPT ![i] = 0]
  BY DEF StartAsync
<1>5. ASSUME NEW j \in Ids  PROVE  j \in Held' <=> j \in Held \/ j = i
  <2>1. j \in Held' <=> \E u \in Tasks : requests'[u] = <<j>>
    BY <1>1, HeldIsNext DEF IInv
  <2>2. j \in Held <=> \E u \in Tasks : requests[u] = <<j>>
    BY HeldIs DEF IInv
  <2>3. <<i>> = <<j>> <=> i = j
    BY OneElement
  <2>4. <<j>> # <<>>
    BY OneElement
  <2> QED BY <1>2, <1>3, <2>1, <2>2, <2>3, <2>4
<1>6. Held' = Held \cup {i}
  BY <1>5 DEF Held
<1>7. Unread' = Unread
  <2>1. ASSUME NEW j \in Ids  PROVE  Unread'[j] = Unread[j]
    BY <1>4, <1>6 DEF Unread, IInv, TypeOK
  <2> QED BY <2>1 DEF Unread
<1> QED BY <1>4, <1>6, <1>7 DEF Queue!Next, Queue!Open

\* A task that leaves its request holds it no more.
LEMMA LeavingHeld ==
    ASSUME IInv, NEW t \in Tasks, NEW i \in Ids, requests[t] = <<i>>, requests' = Leave(t)
    PROVE  Held' = Held \ {i}
<1>1. /\ Single'
      /\ \A u \in Tasks, j \in Ids :
           requests'[u] = <<j>> => u # t /\ j # i /\ requests[u] = <<j>>
  BY LeavingIInv DEF IInv
<1>2. \A u \in Tasks : u # t => requests'[u] = requests[u]
  BY Leaving DEF IInv, TypeOK
<1>3. ASSUME NEW j \in Ids  PROVE  j \in Held' <=> j \in Held /\ j # i
  <2>1. j \in Held' <=> \E u \in Tasks : requests'[u] = <<j>>
    BY <1>1, HeldIsNext
  <2>2. j \in Held <=> \E u \in Tasks : requests[u] = <<j>>
    BY HeldIs DEF IInv
  <2>3. <<i>> = <<j>> <=> i = j
    BY OneElement
  <2> QED BY <1>1, <1>2, <2>1, <2>2, <2>3
<1> QED BY <1>3 DEF Held

\* A poll that finds a result takes the head of the queue.
LEMMA PollReadyTakes ==
    ASSUME IInv, NEW t \in Tasks, PollReady(t)
    PROVE  Queue!Next
<1>1. PICK i \in Ids : requests[t] = <<i>> /\ Innermost(t) = i
  BY Polling DEF PollReady
<1>2. /\ hasValue[i]
      /\ got' = [got EXCEPT ![i] = value[i]]
      /\ hasValue' = [hasValue EXCEPT ![i] = FALSE]
      /\ value' = [value EXCEPT ![i] = Null]
      /\ requests' = IF LastOf(i) THEN Leave(t) ELSE requests
  BY <1>1 DEF PollReady, TakeValue
<1>3. i \in Held
  BY <1>1, HeldIs DEF IInv
<1>4. Held' = Held \/ Held' = Held \ {i}
  <2>1. CASE LastOf(i)
    BY <1>1, <1>2, <2>1, LeavingHeld
  <2>2. CASE ~LastOf(i)
    BY <1>2, <2>2 DEF Held, Reads
  <2> QED BY <2>1, <2>2
<1>5. Unread[i] = <<value[i]>> /\ Unread'[i] = <<>> /\ value[i] \in Values
  BY <1>2, <1>3 DEF Unread, IInv, TypeOK
<1>6. Unread[i] # <<>> /\ Head(Unread[i]) = value[i] /\ Tail(Unread[i]) = <<>>
  BY <1>5, OneElement
<1>7. \A j \in Ids \ {i} : Unread'[j] = Unread[j]
  BY <1>2, <1>4 DEF Unread, IInv, TypeOK
<1>8. Unread' = [Unread EXCEPT ![i] = Tail(@)]
  BY <1>5, <1>6, <1>7 DEF Unread
<1> QED BY <1>2, <1>3, <1>4, <1>6, <1>8 DEF Queue!Next, Queue!Take

\* A stream that is dropped is given up, with what was not read.
LEMMA DropStreamGivesUp ==
    ASSUME IInv, NEW t \in Tasks, DropStream(t)
    PROVE  Queue!Next
<1>1. PICK i \in Ids : requests[t] = <<i>>
  BY DEF IInv, Single, DropStream
<1>2. UNCHANGED <<hasValue, value, got>> /\ requests' = Leave(t)
  BY DEF DropStream, stateVars
<1>3. i \in Held /\ Held' = Held \ {i}
  BY <1>1, <1>2, HeldIs, LeavingHeld DEF IInv
<1>4. Unread' = [Unread EXCEPT ![i] = <<>>]
  BY <1>2, <1>3 DEF Unread
<1> QED BY <1>2, <1>3, <1>4 DEF Queue!Next, Queue!GiveUp

\* To a patient guest the single slot of AsyncState is a queue: no result is
\* replaced before it was read (executor.rs:118-151).
THEOREM GuestImplementsQueue == Patient => (Spec => ResultsAreQueued)
<1> SUFFICES ASSUME Patient PROVE Spec => ResultsAreQueued
  OBVIOUS
<1>1. Init => Queue!Init
  <2> SUFFICES ASSUME Init PROVE Queue!Init
    OBVIOUS
  <2>1. \A t \in Tasks : requests[t] = <<>>
    BY DEF Init
  <2>2. Held = {}
    BY <2>1 DEF Held, Reads
  <2>3. Unread = [i \in Ids |-> <<>>]
    BY <2>2 DEF Unread
  <2> QED BY <2>2, <2>3 DEF Init, Queue!Init
<1>2. IInv /\ [Next]_vars => [Queue!Next]_(Queue!vars)
  <2> SUFFICES ASSUME IInv, [Next]_vars PROVE [Queue!Next]_(Queue!vars)
    OBVIOUS
  <2>1. ASSUME NEW i \in Ids, HostWakesUp(i)  PROVE  [Queue!Next]_(Queue!vars)
    BY <2>1, WakeupPuts
  <2>2. ASSUME NEW t \in Tasks, TaskStep(t)  PROVE  [Queue!Next]_(Queue!vars)
    <3>1. ASSUME NEW i \in Ids, NEW k \in {"http", "stream", "delay"}, StartAsync(t, i, k)
          PROVE  Queue!Next
      BY <3>1, StartAsyncOpens
    <3>2. ASSUME PollReady(t) \/ DropStream(t)  PROVE  Queue!Next
      BY <3>2, PollReadyTakes, DropStreamGivesUp
    <3>3. ASSUME RunTask(t) \/ PollPending(t) \/ PollAgain(t) \/ TaskEnds(t)
          PROVE  UNCHANGED Queue!vars
      <4>1. UNCHANGED <<requests, hasValue, value, got>>
        BY <3>3 DEF RunTask, PollPending, PollAgain, TaskEnds, stateVars
      <4> QED BY <4>1, SameQueue
    <3> QED BY <2>2, <3>1, <3>2, <3>3, Zenon DEF TaskStep
  <2>3. ASSUME Stalled \/ UNCHANGED vars  PROVE  UNCHANGED Queue!vars
    <3>1. UNCHANGED <<requests, hasValue, value, got>>
      BY <2>3 DEF Stalled, vars, stateVars
    <3> QED BY <3>1, SameQueue
  <2> QED BY <2>1, <2>2, <2>3, Zenon DEF Next
<1> QED BY <1>1, <1>2, GuestInvariant, PTL DEF Spec, ResultsAreQueued, Queue!Spec
=============================================================================

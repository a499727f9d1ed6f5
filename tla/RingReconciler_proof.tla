------------------------ MODULE RingReconciler_proof ------------------------
(***************************************************************************)
(* The nonces of a ring of any size never fall, and a settled ring is      *)
(* quiet.  Both rest on Fresh: a replacement that the server would accept  *)
(* carries a nonce above the one it replaces, because any write in between *)
(* has given the resource another version.                                 *)
(***************************************************************************)
EXTENDS RingReconciler, TLAPS

\* No nonce anywhere is above the one that the user asked for.
Bounded == \A c \in Nodes : nonce[c] <= asked /\ cache[c] <= asked /\ held[c] <= asked

Fresh == \A c \in Nodes :
    pc[c] = "replace" /\ seen[c] = version[Out(c)] => held[c] > nonce[Out(c)]

IInv == TypeOK /\ Bounded /\ Fresh

\* The namespace a controller writes to is one of the ring.
LEMMA OutInNodes == \A c \in Nodes : Out(c) \in Nodes
BY RingAssumption DEF Nodes, Out

LEMMA InitIInv == Init => IInv
BY RingAssumption, OutInNodes DEF Init, IInv, TypeOK, Bounded, Fresh, Nonces, Absent

\* Absent is below every nonce; the bounds are numbers.
LEMMA Numbers == /\ MaxNonce \in Nat /\ MaxDeletes \in Nat /\ MaxRestarts \in Nat
                 /\ Absent \in Int /\ Absent \notin Nonces
                 /\ \A n \in Nonces : n \in Nat /\ n > Absent /\ 0 \in Nonces
                 /\ 0 \in Nodes
BY RingAssumption DEF Nonces, Absent, Nodes

\* What Put does to the resources.
LEMMA PutServer ==
    ASSUME IInv, NEW ns \in Nodes, NEW n \in Nonces \cup {Absent}, Put(ns, n)
    PROVE  /\ nonce' \in [Nodes -> Nonces \cup {Absent}]
           /\ version' \in [Nodes -> Nat]
           /\ \A c \in Nodes : version'[c] = IF c = ns THEN version[c] + 1 ELSE version[c]
           /\ \A c \in Nodes : nonce'[c] = IF c = ns THEN n ELSE nonce[c]
BY DEF IInv, TypeOK, Put

\* A resource that is put makes every get of it out of date: the parts of the
\* invariant that compare versions survive when reconciles forget or stand still.
LEMMA PutFresh ==
    ASSUME IInv, NEW ns \in Nodes, NEW n \in Nonces \cup {Absent}, Put(ns, n),
           seen' \in [Nodes -> Nat],
           \A d \in Nodes : \/ pc'[d] = "wait" /\ seen'[d] = 0
                            \/ pc'[d] = pc[d] /\ seen'[d] = seen[d] /\ held'[d] = held[d]
    PROVE  /\ \A d \in Nodes : seen'[d] <= version'[Out(d)]
           /\ Fresh'
  <1>1. SUFFICES ASSUME NEW d \in Nodes
                 PROVE  /\ seen'[d] <= version'[Out(d)]
                        /\ pc'[d] = "replace" /\ seen'[d] = version'[Out(d)]
                             => held'[d] > nonce'[Out(d)]
    BY DEF Fresh
  <1>2. /\ Out(d) \in Nodes /\ version[Out(d)] \in Nat /\ seen[d] \in Nat
        /\ seen[d] <= version[Out(d)]
        /\ pc[d] = "replace" /\ seen[d] = version[Out(d)] => held[d] > nonce[Out(d)]
    BY OutInNodes DEF IInv, TypeOK, Fresh
  <1>3. /\ version'[Out(d)] = IF Out(d) = ns THEN version[Out(d)] + 1 ELSE version[Out(d)]
        /\ nonce'[Out(d)] = IF Out(d) = ns THEN n ELSE nonce[Out(d)]
    BY <1>2, PutServer
  <1> QED  BY <1>2, <1>3

\* What it means for a reconcile to end.
LEMMA DoneWork ==
    ASSUME IInv, NEW c \in Nodes, Done(c)
    PROVE  /\ pc' \in [Nodes -> {"wait", "get", "create", "replace"}]
           /\ held' \in [Nodes -> Nonces]
           /\ seen' \in [Nodes -> Nat]
           /\ \A d \in Nodes : \/ pc'[d] = "wait" /\ seen'[d] = 0 /\ held'[d] = 0
                               \/ pc'[d] = pc[d] /\ seen'[d] = seen[d] /\ held'[d] = held[d]
  <1>1. 0 \in Nonces
    BY RingAssumption DEF Nonces
  <1>2. /\ pc' = [pc EXCEPT ![c] = "wait"]
        /\ held' = [held EXCEPT ![c] = 0]
        /\ seen' = [seen EXCEPT ![c] = 0]
    BY DEF Done, Goto
  <1>3. /\ pc' \in [Nodes -> {"wait", "get", "create", "replace"}]
        /\ held' \in [Nodes -> Nonces]
        /\ seen' \in [Nodes -> Nat]
    BY <1>1, <1>2 DEF IInv, TypeOK
  <1>4. ASSUME NEW d \in Nodes
        PROVE  \/ pc'[d] = "wait" /\ seen'[d] = 0 /\ held'[d] = 0
               \/ pc'[d] = pc[d] /\ seen'[d] = seen[d] /\ held'[d] = held[d]
    BY <1>2 DEF IInv, TypeOK
  <1> QED  BY <1>3, <1>4

\* A reconcile that ends without a write leaves the invariant as it was.
LEMMA DoneIInv ==
    ASSUME IInv, NEW c \in Nodes, Done(c),
           UNCHANGED <<serverVars, userVars>>, restarts' \in 0..MaxRestarts,
           cache' \in [Nodes -> Nonces \cup {Absent}],
           \A d \in Nodes : cache'[d] <= asked,
           queued' \in [Nodes -> BOOLEAN]
    PROVE  IInv'
  <1>1. \A d \in Nodes : /\ version[Out(d)] \in Nat /\ asked \in Nat
                         /\ seen[d] <= version[Out(d)]
    BY OutInNodes, Numbers DEF IInv, TypeOK
  <1>2. \A d \in Nodes : seen'[d] <= version'[Out(d)]
    BY <1>1, DoneWork DEF serverVars
  <1>3. TypeOK'
    BY <1>2, DoneWork DEF IInv, TypeOK, serverVars, userVars
  <1>4. Bounded'
    BY <1>1, DoneWork DEF IInv, Bounded, serverVars, userVars
  <1>5. Fresh'
    BY DoneWork DEF IInv, Fresh, serverVars
  <1> QED  BY <1>3, <1>4, <1>5 DEF IInv

\* The steps of the user and of the watch.
LEMMA OutsideStep ==
    ASSUME IInv, NEW c \in Nodes,
           Raise \/ Delete(c) \/ Watch(c) \/ Resync(c) \/ Restart(c)
    PROVE  IInv'
  <1>1. CASE Raise
    <2>1. /\ 0 \in Nodes /\ asked \in Nat /\ asked' = asked + 1 /\ asked + 1 \in Nonces
          /\ Put(0, asked + 1)
      BY <1>1, Numbers DEF Raise, IInv, TypeOK, Nonces
    <2>2. UNCHANGED <<deletes, restarts, cache, queued, pc, held, seen>>
      BY <1>1 DEF Raise, workVars
    <2>3. seen' \in [Nodes -> Nat]
      BY <2>2 DEF IInv, TypeOK
    <2>4. Fresh' /\ \A d \in Nodes : seen'[d] <= version'[Out(d)]
      BY <2>1, <2>2, <2>3, PutFresh
    <2>5. /\ nonce' \in [Nodes -> Nonces \cup {Absent}]
          /\ version' \in [Nodes -> Nat]
          /\ \A d \in Nodes : nonce'[d] = IF d = 0 THEN asked + 1 ELSE nonce[d]
      BY <2>1, PutServer
    <2>6. TypeOK'
      BY <2>1, <2>2, <2>4, <2>5 DEF IInv, TypeOK
    <2>7. \A d \in Nodes : nonce[d] \in Int /\ cache[d] \in Int /\ held[d] \in Int
      BY Numbers DEF IInv, TypeOK
    <2>8. Bounded'
      BY <2>1, <2>2, <2>5, <2>7 DEF IInv, Bounded
    <2> QED  BY <2>4, <2>6, <2>8 DEF IInv
  <1>2. CASE Delete(c)
    <2>1. /\ Put(c, Absent) /\ deletes' \in 0..MaxDeletes
          /\ UNCHANGED <<asked, restarts, cache, queued, pc, held, seen>>
      BY <1>2, Numbers DEF Delete, workVars, IInv, TypeOK
    <2>2. seen' \in [Nodes -> Nat]
      BY <2>1 DEF IInv, TypeOK
    <2>3. Fresh' /\ \A d \in Nodes : seen'[d] <= version'[Out(d)]
      BY <2>1, <2>2, PutFresh
    <2>4. /\ nonce' \in [Nodes -> Nonces \cup {Absent}]
          /\ version' \in [Nodes -> Nat]
          /\ \A d \in Nodes : nonce'[d] = IF d = c THEN Absent ELSE nonce[d]
      BY <2>1, PutServer
    <2>5. TypeOK'
      BY <2>1, <2>3, <2>4 DEF IInv, TypeOK
    <2>6. Absent <= asked
      BY Numbers DEF IInv, TypeOK
    <2>7. Bounded'
      BY <2>1, <2>4, <2>6 DEF IInv, Bounded
    <2> QED  BY <2>3, <2>5, <2>7 DEF IInv
  <1>3. CASE Watch(c)
    BY <1>3, OutInNodes DEF IInv, TypeOK, Watch, Bounded, Fresh, serverVars, userVars, workVars
  <1>4. CASE Resync(c)
    BY <1>4, OutInNodes DEF IInv, TypeOK, Resync, Bounded, Fresh, serverVars, userVars, workVars
  <1>5. CASE Restart(c)
    <2>1. /\ Done(c) /\ UNCHANGED <<serverVars, userVars>>
          /\ restarts' \in 0..MaxRestarts /\ queued' \in [Nodes -> BOOLEAN]
      BY <1>5, Numbers DEF Restart, IInv, TypeOK
    <2>2. Absent <= asked
      BY Numbers DEF IInv, TypeOK
    <2>3. /\ cache' \in [Nodes -> Nonces \cup {Absent}]
          /\ \A d \in Nodes : cache'[d] <= asked
      BY <1>5, <2>2 DEF Restart, IInv, TypeOK, Bounded
    <2> QED  BY <2>1, <2>3, DoneIInv
  <1> QED  BY <1>1, <1>2, <1>3, <1>4, <1>5

\* What a write may put: a nonce of the cache, never above what the user asked
\* for, and above the one it replaces.
LEMMA WritePuts ==
    ASSUME IInv, NEW c \in Nodes, NEW answered \in BOOLEAN, Write(c, answered)
    PROVE  \E n \in Nonces : /\ Put(Out(c), n) /\ n <= asked
                             /\ nonce[Out(c)] = Absent \/ n > nonce[Out(c)]
  <1>1. /\ InitialNonce(c) \in Nonces /\ InitialNonce(c) <= asked
        /\ held[c] \in Nonces /\ held[c] <= asked
    BY Numbers DEF IInv, TypeOK, Bounded, InitialNonce
  <1>2. CASE nonce[Out(c)] = Absent /\ Put(Out(c), InitialNonce(c))
    BY <1>1, <1>2
  <1>3. CASE pc[c] = "replace" /\ Accepts(c) /\ Put(Out(c), held[c])
    <2>1. held[c] > nonce[Out(c)]
      BY <1>3 DEF IInv, Fresh, Accepts
    <2> QED  BY <1>1, <1>3, <2>1
  <1> QED  BY <1>2, <1>3 DEF Write

\* The stages of a reconcile.
LEMMA ReconcileStep ==
    ASSUME IInv, NEW c \in Nodes, NEW answered \in BOOLEAN,
           Start(c) \/ Get(c) \/ Write(c, answered) \/ Conflict(c) \/ Fail(c)
    PROVE  IInv'
  <1>0. \A d \in Nodes : cache[d] <= asked
    BY DEF IInv, Bounded
  <1>1. CASE Start(c)
    BY <1>1, OutInNodes DEF IInv, TypeOK, Start, Found, Goto, Bounded, Fresh, serverVars, userVars
  <1>2. CASE Get(c)
    <2>1. UNCHANGED <<nonce, version, asked, deletes, restarts, cache, queued>>
      BY <1>2 DEF Get, serverVars, userVars
    <2>2. CASE Goto(c, "create") /\ UNCHANGED <<held, seen>>
      BY <2>1, <2>2, OutInNodes DEF IInv, TypeOK, Goto, Bounded, Fresh
    <2>3. CASE /\ Newer(c) /\ Goto(c, "replace") /\ held' = held
               /\ seen' = [seen EXCEPT ![c] = version[Out(c)]]
      BY <2>1, <2>3, OutInNodes DEF IInv, TypeOK, Goto, Newer, Bounded, Fresh
    <2>4. CASE Done(c)
      <3>1. /\ restarts' \in 0..MaxRestarts /\ queued' \in [Nodes -> BOOLEAN]
            /\ cache' \in [Nodes -> Nonces \cup {Absent}]
            /\ \A d \in Nodes : cache'[d] <= asked
            /\ UNCHANGED <<serverVars, userVars>>
        BY <1>0, <2>1 DEF IInv, TypeOK, serverVars, userVars
      <3> QED  BY <2>4, <3>1, DoneIInv
    <2> QED  BY <1>2, <2>2, <2>3, <2>4 DEF Get
  <1>3. CASE Write(c, answered)
    <2>1. PICK n \in Nonces : Put(Out(c), n) /\ n <= asked
      BY <1>3, WritePuts
    <2>2. Done(c) /\ UNCHANGED <<asked, deletes, restarts, cache>>
      BY <1>3 DEF Write, userVars
    <2>3. queued' \in [Nodes -> BOOLEAN]
      BY <1>3 DEF Write, Retry, IInv, TypeOK
    <2>4. /\ pc' \in [Nodes -> {"wait", "get", "create", "replace"}]
          /\ held' \in [Nodes -> Nonces]
          /\ seen' \in [Nodes -> Nat]
          /\ \A d \in Nodes : \/ pc'[d] = "wait" /\ seen'[d] = 0 /\ held'[d] = 0
                              \/ pc'[d] = pc[d] /\ seen'[d] = seen[d] /\ held'[d] = held[d]
      BY <2>2, DoneWork
    <2>5. Fresh' /\ \A d \in Nodes : seen'[d] <= version'[Out(d)]
      BY <2>1, <2>4, PutFresh, OutInNodes
    <2>6. /\ nonce' \in [Nodes -> Nonces \cup {Absent}]
          /\ version' \in [Nodes -> Nat]
          /\ \A d \in Nodes : nonce'[d] = IF d = Out(c) THEN n ELSE nonce[d]
      BY <2>1, PutServer, OutInNodes
    <2>7. TypeOK'
      BY <2>2, <2>3, <2>4, <2>5, <2>6 DEF IInv, TypeOK
    <2>8. 0 <= asked
      BY Numbers DEF IInv, TypeOK
    <2>9. Bounded'
      BY <2>1, <2>2, <2>4, <2>6, <2>8 DEF IInv, Bounded
    <2> QED  BY <2>5, <2>7, <2>9 DEF IInv
  <1>4. CASE Conflict(c) \/ Fail(c)
    <2>1. Done(c) /\ Retry(c) /\ UNCHANGED <<serverVars, userVars, restarts, cache>>
      BY <1>4 DEF Conflict, Fail
    <2>2. /\ restarts' \in 0..MaxRestarts /\ queued' \in [Nodes -> BOOLEAN]
          /\ cache' \in [Nodes -> Nonces \cup {Absent}]
          /\ \A d \in Nodes : cache'[d] <= asked
      BY <1>0, <2>1 DEF Retry, IInv, TypeOK
    <2> QED  BY <2>1, <2>2, DoneIInv
  <1> QED  BY <1>1, <1>2, <1>3, <1>4

LEMMA StepIInv == IInv /\ [Next]_vars => IInv'
  <1> SUFFICES ASSUME IInv, [Next]_vars PROVE IInv'
    OBVIOUS
  <1>0. 0 \in Nodes
    BY RingAssumption DEF Nodes
  <1>1. CASE Next
    <2>1. ASSUME NEW c \in Nodes, Watch(c) \/ Resync(c) \/ Restart(c) \/ Delete(c)
          PROVE  IInv'
      BY <2>1, OutsideStep
    <2>2. ASSUME NEW c \in Nodes,
                 Start(c) \/ Get(c) \/ Write(c, TRUE) \/ Write(c, FALSE) \/ Conflict(c) \/ Fail(c)
          PROVE  IInv'
      BY <2>2, ReconcileStep
    <2>3. CASE Raise
      BY <1>0, <2>3, OutsideStep
    <2> QED  BY <1>1, <2>1, <2>2, <2>3 DEF Next
  <1>2. CASE UNCHANGED vars
    BY <1>2 DEF IInv, TypeOK, Bounded, Fresh, vars, serverVars, userVars, workVars
  <1> QED  BY <1>1, <1>2

LEMMA Invariance == Spec => []IInv
BY InitIInv, StepIInv, PTL DEF Spec

\* Every variable has its type, for a ring of any size.
THEOREM TypeCorrect == Spec => []TypeOK
BY Invariance, PTL DEF IInv

\* No interleaving of users, reconciles, failures and restarts lets the nonce of
\* a resource fall while it exists.
THEOREM NeverFall == Spec => NoncesNeverFall
  <1>1. ASSUME IInv, Next
        PROVE  \A c \in Nodes : nonce[c] # Absent /\ nonce'[c] # Absent => nonce'[c] >= nonce[c]
    <2>0. \A d \in Nodes : nonce[d] \in Int /\ nonce[d] <= asked /\ asked \in Nat
      BY <1>1, Numbers DEF IInv, TypeOK, Bounded
    <2>1. CASE Raise
      <3>1. nonce' = [nonce EXCEPT ![0] = asked + 1]
        BY <2>1 DEF Raise, Put
      <3> QED  BY <1>1, <2>0, <3>1 DEF IInv, TypeOK
    <2>2. ASSUME NEW c \in Nodes, Delete(c)
          PROVE  \A d \in Nodes : nonce'[d] # Absent => nonce'[d] = nonce[d]
      BY <1>1, <2>2 DEF Delete, Put, IInv, TypeOK
    <2>3. ASSUME NEW c \in Nodes, NEW answered \in BOOLEAN, Write(c, answered)
          PROVE  \A d \in Nodes : nonce[d] # Absent => nonce'[d] >= nonce[d]
      <3>1. PICK n \in Nonces : Put(Out(c), n) /\ (nonce[Out(c)] = Absent \/ n > nonce[Out(c)])
        BY <1>1, <2>3, WritePuts
      <3>2. \A d \in Nodes : nonce'[d] = IF d = Out(c) THEN n ELSE nonce[d]
        BY <1>1, <3>1, PutServer, OutInNodes
      <3> QED  BY <2>0, <3>1, <3>2, Numbers
    <2>4. ASSUME NEW c \in Nodes, Watch(c) \/ Resync(c) \/ Restart(c) \/ Start(c) \/ Get(c)
                                  \/ Conflict(c) \/ Fail(c)
          PROVE  nonce' = nonce
      BY <2>4 DEF Watch, Resync, Restart, Start, Get, Conflict, Fail, serverVars
    <2>5. ASSUME nonce' = nonce
          PROVE  \A c \in Nodes : nonce[c] # Absent /\ nonce'[c] # Absent => nonce'[c] >= nonce[c]
      BY <2>0, <2>5
    <2>6. ASSUME NEW c \in Nodes, Delete(c)
          PROVE  \A d \in Nodes : nonce[d] # Absent /\ nonce'[d] # Absent => nonce'[d] >= nonce[d]
      BY <2>0, <2>2, <2>6
    <2> QED  BY <1>1, <2>1, <2>3, <2>4, <2>5, <2>6 DEF Next
  <1>2. IInv /\ [Next]_vars => 
          [\A c \in Nodes : nonce[c] # Absent /\ nonce'[c] # Absent => nonce'[c] >= nonce[c]]_vars
    BY <1>1
  <1> QED  BY <1>2, Invariance, PTL DEF Spec, NoncesNeverFall

\* Once every resource has the latest nonce, only the user can cause a write.
THEOREM Quiet == Spec => SettledRingIsQuiet
  <1>1. ASSUME IInv, Next, Settled, UNCHANGED userVars
        PROVE  UNCHANGED serverVars
    <2> USE RingAssumption, OutInNodes DEF IInv, TypeOK, userVars, serverVars
    <2>1. ~Raise
      BY <1>1 DEF Raise, Nonces
    <2>2. \A c \in Nodes : ~Delete(c)
      BY <1>1 DEF Delete
    <2>3. ASSUME NEW c \in Nodes, NEW answered \in BOOLEAN, Write(c, answered)
          PROVE  FALSE
      <3>1. PICK n \in Nonces : n <= asked /\ (nonce[Out(c)] = Absent \/ n > nonce[Out(c)])
        BY <1>1, <2>3, WritePuts
      <3>2. nonce[Out(c)] = asked /\ asked \in Nonces
        BY <1>1 DEF Settled
      <3> QED  BY <3>1, <3>2, Numbers
    <2> QED
      BY <1>1, <2>1, <2>2, <2>3
      DEF Next, Watch, Resync, Restart, Start, Get, Conflict, Fail
  <1>2. IInv /\ [Next]_vars => [Settled /\ UNCHANGED userVars => UNCHANGED serverVars]_vars
    BY <1>1
  <1> QED  BY <1>2, Invariance, PTL DEF Spec, SettledRingIsQuiet
=============================================================================

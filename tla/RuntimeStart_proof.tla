------------------------- MODULE RuntimeStart_proof -------------------------
(***************************************************************************)
(* Every module runs its own code, for any number of modules and whatever  *)
(* is killed, replaced or fails.  The argument: the cache file of a hash   *)
(* holds the code of that hash or nothing that loads, and the channel and  *)
(* the start task take the modules in their order, so that the i-th one    *)
(* that is spawned is Modules[i] and none is spawned twice.                *)
(***************************************************************************)
EXTENDS RuntimeStart, TLAPS, SequenceTheorems

Busy  == pc \in {"read", "check", "write", "spawn"}
Taken == IF Busy THEN nextId + 1 ELSE nextId

\* Commands are taken in the order of the modules.
Order == pc # "dead" => /\ sent = Taken + Len(channel)
                        /\ \A i \in 1..Len(channel) : channel[i] = Modules[Taken + i]

\* What the start task holds at each stage.
Stage == /\ Busy => current \in Mods
         /\ Busy => nextId + 1 \in DOMAIN Modules /\ current = Modules[nextId + 1]
         /\ pc \in {"check", "write", "spawn"} => read \in Codes
         /\ pc = "write" => read \notin Broken

Cached == \A n \in Names : cache[n] \in {None, Short, n}

Started(m) == /\ id[m] # None => /\ id[m] < nextId
                                 /\ m = Modules[id[m] + 1]
              /\ file[m] # None => id[m] # None /\ file[m] = took[m]
              /\ runs[m] # None => file[m] # None
              /\ runs[m] \in {None, Short, took[m]}

IInv == TypeOK /\ Order /\ Stage /\ Cached /\ \A m \in Mods : Started(m)

LEMMA Constants ==
    /\ Modules \in Seq(Mods) /\ Len(Modules) \in Nat
    /\ DOMAIN Modules = 1..Len(Modules)
    /\ MaxKills \in Nat /\ MaxReplaces \in Nat /\ Capacity \in Nat
    /\ None \notin Names /\ None \notin Nat
    /\ Codes \subseteq Names /\ Mods \subseteq Names
BY StartAssumption DEF Names

LEMMA InitIInv == Init => IInv
  <1> SUFFICES ASSUME Init PROVE IInv
    OBVIOUS
  <1>1. TypeOK
    BY Constants, StartAssumption DEF Init, TypeOK
  <1>2. Order /\ Stage
    BY DEF Init, Order, Stage, Taken, Busy
  <1>3. Cached /\ \A m \in Mods : Started(m)
    BY DEF Init, Cached, Started
  <1> QED  BY <1>1, <1>2, <1>3 DEF IInv

\* The process from outside.
LEMMA OutsideStep ==
    ASSUME IInv, Kill \/ Boot \/ \E m \in Mods, code \in Codes : Replace(m, code)
    PROVE  IInv'
  <1>1. CASE Kill
    <2>0. /\ <<>> \in Seq(Mods) /\ Len(<<>>) = 0
          /\ kills' \in 0..MaxKills /\ 0 \in 0..Len(Modules)
      BY <1>1, Constants DEF IInv, TypeOK, Kill
    <2>1. TypeOK'
      <3>1. /\ wasm' \in [Mods -> Codes] /\ replaces' \in 0..MaxReplaces
            /\ cache' \in [Names -> (Codes \ Broken) \cup {None, Short}]
            /\ sent' \in 0..Len(Modules)
        BY <1>1, <2>0 DEF IInv, TypeOK, Kill
      <3>3. up' \in BOOLEAN /\ senderUp' \in BOOLEAN
        BY <1>1 DEF Kill
      <3>4. channel' = <<>>
        BY <1>1 DEF Kill
      <3>5. channel' \in Seq(Mods) /\ Len(channel') <= Capacity
        BY <2>0, <3>4, Constants
      <3>2. /\ pc' = "idle" /\ current' = None /\ read' = None /\ nextId' = 0
            /\ id' \in [Mods -> Ids \cup {None}]
            /\ took' \in [Mods -> Codes \cup {None}]
            /\ file' \in [Mods -> Names \cup {None}]
            /\ runs' \in [Mods -> Codes \cup {None, Short}]
        BY <1>1 DEF Kill
      <3> QED  BY <2>0, <3>1, <3>2, <3>3, <3>5 DEF TypeOK
    <2>2. Order' /\ Stage'
      BY <1>1 DEF Kill, Order, Stage, Taken, Busy
    <2>3. Cached' /\ \A m \in Mods : Started(m)'
      BY <1>1 DEF IInv, Kill, Cached, Started
    <2> QED  BY <2>1, <2>2, <2>3 DEF IInv
  <1>2. CASE Boot
    BY <1>2 DEF Boot, diskVars, senderVars, startVars, moduleVars,
                IInv, TypeOK, Order, Stage, Taken, Busy, Cached, Started
  <1>3. ASSUME NEW m \in Mods, NEW code \in Codes, Replace(m, code)
        PROVE  IInv'
    <2>1. /\ wasm' \in [Mods -> Codes] /\ replaces' \in 0..MaxReplaces
          /\ UNCHANGED <<cache, kills, up, senderVars, startVars, moduleVars>>
      BY <1>3, Constants DEF Replace, IInv, TypeOK
    <2> QED
      BY <2>1 DEF senderVars, startVars, moduleVars,
                  IInv, TypeOK, Order, Stage, Taken, Busy, Cached, Started
  <1> QED  BY <1>1, <1>2, <1>3

\* The sender.
LEMMA SenderStep ==
    ASSUME IInv, Send \/ SendPanics
    PROVE  IInv'
  <1>1. CASE Send
    <2> DEFINE m == Modules[sent + 1]
    <2>1. /\ pc # "dead" /\ sent \in Nat /\ sent < Len(Modules) /\ m \in Mods
          /\ channel \in Seq(Mods) /\ Len(channel) < Capacity
          /\ channel' = Append(channel, m) /\ sent' = sent + 1
          /\ UNCHANGED <<diskVars, up, senderUp, startVars, moduleVars>>
      BY <1>1, Constants DEF Send, Deliver, IInv, TypeOK
    <2>2. /\ Len(channel) \in Nat
          /\ channel' \in Seq(Mods) /\ Len(channel') = Len(channel) + 1
          /\ \A i \in 1..Len(channel) : channel'[i] = channel[i]
          /\ channel'[Len(channel) + 1] = m
      BY <2>1, AppendProperties
    <2>3. TypeOK'
      BY <2>1, <2>2, Constants
      DEF IInv, TypeOK, diskVars, startVars, moduleVars
    <2>4. nextId \in Nat /\ Taken \in Nat /\ Taken' = Taken
      BY <2>1 DEF IInv, TypeOK, Taken, Busy, startVars
    <2>5. /\ sent = Taken + Len(channel)
          /\ \A i \in 1..Len(channel) : channel[i] = Modules[Taken + i]
      BY <2>1 DEF IInv, Order
    <2>6. ASSUME NEW i \in 1..Len(channel')
          PROVE  channel'[i] = Modules[Taken + i]
      <3>1. CASE i \in 1..Len(channel)
        BY <2>2, <2>5, <3>1
      <3>2. CASE i = Len(channel) + 1
        BY <2>2, <2>4, <2>5, <3>2
      <3> QED  BY <2>2, <2>6, <3>1, <3>2
    <2>7. Order'
      BY <2>1, <2>2, <2>4, <2>5, <2>6 DEF Order
    <2>8. Stage' /\ Cached' /\ \A n \in Mods : Started(n)'
      BY <2>1 DEF IInv, Stage, Busy, Cached, Started, diskVars, startVars, moduleVars
    <2> QED  BY <2>3, <2>7, <2>8 DEF IInv
  <1>2. CASE SendPanics
    BY <1>2 DEF SendPanics, diskVars, startVars, moduleVars,
                IInv, TypeOK, Order, Stage, Taken, Busy, Cached, Started
  <1> QED  BY <1>1, <1>2

\* A start task that has panicked holds no command, and takes none any more.
LEMMA PanicStep ==
    ASSUME IInv, Panic, UNCHANGED diskVars
    PROVE  IInv'
  <1>1. <<>> \in Seq(Mods) /\ Len(<<>>) = 0
    OBVIOUS
  <1>2. TypeOK'
    BY <1>1, Constants DEF IInv, TypeOK, Panic, diskVars, moduleVars
  <1> QED
    BY <1>2 DEF IInv, Panic, Order, Stage, Busy, Cached, Started, diskVars, moduleVars

LEMMA ReceiveStep ==
    ASSUME IInv, Receive
    PROVE  IInv'
  <1>1. /\ pc = "idle" /\ pc' = "read"
        /\ channel \in Seq(Mods) /\ channel # <<>>
        /\ current' = Head(channel) /\ channel' = Tail(channel)
        /\ UNCHANGED <<diskVars, up, sent, senderUp, read, nextId, moduleVars>>
    BY DEF Receive, IInv, TypeOK
  <1>2. /\ Len(channel) \in Nat \ {0}
        /\ Head(channel) = channel[1] /\ Head(channel) \in Mods
        /\ channel' \in Seq(Mods) /\ Len(channel') = Len(channel) - 1
        /\ \A i \in 1..Len(channel') : channel'[i] = channel[i + 1]
    BY <1>1, HeadTailProperties, EmptySeq, LenProperties
  <1>3. TypeOK'
    BY <1>1, <1>2, Constants DEF IInv, TypeOK, diskVars, moduleVars
  <1>4. /\ nextId \in Nat /\ Taken = nextId /\ Taken' = nextId + 1
        /\ sent \in 0..Len(Modules) /\ sent = nextId + Len(channel)
        /\ \A i \in 1..Len(channel) : channel[i] = Modules[nextId + i]
    BY <1>1 DEF IInv, TypeOK, Order, Taken, Busy
  <1>5. Order'
    <2>1. sent' = Taken' + Len(channel')
      BY <1>1, <1>2, <1>4
    <2>2. ASSUME NEW i \in 1..Len(channel')
          PROVE  channel'[i] = Modules[Taken' + i]
      <3>1. i + 1 \in 1..Len(channel) /\ nextId + (i + 1) = (nextId + 1) + i
        BY <1>2, <1>4, <2>2
      <3> QED  BY <1>2, <1>4, <3>1
    <2> QED  BY <2>1, <2>2 DEF Order
  <1>6. /\ current' = Modules[nextId + 1] /\ current' \in Mods
        /\ nextId + 1 \in DOMAIN Modules
    BY <1>1, <1>2, <1>4, Constants
  <1>7. Stage'
    BY <1>1, <1>6 DEF Stage, Busy
  <1>8. Cached' /\ \A m \in Mods : Started(m)'
    BY <1>1 DEF IInv, Cached, Started, diskVars, moduleVars
  <1> QED  BY <1>3, <1>5, <1>7, <1>8 DEF IInv

\* Between the stages nothing moves but what the task has read and the cache.
LEMMA CompileStep ==
    ASSUME IInv, Read \/ Check \/ WriteEnds
    PROVE  IInv'
  <1>1. CASE Check /\ Panic /\ UNCHANGED diskVars
    BY <1>1, PanicStep
  <1>2. ASSUME Busy, Busy', pc' # "read",
               UNCHANGED <<wasm, kills, replaces, up, senderVars, current, nextId, moduleVars>>,
               pc' \in {"check", "write", "spawn"},
               cache' \in [Names -> (Codes \ Broken) \cup {None, Short}],
               Cached', read' \in Codes, pc' = "write" => read' \notin Broken
        PROVE  IInv'
    <2>1. TypeOK'
      BY <1>2 DEF IInv, TypeOK, senderVars, moduleVars
    <2>2. Order'
      BY <1>2 DEF IInv, Order, Taken, senderVars, Busy
    <2>3. Stage'
      BY <1>2 DEF IInv, Stage, Busy
    <2>4. \A m \in Mods : Started(m)'
      BY <1>2 DEF IInv, Started, moduleVars
    <2> QED  BY <1>2, <2>1, <2>2, <2>3, <2>4 DEF IInv
  <1>3. CASE Read
    <2>1. /\ Busy /\ Busy' /\ pc' = "check" /\ current \in Mods /\ read' = wasm[current]
          /\ UNCHANGED <<wasm, cache, kills, replaces, up, senderVars, current, nextId, moduleVars>>
      BY <1>3 DEF Read, Busy, IInv, Stage, diskVars
    <2>2. read' \in Codes /\ cache' \in [Names -> (Codes \ Broken) \cup {None, Short}] /\ Cached'
      BY <2>1 DEF IInv, TypeOK, Cached
    <2> QED  BY <1>2, <2>1, <2>2
  <1>4. CASE Check /\ ~Panic
    <2>1. /\ Busy /\ Busy' /\ read \in Codes /\ read' = read
          /\ UNCHANGED <<wasm, kills, replaces, up, senderVars, current, nextId, moduleVars>>
      BY <1>4 DEF Check, Busy, IInv, Stage, diskVars
    <2>2. CASE cache' = cache /\ pc' = "spawn"
      <3>1. cache' \in [Names -> (Codes \ Broken) \cup {None, Short}] /\ Cached'
        BY <2>2 DEF IInv, TypeOK, Cached
      <3> QED  BY <1>2, <2>1, <2>2, <3>1
    <2>3. CASE cache' = [cache EXCEPT ![read] = Short] /\ pc' = "write" /\ read \notin Broken
      <3>1. cache' \in [Names -> (Codes \ Broken) \cup {None, Short}] /\ Cached'
        BY <2>3 DEF IInv, TypeOK, Cached
      <3> QED  BY <1>2, <2>1, <2>3, <3>1
    <2> QED  BY <1>4, <2>2, <2>3 DEF Check, CacheFile, Compiles, diskVars
  <1>5. CASE WriteEnds
    <2>1. /\ Busy /\ Busy' /\ pc' = "spawn" /\ read \in Codes \ Broken /\ read' = read
          /\ cache' = [cache EXCEPT ![read] = read]
          /\ UNCHANGED <<wasm, kills, replaces, up, senderVars, current, nextId, moduleVars>>
      BY <1>5 DEF WriteEnds, CacheFile, Busy, IInv, Stage
    <2>2. cache' \in [Names -> (Codes \ Broken) \cup {None, Short}] /\ Cached'
      BY <2>1 DEF IInv, TypeOK, Cached
    <2> QED  BY <1>2, <2>1, <2>2
  <1>6. Check /\ Panic => UNCHANGED diskVars
    BY DEF Check, Panic
  <1> QED  BY <1>1, <1>3, <1>4, <1>5, <1>6

\* The module that is spawned is one that was not spawned before.
LEMMA SpawnStep ==
    ASSUME IInv, Spawn
    PROVE  IInv'
  <1>1. /\ pc = "spawn" /\ pc' = "idle" /\ nextId' = nextId + 1
        /\ current \in Mods /\ current = Modules[nextId + 1] /\ nextId + 1 \in DOMAIN Modules
        /\ read \in Codes /\ nextId \in Nat /\ current' = None /\ read' = None
        /\ id' = [id EXCEPT ![current] = nextId]
        /\ took' = [took EXCEPT ![current] = read]
        /\ file' = [file EXCEPT ![current] = read]
        /\ UNCHANGED <<diskVars, up, senderVars, runs>>
    BY DEF Spawn, CacheFile, IInv, TypeOK, Stage, Busy
  <1>2. id[current] = None
    <2> SUFFICES ASSUME id[current] # None PROVE FALSE
      OBVIOUS
    <2>1. id[current] \in Nat /\ id[current] < nextId /\ current = Modules[id[current] + 1]
      BY <1>1 DEF IInv, TypeOK, Ids, Started
    <2>2. id[current] + 1 \in DOMAIN Modules /\ id[current] + 1 # nextId + 1
      BY <1>1, <2>1, Constants
    <2> QED  BY <1>1, <2>1, <2>2, StartAssumption
  <1>3. file[current] = None /\ runs[current] = None
    BY <1>1, <1>2 DEF IInv, Started
  <1>4. nextId \in Ids /\ nextId' \in 0..Len(Modules)
    BY <1>1, Constants DEF Ids
  <1>5. TypeOK'
    BY <1>1, <1>4, Constants DEF IInv, TypeOK, diskVars, senderVars
  <1>6. Taken' = Taken
    BY <1>1 DEF Taken, Busy
  <1>7. Order'
    BY <1>1, <1>6 DEF IInv, Order, senderVars
  <1>8. Stage'
    BY <1>1 DEF Stage, Busy
  <1>9. Cached'
    BY <1>1 DEF IInv, Cached, diskVars
  <1>10. ASSUME NEW m \in Mods
         PROVE  Started(m)'
    <2>1. CASE m = current
      <3>1. id'[m] = nextId /\ file'[m] = read /\ took'[m] = read /\ runs'[m] = None
        BY <1>1, <1>3, <2>1 DEF IInv, TypeOK
      <3> QED  BY <1>1, <2>1, <3>1, Constants DEF Started
    <2>2. CASE m # current
      <3>1. id'[m] = id[m] /\ file'[m] = file[m] /\ took'[m] = took[m] /\ runs'[m] = runs[m]
        BY <1>1, <2>2 DEF IInv, TypeOK
      <3>2. id[m] # None => id[m] \in Nat
        BY DEF IInv, TypeOK, Ids
      <3> QED  BY <1>1, <3>1, <3>2 DEF IInv, Started
    <2> QED  BY <2>1, <2>2
  <1> QED  BY <1>5, <1>7, <1>8, <1>9, <1>10 DEF IInv

LEMMA LoadStep ==
    ASSUME IInv, NEW m \in Mods, Load(m)
    PROVE  IInv'
  <1>1. /\ file[m] \in Names /\ file[m] = took[m] /\ took[m] \in Codes
        /\ runs' = [runs EXCEPT ![m] = cache[file[m]]]
        /\ UNCHANGED <<diskVars, up, senderVars, startVars, id, took, file>>
    BY Constants DEF Load, IInv, TypeOK, Started
  <1>2. cache[file[m]] \in {None, Short, took[m]}
    BY <1>1 DEF IInv, Cached
  <1>3. TypeOK'
    BY <1>1, <1>2 DEF IInv, TypeOK, diskVars, senderVars, startVars
  <1>4. Order' /\ Stage' /\ Cached'
    BY <1>1 DEF IInv, Order, Stage, Taken, Busy, Cached, diskVars, senderVars, startVars
  <1>5. \A n \in Mods : Started(n)'
    BY <1>1, <1>2, Constants DEF IInv, TypeOK, Started, startVars
  <1> QED  BY <1>3, <1>4, <1>5 DEF IInv

LEMMA StepIInv == IInv /\ [Next]_vars => IInv'
  <1> SUFFICES ASSUME IInv, [Next]_vars PROVE IInv'
    OBVIOUS
  <1>1. CASE Next
    <2>1. CASE FileFails
      BY <2>1, PanicStep DEF FileFails
    <2> QED
      BY <1>1, <2>1, OutsideStep, SenderStep, ReceiveStep, CompileStep, SpawnStep, LoadStep DEF Next
  <1>2. CASE UNCHANGED vars
    BY <1>2 DEF vars, diskVars, senderVars, startVars, moduleVars,
                IInv, TypeOK, Order, Stage, Taken, Busy, Cached, Started
  <1> QED  BY <1>1, <1>2

LEMMA Invariance == Spec => []IInv
BY InitIInv, StepIInv, PTL DEF Spec

\* Every variable has its type: no cache file holds code that does not compile,
\* and the ids stay below the number of modules, however often it is restarted.
THEOREM TypeCorrect == Spec => []TypeOK
BY Invariance, PTL DEF IInv

\* No module ever runs code other than the one read for it, and no two modules
\* share a swap file.
THEOREM OwnCode == Spec => []RunsOwnCode
  <1>1. IInv => RunsOwnCode
    <2> SUFFICES ASSUME IInv PROVE RunsOwnCode
      OBVIOUS
    <2>1. \A m \in Mods : runs[m] \in {None, Short, took[m]}
      BY DEF IInv, Started
    <2>2. ASSUME NEW m \in Mods, NEW n \in Mods, m # n, id[m] # None, id[m] = id[n]
          PROVE  FALSE
      <3>1. m = Modules[id[m] + 1] /\ n = Modules[id[n] + 1]
        BY <2>2 DEF IInv, Started
      <3> QED  BY <2>2, <3>1
    <2> QED  BY <2>1, <2>2 DEF RunsOwnCode
  <1> QED  BY <1>1, Invariance, PTL
=============================================================================

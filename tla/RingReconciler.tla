--------------------------- MODULE RingReconciler ---------------------------
(***************************************************************************)
(* The ring of controllers (src/controllers/ring-rust-controller and       *)
(* src/controllers/ring-go-controller).  Controller c watches the resource *)
(* in namespace c and copies a nonce that has grown to the resource in the *)
(* next namespace; the user raises the nonce in namespace 0.               *)
(*                                                                         *)
(* A reconcile is a read from the cache, a get and a write, with anything  *)
(* in between.  The API server refuses a write to a version that is not    *)
(* the latest.  A call may fail before it takes effect or lose its answer  *)
(* after it.  The nonce of a namespace without resource is Absent.         *)
(***************************************************************************)
EXTENDS Integers

CONSTANTS
    N,             \* controllers, and namespaces
    Kind,          \* the program of each controller
    MaxNonce,      \* bound: nonces the user asks for
    MaxDeletes,    \* bound: resources the user deletes
    MaxRestarts    \* bound: controllers that are restarted

ASSUME RingAssumption == /\ N \in Nat \ {0, 1}
                         /\ Kind \in [0..(N - 1) -> {"rust", "go"}]
                         /\ {MaxNonce, MaxDeletes, MaxRestarts} \subseteq Nat

Nodes  == 0..(N - 1)
Absent == -1
Nonces == 0..MaxNonce
Out(c) == (c + 1) % N

VARIABLES
    nonce, version,     \* API server: the resource of each namespace
    asked, deletes,     \* user: the latest nonce, and how many deletions
    restarts,
    cache,              \* nonce of the watched resource as last seen
    queued,             \* a reconcile is due
    pc, held, seen      \* reconcile: its stage, the nonce it copies, the version got

serverVars == <<nonce, version>>
userVars   == <<asked, deletes>>
workVars   == <<pc, held, seen>>
vars == <<serverVars, userVars, restarts, cache, queued, workVars>>

TypeOK ==
    /\ nonce \in [Nodes -> Nonces \cup {Absent}]
    /\ version \in [Nodes -> Nat]
    /\ asked \in Nonces
    /\ deletes \in 0..MaxDeletes
    /\ restarts \in 0..MaxRestarts
    /\ cache \in [Nodes -> Nonces \cup {Absent}]
    /\ queued \in [Nodes -> BOOLEAN]
    /\ pc \in [Nodes -> {"wait", "get", "create", "replace"}]
    /\ held \in [Nodes -> Nonces]
    /\ seen \in [Nodes -> Nat]
    /\ \A c \in Nodes : seen[c] <= version[Out(c)]

Init ==
    /\ nonce = [c \in Nodes |-> Absent]
    /\ version = [c \in Nodes |-> 0]
    /\ asked = 0
    /\ deletes = 0
    /\ restarts = 0
    /\ cache = [c \in Nodes |-> Absent]
    /\ queued = [c \in Nodes |-> FALSE]
    /\ pc = [c \in Nodes |-> "wait"]
    /\ held = [c \in Nodes |-> 0]
    /\ seen = [c \in Nodes |-> 0]

\* The API server stores n in namespace ns, a new version.
Put(ns, n) == /\ nonce' = [nonce EXCEPT ![ns] = n]
              /\ version' = [version EXCEPT ![ns] = @ + 1]

\* A reconcile moves on, or ends and forgets what it read.
Goto(c, stage) == pc' = [pc EXCEPT ![c] = stage]
Done(c) == /\ Goto(c, "wait")
           /\ held' = [held EXCEPT ![c] = 0]
           /\ seen' = [seen EXCEPT ![c] = 0]

----------------------------------------------------------------------------
(* The user, and the watch of a controller.                                *)

Raise ==
    /\ asked < MaxNonce
    /\ asked' = asked + 1
    /\ Put(0, asked + 1)
    /\ UNCHANGED <<deletes, restarts, cache, queued, workVars>>

Delete(ns) ==
    /\ deletes < MaxDeletes
    /\ nonce[ns] # Absent
    /\ deletes' = deletes + 1
    /\ Put(ns, Absent)
    /\ UNCHANGED <<asked, restarts, cache, queued, workVars>>

\* The reflector or informer catches up; a resource that is there is enqueued.
Watch(c) ==
    /\ cache[c] # nonce[c]
    /\ cache' = [cache EXCEPT ![c] = nonce[c]]
    /\ queued' = [queued EXCEPT ![c] = @ \/ nonce[c] # Absent]
    /\ UNCHANGED <<serverVars, userVars, restarts, workVars>>

\* The informer of the Go controller hands out its resources every 30 seconds.
Resync(c) ==
    /\ Kind[c] = "go"
    /\ cache[c] # Absent
    /\ queued' = [queued EXCEPT ![c] = TRUE]
    /\ UNCHANGED <<serverVars, userVars, restarts, cache, workVars>>

\* A restarted controller knows nothing and lists the namespace again.
Restart(c) ==
    /\ restarts < MaxRestarts
    /\ restarts' = restarts + 1
    /\ cache' = [cache EXCEPT ![c] = Absent]
    /\ queued' = [queued EXCEPT ![c] = FALSE]
    /\ Done(c)
    /\ UNCHANGED <<serverVars, userVars>>

----------------------------------------------------------------------------
(* A reconcile.                                                            *)

\* Faulty: an error ends the matter.
Retry_Never(c) == UNCHANGED queued

\* An error: error_policy and AddRateLimited both try again later.
Retry(c) == queued' = [queued EXCEPT ![c] = TRUE]

\* Faulty: the resource is taken to be there still.
Found_Always(c) == TRUE
Found(c) == cache[c] # Absent

\* Go returns an error, and so retries, while the cache has no such resource;
\* for Rust the runtime drops the request.
Start(c) ==
    /\ pc[c] = "wait"
    /\ queued[c]
    /\ \/ /\ Found(c)
          /\ held' = [held EXCEPT ![c] = cache[c]]
          /\ Goto(c, "get")
       \/ /\ ~Found(c)
          /\ Kind[c] = "rust"
          /\ UNCHANGED <<held, pc>>
    /\ queued' = [queued EXCEPT ![c] = FALSE]
    /\ UNCHANGED <<serverVars, userVars, restarts, cache, seen>>

\* Faulty: a nonce that is the same is written again.
Newer_OrSame(c) == held[c] >= nonce[Out(c)]
Newer(c) == held[c] > nonce[Out(c)]

\* get of the resource in the next namespace.
Get(c) ==
    /\ pc[c] = "get"
    /\ \/ /\ nonce[Out(c)] = Absent
          /\ Goto(c, "create")
          /\ UNCHANGED <<held, seen>>
       \/ /\ nonce[Out(c)] # Absent
          /\ Newer(c)
          /\ Goto(c, "replace")
          /\ seen' = [seen EXCEPT ![c] = version[Out(c)]]
          /\ held' = held
       \/ /\ nonce[Out(c)] # Absent
          /\ ~Newer(c)
          /\ Done(c)
    /\ UNCHANGED <<serverVars, userVars, restarts, cache, queued>>

\* Faulty: the server is not told which version the replacement is for.
Accepts_AnyVersion(c) == nonce[Out(c)] # Absent
Accepts(c) == nonce[Out(c)] # Absent /\ version[Out(c)] = seen[c]

\* The Go controller gives a resource it creates the nonce 0.
InitialNonce(c) == IF Kind[c] = "go" THEN 0 ELSE held[c]

\* A write takes effect.  Its answer may be lost, and then it is tried again.
Write(c, answered) ==
    /\ \/ /\ pc[c] = "create"
          /\ nonce[Out(c)] = Absent
          /\ Put(Out(c), InitialNonce(c))
       \/ /\ pc[c] = "replace"
          /\ Accepts(c)
          /\ Put(Out(c), held[c])
    /\ Done(c)
    /\ IF answered THEN UNCHANGED queued ELSE Retry(c)
    /\ UNCHANGED <<userVars, restarts, cache>>

\* The server refuses the write: the resource exists, has changed or is gone.
Conflict(c) ==
    /\ \/ pc[c] = "create" /\ nonce[Out(c)] # Absent
       \/ pc[c] = "replace" /\ ~Accepts(c)
    /\ Done(c)
    /\ Retry(c)
    /\ UNCHANGED <<serverVars, userVars, restarts, cache>>

\* A call fails without effect.
Fail(c) ==
    /\ pc[c] # "wait"
    /\ Done(c)
    /\ Retry(c)
    /\ UNCHANGED <<serverVars, userVars, restarts, cache>>

Next ==
    \/ Raise
    \/ \E c \in Nodes :
        \/ Delete(c) \/ Watch(c) \/ Resync(c) \/ Restart(c)
        \/ Start(c) \/ Get(c) \/ Write(c, TRUE) \/ Write(c, FALSE)
        \/ Conflict(c) \/ Fail(c)

\* Events arrive, reconciles run, and the informer resyncs.  Calls may fail, but
\* if they are made again and again the server answers some of them.
Fairness ==
    \A c \in Nodes :
        /\ WF_vars(Watch(c)) /\ WF_vars(Resync(c)) /\ WF_vars(Start(c))
        /\ SF_vars(Get(c)) /\ SF_vars(Write(c, TRUE) \/ Conflict(c))

Spec     == Init /\ [][Next]_vars
FairSpec == Spec /\ Fairness

----------------------------------------------------------------------------
(* Properties.                                                             *)

\* A nonce never falls while the resource exists: a reconcile that read an old
\* resource does not overwrite what the user or a later reconcile wrote between
\* its get and its write (ring main.rs 144-155, controller.go 169-193).
NoncesNeverFall ==
    [][\A c \in Nodes : nonce[c] # Absent /\ nonce'[c] # Absent => nonce'[c] >= nonce[c]]_vars

\* A ring in which every resource has the latest nonce is quiet: until the user
\* acts no controller writes, whatever is still queued or is retried, although a
\* write of the same nonce would wake the next controller, round and round
\* (ring main.rs 146, controller.go 185).
Settled == asked > 0 /\ \A c \in Nodes : nonce[c] = asked
SettledRingIsQuiet == [][Settled /\ UNCHANGED userVars => UNCHANGED serverVars]_vars

\* Without deletions the latest nonce goes all the way around, through failures,
\* lost answers, conflicts and restarts, and although the Go controller creates
\* resources with nonce 0 (ring main.rs 44-46, controller.go 133-137, 210).
Propagates == (asked > 0) ~> (deletes > 0 \/ Settled)
=============================================================================

---------------------------- MODULE RuntimeStart ----------------------------
(***************************************************************************)
(* How the operator starts its modules (src/pkg/controller/src/main.rs,    *)
(* runtime/mod.rs and cache_precompile of runtime/environment.rs): a task  *)
(* sends one command for each module over a bounded channel, and the start *)
(* task compiles the module, unless the cache has a file for the hash of   *)
(* its code, and spawns a task that loads that file and runs it.           *)
(*                                                                         *)
(* The cache outlives the process, which may be killed between any two     *)
(* steps; a file is there, but Short, from the moment its write begins.    *)
(* Users may replace the code of a module at any time.  A hash stands for  *)
(* the code it is of.                                                      *)
(***************************************************************************)
EXTENDS Naturals, Sequences

CONSTANTS
    Modules,       \* the sequence of modules of the directory
    Codes, Broken, \* what a wasm file may hold, and what of it does not compile
    Capacity,      \* commands on their way: channel and buffer_unordered have 10 each
    None, Short,   \* no code; a file that was not written to its end
    MaxKills,      \* bound: times the process is killed
    MaxReplaces    \* bound: times a user replaces the code of a module

Mods == {Modules[i] : i \in DOMAIN Modules}

ASSUME StartAssumption ==
    /\ Modules \in Seq(Mods)
    /\ \A i, j \in DOMAIN Modules : i # j => Modules[i] # Modules[j]
    /\ Broken \subseteq Codes
    /\ None \notin Codes \cup Mods \cup Nat
    /\ Short \notin Codes \cup {None}
    /\ Capacity \in Nat \ {0}
    /\ {MaxKills, MaxReplaces} \subseteq Nat

VARIABLES
    wasm,               \* the code at the path of each module
    cache,              \* cache directory: what the file of each name holds
    kills, replaces,
    up,                 \* the process runs
    sent, senderUp,     \* sender: commands sent, and whether its task lives
    channel,            \* commands on their way
    pc, current, read,  \* start task: its stage, its command and the code it read
    nextId,             \* async_client_id_counter
    id,                 \* of a module with a task: the id in the name of its swap file
    took, file,         \* and the code that was read for it and its cache file
    runs                \* and what it has loaded and runs; Short if that failed

diskVars   == <<wasm, cache, kills, replaces>>
senderVars == <<sent, senderUp, channel>>
startVars  == <<pc, current, read, nextId>>
moduleVars == <<id, took, file, runs>>
vars == <<diskVars, up, senderVars, startVars, moduleVars>>

Names == Codes \cup Mods
Ids   == 0..(Len(Modules) - 1)

TypeOK ==
    /\ wasm \in [Mods -> Codes]
    /\ cache \in [Names -> (Codes \ Broken) \cup {None, Short}]
    /\ kills \in 0..MaxKills
    /\ replaces \in 0..MaxReplaces
    /\ up \in BOOLEAN
    /\ sent \in 0..Len(Modules)
    /\ senderUp \in BOOLEAN
    /\ channel \in Seq(Mods)
    /\ Len(channel) <= Capacity
    /\ pc \in {"idle", "read", "check", "write", "spawn", "dead"}
    /\ current \in Mods \cup {None}
    /\ read \in Codes \cup {None}
    /\ nextId \in 0..Len(Modules)
    /\ id \in [Mods -> Ids \cup {None}]
    /\ took \in [Mods -> Codes \cup {None}]
    /\ file \in [Mods -> Names \cup {None}]
    /\ runs \in [Mods -> Codes \cup {None, Short}]

Init ==
    /\ wasm \in [Mods -> Codes]
    /\ cache = [n \in Names |-> None]
    /\ kills = 0
    /\ replaces = 0
    /\ up = TRUE
    /\ sent = 0
    /\ senderUp = TRUE
    /\ channel = <<>>
    /\ pc = "idle"
    /\ current = None
    /\ read = None
    /\ nextId = 0
    /\ id = [m \in Mods |-> None]
    /\ took = [m \in Mods |-> None]
    /\ file = [m \in Mods |-> None]
    /\ runs = [m \in Mods |-> None]

----------------------------------------------------------------------------
(* The process from outside.                                               *)

\* Nothing but the files survives.
Kill ==
    /\ up
    /\ kills < MaxKills
    /\ kills' = kills + 1
    /\ up' = FALSE
    /\ sent' = 0
    /\ senderUp' = TRUE
    /\ channel' = <<>>
    /\ pc' = "idle"
    /\ current' = None
    /\ read' = None
    /\ nextId' = 0
    /\ id' = [m \in Mods |-> None]
    /\ took' = [m \in Mods |-> None]
    /\ file' = [m \in Mods |-> None]
    /\ runs' = [m \in Mods |-> None]
    /\ UNCHANGED <<wasm, cache, replaces>>

Boot ==
    /\ ~up
    /\ up' = TRUE
    /\ UNCHANGED <<diskVars, senderVars, startVars, moduleVars>>

Replace(m, code) ==
    /\ replaces < MaxReplaces
    /\ wasm[m] # code
    /\ replaces' = replaces + 1
    /\ wasm' = [wasm EXCEPT ![m] = code]
    /\ UNCHANGED <<cache, kills, up, senderVars, startVars, moduleVars>>

----------------------------------------------------------------------------
(* The sender.                                                             *)

\* Faulty: a command that finds the channel full is dropped.
Deliver_OrDrop(m) == channel' = IF Len(channel) < Capacity THEN Append(channel, m) ELSE channel

\* send waits for room.
Deliver(m) == /\ Len(channel) < Capacity
              /\ channel' = Append(channel, m)

Send ==
    /\ up /\ senderUp
    /\ pc # "dead"
    /\ sent < Len(Modules)
    /\ Deliver(Modules[sent + 1])
    /\ sent' = sent + 1
    /\ UNCHANGED <<diskVars, up, senderUp, startVars, moduleVars>>

\* The receiver is gone: unwrap panics.
SendPanics ==
    /\ up /\ senderUp
    /\ pc = "dead"
    /\ sent < Len(Modules)
    /\ senderUp' = FALSE
    /\ UNCHANGED <<diskVars, up, sent, channel, startVars, moduleVars>>

----------------------------------------------------------------------------
(* The start task.                                                         *)

\* expect panics: the task ends and drops the receiver with its commands.
Panic ==
    /\ pc' = "dead"
    /\ channel' = <<>>
    /\ UNCHANGED <<up, sent, senderUp, current, read, nextId, moduleVars>>

Receive ==
    /\ up /\ pc = "idle"
    /\ channel # <<>>
    /\ current' = Head(channel)
    /\ channel' = Tail(channel)
    /\ pc' = "read"
    /\ UNCHANGED <<diskVars, up, sent, senderUp, read, nextId, moduleVars>>

Read ==
    /\ up /\ pc = "read"
    /\ read' = wasm[current]
    /\ pc' = "check"
    /\ UNCHANGED <<diskVars, up, senderVars, current, nextId, moduleVars>>

\* Faulty: the cache goes by the path of a module.
CacheFile_Path == current
CacheFile == read

\* Faulty: the error of the compiler is not looked at.
Compiles_Always == TRUE
Compiles == read \notin Broken

\* The file is there, the code does not compile, or the write begins.
Check ==
    /\ up /\ pc = "check"
    /\ \/ /\ cache[CacheFile] # None
          /\ pc' = "spawn"
          /\ UNCHANGED <<diskVars, up, senderVars, current, read, nextId, moduleVars>>
       \/ /\ cache[CacheFile] = None
          /\ ~Compiles
          /\ Panic
          /\ UNCHANGED diskVars
       \/ /\ cache[CacheFile] = None
          /\ Compiles
          /\ cache' = [cache EXCEPT ![CacheFile] = Short]
          /\ pc' = "write"
          /\ UNCHANGED <<wasm, kills, replaces, up, senderVars, current, read, nextId, moduleVars>>

WriteEnds ==
    /\ up /\ pc = "write"
    /\ cache' = [cache EXCEPT ![CacheFile] = read]
    /\ pc' = "spawn"
    /\ UNCHANGED <<wasm, kills, replaces, up, senderVars, current, read, nextId, moduleVars>>

\* The wasm file cannot be read, or the cache file not be written to its end.
FileFails ==
    /\ up /\ pc \in {"read", "write"}
    /\ Panic
    /\ UNCHANGED diskVars

Spawn ==
    /\ up /\ pc = "spawn"
    /\ id' = [id EXCEPT ![current] = nextId]
    /\ nextId' = nextId + 1
    /\ took' = [took EXCEPT ![current] = read]
    /\ file' = [file EXCEPT ![current] = CacheFile]
    /\ pc' = "idle"
    /\ current' = None
    /\ read' = None
    /\ UNCHANGED <<diskVars, up, senderVars, runs>>

\* The module's own task loads the cache file; it ends if the file is short.
Load(m) ==
    /\ up
    /\ file[m] # None
    /\ runs[m] = None
    /\ runs' = [runs EXCEPT ![m] = cache[file[m]]]
    /\ UNCHANGED <<diskVars, up, senderVars, startVars, id, took, file>>

Next ==
    \/ Kill \/ Boot
    \/ \E m \in Mods : Load(m) \/ \E code \in Codes : Replace(m, code)
    \/ Send \/ SendPanics
    \/ Receive \/ Read \/ Check \/ WriteEnds \/ FileFails \/ Spawn

\* The tasks of the process run; somebody starts it again.
Fairness ==
    /\ WF_vars(Boot) /\ WF_vars(Send) /\ WF_vars(SendPanics)
    /\ WF_vars(Receive \/ Read \/ Check \/ WriteEnds \/ Spawn)
    /\ \A m \in Mods : WF_vars(Load(m))

Spec     == Init /\ [][Next]_vars
FairSpec == Spec /\ Fairness

----------------------------------------------------------------------------
(* Properties.                                                             *)

\* A module runs the code that was at its path when it was started, or does not
\* run: no cache file of another module, of the same module before a user
\* replaced its code, or of a killed process is taken for it, and no two modules
\* have the same swap file (environment.rs 66-74, mod.rs 64-67).
RunsOwnCode ==
    /\ \A m \in Mods : runs[m] \in {None, Short, took[m]}
    /\ \A m, n \in Mods : m # n /\ id[m] # None => id[m] # id[n]

\* After every boot each module comes to run, unless the process is killed
\* again, the start task has ended, or the module's own cache file is one that a
\* killed or failed write left behind: no command is lost in the channel
\* (main.rs 72-78, mod.rs 45-96).
EveryModuleStarts ==
    \A m \in Mods : up ~> \/ runs[m] \in Codes
                          \/ ~up
                          \/ pc = "dead"
                          \/ file[m] # None /\ cache[file[m]] = Short
=============================================================================

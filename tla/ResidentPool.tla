---------------------------- MODULE ResidentPool ----------------------------
(***************************************************************************)
(* What WasmRuntime promises: every module has a memory of its own that    *)
(* only its guest changes, whether the module is resident or swapped out,  *)
(* and at most PoolSize modules are resident.  Swap files, snapshots and   *)
(* permits are not visible.                                                *)
(***************************************************************************)
EXTENDS Naturals, FiniteSets

CONSTANTS Modules, PoolSize, Images, FreshImage, Lost

VARIABLES
    memory,     \* what the guest of each module finds when it runs
    resident,   \* modules that occupy memory
    running     \* modules whose guest is inside a call

vars == <<memory, resident, running>>

Init == /\ memory = [m \in Modules |-> FreshImage]
        /\ resident = {}
        /\ running = {}

\* A module gets a place, and its guest may be called at once.
Admit(m) == /\ m \notin resident
            /\ Cardinality(resident) < PoolSize
            /\ memory[m] # Lost
            /\ resident' = resident \cup {m}
            /\ running' \in {running, running \cup {m}}
            /\ UNCHANGED memory

Enter(m) == /\ m \in resident
            /\ memory[m] # Lost
            /\ running' = running \cup {m}
            /\ UNCHANGED <<memory, resident>>

\* Only a guest that was called changes its memory.
Run(m) == /\ m \in running
          /\ memory[m] # Lost
          /\ memory' \in {[memory EXCEPT ![m] = i] : i \in Images}
          /\ running' = running \ {m}
          /\ UNCHANGED resident

Evict(m) == /\ m \in resident \ running
            /\ resident' = resident \ {m}
            /\ UNCHANGED <<memory, running>>

\* The module ends; it may stay resident for a moment.
Die(m) == /\ memory' = [memory EXCEPT ![m] = Lost]
          /\ running' = running \ {m}
          /\ UNCHANGED resident

Next == \E m \in Modules : Admit(m) \/ Enter(m) \/ Run(m) \/ Evict(m) \/ Die(m)

Spec == Init /\ [][Next]_vars
=============================================================================

---------------------------- MODULE SlabStorage -----------------------------
(***************************************************************************)
(* SlabStorage of src/pkg/wasm-delay-queue/src/delay_queue.rs: the entries *)
(* of a DelayQueue in a slab, and the map from the keys handed out to the  *)
(* indices that compact() has moved them to.                               *)
(*                                                                         *)
(* The slab itself (a library) is inner, a function on the occupied        *)
(* indices: it inserts at any vacant one, and compact keeps the entries    *)
(* below the length and moves the others into the vacancies there.         *)
(***************************************************************************)
EXTENDS Naturals, FiniteSets, Functions

CONSTANT MaxEntries    \* bound: entries in the slab

NewSlab == [inner |-> <<>>, keyMap |-> <<>>, nextKey |-> 0, compactCalled |-> FALSE]

\* Keys that were handed out and are still valid.
Live(s) == IF s.compactCalled THEN DOMAIN s.keyMap ELSE DOMAIN s.inner

RemapKey(s, k) == IF s.compactCalled THEN s.keyMap[k] ELSE k
Data(s, k) == s.inner[RemapKey(s, k)]
SetData(s, k, data) == [s EXCEPT !.inner[RemapKey(s, k)] = data]

Vacant(s) == 0..(MaxEntries - 1) \ DOMAIN s.inner

\* Faulty: the index itself is handed out again.
CreateNewKey_Reuses(s, index) == index

\* The first key from nextKey on that is not handed out.
CreateNewKey(s, index) ==
    CHOOSE k \in s.nextKey..(s.nextKey + Cardinality(DOMAIN s.keyMap)) :
        /\ k \notin DOMAIN s.keyMap
        /\ \A j \in s.nextKey..(k - 1) : j \in DOMAIN s.keyMap

\* f with the value v at k.
With(f, k, v) == [x \in DOMAIN f \cup {k} |-> IF x = k THEN v ELSE f[x]]

\* insert at the given index: the new slab and the key handed out.
SlabInsert(s, index, data) ==
    LET taken == index \in DOMAIN s.keyMap
        key == IF taken THEN CreateNewKey(s, index) ELSE index
    IN [key  |-> key,
        slab |-> [inner   |-> With(s.inner, index, data),
                  keyMap  |-> IF taken \/ s.compactCalled
                              THEN With(s.keyMap, key, index) ELSE s.keyMap,
                  nextKey |-> IF taken THEN key ELSE s.nextKey,
                  compactCalled |-> s.compactCalled]]

\* Faulty: the key stays in the map.
SlabRemove_KeepsKey(s, k) == [s EXCEPT !.inner = Restrict(@, DOMAIN @ \ {RemapKey(s, k)})]

SlabRemove(s, k) ==
    [s EXCEPT !.inner  = Restrict(@, DOMAIN @ \ {RemapKey(s, k)}),
              !.keyMap = Restrict(@, DOMAIN @ \ {k})]

\* The ways compact may move the entries: those at or after the length go to
\* the vacant indices before it.
Remappings(s) ==
    LET n == Cardinality(DOMAIN s.inner) IN
    Bijection({i \in DOMAIN s.inner : i >= n}, 0..(n - 1) \ DOMAIN s.inner)

\* The map with an entry for each key, those handed out before the first
\* compact included.
Recorded(s) == IF s.compactCalled THEN s.keyMap ELSE [i \in DOMAIN s.inner |-> i]

\* compact, with the entries moved by the given remapping.
SlabCompact(s, moved) ==
    LET kept == DOMAIN s.inner \ DOMAIN moved
        back == AntiFunction(moved)
    IN
    [s EXCEPT !.inner = [i \in kept \cup DOMAIN back |->
                            s.inner[IF i \in DOMAIN back THEN back[i] ELSE i]],
              !.keyMap = [k \in DOMAIN Recorded(s) |->
                             IF Recorded(s)[k] \in DOMAIN moved
                             THEN moved[Recorded(s)[k]] ELSE Recorded(s)[k]],
              !.compactCalled = TRUE]

SlabClear(s) == [s EXCEPT !.inner = <<>>, !.keyMap = <<>>, !.compactCalled = FALSE]
=============================================================================

-------------------------- MODULE DelayQueue_proof --------------------------
(***************************************************************************)
(* Proofs about DelayQueue, for any radix, any number of levels and any    *)
(* bounds on the slab and on the clock.                                    *)
(*                                                                         *)
(* The inductive invariant says that the slab maps its keys to its entries *)
(* one to one (SlabOK); that at each stage of a poll the wheel holds the   *)
(* entries that lie ahead (Exact, Settling or Cascading, of                *)
(* TimerWheel_proof) and the stack those that are overdue, whose deadline  *)
(* is the elapsed time; that the elapsed time is not ahead of wheelNow,    *)
(* nor wheelNow a millisecond ahead of the clock; and that the delay is    *)
(* not behind the wheel.  The last two parts are an action property of the *)
(* delay, which is not an invariant (reset_at can break it), and the       *)
(* refinement of DeadlineMap.                                              *)
(***************************************************************************)
EXTENDS DelayQueue, TimerWheel_proof, FiniteSetTheorems

-----------------------------------------------------------------------------
(* SlabStorage: keys and indices (delay_queue.rs 161-369).                 *)

\* The keys and the occupied indices are in bijection.
SlabOK(s) ==
    /\ s = [inner |-> s.inner, keyMap |-> s.keyMap, nextKey |-> s.nextKey, compactCalled |-> s.compactCalled]
    /\ DOMAIN s.inner \subseteq 0..(MaxEntries - 1)
    /\ s.inner \in [DOMAIN s.inner -> Entries]
    /\ DOMAIN s.keyMap \subseteq Nat
    /\ s.keyMap \in [DOMAIN s.keyMap -> DOMAIN s.inner]
    /\ s.nextKey \in Nat
    /\ s.compactCalled \in BOOLEAN
    /\ s.compactCalled => /\ \A j, k \in DOMAIN s.keyMap : s.keyMap[j] = s.keyMap[k] => j = k
                          /\ \A i \in DOMAIN s.inner : \E k \in DOMAIN s.keyMap : s.keyMap[k] = i
    /\ ~s.compactCalled => DOMAIN s.keyMap = {}

\* Every valid key leads to an entry, no two to the same, and each entry has one.
LEMMA RemapFacts ==
    ASSUME NEW s, SlabOK(s)
    PROVE  /\ Live(s) \subseteq Nat
           /\ \A k \in Live(s) : RemapKey(s, k) \in DOMAIN s.inner /\ Data(s, k) \in Entries
           /\ \A j, k \in Live(s) : RemapKey(s, j) = RemapKey(s, k) => j = k
           /\ \A i \in DOMAIN s.inner : \E k \in Live(s) : RemapKey(s, k) = i
  <1>1. /\ Live(s) \subseteq Nat
        /\ \A k \in Live(s) : RemapKey(s, k) \in DOMAIN s.inner
        /\ \A j, k \in Live(s) : RemapKey(s, j) = RemapKey(s, k) => j = k
        /\ \A i \in DOMAIN s.inner : \E k \in Live(s) : RemapKey(s, k) = i
    <2>1. CASE s.compactCalled BY <2>1 DEF SlabOK, Live, RemapKey
    <2>2. CASE ~s.compactCalled BY <2>2 DEF SlabOK, Live, RemapKey
    <2>3. QED BY <2>1, <2>2 DEF SlabOK
  <1>2. \A i \in DOMAIN s.inner : s.inner[i] \in Entries BY DEF SlabOK
  <1>3. QED BY <1>1, <1>2 DEF Data

\* The fields of an entry.
LEMMA EntryFields ==
    ASSUME NEW d \in Entries
    PROVE  d.when \in Nat /\ d.expired \in BOOLEAN /\ d = [when |-> d.when, expired |-> d.expired]
  BY DEF Entries

\* The slab and its key map are finite.
LEMMA KeysFinite ==
    ASSUME NEW s, SlabOK(s), MaxEntries \in Nat
    PROVE  /\ IsFiniteSet(DOMAIN s.inner) /\ Cardinality(DOMAIN s.inner) \in 0..MaxEntries
           /\ IsFiniteSet(DOMAIN s.keyMap) /\ Cardinality(DOMAIN s.keyMap) \in Nat
  <1>1. /\ IsFiniteSet(0..(MaxEntries - 1))
        /\ Cardinality(0..(MaxEntries - 1)) = IF 0 > MaxEntries - 1 THEN 0 ELSE (MaxEntries - 1) - 0 + 1
    BY FS_Interval
  <1>2. Cardinality(0..(MaxEntries - 1)) = MaxEntries BY <1>1
  <1>3. DOMAIN s.inner \in SUBSET (0..(MaxEntries - 1)) BY DEF SlabOK
  <1>4. IsFiniteSet(DOMAIN s.inner) /\ Cardinality(DOMAIN s.inner) <= MaxEntries
    BY <1>1, <1>2, <1>3, FS_Subset
  <1>5. Cardinality(DOMAIN s.inner) \in Nat BY <1>4, FS_CardinalityType
  <1>6. IsFiniteSet(DOMAIN s.keyMap)
    <2>1. CASE s.compactCalled
      <3>1. s.keyMap \in Injection(DOMAIN s.keyMap, DOMAIN s.inner)
        BY <2>1 DEF SlabOK, Injection, IsInjective
      <3>2. QED BY <3>1, <1>4, FS_Injection
    <2>2. CASE ~s.compactCalled BY <2>2, FS_EmptySet DEF SlabOK
    <2>3. QED BY <2>1, <2>2
  <1>7. QED BY <1>4, <1>5, <1>6, FS_CardinalityType

\* The search of create_new_key ends at a key that is not in use: there are more
\* candidates than keys (delay_queue.rs 287-293).
LEMMA NewKeyExists ==
    ASSUME NEW s, SlabOK(s), MaxEntries \in Nat, NEW index
    PROVE  CreateNewKey(s, index) \in Nat \ DOMAIN s.keyMap
  <1> DEFINE K == DOMAIN s.keyMap
             c == Cardinality(K)
             n == s.nextKey
             V == (n..(n + c)) \ K
  <1>1. IsFiniteSet(K) /\ c \in Nat /\ n \in Nat BY KeysFinite DEF SlabOK
  <1> HIDE DEF K, c, n
  <1>2. V # {}
    <2>1. SUFFICES ASSUME n..(n + c) \subseteq K PROVE FALSE OBVIOUS
    <2>2. Cardinality(n..(n + c)) = IF n > n + c THEN 0 ELSE (n + c) - n + 1
      BY <1>1, FS_Interval
    <2>3. Cardinality(n..(n + c)) = c + 1
      <3> DEFINE x == Cardinality(n..(n + c))
      <3>1. x = IF n > n + c THEN 0 ELSE (n + c) - n + 1 BY <2>2
      <3> HIDE DEF x
      <3>2. x = c + 1 BY <3>1, <1>1
      <3>3. QED BY <3>2 DEF x
    <2>4. Cardinality(n..(n + c)) <= Cardinality(K) BY <1>1, <2>1, FS_Subset
    <2>5. c + 1 <= c BY <2>3, <2>4 DEF c
    <2>6. QED BY <2>5, <1>1
  <1>3. V \subseteq Nat BY <1>1
  <1>4. PICK k \in V : \A j \in V : k <= j BY <1>2, <1>3, LeastNat
  <1>5. k \in n..(n + c) /\ k \notin K /\ \A j \in n..(k - 1) : j \in K
    <2>1. ASSUME NEW j \in n..(k - 1), j \notin K PROVE FALSE
      <3>1. k \in n..(n + c) /\ k \in Nat BY <1>1
      <3>2. j \in n..(n + c) /\ j < k BY <3>1, <1>1
      <3>3. j \in V BY <3>2, <2>1
      <3>4. k <= j BY <3>3, <1>4
      <3>5. QED BY <3>2, <3>4, <3>1, <1>1
    <2>2. QED BY <2>1
  <1>6. CreateNewKey(s, index) = CHOOSE q \in n..(n + c) : q \notin K /\ \A j \in n..(q - 1) : j \in K
    BY DEF CreateNewKey, n, c, K
  <1>7. CreateNewKey(s, index) \in n..(n + c) /\ CreateNewKey(s, index) \notin K BY <1>5, <1>6
  <1>8. QED BY <1>1, <1>7 DEF K

-----------------------------------------------------------------------------
(* insert, index_mut and remove of the slab.                               *)

\* A map with one value more.
LEMMA WithFacts ==
    ASSUME NEW f, NEW k, NEW v
    PROVE  /\ DOMAIN With(f, k, v) = DOMAIN f \cup {k}
           /\ With(f, k, v)[k] = v
           /\ \A x \in DOMAIN f : x # k => With(f, k, v)[x] = f[x]
           /\ With(f, k, v) = [x \in DOMAIN With(f, k, v) |-> With(f, k, v)[x]]
  BY DEF With

\* insert hands out a new key, which leads to the new entry, and the other keys
\* lead where they led (delay_queue.rs 190-213).
LEMMA SlabInsertOK ==
    ASSUME NEW s, SlabOK(s), MaxEntries \in Nat, NEW index \in Vacant(s), NEW data \in Entries
    PROVE  LET new == SlabInsert(s, index, data) IN
           /\ SlabOK(new.slab)
           /\ new.key \in Nat
           /\ new.key \notin Live(s)
           /\ Live(new.slab) = Live(s) \cup {new.key}
           /\ Data(new.slab, new.key) = data
           /\ \A k \in Live(s) : Data(new.slab, k) = Data(s, k)
  <1> DEFINE taken == index \in DOMAIN s.keyMap
             key == IF taken THEN CreateNewKey(s, index) ELSE index
             inner == With(s.inner, index, data)
             keyMap == IF taken \/ s.compactCalled THEN With(s.keyMap, key, index) ELSE s.keyMap
             n == [inner |-> inner, keyMap |-> keyMap, nextKey |-> IF taken THEN key ELSE s.nextKey,
                   compactCalled |-> s.compactCalled]
  <1>1. SlabInsert(s, index, data) = [key |-> key, slab |-> n] BY DEF SlabInsert
  <1>2. index \in 0..(MaxEntries - 1) /\ index \notin DOMAIN s.inner /\ index \in Nat
    BY DEF Vacant
  <1>3. key \in Nat /\ key \notin DOMAIN s.keyMap
    <2>1. CreateNewKey(s, index) \in Nat \ DOMAIN s.keyMap BY NewKeyExists
    <2>2. CASE taken BY <2>1, <2>2
    <2>3. CASE ~taken BY <1>2, <2>3
    <2>4. QED BY <2>2, <2>3
  <1>4. taken => s.compactCalled BY DEF SlabOK
  <1>5. ~s.compactCalled => key = index /\ keyMap = s.keyMap BY <1>4
  <1>6. s.compactCalled => keyMap = With(s.keyMap, key, index) OBVIOUS
  <1>7. /\ n.inner = inner /\ n.keyMap = keyMap /\ n.compactCalled = s.compactCalled
        /\ n.nextKey = IF taken THEN key ELSE s.nextKey
        /\ n = [inner |-> n.inner, keyMap |-> n.keyMap, nextKey |-> n.nextKey, compactCalled |-> n.compactCalled]
    OBVIOUS
  <1>8. n.nextKey \in Nat BY <1>3, <1>7 DEF SlabOK
  <1>9. /\ DOMAIN inner = DOMAIN s.inner \cup {index}
        /\ inner[index] = data
        /\ \A i \in DOMAIN s.inner : inner[i] = s.inner[i]
        /\ inner = [i \in DOMAIN inner |-> inner[i]]
    BY <1>2 DEF With
  <1>10. s.compactCalled => /\ DOMAIN keyMap = DOMAIN s.keyMap \cup {key}
                            /\ keyMap[key] = index
                            /\ \A k \in DOMAIN s.keyMap : keyMap[k] = s.keyMap[k]
                            /\ keyMap = [k \in DOMAIN keyMap |-> keyMap[k]]
    <2>1. SUFFICES ASSUME s.compactCalled PROVE keyMap = With(s.keyMap, key, index)
      BY <1>3 DEF With
    <2>2. QED BY <2>1, <1>6
  <1> HIDE DEF n, inner, keyMap, key, taken
  <1>11. inner \in [DOMAIN inner -> Entries]
    <2>1. \A i \in DOMAIN inner : inner[i] \in Entries BY <1>9 DEF SlabOK
    <2>2. QED BY <2>1, <1>9
  <1>12. DOMAIN inner \subseteq 0..(MaxEntries - 1) BY <1>2, <1>9 DEF SlabOK
  <1>13. CASE s.compactCalled
    <2>1. \A k \in DOMAIN keyMap : keyMap[k] \in DOMAIN inner BY <1>13, <1>9, <1>10 DEF SlabOK
    <2>2. keyMap \in [DOMAIN keyMap -> DOMAIN inner] BY <1>13, <1>10, <2>1
    <2>3. DOMAIN keyMap \subseteq Nat BY <1>13, <1>3, <1>10 DEF SlabOK
    <2>4. ASSUME NEW j \in DOMAIN keyMap, NEW k \in DOMAIN keyMap, keyMap[j] = keyMap[k] PROVE j = k
      <3>1. \A q \in DOMAIN s.keyMap : s.keyMap[q] # index BY <1>2 DEF SlabOK
      <3>2. QED BY <2>4, <3>1, <1>13, <1>10 DEF SlabOK
    <2>5. ASSUME NEW i \in DOMAIN inner PROVE \E k \in DOMAIN keyMap : keyMap[k] = i
      <3>1. CASE i = index BY <3>1, <1>13, <1>10
      <3>2. CASE i # index
        <4>1. i \in DOMAIN s.inner BY <3>2, <1>9
        <4>2. PICK k \in DOMAIN s.keyMap : s.keyMap[k] = i BY <4>1, <1>13 DEF SlabOK
        <4>3. QED BY <4>2, <1>13, <1>10
      <3>3. QED BY <3>1, <3>2
    <2>6. SlabOK(n) BY <1>7, <1>8, <1>11, <1>12, <1>13, <2>2, <2>3, <2>4, <2>5 DEF SlabOK
    <2>7. Live(s) = DOMAIN s.keyMap /\ Live(n) = DOMAIN keyMap BY <1>7, <1>13 DEF Live
    <2>8. Data(n, key) = data BY <1>7, <1>9, <1>10, <1>13 DEF Data, RemapKey
    <2>9. ASSUME NEW k \in Live(s) PROVE Data(n, k) = Data(s, k)
      <3>1. keyMap[k] = s.keyMap[k] /\ s.keyMap[k] \in DOMAIN s.inner
        BY <2>7, <1>10, <1>13 DEF SlabOK
      <3>2. inner[s.keyMap[k]] = s.inner[s.keyMap[k]] BY <3>1, <1>9
      <3>3. QED BY <3>1, <3>2, <1>7, <1>13 DEF Data, RemapKey
    <2>10. Live(n) = Live(s) \cup {key} /\ key \notin Live(s) BY <1>3, <1>10, <1>13, <2>7
    <2>11. QED BY <1>1, <1>3, <2>6, <2>8, <2>9, <2>10
  <1>14. CASE ~s.compactCalled
    <2>1. key = index /\ keyMap = s.keyMap BY <1>5, <1>14
    <2>2. DOMAIN keyMap = {} BY <2>1, <1>14 DEF SlabOK
    <2>3. keyMap \in [DOMAIN keyMap -> DOMAIN inner]
      <3>1. keyMap = [k \in DOMAIN keyMap |-> keyMap[k]] BY <2>1 DEF SlabOK
      <3>2. QED BY <3>1, <2>2
    <2>4. SlabOK(n) BY <1>7, <1>8, <1>11, <1>12, <1>14, <2>2, <2>3 DEF SlabOK
    <2>5. Live(s) = DOMAIN s.inner /\ Live(n) = DOMAIN inner BY <1>7, <1>14 DEF Live
    <2>6. Data(n, key) = data BY <1>7, <1>9, <1>14, <2>1 DEF Data, RemapKey
    <2>7. \A k \in Live(s) : Data(n, k) = Data(s, k)
      BY <1>7, <1>9, <1>14, <2>5 DEF Data, RemapKey
    <2>8. Live(n) = Live(s) \cup {key} /\ key \notin Live(s) BY <1>2, <1>9, <2>1, <2>5
    <2>9. QED BY <1>1, <1>3, <2>4, <2>6, <2>7, <2>8
  <1>15. QED BY <1>13, <1>14

\* A write through index_mut changes one entry (delay_queue.rs 360-369).
LEMMA SetDataOK ==
    ASSUME NEW s, SlabOK(s), NEW k \in Live(s), NEW data \in Entries
    PROVE  LET n == SetData(s, k, data) IN
           /\ SlabOK(n)
           /\ Live(n) = Live(s)
           /\ Data(n, k) = data
           /\ \A j \in Live(s) \ {k} : Data(n, j) = Data(s, j)
  <1> DEFINE i == RemapKey(s, k)
             n == SetData(s, k, data)
             inner == [s.inner EXCEPT ![i] = data]
  <1>1. i \in DOMAIN s.inner /\ \A j \in Live(s) : RemapKey(s, j) \in DOMAIN s.inner /\ (RemapKey(s, j) = i => j = k)
    BY RemapFacts
  <1>2. s.inner \in [DOMAIN s.inner -> Entries] BY DEF SlabOK
  <1>3. inner \in [DOMAIN s.inner -> Entries] /\ inner[i] = data /\ \A j \in DOMAIN s.inner \ {i} : inner[j] = s.inner[j]
    BY <1>1, <1>2
  <1> HIDE DEF inner
  <1>4. n = [inner |-> inner, keyMap |-> s.keyMap, nextKey |-> s.nextKey, compactCalled |-> s.compactCalled]
    BY DEF SetData, SlabOK, inner
  <1> HIDE DEF i, n
  <1>5. /\ n.inner = inner /\ n.keyMap = s.keyMap /\ n.nextKey = s.nextKey /\ n.compactCalled = s.compactCalled
        /\ n = [inner |-> n.inner, keyMap |-> n.keyMap, nextKey |-> n.nextKey, compactCalled |-> n.compactCalled]
    BY <1>4
  <1>6. DOMAIN inner = DOMAIN s.inner BY <1>3
  <1>7. SlabOK(n) BY <1>3, <1>5, <1>6 DEF SlabOK
  <1>8. \A j : RemapKey(n, j) = RemapKey(s, j) BY <1>5 DEF RemapKey
  <1>9. Live(n) = Live(s) BY <1>5, <1>6 DEF Live
  <1>10. Data(n, k) = data BY <1>3, <1>5, <1>8 DEF Data, i
  <1>11. ASSUME NEW j \in Live(s) \ {k} PROVE Data(n, j) = Data(s, j)
    BY <1>1, <1>3, <1>5, <1>8 DEF Data
  <1>12. QED BY <1>7, <1>9, <1>10, <1>11 DEF n

\* remove invalidates one key; the others lead where they led, remapped or not
\* (delay_queue.rs 215-242).
LEMMA SlabRemoveOK ==
    ASSUME NEW s, SlabOK(s), NEW k \in Live(s)
    PROVE  LET n == SlabRemove(s, k) IN
           /\ SlabOK(n)
           /\ Live(n) = Live(s) \ {k}
           /\ \A j \in Live(s) \ {k} : Data(n, j) = Data(s, j)
  <1> DEFINE i == RemapKey(s, k)
             n == SlabRemove(s, k)
             inner == Restrict(s.inner, DOMAIN s.inner \ {i})
             keyMap == Restrict(s.keyMap, DOMAIN s.keyMap \ {k})
  <1>1. i \in DOMAIN s.inner /\ \A j \in Live(s) : RemapKey(s, j) \in DOMAIN s.inner /\ (RemapKey(s, j) = i => j = k)
    BY RemapFacts
  <1>2. DOMAIN inner = DOMAIN s.inner \ {i} /\ \A j \in DOMAIN inner : inner[j] = s.inner[j]
    BY DEF Restrict
  <1>3. DOMAIN keyMap = DOMAIN s.keyMap \ {k} /\ \A j \in DOMAIN keyMap : keyMap[j] = s.keyMap[j]
    BY DEF Restrict
  <1>4. inner = [j \in DOMAIN inner |-> inner[j]] /\ keyMap = [j \in DOMAIN keyMap |-> keyMap[j]]
    BY DEF Restrict
  <1> HIDE DEF inner, keyMap
  <1>5. n = [inner |-> inner, keyMap |-> keyMap, nextKey |-> s.nextKey, compactCalled |-> s.compactCalled]
    <2>1. s = [inner |-> s.inner, keyMap |-> s.keyMap, nextKey |-> s.nextKey, compactCalled |-> s.compactCalled]
      BY DEF SlabOK
    <2>2. n = [s EXCEPT !.inner = inner, !.keyMap = keyMap]
      <3>1. n = [s EXCEPT !.inner = Restrict(s.inner, DOMAIN s.inner \ {i}),
                          !.keyMap = Restrict(s.keyMap, DOMAIN s.keyMap \ {k})]
        BY <2>1 DEF SlabRemove
      <3>2. QED BY <3>1 DEF inner, keyMap
    <2>3. QED BY <2>1, <2>2
  <1> HIDE DEF n
  <1>6. /\ n.inner = inner /\ n.keyMap = keyMap /\ n.nextKey = s.nextKey /\ n.compactCalled = s.compactCalled
        /\ n = [inner |-> n.inner, keyMap |-> n.keyMap, nextKey |-> n.nextKey, compactCalled |-> n.compactCalled]
    BY <1>5
  <1>7. inner \in [DOMAIN inner -> Entries] BY <1>2, <1>4 DEF SlabOK
  <1>8. s.compactCalled => i = s.keyMap[k] /\ k \in DOMAIN s.keyMap BY DEF RemapKey, Live
  <1>9. ~s.compactCalled => i = k BY DEF RemapKey
  <1> HIDE DEF i
  <1>10. CASE s.compactCalled
    <2>1. \A j \in DOMAIN keyMap : keyMap[j] \in DOMAIN inner
      BY <1>2, <1>3, <1>8, <1>10 DEF SlabOK
    <2>2. keyMap \in [DOMAIN keyMap -> DOMAIN inner] BY <1>4, <2>1
    <2>3. ASSUME NEW j \in DOMAIN keyMap, NEW q \in DOMAIN keyMap, keyMap[j] = keyMap[q] PROVE j = q
      BY <2>3, <1>3, <1>10 DEF SlabOK
    <2>4. ASSUME NEW x \in DOMAIN inner PROVE \E q \in DOMAIN keyMap : keyMap[q] = x
      <3>1. x \in DOMAIN s.inner /\ x # i BY <1>2
      <3>2. PICK q \in DOMAIN s.keyMap : s.keyMap[q] = x BY <3>1, <1>10 DEF SlabOK
      <3>3. QED BY <3>1, <3>2, <1>3, <1>8, <1>10
    <2>5. DOMAIN keyMap \subseteq Nat /\ DOMAIN inner \subseteq 0..(MaxEntries - 1)
      BY <1>2, <1>3 DEF SlabOK
    <2>6. SlabOK(n) BY <1>6, <1>7, <1>10, <2>2, <2>3, <2>4, <2>5 DEF SlabOK
    <2>7. Live(n) = Live(s) \ {k} /\ Live(s) = DOMAIN s.keyMap BY <1>3, <1>6, <1>10 DEF Live
    <2>8. ASSUME NEW j \in Live(s) \ {k} PROVE Data(n, j) = Data(s, j)
      <3>1. keyMap[j] = s.keyMap[j] /\ keyMap[j] \in DOMAIN inner BY <2>1, <2>7, <1>3
      <3>2. QED BY <3>1, <1>2, <1>6, <1>10 DEF Data, RemapKey
    <2>9. QED BY <2>6, <2>7, <2>8 DEF n
  <1>11. CASE ~s.compactCalled
    <2>1. DOMAIN keyMap = {} BY <1>3, <1>11 DEF SlabOK
    <2>2. keyMap \in [DOMAIN keyMap -> DOMAIN inner] BY <1>4, <2>1
    <2>3. DOMAIN inner \subseteq 0..(MaxEntries - 1) BY <1>2 DEF SlabOK
    <2>4. SlabOK(n) BY <1>6, <1>7, <1>11, <2>1, <2>2, <2>3 DEF SlabOK
    <2>5. Live(n) = Live(s) \ {k} /\ Live(s) = DOMAIN s.inner
      BY <1>2, <1>6, <1>9, <1>11 DEF Live
    <2>6. \A j \in Live(s) \ {k} : Data(n, j) = Data(s, j)
      BY <2>5, <1>2, <1>6, <1>9, <1>11 DEF Data, RemapKey
    <2>7. QED BY <2>4, <2>5, <2>6 DEF n
  <1>12. QED BY <1>10, <1>11

-----------------------------------------------------------------------------
(* compact and clear of the slab.                                          *)

\* compact changes no key and no entry that a key leads to
\* (delay_queue.rs 244-274).
LEMMA SlabCompactOK ==
    ASSUME NEW s, SlabOK(s), MaxEntries \in Nat, NEW moved \in Remappings(s)
    PROVE  LET n == SlabCompact(s, moved) IN
           /\ SlabOK(n)
           /\ Live(n) = Live(s)
           /\ \A k \in Live(s) : Data(n, k) = Data(s, k)
  <1> DEFINE I == DOMAIN s.inner
             N == Cardinality(I)
             A == {i \in I : i >= N}
             B == 0..(N - 1) \ I
             back == AntiFunction(moved)
             kept == I \ DOMAIN moved
             T(i) == IF i \in DOMAIN moved THEN moved[i] ELSE i
             inner == [i \in kept \cup DOMAIN back |-> s.inner[IF i \in DOMAIN back THEN back[i] ELSE i]]
             keyMap == [k \in DOMAIN Recorded(s) |->
                           IF Recorded(s)[k] \in DOMAIN moved THEN moved[Recorded(s)[k]] ELSE Recorded(s)[k]]
             n == SlabCompact(s, moved)
  <1>1. N \in Nat /\ N <= MaxEntries BY KeysFinite
  <1>2. I \subseteq 0..(MaxEntries - 1) BY DEF SlabOK
  <1>3. moved \in Bijection(A, B) BY DEF Remappings
  <1> HIDE DEF N
  <1>4. /\ DOMAIN moved = A
        /\ \A a \in A : moved[a] \in B
        /\ \A a, b \in A : moved[a] = moved[b] => a = b
        /\ \A t \in B : \E a \in A : moved[a] = t
    BY <1>3 DEF Bijection, Injection, Surjection, IsInjective
  <1> HIDE DEF A, B
  <1>5. /\ DOMAIN back = B
        /\ \A t \in B : back[t] \in A /\ moved[back[t]] = t
        /\ \A a \in A : back[moved[a]] = a
    <2>1. Range(moved) = B BY <1>4 DEF Range
    <2>2. back = [t \in B |-> CHOOSE a \in A : t \in B => moved[a] = t]
      BY <2>1, <1>4 DEF AntiFunction, Inverse
    <2> HIDE DEF back
    <2>3. ASSUME NEW t \in B PROVE back[t] \in A /\ moved[back[t]] = t
      <3>1. \E a \in A : t \in B => moved[a] = t BY <1>4
      <3>2. back[t] = CHOOSE a \in A : t \in B => moved[a] = t BY <2>2
      <3>3. QED BY <3>1, <3>2
    <2>4. ASSUME NEW a \in A PROVE back[moved[a]] = a BY <2>3, <1>4
    <2>5. DOMAIN back = B BY <2>2
    <2>6. QED BY <2>3, <2>4, <2>5
  <1>6. n = [inner |-> inner, keyMap |-> keyMap, nextKey |-> s.nextKey, compactCalled |-> TRUE]
    <2>1. s = [inner |-> s.inner, keyMap |-> s.keyMap, nextKey |-> s.nextKey, compactCalled |-> s.compactCalled]
      BY DEF SlabOK
    <2>2. n = [s EXCEPT !.inner = inner, !.keyMap = keyMap, !.compactCalled = TRUE]
      BY DEF SlabCompact
    <2> HIDE DEF n, inner, keyMap
    <2>3. QED BY <2>1, <2>2
  <1>7. DOMAIN Recorded(s) = Live(s) /\ \A k \in Live(s) : Recorded(s)[k] = RemapKey(s, k)
    BY DEF Recorded, Live, RemapKey
  <1>8. DOMAIN keyMap = Live(s) /\ \A k \in Live(s) : keyMap[k] = T(RemapKey(s, k)) BY <1>7
  <1>9. keyMap = [k \in DOMAIN keyMap |-> keyMap[k]] OBVIOUS
  <1>10. /\ DOMAIN inner = (I \ A) \cup B
         /\ \A i \in B : inner[i] = s.inner[back[i]]
         /\ \A i \in I \ A : i \notin B /\ inner[i] = s.inner[i]
         /\ inner = [i \in DOMAIN inner |-> inner[i]]
    BY <1>4, <1>5 DEF B
  <1>11. A \subseteq I BY DEF A
  <1>12. /\ \A i \in I : T(i) \in DOMAIN inner /\ inner[T(i)] = s.inner[i]
         /\ \A i, j \in I : T(i) = T(j) => i = j
         /\ \A x \in DOMAIN inner : \E i \in I : T(i) = x
    <2> HIDE DEF inner, back
    <2>1. ASSUME NEW i \in I PROVE T(i) \in DOMAIN inner /\ inner[T(i)] = s.inner[i]
      <3>1. CASE i \in A BY <3>1, <1>4, <1>5, <1>10
      <3>2. CASE i \notin A BY <3>2, <1>4, <1>10
      <3>3. QED BY <3>1, <3>2
    <2>2. ASSUME NEW i \in I, NEW j \in I, T(i) = T(j) PROVE i = j
      <3>1. B \cap I = {} BY DEF B
      <3>2. CASE i \in A /\ j \in A BY <3>2, <2>2, <1>4
      <3>3. CASE ~(i \in A /\ j \in A) BY <3>3, <3>1, <2>2, <1>4
      <3>4. QED BY <3>2, <3>3
    <2>3. ASSUME NEW x \in DOMAIN inner PROVE \E i \in I : T(i) = x
      <3>1. CASE x \in B BY <3>1, <1>4, <1>11
      <3>2. CASE x \in I \ A BY <3>2, <1>4
      <3>3. QED BY <3>1, <3>2, <1>10
    <2>4. QED BY <2>1, <2>2, <2>3
  <1>13. inner \in [DOMAIN inner -> Entries]
    <2>1. \A i \in DOMAIN inner : inner[i] \in Entries BY <1>5, <1>10, <1>11 DEF SlabOK
    <2> HIDE DEF inner
    <2>2. QED BY <2>1, <1>10
  <1>14. DOMAIN inner \subseteq 0..(MaxEntries - 1) BY <1>1, <1>2, <1>10 DEF B
  <1> HIDE DEF n, inner, keyMap, T, I
  <1>15. /\ n.inner = inner /\ n.keyMap = keyMap /\ n.nextKey = s.nextKey /\ n.compactCalled = TRUE
         /\ n = [inner |-> n.inner, keyMap |-> n.keyMap, nextKey |-> n.nextKey, compactCalled |-> n.compactCalled]
    BY <1>6
  <1>16. /\ Live(s) \subseteq Nat
         /\ \A k \in Live(s) : RemapKey(s, k) \in I
         /\ \A j, k \in Live(s) : RemapKey(s, j) = RemapKey(s, k) => j = k
         /\ \A i \in I : \E k \in Live(s) : RemapKey(s, k) = i
    BY RemapFacts DEF I
  <1>17. keyMap \in [DOMAIN keyMap -> DOMAIN inner] BY <1>8, <1>9, <1>12, <1>16
  <1>18. ASSUME NEW j \in DOMAIN keyMap, NEW k \in DOMAIN keyMap, keyMap[j] = keyMap[k] PROVE j = k
    <2>1. T(RemapKey(s, j)) = T(RemapKey(s, k)) /\ RemapKey(s, j) \in I /\ RemapKey(s, k) \in I
      BY <1>8, <1>16, <1>18
    <2>2. RemapKey(s, j) = RemapKey(s, k) BY <2>1, <1>12
    <2>3. QED BY <2>2, <1>8, <1>16
  <1>19. ASSUME NEW x \in DOMAIN inner PROVE \E k \in DOMAIN keyMap : keyMap[k] = x
    <2>1. PICK i \in I : T(i) = x BY <1>12
    <2>2. PICK k \in Live(s) : RemapKey(s, k) = i BY <1>16
    <2>3. QED BY <2>1, <2>2, <1>8
  <1>20. DOMAIN keyMap \subseteq Nat /\ s.nextKey \in Nat BY <1>8, <1>16 DEF SlabOK
  <1>21. SlabOK(n) BY <1>13, <1>14, <1>15, <1>17, <1>18, <1>19, <1>20 DEF SlabOK
  <1>22. Live(n) = Live(s) BY <1>8, <1>15 DEF Live
  <1>23. ASSUME NEW k \in Live(s) PROVE Data(n, k) = Data(s, k)
    <2>1. Data(n, k) = inner[T(RemapKey(s, k))] BY <1>8, <1>15 DEF Data, RemapKey
    <2>2. RemapKey(s, k) \in I BY <1>16
    <2>3. Data(n, k) = s.inner[RemapKey(s, k)] BY <2>1, <2>2, <1>12
    <2>4. QED BY <2>3 DEF Data
  <1>24. QED BY <1>21, <1>22, <1>23 DEF n

\* A new slab is in order and empty.
LEMMA NewSlabOK ==
    /\ SlabOK(NewSlab)
    /\ Live(NewSlab) = {}
  <1> DEFINE n == NewSlab
  <1>1. PICK f : f = <<>> OBVIOUS
  <1>2. DOMAIN f = {} /\ f = [i \in DOMAIN f |-> f[i]] BY <1>1
  <1>3. n = [inner |-> f, keyMap |-> f, nextKey |-> 0, compactCalled |-> FALSE]
    BY <1>1 DEF NewSlab
  <1> HIDE DEF n
  <1>4. n.inner = f /\ n.keyMap = f /\ n.nextKey = 0 /\ n.compactCalled = FALSE
        /\ n = [inner |-> n.inner, keyMap |-> n.keyMap, nextKey |-> n.nextKey, compactCalled |-> n.compactCalled]
    BY <1>3
  <1>5. f \in [DOMAIN f -> Entries] /\ f \in [DOMAIN f -> DOMAIN f] BY <1>2
  <1>6. n.nextKey \in Nat /\ n.compactCalled \in BOOLEAN /\ ~n.compactCalled
    <2>1. n.nextKey \in Nat BY <1>4
    <2>2. n.compactCalled = FALSE BY <1>4
    <2>3. n.compactCalled \in BOOLEAN /\ ~n.compactCalled BY <2>2, Zenon
    <2>4. QED BY <2>1, <2>3
  <1>7. DOMAIN n.inner = {} /\ DOMAIN n.keyMap = {} BY <1>2, <1>4
  <1>8. n.inner \in [DOMAIN n.inner -> Entries] /\ n.keyMap \in [DOMAIN n.keyMap -> DOMAIN n.inner]
    BY <1>4, <1>5
  <1>9. SlabOK(n)
    <2>1. n = [inner |-> n.inner, keyMap |-> n.keyMap, nextKey |-> n.nextKey, compactCalled |-> n.compactCalled]
      BY <1>4
    <2>2. QED BY <2>1, <1>6, <1>7, <1>8 DEF SlabOK
  <1>10. Live(n) = {} BY <1>2, <1>4 DEF Live
  <1>11. QED BY <1>9, <1>10 DEF n

\* clear leaves the slab in order and empty (delay_queue.rs 303-307).
LEMMA SlabClearOK ==
    ASSUME NEW s, SlabOK(s)
    PROVE  SlabOK(SlabClear(s)) /\ Live(SlabClear(s)) = {}
  <1> DEFINE n == SlabClear(s)
  <1>1. PICK f : f = <<>> OBVIOUS
  <1>2. DOMAIN f = {} /\ f = [i \in DOMAIN f |-> f[i]] BY <1>1
  <1>3. n = [inner |-> f, keyMap |-> f, nextKey |-> s.nextKey, compactCalled |-> FALSE]
    <2>1. s = [inner |-> s.inner, keyMap |-> s.keyMap, nextKey |-> s.nextKey, compactCalled |-> s.compactCalled]
      BY DEF SlabOK
    <2>2. n = [s EXCEPT !.inner = f, !.keyMap = f, !.compactCalled = FALSE]
      BY <1>1 DEF SlabClear
    <2> HIDE DEF n
    <2>3. QED BY <2>1, <2>2
  <1> HIDE DEF n
  <1>4. n.inner = f /\ n.keyMap = f /\ n.nextKey = s.nextKey /\ n.compactCalled = FALSE
        /\ n = [inner |-> n.inner, keyMap |-> n.keyMap, nextKey |-> n.nextKey, compactCalled |-> n.compactCalled]
    BY <1>3
  <1>5. f \in [DOMAIN f -> Entries] /\ f \in [DOMAIN f -> DOMAIN f] BY <1>2
  <1>6. s.nextKey \in Nat BY DEF SlabOK
  <1>7. SlabOK(n) BY <1>2, <1>4, <1>5, <1>6 DEF SlabOK
  <1>8. Live(n) = {} BY <1>2, <1>4 DEF Live
  <1>9. QED BY <1>7, <1>8 DEF n

\* Each entry has one key.
LEMMA OneKeyPerEntry ==
    ASSUME NEW s, SlabOK(s), NEW i \in DOMAIN s.inner
    PROVE  Cardinality({k \in Live(s) : RemapKey(s, k) = i}) = 1
  <1>1. PICK k \in Live(s) : RemapKey(s, k) = i BY RemapFacts
  <1>2. {j \in Live(s) : RemapKey(s, j) = i} = {k} BY <1>1, RemapFacts
  <1>3. QED BY <1>2, FS_Singleton

-----------------------------------------------------------------------------
(* Wheel, slab and stack together.                                         *)

\* The keys in the wheel, those on the stack, and the deadlines, by slab s.
AheadOf(s)     == {k \in Live(s) : ~Data(s, k).expired}
Overdue(s)     == {k \in Live(s) : Data(s, k).expired}
DeadlinesOf(s) == [k \in Live(s) |-> Data(s, k).when]

\* The stack holds the keys S, whose deadlines are the elapsed time t.
StackOK(e, S, D, t) ==
    /\ e \in Seq(Nat)
    /\ IsInjective(e)
    /\ ToSet(e) = S
    /\ \A k \in S : D[k] = t

\* Wheel, slab and stack agree, between two polls.
Agree(w, s, e) ==
    /\ SlabOK(s)
    /\ Exact(w, AheadOf(s), DeadlinesOf(s))
    /\ StackOK(e, Overdue(s), DeadlinesOf(s), w.elapsed)

\* The keys ahead and the keys overdue, and their deadlines.
LEMMA SlabSets ==
    ASSUME NEW s, SlabOK(s)
    PROVE  /\ Live(s) \subseteq Nat
           /\ \A k \in Live(s) : DeadlinesOf(s)[k] = Data(s, k).when /\ Data(s, k).when \in Nat /\ DeadlinesOf(s)[k] \in Nat
           /\ Live(s) = AheadOf(s) \cup Overdue(s)
           /\ AheadOf(s) \cap Overdue(s) = {}
           /\ AheadOf(s) \subseteq Live(s)
           /\ Overdue(s) \subseteq Live(s)
           /\ AheadOf(s) \subseteq Nat
  BY RemapFacts, EntryFields DEF AheadOf, Overdue, DeadlinesOf

\* The wheel depends on the deadlines of its own keys only.
LEMMA ExactSame ==
    ASSUME NEW w, NEW K, NEW D, NEW E, Exact(w, K, D), \A k \in K : E[k] = D[k]
    PROVE  Exact(w, K, E)
  <1>1. Holds(w, K, E, w.elapsed) BY DEF Exact, Holds
  <1>2. ASSUME NEW l \in Levels, NEW s \in Slots, NEW k \in At(w, l, s) PROVE Home(w.elapsed, E[k], l)
    <2>1. k \in K BY DEF Exact, Holds
    <2>2. Home(w.elapsed, D[k], l) BY DEF Exact
    <2>3. E[k] = D[k] BY <2>1
    <2>4. QED BY <2>2, <2>3
  <1>3. QED BY <1>1, <1>2 DEF Exact

\* One entry gets a new deadline: what the sets of keys and the deadlines become.
LEMMA SlabPut ==
    ASSUME NEW s, SlabOK(s), NEW k \in Live(s), NEW when \in Nat, NEW b \in BOOLEAN
    PROVE  LET n == SetData(s, k, [when |-> when, expired |-> b]) IN
           /\ SlabOK(n)
           /\ Live(n) = Live(s)
           /\ DeadlinesOf(n)[k] = when
           /\ \A j \in Live(s) \ {k} : DeadlinesOf(n)[j] = DeadlinesOf(s)[j]
           /\ b  => AheadOf(n) = AheadOf(s) \ {k} /\ Overdue(n) = Overdue(s) \cup {k}
           /\ ~b => AheadOf(n) = AheadOf(s) \cup {k} /\ Overdue(n) = Overdue(s) \ {k}
  <1> DEFINE data == [when |-> when, expired |-> b]
             n == SetData(s, k, data)
  <1>1. data \in Entries /\ data.when = when /\ data.expired = b BY DEF Entries
  <1> HIDE DEF data
  <1>2. SlabOK(n) /\ Live(n) = Live(s) /\ Data(n, k) = data /\ \A j \in Live(s) \ {k} : Data(n, j) = Data(s, j)
    BY <1>1, SetDataOK
  <1> HIDE DEF n
  <1>3. DeadlinesOf(n)[k] = when /\ \A j \in Live(s) \ {k} : DeadlinesOf(n)[j] = DeadlinesOf(s)[j]
    BY <1>1, <1>2 DEF DeadlinesOf
  <1>4. ASSUME b PROVE AheadOf(n) = AheadOf(s) \ {k} /\ Overdue(n) = Overdue(s) \cup {k}
    <2>1. data.expired BY <1>1, <1>4, Zenon
    <2>2. QED BY <2>1, <1>2 DEF AheadOf, Overdue
  <1>5. ASSUME ~b PROVE AheadOf(n) = AheadOf(s) \cup {k} /\ Overdue(n) = Overdue(s) \ {k}
    <2>1. ~data.expired BY <1>1, <1>5, Zenon
    <2>2. QED BY <2>1, <1>2 DEF AheadOf, Overdue
  <1>6. QED BY <1>2, <1>3, <1>4, <1>5 DEF n, data

\* One entry leaves the slab: what the sets of keys and the deadlines become.
LEMMA SlabTake ==
    ASSUME NEW s, SlabOK(s), NEW k \in Live(s)
    PROVE  LET n == SlabRemove(s, k) IN
           /\ SlabOK(n)
           /\ Live(n) = Live(s) \ {k}
           /\ \A j \in Live(s) \ {k} : DeadlinesOf(n)[j] = DeadlinesOf(s)[j]
           /\ AheadOf(n) = AheadOf(s) \ {k}
           /\ Overdue(n) = Overdue(s) \ {k}
  <1> DEFINE n == SlabRemove(s, k)
  <1>1. SlabOK(n) /\ Live(n) = Live(s) \ {k} /\ \A j \in Live(s) \ {k} : Data(n, j) = Data(s, j)
    BY SlabRemoveOK
  <1> HIDE DEF n
  <1>2. \A j \in Live(s) \ {k} : DeadlinesOf(n)[j] = DeadlinesOf(s)[j] BY <1>1 DEF DeadlinesOf
  <1>3. AheadOf(n) = AheadOf(s) \ {k} /\ Overdue(n) = Overdue(s) \ {k}
    BY <1>1 DEF AheadOf, Overdue
  <1>4. QED BY <1>1, <1>2, <1>3 DEF n

\* One entry enters the slab: what the sets of keys and the deadlines become.
LEMMA SlabAdd ==
    ASSUME NEW s, SlabOK(s), MaxEntries \in Nat, NEW index \in Vacant(s), NEW when \in Nat
    PROVE  LET new == SlabInsert(s, index, [when |-> when, expired |-> FALSE])
               n == new.slab
           IN /\ SlabOK(n)
              /\ new.key \in Nat
              /\ new.key \notin Live(s)
              /\ Live(n) = Live(s) \cup {new.key}
              /\ \A j \in Live(s) : DeadlinesOf(n)[j] = DeadlinesOf(s)[j]
              /\ AheadOf(n) = AheadOf(s) \cup {new.key}
              /\ Overdue(n) = Overdue(s)
  <1> DEFINE data == [when |-> when, expired |-> FALSE]
             new == SlabInsert(s, index, data)
             n == new.slab
             key == new.key
  <1>1. data \in Entries /\ data.expired = FALSE BY DEF Entries
  <1> HIDE DEF data
  <1>2. /\ SlabOK(n) /\ key \in Nat /\ key \notin Live(s) /\ Live(n) = Live(s) \cup {key}
        /\ Data(n, key) = data /\ \A k \in Live(s) : Data(n, k) = Data(s, k)
    BY <1>1, SlabInsertOK
  <1> HIDE DEF new, n, key
  <1>3. \A j \in Live(s) : DeadlinesOf(n)[j] = DeadlinesOf(s)[j] BY <1>2 DEF DeadlinesOf
  <1>4. ~data.expired BY <1>1, Zenon
  <1>5. AheadOf(n) = AheadOf(s) \cup {key} /\ Overdue(n) = Overdue(s)
    BY <1>2, <1>4 DEF AheadOf, Overdue
  <1>6. QED BY <1>2, <1>3, <1>5 DEF n, key, new, data

\* insert_idx, of a key that neither the wheel nor the stack holds, puts it into
\* the one that it belongs to (delay_queue.rs 659-672).
LEMMA InsertIdxAgrees ==
    ASSUME NEW w, NEW s, NEW e, NEW k, NEW when \in Nat, SlabOK(s), k \in Live(s),
           Exact(w, AheadOf(s) \ {k}, DeadlinesOf(s)),
           StackOK(e, Overdue(s) \ {k}, DeadlinesOf(s), w.elapsed),
           w.elapsed <= when, Elapsed(w, when) \/ Valid(w, when)
    PROVE  LET v == IF Elapsed(w, when) THEN w ELSE WheelInsert(w, when, k)
               f == IF Elapsed(w, when) THEN Push(e, k) ELSE e
               n == SetData(s, k, [when |-> when, expired |-> Elapsed(w, when)])
           IN /\ Agree(v, n, f)
              /\ v.elapsed = w.elapsed
              /\ Live(n) = Live(s)
              /\ DeadlinesOf(n)[k] = when
              /\ \A j \in Live(s) \ {k} : DeadlinesOf(n)[j] = DeadlinesOf(s)[j]
              /\ AheadOf(n) \subseteq AheadOf(s) \cup {k}
              /\ Overdue(n) \subseteq Overdue(s) \cup {k}
  <1> DEFINE b == Elapsed(w, when)
             n == SetData(s, k, [when |-> when, expired |-> b])
             v == WheelInsert(w, when, k)
             D == DeadlinesOf(s)
             E == DeadlinesOf(n)
  <1>1. b \in BOOLEAN BY DEF Elapsed
  <1>2. /\ SlabOK(n)
        /\ Live(n) = Live(s)
        /\ E[k] = when
        /\ \A j \in Live(s) \ {k} : E[j] = D[j]
        /\ b  => AheadOf(n) = AheadOf(s) \ {k} /\ Overdue(n) = Overdue(s) \cup {k}
        /\ ~b => AheadOf(n) = AheadOf(s) \cup {k} /\ Overdue(n) = Overdue(s) \ {k}
    BY <1>1, SlabPut
  <1>3. AheadOf(s) \subseteq Live(s) /\ Overdue(s) \subseteq Live(s) /\ k \in Nat BY SlabSets
  <1>4. w.elapsed \in Nat BY DEF Exact, WheelOK, Wheels
  <1>5. AheadOf(n) \subseteq AheadOf(s) \cup {k} /\ Overdue(n) \subseteq Overdue(s) \cup {k}
    <2>1. CASE b BY <2>1, <1>2
    <2>2. CASE ~b BY <2>2, <1>2
    <2>3. QED BY <2>1, <2>2
  <1>6. ASSUME b PROVE Agree(w, n, Push(e, k))
    <2>1. when = w.elapsed BY <1>4, <1>6 DEF Elapsed
    <2> HIDE DEF b, n, E, D
    <2>2. AheadOf(n) = AheadOf(s) \ {k} /\ Overdue(n) = Overdue(s) \cup {k} BY <1>2, <1>6
    <2>3. \A j \in AheadOf(n) : E[j] = D[j] BY <1>2, <1>3, <2>2
    <2>4. Exact(w, AheadOf(n), E) BY <2>2, <2>3, ExactSame DEF D
    <2>5. e \in Seq(Nat) /\ IsInjective(e) /\ ToSet(e) = Overdue(s) \ {k} BY DEF StackOK
    <2>6. Push(e, k) \in Seq(Nat) /\ ToSet(Push(e, k)) = Overdue(n) /\ IsInjective(Push(e, k))
      <3>1. k \notin ToSet(e) BY <2>5
      <3>2. Push(e, k) \in Seq(Nat) /\ ToSet(Push(e, k)) = ToSet(e) \cup {k} /\ IsInjective(Push(e, k))
        BY <3>1, <2>5, <1>3, PushFacts
      <3>3. QED BY <3>2, <2>2, <2>5
    <2>7. \A j \in Overdue(n) : E[j] = w.elapsed BY <2>1, <2>2, <1>2, <1>3 DEF StackOK, D
    <2>8. QED BY <1>2, <2>4, <2>6, <2>7 DEF Agree, StackOK, E
  <1>7. ASSUME ~b PROVE Agree(v, n, e) /\ v.elapsed = w.elapsed
    <2> HIDE DEF n, E, D
    <2>1. Valid(w, when) /\ ~Elapsed(w, when) BY <1>7
    <2> HIDE DEF b
    <2>2. AheadOf(n) = (AheadOf(s) \ {k}) \cup {k} /\ Overdue(n) = Overdue(s) \ {k}
      BY <1>2, <1>7
    <2>3. \A j \in AheadOf(s) \ {k} : E[j] = D[j] BY <1>2, <1>3
    <2>4. k \notin AheadOf(s) \ {k} OBVIOUS
    <2>5. Exact(v, (AheadOf(s) \ {k}) \cup {k}, E) /\ v.elapsed = w.elapsed
      BY <1>2, <1>3, <2>1, <2>3, <2>4, InsertExact DEF D
    <2>6. \A j \in Overdue(n) : E[j] = w.elapsed BY <2>2, <1>2, <1>3 DEF StackOK, D
    <2>7. StackOK(e, Overdue(n), E, w.elapsed) BY <2>2, <2>6 DEF StackOK
    <2>8. QED BY <1>2, <2>2, <2>5, <2>7 DEF Agree, E
  <1>8. QED
    <2>1. CASE b BY <2>1, <1>2, <1>5, <1>6
    <2>2. CASE ~b BY <2>2, <1>2, <1>5, <1>7
    <2>3. QED BY <2>1, <2>2

-----------------------------------------------------------------------------
(* The delay, and the removal of an entry from its place.                  *)

\* What holds of a Sleep at time t: the host may answer it no later than its deadline,
\* and less than a millisecond before.
SleepOK(d, t) ==
    /\ d \in Sleeps
    /\ d.fireAt <= d.at * Unit
    /\ d.fired \/ d.at * Unit < d.fireAt + Unit
    /\ d.fired => d.at * Unit < t + Unit

\* A new Sleep: its rounding to milliseconds is no later than its deadline
\* (sleep.rs 199-217).
LEMMA SleepFacts ==
    ASSUME NEW at \in Nat, now \in Nat
    PROVE  /\ SleepOK(Sleep(at), now)
           /\ Sleep(at).at = at
           /\ Sleep(at) # None
  <1> DEFINE d == Sleep(at)
             x == at * Unit
             h == HostDelay(at)
  <1>1. x \in Nat /\ Unit \in Nat \ {0} BY DelayQueueAssumption
  <1>2. /\ d = [at |-> at, hooked |-> FALSE, fired |-> x < now, fireAt |-> IF x < now THEN 0 ELSE now + h]
        /\ d.at = at
        /\ d.hooked = FALSE
        /\ d.fired = (x < now)
        /\ d.fireAt = IF x < now THEN 0 ELSE now + h
    BY DEF Sleep
  <1>3. ~(x < now) => h \in Nat /\ h <= x - now /\ x - now < h + Unit
    <2>1. SUFFICES ASSUME ~(x < now) PROVE h \in Nat /\ h <= x - now /\ x - now < h + Unit
      OBVIOUS
    <2>2. PICK a \in Nat : a = x - now BY <2>1, <1>1
    <2>3. h = Unit * (a \div Unit) BY <2>2 DEF HostDelay
    <2>4. a \div Unit \in Nat /\ Unit * (a \div Unit) <= a /\ a < Unit * (a \div Unit) + Unit
      BY <1>1, DivBounds
    <2>5. Unit * (a \div Unit) \in Nat BY <2>4, <1>1
    <2> HIDE DEF h, x
    <2>6. QED BY <2>2, <2>3, <2>4, <2>5
  <1> HIDE DEF d, x, h
  <1>4. d.fireAt \in Nat /\ d.fireAt <= x BY <1>1, <1>2, <1>3
  <1>5. d.fired \in BOOLEAN /\ d.hooked \in BOOLEAN
    <2>1. (x < now) \in BOOLEAN OBVIOUS
    <2>2. d.fired = (x < now) BY <1>2, Zenon
    <2>3. d.fired \in BOOLEAN BY <2>1, <2>2, Zenon
    <2>4. d.hooked \in BOOLEAN BY <1>2, Zenon
    <2>5. QED BY <2>3, <2>4
  <1>6. d \in Sleeps
    <2>1. d = [at |-> d.at, hooked |-> d.hooked, fired |-> d.fired, fireAt |-> d.fireAt] BY <1>2
    <2>2. d.at \in Nat BY <1>2
    <2>3. QED BY <2>1, <2>2, <1>4, <1>5 DEF Sleeps
  <1>7. d.fired \/ x < d.fireAt + Unit
    <2>1. CASE x < now
      <3>1. d.fired BY <2>1, <1>2, Zenon
      <3>2. QED BY <3>1
    <2>2. CASE ~(x < now)
      <3>1. d.fireAt = now + h BY <2>2, <1>2
      <3>2. x < d.fireAt + Unit BY <3>1, <2>2, <1>1, <1>3
      <3>3. QED BY <3>2
    <2>3. QED BY <2>1, <2>2
  <1>8. d.fired => x < now + Unit
    <2>1. SUFFICES ASSUME d.fired PROVE x < now + Unit OBVIOUS
    <2>2. x < now BY <2>1, <1>2, Zenon
    <2>3. QED BY <2>2, <1>1
  <1>9. d # None BY <1>6, NoneAssumption
  <1>10. d.at * Unit = x BY <1>2 DEF x
  <1>11. SleepOK(d, now) BY <1>4, <1>6, <1>7, <1>8, <1>10 DEF SleepOK
  <1>12. QED BY <1>2, <1>9, <1>11 DEF d

\* normalize_deadline gives no time before that of the wheel, and keeps whole
\* milliseconds (delay_queue.rs 1051-1059).
LEMMA NormalizeFacts ==
    ASSUME wheel.elapsed \in Nat
    PROVE  /\ \A at \in Nat : NormalizeDeadline(at) \in Nat /\ wheel.elapsed <= NormalizeDeadline(at)
           /\ \A m \in Nat : NormalizeDeadline(m * Unit) = IF m >= wheel.elapsed THEN m ELSE wheel.elapsed
  <1>1. Unit \in Nat \ {0} BY DelayQueueAssumption
  <1>2. ASSUME NEW at \in Nat PROVE NormalizeDeadline(at) \in Nat /\ wheel.elapsed <= NormalizeDeadline(at)
    <2>1. PICK a \in Nat : a = at + Unit - 1 BY <1>1
    <2>2. PICK q \in Nat : q = a \div Unit BY <1>1, DivBounds
    <2>3. NormalizeDeadline(at) = IF q >= wheel.elapsed THEN q ELSE wheel.elapsed
      BY <2>1, <2>2 DEF NormalizeDeadline
    <2>4. QED BY <2>3
  <1>3. ASSUME NEW m \in Nat PROVE NormalizeDeadline(m * Unit) = IF m >= wheel.elapsed THEN m ELSE wheel.elapsed
    <2>1. PICK x \in Nat : x = m * Unit /\ x = Unit * m BY <1>1
    <2>2. PICK a \in Nat : a = x + Unit - 1 BY <1>1
    <2>3. Unit * m <= a /\ a < Unit * m + Unit BY <2>1, <2>2, <1>1
    <2>4. m \in Int OBVIOUS
    <2>5. a \div Unit = m BY <1>1, <2>3, <2>4, DivUnique
    <2>6. QED BY <2>1, <2>2, <2>5 DEF NormalizeDeadline
  <1>4. QED BY <1>2, <1>3

\* remove_key finds the key in the wheel or on the stack, and leaves the others
\* (delay_queue.rs 680-689).
LEMMA TakeAgrees ==
    ASSUME Agree(wheel, slab, expired), NEW k \in Live(slab)
    PROVE  /\ KeyRemovable(k)
           /\ Exact(WheelWithout(k), AheadOf(slab) \ {k}, DeadlinesOf(slab))
           /\ WheelWithout(k).elapsed = wheel.elapsed
           /\ StackOK(StackWithout(k), Overdue(slab) \ {k}, DeadlinesOf(slab), wheel.elapsed)
  <1> DEFINE D == DeadlinesOf(slab)
  <1>1. SlabOK(slab) /\ Exact(wheel, AheadOf(slab), D) /\ StackOK(expired, Overdue(slab), D, wheel.elapsed)
    BY DEF Agree
  <1>2. D[k] = Data(slab, k).when BY <1>1, SlabSets
  <1>3. expired \in Seq(Nat) /\ IsInjective(expired) /\ ToSet(expired) = Overdue(slab)
    BY <1>1 DEF StackOK
  <1> HIDE DEF D
  <1>4. CASE Data(slab, k).expired
    <2>1. WheelWithout(k) = wheel /\ StackWithout(k) = Unlink(expired, k) /\ (KeyRemovable(k) <=> Contains(expired, k))
      BY <1>4 DEF WheelWithout, StackWithout, KeyRemovable
    <2>2. k \in Overdue(slab) /\ AheadOf(slab) \ {k} = AheadOf(slab)
      BY <1>4 DEF Overdue, AheadOf
    <2>3. Contains(expired, k) BY <1>3, <2>2, EmptyFacts
    <2>4. /\ Unlink(expired, k) \in Seq(Nat)
          /\ ToSet(Unlink(expired, k)) = ToSet(expired) \ {k}
          /\ IsInjective(Unlink(expired, k))
      BY <1>3, <2>2, UnlinkFacts
    <2>5. StackOK(Unlink(expired, k), Overdue(slab) \ {k}, D, wheel.elapsed)
      BY <1>1, <1>3, <2>4 DEF StackOK
    <2>6. QED BY <1>1, <2>1, <2>2, <2>3, <2>5 DEF D
  <1>5. CASE ~Data(slab, k).expired
    <2>1. /\ WheelWithout(k) = WheelRemove(wheel, D[k], k)
          /\ StackWithout(k) = expired
          /\ KeyRemovable(k) <=> Removable(wheel, D[k], k)
      BY <1>2, <1>5 DEF WheelWithout, StackWithout, KeyRemovable
    <2>2. k \in AheadOf(slab) /\ Overdue(slab) \ {k} = Overdue(slab)
      BY <1>5 DEF Overdue, AheadOf
    <2>3. \A j \in AheadOf(slab) \ {k} : D[j] = D[j] OBVIOUS
    <2>4. /\ Removable(wheel, D[k], k)
          /\ Exact(WheelRemove(wheel, D[k], k), AheadOf(slab) \ {k}, D)
          /\ WheelRemove(wheel, D[k], k).elapsed = wheel.elapsed
      BY <1>1, <2>2, <2>3, RemoveExact
    <2>5. QED BY <1>1, <2>1, <2>2, <2>4 DEF D
  <1>6. QED BY <1>4, <1>5

\* remove_key and the removal from the slab leave wheel, slab and stack agreeing.
LEMMA RemoveAgrees ==
    ASSUME Agree(wheel, slab, expired), NEW k \in Live(slab)
    PROVE  Agree(WheelWithout(k), SlabRemove(slab, k), StackWithout(k))
  <1> DEFINE n == SlabRemove(slab, k)
             w == WheelWithout(k)
             e == StackWithout(k)
             D == DeadlinesOf(slab)
             E == DeadlinesOf(n)
  <1>1. SlabOK(slab) BY DEF Agree
  <1>2. /\ Exact(w, AheadOf(slab) \ {k}, D)
        /\ w.elapsed = wheel.elapsed
        /\ StackOK(e, Overdue(slab) \ {k}, D, wheel.elapsed)
    BY TakeAgrees
  <1>3. /\ SlabOK(n)
        /\ \A j \in Live(slab) \ {k} : E[j] = D[j]
        /\ AheadOf(n) = AheadOf(slab) \ {k}
        /\ Overdue(n) = Overdue(slab) \ {k}
    BY <1>1, SlabTake
  <1>4. AheadOf(slab) \subseteq Live(slab) /\ Overdue(slab) \subseteq Live(slab)
    BY <1>1, SlabSets
  <1> HIDE DEF n, w, e, D, E
  <1>5. \A j \in AheadOf(n) : E[j] = D[j] BY <1>3, <1>4
  <1>6. \A j \in Overdue(n) : E[j] = D[j] BY <1>3, <1>4
  <1>7. Exact(w, AheadOf(n), E) BY <1>2, <1>3, <1>5, ExactSame
  <1>8. StackOK(e, Overdue(n), E, w.elapsed) BY <1>2, <1>3, <1>6 DEF StackOK
  <1>9. QED BY <1>3, <1>7, <1>8 DEF Agree, n, w, e, E

\* The stack gives out its head (delay_queue.rs 1016-1023).
LEMMA HeadAgrees ==
    ASSUME Agree(wheel, slab, expired), expired # <<>>
    PROVE  /\ Head(expired) \in Overdue(slab)
           /\ Agree(wheel, SlabRemove(slab, Head(expired)), Pop(expired))
  <1> DEFINE k == Head(expired)
             n == SlabRemove(slab, k)
             e == Pop(expired)
             D == DeadlinesOf(slab)
             E == DeadlinesOf(n)
  <1>1. SlabOK(slab) /\ Exact(wheel, AheadOf(slab), D) /\ StackOK(expired, Overdue(slab), D, wheel.elapsed)
    BY DEF Agree
  <1>2. expired \in Seq(Nat) /\ IsInjective(expired) /\ ToSet(expired) = Overdue(slab)
    BY <1>1 DEF StackOK
  <1>3. k \in Overdue(slab) /\ e \in Seq(Nat) /\ IsInjective(e) /\ ToSet(e) = Overdue(slab) \ {k}
    BY <1>2, PopFacts
  <1>4. AheadOf(slab) \subseteq Live(slab) /\ Overdue(slab) \subseteq Live(slab) /\ AheadOf(slab) \cap Overdue(slab) = {}
    BY <1>1, SlabSets
  <1> HIDE DEF k
  <1>5. k \in Live(slab) BY <1>3, <1>4
  <1>6. /\ SlabOK(n)
        /\ \A j \in Live(slab) \ {k} : E[j] = D[j]
        /\ AheadOf(n) = AheadOf(slab) \ {k}
        /\ Overdue(n) = Overdue(slab) \ {k}
    BY <1>1, <1>5, SlabTake
  <1> HIDE DEF n, e, D, E
  <1>7. AheadOf(n) = AheadOf(slab) BY <1>3, <1>4, <1>6
  <1>8. \A j \in AheadOf(n) : E[j] = D[j] BY <1>4, <1>6
  <1>9. \A j \in Overdue(n) : E[j] = D[j] BY <1>4, <1>6
  <1>10. Exact(wheel, AheadOf(n), E) BY <1>1, <1>7, <1>8, ExactSame
  <1>11. StackOK(e, Overdue(n), E, wheel.elapsed) BY <1>1, <1>3, <1>6, <1>9 DEF StackOK
  <1>12. QED BY <1>3, <1>6, <1>10, <1>11 DEF Agree, n, e, E, k

-----------------------------------------------------------------------------
(* The inductive invariant, and the steps of the host and the clock.       *)

\* Types, and that no assertion has failed.
PlainInv ==
    /\ now \in 0..MaxNow
    /\ wheelNow \in Nat
    /\ delay \in Sleeps \cup {None}
    /\ waker \in BOOLEAN
    /\ pc \in {"idle", "parked", "delay", "wheel", "cascade", "panicked"}
    /\ expiration \in Expirations \cup {None}
    /\ returned \in Nat \cup {None}

\* Where the entries are, at each stage of a poll.
WheelInv ==
    /\ SlabOK(slab)
    /\ pc = "wheel" => Settling(wheel, AheadOf(slab), DeadlinesOf(slab))
    /\ pc = "cascade" => expiration \in Expirations /\ Cascading(wheel, AheadOf(slab), DeadlinesOf(slab), expiration)
    /\ pc \notin {"wheel", "cascade"} => Exact(wheel, AheadOf(slab), DeadlinesOf(slab))

\* The stack is exact throughout, and empty once the delay is looked at.
StackInv ==
    /\ StackOK(expired, Overdue(slab), DeadlinesOf(slab), wheel.elapsed)
    /\ pc \in {"delay", "wheel", "cascade"} => expired = <<>>

\* The wheel is behind wheelNow, which is behind the clock.
ClockInv ==
    /\ wheel.elapsed <= wheelNow
    /\ pc = "cascade" => expiration.deadline <= wheelNow
    /\ wheelNow * Unit < now + Unit

\* The delay is not behind the wheel.
DelayInv ==
    /\ delay # None => SleepOK(delay, now)
    /\ delay # None /\ pc \in {"idle", "parked", "delay"} => wheel.elapsed <= delay.at

\* A parked task has a waker and waits for a delay, which covers the stack.
ParkInv ==
    /\ pc \in {"delay", "wheel", "cascade", "parked"} => waker
    /\ pc = "parked" => /\ delay # None
                        /\ delay.hooked
                        /\ \A k \in Overdue(slab) : delay.at <= DeadlinesOf(slab)[k]

\* The inductive invariant.
IInv == PlainInv /\ WheelInv /\ StackInv /\ ClockInv /\ DelayInv /\ ParkInv

\* What the proofs of the steps need of the invariant.
LEMMA InvFacts ==
    ASSUME IInv
    PROVE  /\ WheelOK(wheel)
           /\ wheel.elapsed \in Nat
           /\ now \in Nat /\ Unit \in Nat \ {0} /\ MaxEntries \in Nat
           /\ pc \notin {"wheel", "cascade"} => Agree(wheel, slab, expired)
  <1>1. WheelOK(wheel) BY DEF IInv, WheelInv, Settling, Cascading, Exact
  <1>2. wheel.elapsed \in Nat BY <1>1 DEF WheelOK, Wheels
  <1>3. now \in Nat /\ Unit \in Nat \ {0} /\ MaxEntries \in Nat
    BY DelayQueueAssumption DEF IInv, PlainInv
  <1>4. pc \notin {"wheel", "cascade"} => Agree(wheel, slab, expired)
    BY DEF IInv, WheelInv, StackInv, Agree
  <1>5. QED BY <1>1, <1>2, <1>3, <1>4

\* The invariant holds of a new queue.
LEMMA InitStep ==
    ASSUME Init
    PROVE  IInv
  <1>1. PICK s : s = slab /\ SlabOK(s) /\ Live(s) = {} BY NewSlabOK DEF Init
  <1>2. AheadOf(s) = {} /\ Overdue(s) = {} BY <1>1 DEF AheadOf, Overdue
  <1>3. PICK w : w = wheel /\ w = NewWheel BY DEF Init
  <1>4. w.elapsed = 0 BY <1>3, NewWheelOK
  <1>5. Exact(w, {}, DeadlinesOf(s)) BY <1>3, NewExact
  <1>6. PlainInv
    <2>1. now \in 0..MaxNow /\ wheelNow \in Nat BY DelayQueueAssumption DEF Init
    <2>2. waker \in BOOLEAN BY Zenon DEF Init
    <2>3. delay \in Sleeps \cup {None} /\ expiration \in Expirations \cup {None} /\ returned \in Nat \cup {None}
      BY DEF Init
    <2>4. QED BY <2>1, <2>2, <2>3 DEF PlainInv, Init
  <1>7. WheelInv BY <1>1, <1>2, <1>3, <1>5 DEF WheelInv, Init
  <1>8. StackInv
    <2>1. <<>> \in Seq(Nat) OBVIOUS
    <2>2. PICK e \in Seq(Nat) : e = <<>> BY <2>1
    <2>3. ToSet(e) = {} /\ IsInjective(e) BY <2>2, EmptyFacts
    <2>4. expired = e BY <2>2 DEF Init
    <2>5. QED BY <1>1, <1>2, <2>3, <2>4 DEF StackInv, StackOK, Init
  <1>9. ClockInv BY <1>3, <1>4, DelayQueueAssumption DEF ClockInv, Init
  <1>10. DelayInv BY DEF DelayInv, Init
  <1>11. ParkInv BY DEF ParkInv, Init
  <1>12. QED BY <1>6, <1>7, <1>8, <1>9, <1>10, <1>11 DEF IInv

\* What holds of a Sleep at a time holds of it later.
LEMMA SleepLater ==
    ASSUME NEW d, NEW t \in Nat, NEW u \in Nat, SleepOK(d, t), t <= u
    PROVE  SleepOK(d, u)
  <1>1. d.at \in Nat /\ d.fireAt \in Nat BY DEF SleepOK, Sleeps
  <1>2. PICK x \in Nat : x = d.at * Unit BY <1>1, DelayQueueAssumption
  <1>3. d.fired => x < u + Unit
    <2>1. SUFFICES ASSUME d.fired PROVE x < u + Unit OBVIOUS
    <2>2. x < t + Unit BY <2>1, <1>2 DEF SleepOK
    <2>3. QED BY <2>2, DelayQueueAssumption
  <1>4. QED BY <1>2, <1>3 DEF SleepOK

\* The clock keeps the invariant.
LEMMA TickStep ==
    ASSUME IInv, Tick
    PROVE  IInv'
  <1>1. now' = now + 1 /\ now < MaxNow /\ now \in 0..MaxNow /\ MaxNow \in Nat /\ Unit \in Nat
    BY DelayQueueAssumption DEF Tick, IInv, PlainInv
  <1>2. PlainInv' BY <1>1 DEF Tick, IInv, PlainInv
  <1>3. WheelInv' BY DEF Tick, IInv, WheelInv
  <1>4. StackInv' BY DEF Tick, IInv, StackInv
  <1>5. ClockInv'
    <2>1. PICK x \in Nat : x = wheelNow * Unit BY <1>1 DEF IInv, PlainInv
    <2>2. x < now' + Unit BY <1>1, <2>1 DEF IInv, ClockInv
    <2>3. wheelNow' * Unit < now' + Unit BY <2>1, <2>2 DEF Tick
    <2>4. QED BY <2>3 DEF Tick, IInv, ClockInv
  <1>6. DelayInv'
    <2>1. ASSUME delay # None PROVE SleepOK(delay, now + 1)
      <3>1. SleepOK(delay, now) BY <2>1 DEF IInv, DelayInv
      <3>2. now \in Nat /\ now + 1 \in Nat /\ now <= now + 1 BY <1>1
      <3>3. PICK t \in Nat, u \in Nat : t = now /\ u = now + 1 /\ t <= u BY <3>2
      <3>4. QED BY <3>1, <3>3, SleepLater
    <2>2. QED BY <2>1, <1>1 DEF Tick, IInv, DelayInv
  <1>7. ParkInv' BY DEF Tick, IInv, ParkInv
  <1>8. QED BY <1>2, <1>3, <1>4, <1>5, <1>6, <1>7 DEF IInv

\* The answer of the host keeps the invariant.
LEMMA HostStep ==
    ASSUME IInv, HostAnswers
    PROVE  IInv'
  <1>1. /\ pc \in {"idle", "parked"} /\ delay # None /\ ~delay.fired /\ now >= delay.fireAt
        /\ delay' = [delay EXCEPT !.fired = TRUE]
        /\ pc' = (IF delay.hooked THEN "idle" ELSE pc)
        /\ UNCHANGED <<now, wheel, slab, expired, wheelNow, waker, expiration, returned>>
    BY DEF HostAnswers
  <1>2. PICK d : d = delay' OBVIOUS
  <1>3. SleepOK(delay, now) /\ delay \in Sleeps BY <1>1 DEF IInv, DelayInv, SleepOK
  <1>4. d \in Sleeps /\ d.at = delay.at /\ d.fireAt = delay.fireAt /\ d.hooked = delay.hooked
    BY <1>1, <1>2, <1>3 DEF Sleeps
  <1>5. SleepOK(d, now)
    <2>1. delay.at \in Nat /\ delay.fireAt \in Nat /\ now \in Nat /\ Unit \in Nat \ {0}
      BY <1>3, InvFacts DEF Sleeps
    <2>2. PICK x \in Nat : x = delay.at * Unit BY <2>1
    <2>3. x < delay.fireAt + Unit BY <1>1, <1>3, <2>2 DEF SleepOK
    <2>4. delay.fireAt <= now BY <1>1, <2>1
    <2>5. x < now + Unit BY <2>1, <2>3, <2>4
    <2>6. d.fired BY <1>1, <1>2, <1>3 DEF Sleeps
    <2>7. d.fireAt <= d.at * Unit BY <1>3, <1>4 DEF SleepOK
    <2>8. d.at * Unit < now + Unit BY <2>2, <2>5, <1>4
    <2>9. QED BY <1>4, <2>6, <2>7, <2>8 DEF SleepOK
  <1>6. pc' \in {"idle", "parked"} /\ (pc' = "parked" => pc = "parked") BY <1>1
  <1>7. PlainInv' BY <1>1, <1>2, <1>4, <1>6 DEF IInv, PlainInv
  <1>8. WheelInv'
    <2>1. Exact(wheel, AheadOf(slab), DeadlinesOf(slab)) /\ SlabOK(slab)
      BY <1>1 DEF IInv, WheelInv
    <2>2. QED BY <1>1, <1>6, <2>1 DEF WheelInv
  <1>9. StackInv' BY <1>1, <1>6 DEF IInv, StackInv
  <1>10. ClockInv' BY <1>1, <1>6 DEF IInv, ClockInv
  <1>11. DelayInv'
    <2>1. wheel.elapsed <= delay.at BY <1>1 DEF IInv, DelayInv
    <2>2. QED BY <1>1, <1>2, <1>4, <1>5, <2>1 DEF DelayInv
  <1>12. ParkInv'
    <2>1. d # None BY <1>4, NoneAssumption
    <2>2. QED BY <1>1, <1>2, <1>4, <1>6, <2>1 DEF IInv, ParkInv
  <1>13. QED BY <1>7, <1>8, <1>9, <1>10, <1>11, <1>12 DEF IInv

\* A wakeup of the task for another reason keeps the invariant.
LEMMA WokenStep ==
    ASSUME IInv, WokenOtherwise
    PROVE  IInv'
  <1> USE DEF WokenOtherwise, IInv
  <1>1. PlainInv' BY DEF PlainInv
  <1>2. WheelInv' BY DEF WheelInv
  <1>3. StackInv' BY DEF StackInv
  <1>4. ClockInv' BY DEF ClockInv
  <1>5. DelayInv' BY DEF DelayInv
  <1>6. ParkInv' BY DEF ParkInv
  <1>7. QED BY <1>1, <1>2, <1>3, <1>4, <1>5, <1>6

-----------------------------------------------------------------------------
(* clear, compact and remove.                                              *)

\* The delay that is set for the next deadline of the wheel exists if the wheel
\* holds something, and covers what it holds (delay_queue.rs 838-842).
LEMMA DelayForWheel ==
    ASSUME NEW w, NEW K, NEW D, Settling(w, K, D), now \in Nat
    PROVE  LET d == SleepUntil(PollAt(w)) IN
           /\ d = None <=> K = {}
           /\ d \in Sleeps \cup {None}
           /\ d # None => SleepOK(d, now) /\ w.elapsed <= d.at /\ d.at = PollAt(w) /\ \A k \in K : d.at <= D[k]
           /\ PollAt(w) = None <=> K = {}
  <1> DEFINE at == PollAt(w)
  <1>1. IF K = {} THEN at = None
        ELSE at \in Nat /\ w.elapsed <= at /\ \A k \in K : at <= D[k]
    BY PollAtFacts
  <1> HIDE DEF at
  <1>2. CASE K = {} BY <1>1, <1>2 DEF SleepUntil, at
  <1>3. CASE K # {}
    <2>1. at \in Nat /\ at # None BY <1>1, <1>3, NoneAssumption
    <2>2. SleepUntil(at) = Sleep(at) BY <2>1 DEF SleepUntil
    <2>3. PICK m \in Nat : m = at BY <2>1
    <2>4. SleepOK(Sleep(m), now) /\ Sleep(m).at = m /\ Sleep(m) # None BY SleepFacts
    <2>5. SleepOK(Sleep(at), now) /\ Sleep(at).at = at /\ Sleep(at) # None BY <2>3, <2>4
    <2>6. Sleep(at) \in Sleeps BY <2>5 DEF SleepOK
    <2>7. QED BY <1>1, <1>3, <2>1, <2>2, <2>5, <2>6 DEF at
  <1>4. QED BY <1>2, <1>3

\* A panic of insert_idx keeps the invariant (delay_queue.rs 670).
LEMMA PanicStep ==
    ASSUME IInv, pc \in {"idle", "parked"}, Panic
    PROVE  IInv'
  <1> USE DEF Panic, Stop, IInv
  <1>1. PlainInv' BY DEF PlainInv
  <1>2. WheelInv' BY DEF WheelInv
  <1>3. StackInv' BY DEF StackInv
  <1>4. ClockInv' BY DEF ClockInv
  <1>5. DelayInv' BY DEF DelayInv
  <1>6. ParkInv' BY DEF ParkInv
  <1>7. QED BY <1>1, <1>2, <1>3, <1>4, <1>5, <1>6

\* clear keeps the invariant, with the times of the wheel (delay_queue.rs 910-915).
LEMMA ClearStep ==
    ASSUME IInv, Clear
    PROVE  IInv'
  <1>1. PICK s : s = slab' /\ SlabOK(s) /\ Live(s) = {}
    <2>1. SlabOK(slab) BY DEF IInv, WheelInv
    <2>2. slab' = SlabClear(slab) BY DEF Clear
    <2>3. SlabOK(SlabClear(slab)) /\ Live(SlabClear(slab)) = {} BY <2>1, SlabClearOK
    <2>4. QED BY <2>2, <2>3
  <1>2. AheadOf(s) = {} /\ Overdue(s) = {} BY <1>1 DEF AheadOf, Overdue
  <1>3. PICK w : w = wheel' /\ w = NewWheel BY DEF Clear
  <1>4. w.elapsed = 0 BY <1>3, NewWheelOK
  <1>5. Exact(w, {}, DeadlinesOf(s)) BY <1>3, NewExact
  <1>6. PlainInv' BY DEF PlainInv, IInv, Clear
  <1>7. WheelInv' BY <1>1, <1>2, <1>3, <1>5 DEF WheelInv, Clear
  <1>8. StackInv'
    <2>1. <<>> \in Seq(Nat) OBVIOUS
    <2>2. PICK e \in Seq(Nat) : e = <<>> BY <2>1
    <2>3. ToSet(e) = {} /\ IsInjective(e) BY <2>2, EmptyFacts
    <2>4. expired' = e BY <2>2 DEF Clear
    <2>5. StackOK(e, Overdue(s), DeadlinesOf(s), w.elapsed) BY <1>2, <2>3 DEF StackOK
    <2>6. pc' = "idle" BY DEF Clear
    <2>7. QED BY <1>1, <1>3, <2>4, <2>5, <2>6 DEF StackInv
  <1>9. ClockInv'
    <2>1. wheelNow \in Nat BY DEF IInv, PlainInv
    <2>2. wheelNow * Unit < now + Unit BY DEF IInv, ClockInv
    <2>3. QED BY <1>3, <1>4, <2>1, <2>2 DEF ClockInv, Clear
  <1>10. DelayInv' BY DEF DelayInv, Clear
  <1>11. ParkInv' BY DEF ParkInv, Clear
  <1>12. QED BY <1>6, <1>7, <1>8, <1>9, <1>10, <1>11 DEF IInv

\* compact moves entries, and changes no key and no deadline.
LEMMA CompactSame ==
    ASSUME SlabOK(slab), NEW moved \in Remappings(slab), MaxEntries \in Nat
    PROVE  LET n == SlabCompact(slab, moved) IN
           /\ SlabOK(n)
           /\ Live(n) = Live(slab)
           /\ AheadOf(n) = AheadOf(slab)
           /\ Overdue(n) = Overdue(slab)
           /\ DeadlinesOf(n) = DeadlinesOf(slab)
  <1> DEFINE n == SlabCompact(slab, moved)
  <1>1. SlabOK(n) /\ Live(n) = Live(slab) /\ \A k \in Live(slab) : Data(n, k) = Data(slab, k)
    BY SlabCompactOK
  <1> HIDE DEF n
  <1>2. AheadOf(n) = AheadOf(slab) /\ Overdue(n) = Overdue(slab) BY <1>1 DEF AheadOf, Overdue
  <1>3. DeadlinesOf(n) = DeadlinesOf(slab) BY <1>1 DEF DeadlinesOf
  <1>4. QED BY <1>1, <1>2, <1>3 DEF n

\* compact keeps the invariant (delay_queue.rs 833-835).
LEMMA CompactStep ==
    ASSUME IInv, NEW moved, Compact(moved)
    PROVE  IInv'
  <1>1. PICK s : /\ s = slab'
                 /\ SlabOK(s)
                 /\ AheadOf(s) = AheadOf(slab)
                 /\ Overdue(s) = Overdue(slab)
                 /\ DeadlinesOf(s) = DeadlinesOf(slab)
    <2>1. SlabOK(slab) /\ MaxEntries \in Nat BY InvFacts DEF IInv, WheelInv
    <2>2. moved \in Remappings(slab) /\ slab' = SlabCompact(slab, moved) BY DEF Compact
    <2>3. QED BY <2>1, <2>2, CompactSame
  <1>2. PlainInv' BY DEF PlainInv, IInv, Compact
  <1>3. WheelInv' BY <1>1 DEF WheelInv, IInv, Compact
  <1>4. StackInv' BY <1>1 DEF StackInv, IInv, Compact
  <1>5. ClockInv' BY DEF ClockInv, IInv, Compact
  <1>6. DelayInv' BY DEF DelayInv, IInv, Compact
  <1>7. ParkInv' BY DEF ParkInv, IInv, Compact
  <1>8. QED BY <1>2, <1>3, <1>4, <1>5, <1>6, <1>7 DEF IInv

\* remove keeps the invariant (delay_queue.rs 719-739).
LEMMA RemoveStep ==
    ASSUME IInv, NEW k \in Live(slab), QueueRemove(k)
    PROVE  IInv'
  <1>1. /\ pc = "idle"
        /\ wheel' = WheelWithout(k)
        /\ expired' = StackWithout(k)
        /\ slab' = SlabRemove(slab, k)
        /\ delay' = IF PollAt(wheel') = PollAt(wheel) THEN delay ELSE SleepUntil(PollAt(wheel'))
        /\ pc' = IF KeyRemovable(k) THEN "idle" ELSE "asserted"
        /\ returned' = None
        /\ UNCHANGED <<now, wheelNow, waker, expiration>>
    BY DEF QueueRemove
  <1>2. Agree(wheel, slab, expired) /\ now \in Nat BY <1>1, InvFacts
  <1>3. KeyRemovable(k) /\ WheelWithout(k).elapsed = wheel.elapsed BY <1>2, TakeAgrees
  <1>4. PICK w, s, e : w = wheel' /\ s = slab' /\ e = expired' OBVIOUS
  <1>5. Agree(w, s, e) BY <1>1, <1>2, <1>4, RemoveAgrees
  <1>6. w.elapsed = wheel.elapsed BY <1>1, <1>3, <1>4
  <1>7. pc' = "idle" BY <1>1, <1>3
  <1>8. PICK d : d = SleepUntil(PollAt(w)) /\ d \in Sleeps \cup {None} /\ (d # None => SleepOK(d, now) /\ w.elapsed <= d.at)
    <2>1. Settling(w, AheadOf(s), DeadlinesOf(s)) BY <1>5, ExactSettling DEF Agree
    <2>2. QED BY <2>1, <1>2, DelayForWheel
  <1>9. delay' = delay \/ delay' = d BY <1>1, <1>4, <1>8
  <1>10. PlainInv' BY <1>1, <1>7, <1>8, <1>9 DEF PlainInv, IInv
  <1>11. WheelInv' BY <1>4, <1>5, <1>7 DEF WheelInv, Agree
  <1>12. StackInv' BY <1>4, <1>5, <1>7 DEF StackInv, Agree
  <1>13. ClockInv' BY <1>1, <1>4, <1>6, <1>7 DEF ClockInv, IInv
  <1>14. DelayInv' BY <1>1, <1>4, <1>6, <1>7, <1>8, <1>9 DEF DelayInv, IInv
  <1>15. ParkInv' BY <1>7 DEF ParkInv
  <1>16. QED BY <1>10, <1>11, <1>12, <1>13, <1>14, <1>15 DEF IInv

-----------------------------------------------------------------------------
(* reset_at and insert_at.                                                 *)

\* What insert_idx of key k makes of wheel w and slab s.
Inserted(w, s, k, when, v, n, f) ==
    /\ Agree(v, n, f)
    /\ v.elapsed = w.elapsed
    /\ Live(n) = Live(s)
    /\ DeadlinesOf(n)[k] = when
    /\ \A j \in Live(s) \ {k} : DeadlinesOf(n)[j] = DeadlinesOf(s)[j]
    /\ AheadOf(n) \subseteq AheadOf(s) \cup {k}
    /\ Overdue(n) \subseteq Overdue(s) \cup {k}

\* InsertIdxAgrees, of given results.
LEMMA InsertedFrom ==
    ASSUME NEW w, NEW s, NEW e, NEW k, NEW when \in Nat, SlabOK(s), k \in Live(s),
           Exact(w, AheadOf(s) \ {k}, DeadlinesOf(s)),
           StackOK(e, Overdue(s) \ {k}, DeadlinesOf(s), w.elapsed),
           w.elapsed <= when, Elapsed(w, when) \/ Valid(w, when),
           NEW v, NEW f, NEW n,
           v = (IF Elapsed(w, when) THEN w ELSE WheelInsert(w, when, k)),
           f = (IF Elapsed(w, when) THEN Push(e, k) ELSE e),
           n = SetData(s, k, [when |-> when, expired |-> Elapsed(w, when)])
    PROVE  Inserted(w, s, k, when, v, n, f)
  <1> DEFINE v0 == IF Elapsed(w, when) THEN w ELSE WheelInsert(w, when, k)
             f0 == IF Elapsed(w, when) THEN Push(e, k) ELSE e
             n0 == SetData(s, k, [when |-> when, expired |-> Elapsed(w, when)])
  <1>1. /\ Agree(v0, n0, f0)
        /\ v0.elapsed = w.elapsed
        /\ Live(n0) = Live(s)
        /\ DeadlinesOf(n0)[k] = when
        /\ \A j \in Live(s) \ {k} : DeadlinesOf(n0)[j] = DeadlinesOf(s)[j]
        /\ AheadOf(n0) \subseteq AheadOf(s) \cup {k}
        /\ Overdue(n0) \subseteq Overdue(s) \cup {k}
    BY InsertIdxAgrees, Zenon
  <1>2. v = v0 /\ f = f0 /\ n = n0 OBVIOUS
  <1> HIDE DEF v0, f0, n0
  <1>3. QED BY <1>1, <1>2 DEF Inserted

\* should_set_delay says no: the delay is no later than the deadline
\* (delay_queue.rs 554-560).
LEMMA NotShould ==
    ASSUME IInv, NEW when \in Nat, wheel.elapsed <= when, delay # None, ~ShouldSetDelay(when)
    PROVE  delay.at <= when
  <1>1. delay.at \in Nat BY DEF IInv, PlainInv, Sleeps
  <1>2. ~(NormalizeDeadline(delay.at * Unit) > when) BY DEF ShouldSetDelay
  <1>3. PICK m \in Nat : m = delay.at BY <1>1
  <1>4. wheel.elapsed \in Nat BY InvFacts
  <1>5. NormalizeDeadline(m * Unit) = IF m >= wheel.elapsed THEN m ELSE wheel.elapsed
    BY <1>4, NormalizeFacts
  <1>6. ~((IF m >= wheel.elapsed THEN m ELSE wheel.elapsed) > when) BY <1>2, <1>3, <1>5
  <1>7. QED BY <1>3, <1>4, <1>6

\* should_set_delay says yes: the deadline is no later than the delay
\* (delay_queue.rs 554-560).
LEMMA Should ==
    ASSUME IInv, NEW when \in Nat, pc \in {"idle", "parked"}, delay # None, ShouldSetDelay(when)
    PROVE  when <= delay.at
  <1>1. delay.at \in Nat /\ wheel.elapsed <= delay.at BY DEF IInv, PlainInv, DelayInv, Sleeps
  <1>2. NormalizeDeadline(delay.at * Unit) > when BY DEF ShouldSetDelay
  <1>3. PICK m \in Nat : m = delay.at BY <1>1
  <1>4. wheel.elapsed \in Nat BY InvFacts
  <1>5. NormalizeDeadline(m * Unit) = IF m >= wheel.elapsed THEN m ELSE wheel.elapsed
    BY <1>4, NormalizeFacts
  <1>6. NormalizeDeadline(m * Unit) = m BY <1>1, <1>3, <1>5
  <1>7. QED BY <1>2, <1>3, <1>6

\* reset_at finds the key it removes first, so it fails by a panic at most
\* (delay_queue.rs 775-779).
LEMMA ResetFinds ==
    ASSUME IInv, NEW k \in Live(slab), NEW at \in Nat, QueueResetAt(k, at)
    PROVE  /\ KeyRemovable(k)
           /\ pc = "idle"
           /\ Rejected(NormalizeDeadline(at)) => Panic
  <1>1. pc = "idle" BY DEF QueueResetAt
  <1>2. KeyRemovable(k) BY <1>1, InvFacts, TakeAgrees
  <1>3. Rejected(NormalizeDeadline(at)) => Panic BY <1>2 DEF QueueResetAt
  <1>4. QED BY <1>1, <1>2, <1>3

\* reset_at takes the entry out of its place and puts it into its new one
\* (delay_queue.rs 775-791).
LEMMA ResetAgrees ==
    ASSUME IInv, NEW k \in Live(slab), NEW at \in Nat, QueueResetAt(k, at), ~Rejected(NormalizeDeadline(at))
    PROVE  /\ Agree(wheel', slab', expired')
           /\ wheel'.elapsed = wheel.elapsed
           /\ Live(slab') = Live(slab)
           /\ DeadlinesOf(slab')[k] = NormalizeDeadline(at)
           /\ \A j \in Live(slab) \ {k} : DeadlinesOf(slab')[j] = DeadlinesOf(slab)[j]
           /\ pc = "idle" /\ pc' = "idle"
           /\ delay' = ResetDelay(PollAt(wheel'))
           /\ returned' = None
           /\ UNCHANGED <<now, wheelNow, waker, expiration>>
  <1> DEFINE when == NormalizeDeadline(at)
  <1>1. pc = "idle" BY DEF QueueResetAt
  <1>2. Agree(wheel, slab, expired) /\ wheel.elapsed \in Nat BY <1>1, InvFacts
  <1>3. when \in Nat /\ wheel.elapsed <= when BY <1>2, NormalizeFacts
  <1>4. /\ InsertIdx(WheelWithout(k), slab, StackWithout(k), k, when)
        /\ delay' = ResetDelay(PollAt(wheel'))
        /\ returned' = None
        /\ UNCHANGED <<now, wheelNow, waker, pc, expiration>>
    BY ResetFinds DEF QueueResetAt
  <1>5. PICK w0, e0, wn : w0 = WheelWithout(k) /\ e0 = StackWithout(k) /\ wn = when OBVIOUS
  <1> HIDE DEF when
  <1>6. /\ Exact(w0, AheadOf(slab) \ {k}, DeadlinesOf(slab))
        /\ w0.elapsed = wheel.elapsed
        /\ StackOK(e0, Overdue(slab) \ {k}, DeadlinesOf(slab), w0.elapsed)
    BY <1>2, <1>5, TakeAgrees
  <1>7. wn \in Nat /\ w0.elapsed <= wn BY <1>3, <1>5, <1>6
  <1>8. Elapsed(w0, wn) \/ Valid(w0, wn) BY <1>5, <1>6 DEF Rejected, Elapsed, Valid, when
  <1>9. PICK w, s, e : w = wheel' /\ s = slab' /\ e = expired' OBVIOUS
  <1>10. /\ w = IF Elapsed(w0, wn) THEN w0 ELSE WheelInsert(w0, wn, k)
         /\ e = IF Elapsed(w0, wn) THEN Push(e0, k) ELSE e0
         /\ s = SetData(slab, k, [when |-> wn, expired |-> Elapsed(w0, wn)])
    BY <1>4, <1>5, <1>9 DEF InsertIdx
  <1>11. Inserted(w0, slab, k, wn, w, s, e)
    <2>1. SlabOK(slab) BY <1>2 DEF Agree
    <2>2. StackOK(e0, Overdue(slab) \ {k}, DeadlinesOf(slab), w0.elapsed) BY <1>6
    <2>3. Exact(w0, AheadOf(slab) \ {k}, DeadlinesOf(slab)) BY <1>6
    <2>4. QED BY <2>1, <2>2, <2>3, <1>7, <1>8, <1>10, InsertedFrom
  <1>12. Agree(w, s, e) /\ w.elapsed = wheel.elapsed /\ Live(s) = Live(slab) /\ DeadlinesOf(s)[k] = wn
         /\ \A j \in Live(slab) \ {k} : DeadlinesOf(s)[j] = DeadlinesOf(slab)[j]
    BY <1>6, <1>11 DEF Inserted
  <1>13. pc' = "idle" BY <1>1, <1>4
  <1>14. DeadlinesOf(slab')[k] = NormalizeDeadline(at) BY <1>5, <1>9, <1>12 DEF when
  <1>15. QED BY <1>1, <1>4, <1>9, <1>12, <1>13, <1>14

\* reset_at keeps the invariant.
LEMMA ResetStep ==
    ASSUME IInv, NEW k \in Live(slab), NEW at \in Nat, QueueResetAt(k, at)
    PROVE  IInv'
  <1>1. CASE Rejected(NormalizeDeadline(at))
    <2>1. Panic /\ pc = "idle" BY <1>1, ResetFinds
    <2>2. QED BY <2>1, PanicStep
  <1>2. CASE ~Rejected(NormalizeDeadline(at))
    <2>1. PICK w, s, e : w = wheel' /\ s = slab' /\ e = expired' OBVIOUS
    <2>2. /\ Agree(w, s, e)
          /\ w.elapsed = wheel.elapsed
          /\ pc = "idle" /\ pc' = "idle"
          /\ delay' = ResetDelay(PollAt(w))
          /\ returned' = None
          /\ UNCHANGED <<now, wheelNow, waker, expiration>>
      BY <1>2, <2>1, ResetAgrees
    <2>3. PICK d : d = SleepUntil(PollAt(w)) /\ d \in Sleeps \cup {None} /\ (d # None => SleepOK(d, now) /\ w.elapsed <= d.at)
      <3>1. Settling(w, AheadOf(s), DeadlinesOf(s)) BY <2>2, ExactSettling DEF Agree
      <3>2. QED BY <3>1, InvFacts, DelayForWheel
    <2>4. delay' = delay \/ delay' = d BY <2>2, <2>3 DEF ResetDelay, SleepUntil
    <2>5. PlainInv' BY <2>2, <2>3, <2>4 DEF PlainInv, IInv
    <2>6. WheelInv' BY <2>1, <2>2 DEF WheelInv, Agree
    <2>7. StackInv' BY <2>1, <2>2 DEF StackInv, Agree
    <2>8. ClockInv' BY <2>1, <2>2 DEF ClockInv, IInv
    <2>9. DelayInv' BY <2>1, <2>2, <2>3, <2>4 DEF DelayInv, IInv
    <2>10. ParkInv' BY <2>2 DEF ParkInv
    <2>11. QED BY <2>5, <2>6, <2>7, <2>8, <2>9, <2>10 DEF IInv
  <1>3. QED BY <1>1, <1>2

\* Slab n is slab s with one more key, for an entry with the given deadline.
WithEntry(s, n, k, when) ==
    /\ k \in Nat /\ k \notin Live(s)
    /\ Live(n) = Live(s) \cup {k}
    /\ DeadlinesOf(n)[k] = when
    /\ \A j \in Live(s) : DeadlinesOf(n)[j] = DeadlinesOf(s)[j]
    /\ AheadOf(n) \subseteq AheadOf(s) \cup {k}
    /\ Overdue(n) \subseteq Overdue(s) \cup {k}

\* insert_at adds one entry (delay_queue.rs 537-576).
LEMMA InsertAgrees ==
    ASSUME IInv, NEW at \in Nat, NEW index \in Vacant(slab), QueueInsertAt(at, index),
           ~Rejected(NormalizeDeadline(at))
    PROVE  /\ Agree(wheel', slab', expired')
           /\ wheel'.elapsed = wheel.elapsed
           /\ \E k \in Nat : WithEntry(slab, slab', k, NormalizeDeadline(at))
  <1> DEFINE when == NormalizeDeadline(at)
             new == SlabInsert(slab, index, [when |-> when, expired |-> FALSE])
  <1>1. pc \in {"idle", "parked"} BY DEF QueueInsertAt
  <1>2. Agree(wheel, slab, expired) /\ wheel.elapsed \in Nat /\ MaxEntries \in Nat
    BY <1>1, InvFacts
  <1>3. InsertIdx(wheel, new.slab, expired, new.key, when) BY DEF QueueInsertAt
  <1>4. when \in Nat /\ wheel.elapsed <= when BY <1>2, NormalizeFacts
  <1>5. PICK wn : wn = when OBVIOUS
  <1> HIDE DEF when
  <1>6. wn \in Nat /\ wheel.elapsed <= wn BY <1>4, <1>5
  <1>7. PICK s0, k : s0 = new.slab /\ k = new.key OBVIOUS
  <1>8. /\ SlabOK(s0) /\ k \in Nat /\ k \notin Live(slab)
        /\ Live(s0) = Live(slab) \cup {k}
        /\ \A j \in Live(slab) : DeadlinesOf(s0)[j] = DeadlinesOf(slab)[j]
        /\ AheadOf(s0) = AheadOf(slab) \cup {k}
        /\ Overdue(s0) = Overdue(slab)
    BY <1>2, <1>5, <1>6, <1>7, SlabAdd DEF Agree
  <1>9. AheadOf(slab) \subseteq Live(slab) /\ Overdue(slab) \subseteq Live(slab)
    BY <1>2, SlabSets DEF Agree
  <1>10. AheadOf(s0) \ {k} = AheadOf(slab) /\ Overdue(s0) \ {k} = Overdue(slab) BY <1>8, <1>9
  <1>11. Exact(wheel, AheadOf(s0) \ {k}, DeadlinesOf(s0))
    <2>1. Exact(wheel, AheadOf(slab), DeadlinesOf(slab)) BY <1>2 DEF Agree
    <2>2. \A j \in AheadOf(slab) : DeadlinesOf(s0)[j] = DeadlinesOf(slab)[j] BY <1>8, <1>9
    <2>3. QED BY <2>1, <2>2, <1>10, ExactSame
  <1>12. StackOK(expired, Overdue(s0) \ {k}, DeadlinesOf(s0), wheel.elapsed)
    BY <1>2, <1>8, <1>9, <1>10 DEF Agree, StackOK
  <1>13. Elapsed(wheel, wn) \/ Valid(wheel, wn) BY <1>5 DEF Rejected, when
  <1>14. PICK w, s, e : w = wheel' /\ s = slab' /\ e = expired' OBVIOUS
  <1>15. /\ w = IF Elapsed(wheel, wn) THEN wheel ELSE WheelInsert(wheel, wn, k)
         /\ e = IF Elapsed(wheel, wn) THEN Push(expired, k) ELSE expired
         /\ s = SetData(s0, k, [when |-> wn, expired |-> Elapsed(wheel, wn)])
    BY <1>3, <1>5, <1>7, <1>14 DEF InsertIdx
  <1>16. Inserted(wheel, s0, k, wn, w, s, e)
    <2>1. k \in Live(s0) /\ SlabOK(s0) BY <1>8
    <2>2. QED BY <2>1, <1>6, <1>11, <1>12, <1>13, <1>15, InsertedFrom
  <1>17. Agree(w, s, e) /\ w.elapsed = wheel.elapsed BY <1>16 DEF Inserted
  <1>18. WithEntry(slab, s, k, wn)
    <2>1. Live(s) = Live(slab) \cup {k} /\ DeadlinesOf(s)[k] = wn BY <1>8, <1>16 DEF Inserted
    <2>2. \A j \in Live(slab) : DeadlinesOf(s)[j] = DeadlinesOf(slab)[j]
      BY <1>8, <1>16 DEF Inserted
    <2>3. AheadOf(s) \subseteq AheadOf(slab) \cup {k} /\ Overdue(s) \subseteq Overdue(slab) \cup {k}
      BY <1>8, <1>16 DEF Inserted
    <2>4. QED BY <2>1, <2>2, <2>3, <1>8 DEF WithEntry
  <1>19. \E j \in Nat : WithEntry(slab, s, j, wn) BY <1>8, <1>18
  <1>20. QED BY <1>5, <1>14, <1>17, <1>19 DEF when

\* insert_at keeps the invariant.
LEMMA InsertStep ==
    ASSUME IInv, NEW at \in Nat, NEW index \in Vacant(slab), QueueInsertAt(at, index)
    PROVE  IInv'
  <1> DEFINE when == NormalizeDeadline(at)
  <1>1. pc \in {"idle", "parked"} BY DEF QueueInsertAt
  <1>2. now \in Nat /\ wheel.elapsed \in Nat BY InvFacts
  <1>3. when \in Nat /\ wheel.elapsed <= when BY <1>2, NormalizeFacts
  <1>4. CASE Rejected(when)
    <2>1. Panic BY <1>4 DEF QueueInsertAt
    <2>2. QED BY <1>1, <2>1, PanicStep
  <1>5. CASE ~Rejected(when)
    <2>1. PICK w, s, e : w = wheel' /\ s = slab' /\ e = expired' OBVIOUS
    <2>2. Agree(w, s, e) /\ w.elapsed = wheel.elapsed /\ \E k \in Nat : WithEntry(slab, s, k, when)
      BY <1>5, <2>1, InsertAgrees
    <2>3. /\ delay' = (IF ShouldSetDelay(when) THEN Sleep(when) ELSE delay)
          /\ waker' = (waker /\ ~ShouldSetDelay(when))
          /\ pc' = (IF ShouldSetDelay(when) /\ waker THEN "idle" ELSE pc)
          /\ returned' = None
          /\ UNCHANGED <<now, wheelNow, expiration>>
      BY <1>5 DEF QueueInsertAt
    <2>4. PICK wn : wn = when OBVIOUS
    <2> HIDE DEF when
    <2>5. wn \in Nat /\ wheel.elapsed <= wn BY <1>3, <2>4
    <2>6. PICK k \in Nat : WithEntry(slab, s, k, wn) BY <2>2, <2>4
    <2>7. pc' \in {"idle", "parked"} /\ (pc' = "parked" => pc = "parked" /\ ~(ShouldSetDelay(wn) /\ waker))
      BY <1>1, <2>3, <2>4
    <2>8. SleepOK(Sleep(wn), now) /\ Sleep(wn).at = wn /\ Sleep(wn) \in Sleeps
      BY <1>2, <2>5, SleepFacts DEF SleepOK
    <2>9. delay' = delay \/ delay' = Sleep(wn) BY <2>3, <2>4
    <2>10. waker' \in BOOLEAN
      <3>1. waker \in BOOLEAN BY DEF IInv, PlainInv
      <3>2. waker' = (waker /\ ~ShouldSetDelay(when)) BY <2>3
      <3>3. QED BY <3>1, <3>2, Zenon
    <2>11. PlainInv' BY <2>3, <2>7, <2>8, <2>9, <2>10 DEF PlainInv, IInv
    <2>12. WheelInv' BY <2>1, <2>2, <2>7 DEF WheelInv, Agree
    <2>13. StackInv' BY <2>1, <2>2, <2>7 DEF StackInv, Agree
    <2>14. ClockInv' BY <2>1, <2>2, <2>3, <2>7 DEF ClockInv, IInv
    <2>15. DelayInv' BY <1>1, <2>1, <2>2, <2>3, <2>5, <2>7, <2>8, <2>9 DEF DelayInv, IInv
    <2>16. ParkInv'
      <3>1. SUFFICES ASSUME pc' = "parked"
                     PROVE  /\ waker'
                            /\ delay' # None
                            /\ delay'.hooked
                            /\ \A j \in Overdue(s) : delay'.at <= DeadlinesOf(s)[j]
        BY <2>1, <2>7 DEF ParkInv
      <3>2. pc = "parked" /\ waker /\ delay # None /\ delay.hooked
            /\ \A j \in Overdue(slab) : delay.at <= DeadlinesOf(slab)[j]
        BY <3>1, <2>7 DEF IInv, ParkInv
      <3>3. ~ShouldSetDelay(wn) BY <3>1, <3>2, <2>7
      <3>4. delay' = delay BY <3>3, <2>3, <2>4
      <3>5. waker'
        <4>1. waker' = (waker /\ ~ShouldSetDelay(wn)) BY <2>3, <2>4
        <4>2. QED BY <4>1, <3>2, <3>3, Zenon
      <3>6. delay.at <= wn BY <1>2, <2>5, <3>2, <3>3, NotShould
      <3>7. ASSUME NEW j \in Overdue(s) PROVE delay.at <= DeadlinesOf(s)[j]
        <4>1. CASE j = k BY <4>1, <3>6, <2>6 DEF WithEntry
        <4>2. CASE j # k
          <5>1. j \in Overdue(slab) /\ j \in Live(slab) BY <4>2, <2>6 DEF WithEntry, Overdue
          <5>2. DeadlinesOf(s)[j] = DeadlinesOf(slab)[j] BY <5>1, <2>6 DEF WithEntry
          <5>3. QED BY <5>1, <5>2, <3>2
        <4>3. QED BY <4>1, <4>2
      <3>8. QED BY <3>2, <3>4, <3>5, <3>7
    <2>17. QED BY <2>11, <2>12, <2>13, <2>14, <2>15, <2>16 DEF IInv
  <1>6. QED BY <1>4, <1>5

-----------------------------------------------------------------------------
(* The steps of poll_expired before the wheel is polled.                   *)

\* poll_expired keeps the invariant, whether an overdue entry is given out or the
\* delay is to be looked at (delay_queue.rs 581-591).
LEMMA PollExpiredStep ==
    ASSUME IInv, PollExpired
    PROVE  IInv'
  <1>1. pc = "idle" /\ waker' = TRUE /\ UNCHANGED <<now, wheel, wheelNow, delay, expiration>>
    BY DEF PollExpired
  <1>2. Agree(wheel, slab, expired) BY <1>1, InvFacts
  <1>3. CASE expired # <<>>
    <2>1. PICK k : k = Head(expired) OBVIOUS
    <2>2. expired' = Pop(expired) /\ slab' = SlabRemove(slab, k) /\ returned' = k /\ pc' = "idle"
      BY <1>3, <2>1 DEF PollExpired, Return
    <2>3. PICK s, e : s = slab' /\ e = expired' OBVIOUS
    <2>4. k \in Overdue(slab) /\ Agree(wheel, s, e) BY <1>2, <1>3, <2>1, <2>2, <2>3, HeadAgrees
    <2>5. k \in Nat BY <1>2, <2>4, SlabSets DEF Agree
    <2>6. PlainInv' BY <1>1, <2>2, <2>5 DEF IInv, PlainInv
    <2>7. WheelInv' BY <1>1, <2>2, <2>3, <2>4 DEF WheelInv, Agree
    <2>8. StackInv' BY <1>1, <2>2, <2>3, <2>4 DEF StackInv, Agree
    <2>9. ClockInv' BY <1>1, <2>2 DEF IInv, ClockInv
    <2>10. DelayInv' BY <1>1, <2>2 DEF IInv, DelayInv
    <2>11. ParkInv' BY <2>2 DEF ParkInv
    <2>12. QED BY <2>6, <2>7, <2>8, <2>9, <2>10, <2>11 DEF IInv
  <1>4. CASE expired = <<>>
    <2>1. pc' = "delay" /\ returned' = None /\ UNCHANGED <<expired, slab>>
      BY <1>4 DEF PollExpired
    <2>2. PlainInv' BY <1>1, <2>1 DEF IInv, PlainInv
    <2>3. WheelInv' BY <1>1, <2>1 DEF IInv, WheelInv
    <2>4. StackInv' BY <1>1, <1>4, <2>1 DEF IInv, StackInv
    <2>5. ClockInv' BY <1>1, <2>1 DEF IInv, ClockInv
    <2>6. DelayInv' BY <1>1, <2>1 DEF IInv, DelayInv
    <2>7. ParkInv' BY <1>1, <2>1 DEF ParkInv
    <2>8. QED BY <2>2, <2>3, <2>4, <2>5, <2>6, <2>7 DEF IInv
  <1>5. QED BY <1>3, <1>4

\* No entry is overdue once the stack is empty.
LEMMA NoneOverdue ==
    ASSUME IInv, pc \in {"delay", "wheel", "cascade"}
    PROVE  Overdue(slab) = {} /\ expired = <<>>
  <1>1. expired = <<>> /\ expired \in Seq(Nat) /\ ToSet(expired) = Overdue(slab)
    BY DEF IInv, StackInv, StackOK
  <1>2. QED BY <1>1, EmptyFacts

\* The poll of the delay keeps the invariant (delay_queue.rs 1016-1034).
LEMMA PollDelayStep ==
    ASSUME IInv, PollDelay
    PROVE  IInv'
  <1>1. pc = "delay" /\ UNCHANGED <<now, wheel, slab, expired, waker, expiration, returned>>
    BY DEF PollDelay
  <1>2. Overdue(slab) = {} /\ expired = <<>> BY <1>1, NoneOverdue
  <1>3. Exact(wheel, AheadOf(slab), DeadlinesOf(slab)) /\ SlabOK(slab)
    BY <1>1 DEF IInv, WheelInv
  <1>4. Settling(wheel, AheadOf(slab), DeadlinesOf(slab)) BY <1>3, ExactSettling
  <1>5. waker BY <1>1 DEF IInv, ParkInv
  <1>6. CASE delay = None
    <2>1. pc' = "wheel" /\ UNCHANGED <<wheelNow, delay>> BY <1>6 DEF PollDelay
    <2>2. PlainInv' BY <1>1, <2>1 DEF IInv, PlainInv
    <2>3. WheelInv' BY <1>1, <1>3, <1>4, <2>1 DEF WheelInv
    <2>4. StackInv' BY <1>1, <1>2, <2>1 DEF IInv, StackInv
    <2>5. ClockInv' BY <1>1, <2>1 DEF IInv, ClockInv
    <2>6. DelayInv' BY <1>6, <2>1 DEF DelayInv
    <2>7. ParkInv' BY <1>1, <1>5, <2>1 DEF ParkInv
    <2>8. QED BY <2>2, <2>3, <2>4, <2>5, <2>6, <2>7 DEF IInv
  <1>7. CASE delay # None /\ DelayOver
    <2>1. pc' = "wheel" /\ wheelNow' = delay.at /\ delay' = delay BY <1>7 DEF PollDelay
    <2>2. SleepOK(delay, now) /\ wheel.elapsed <= delay.at BY <1>1, <1>7 DEF IInv, DelayInv
    <2>3. delay.at \in Nat BY <2>2 DEF SleepOK, Sleeps
    <2>4. delay.at * Unit < now + Unit
      <3>1. CASE delay.fired BY <3>1, <2>2 DEF SleepOK
      <3>2. CASE ~delay.fired
        <4>1. PICK x \in Nat : x = delay.at * Unit BY <2>3, DelayQueueAssumption
        <4>2. x < now BY <4>1, <3>2, <1>7 DEF DelayOver
        <4>3. QED BY <4>1, <4>2, InvFacts
      <3>3. QED BY <3>1, <3>2
    <2>5. PlainInv' BY <1>1, <2>1, <2>3 DEF IInv, PlainInv
    <2>6. WheelInv' BY <1>1, <1>3, <1>4, <2>1 DEF WheelInv
    <2>7. StackInv' BY <1>1, <1>2, <2>1 DEF IInv, StackInv
    <2>8. ClockInv' BY <1>1, <2>1, <2>2, <2>4 DEF ClockInv
    <2>9. DelayInv' BY <1>1, <2>1, <2>2 DEF DelayInv
    <2>10. ParkInv' BY <1>1, <1>5, <2>1 DEF ParkInv
    <2>11. QED BY <2>5, <2>6, <2>7, <2>8, <2>9, <2>10 DEF IInv
  <1>8. CASE delay # None /\ ~DelayOver
    <2>1. pc' = "parked" /\ wheelNow' = wheelNow /\ delay' = [delay EXCEPT !.hooked = TRUE]
      BY <1>8 DEF PollDelay
    <2>2. SleepOK(delay, now) /\ wheel.elapsed <= delay.at /\ delay \in Sleeps
      BY <1>1, <1>8 DEF IInv, DelayInv, SleepOK
    <2>3. PICK d : d = delay' OBVIOUS
    <2>4. d \in Sleeps /\ d.at = delay.at /\ d.fireAt = delay.fireAt /\ d.fired = delay.fired /\ d.hooked
      BY <2>1, <2>2, <2>3 DEF Sleeps
    <2>5. SleepOK(d, now)
      <3>1. d.fired => delay.fired BY <2>4, Zenon
      <3>2. delay.fired => d.fired BY <2>4, Zenon
      <3>3. QED BY <3>1, <3>2, <2>2, <2>4 DEF SleepOK
    <2>6. d # None BY <2>4, NoneAssumption
    <2>7. PlainInv' BY <1>1, <2>1, <2>3, <2>4 DEF IInv, PlainInv
    <2>8. WheelInv' BY <1>1, <1>3, <2>1 DEF WheelInv
    <2>9. StackInv' BY <1>1, <1>2, <2>1 DEF IInv, StackInv
    <2>10. ClockInv' BY <1>1, <2>1 DEF IInv, ClockInv
    <2>11. DelayInv' BY <1>1, <2>1, <2>2, <2>3, <2>4, <2>5 DEF DelayInv
    <2>12. ParkInv' BY <1>1, <1>2, <1>5, <2>1, <2>3, <2>4, <2>6 DEF ParkInv
    <2>13. QED BY <2>7, <2>8, <2>9, <2>10, <2>11, <2>12 DEF IInv
  <1>9. QED BY <1>6, <1>7, <1>8

-----------------------------------------------------------------------------
(* The steps of Wheel::poll.                                               *)

\* The poll of the wheel keeps the invariant, whether an entry is given out, a
\* slot is to be cascaded or the time goes on (delay_queue.rs 1036-1048).
LEMMA PollWheelStep ==
    ASSUME IInv, PollWheel
    PROVE  IInv'
  <1> DEFINE K == AheadOf(slab)
             D == DeadlinesOf(slab)
  <1>1. pc = "wheel" /\ UNCHANGED <<now, expired, wheelNow, waker>> BY DEF PollWheel
  <1>2. Overdue(slab) = {} /\ expired = <<>> BY <1>1, NoneOverdue
  <1>3. Settling(wheel, K, D) /\ SlabOK(slab) /\ waker BY <1>1 DEF IInv, WheelInv, ParkInv
  <1>4. now \in Nat /\ wheel.elapsed \in Nat /\ wheelNow \in Nat /\ wheel.elapsed <= wheelNow
    BY InvFacts DEF IInv, PlainInv, ClockInv
  <1>5. PICK e : e = NextExpiration(wheel) OBVIOUS
  <1>6. StackOK(expired, {}, D, wheel.elapsed) BY <1>2 DEF IInv, StackInv
  <1>7. ASSUME NEW E, NEW t PROVE StackOK(expired, {}, E, t) BY <1>6 DEF StackOK
  <1>8. CASE Expires(wheel, wheelNow) /\ e.level = 0
    <2>1. PICK k : k = Head(wheel.slot[0][e.slot]) OBVIOUS
    <2>2. /\ wheel' = PopEntry(wheel, e)
          /\ delay' = SleepUntil(PollAt(wheel'))
          /\ slab' = SlabRemove(slab, k)
          /\ returned' = k
          /\ pc' = "idle"
          /\ UNCHANGED expiration
      BY <1>5, <1>8, <2>1 DEF PollWheel, Return
    <2>3. Occupied(wheel) # {} BY <1>8 DEF Expires
    <2>4. \A j \in K \ {k} : D[j] = D[j] OBVIOUS
    <2>5. k \in K /\ K \subseteq Live(slab) /\ K \subseteq Nat
      <3>1. k \in K BY <1>3, <1>5, <1>8, <2>1, <2>3, <2>4, PopExact DEF Soonest
      <3>2. QED BY <3>1, <1>3, SlabSets
    <2>6. PICK s, w : s = slab' /\ w = wheel' OBVIOUS
    <2>7. /\ SlabOK(s)
          /\ \A j \in Live(slab) \ {k} : DeadlinesOf(s)[j] = D[j]
          /\ AheadOf(s) = K \ {k}
          /\ Overdue(s) = {}
      <3>1. s = SlabRemove(slab, k) /\ k \in Live(slab) BY <2>2, <2>5, <2>6
      <3>2. Overdue(s) = Overdue(slab) \ {k} BY <3>1, <1>3, SlabTake
      <3>3. QED BY <3>1, <3>2, <1>2, <1>3, SlabTake
    <2>8. \A j \in K \ {k} : DeadlinesOf(s)[j] = D[j] BY <2>5, <2>7
    <2> HIDE DEF K, D
    <2>9. Exact(PopEntry(wheel, e), K \ {k}, DeadlinesOf(s)) /\ PopEntry(wheel, e).elapsed = wheel.elapsed
      <3>1. PICK E : E = DeadlinesOf(s) OBVIOUS
      <3>2. \A j \in K \ {k} : E[j] = D[j] BY <2>8, <3>1
      <3>3. NextExpiration(wheel).level = 0 /\ k = Head(wheel.slot[0][NextExpiration(wheel).slot])
        BY <1>5, <1>8, <2>1
      <3>4. Settling(wheel, K, D) BY <1>3
      <3>5. /\ Exact(PopEntry(wheel, NextExpiration(wheel)), K \ {k}, E)
            /\ PopEntry(wheel, NextExpiration(wheel)).elapsed = wheel.elapsed
        BY <2>3, <3>2, <3>3, <3>4, PopExact
      <3>6. QED BY <1>5, <3>1, <3>5
    <2>10. Exact(w, AheadOf(s), DeadlinesOf(s)) /\ w.elapsed = wheel.elapsed
      BY <2>2, <2>6, <2>7, <2>9
    <2>11. PICK d : /\ d = SleepUntil(PollAt(w))
                    /\ d \in Sleeps \cup {None}
                    /\ d # None => SleepOK(d, now) /\ w.elapsed <= d.at
      BY <1>4, <2>10, ExactSettling, DelayForWheel
    <2>12. delay' = d BY <2>2, <2>6, <2>11
    <2>13. PlainInv' BY <1>1, <2>2, <2>5, <2>11, <2>12 DEF IInv, PlainInv
    <2>14. WheelInv' BY <2>2, <2>6, <2>7, <2>10 DEF WheelInv
    <2>15. StackInv' BY <1>1, <1>7, <2>2, <2>6, <2>7 DEF StackInv
    <2>16. ClockInv' BY <1>1, <2>2, <2>6, <2>10 DEF IInv, ClockInv
    <2>17. DelayInv' BY <1>1, <2>2, <2>6, <2>11, <2>12 DEF DelayInv
    <2>18. ParkInv' BY <2>2 DEF ParkInv
    <2>19. QED BY <2>13, <2>14, <2>15, <2>16, <2>17, <2>18 DEF IInv
  <1>9. CASE Expires(wheel, wheelNow) /\ e.level > 0
    <2>1. expiration' = e /\ pc' = "cascade" /\ UNCHANGED <<wheel, slab, delay, returned>>
      <3>1. e.level # 0 BY <1>9
      <3>2. QED BY <3>1, <1>5, <1>9 DEF PollWheel
    <2>2. Occupied(wheel) # {} /\ e.deadline <= wheelNow BY <1>5, <1>9 DEF Expires
    <2>3. Cascading(wheel, K, D, e) BY <1>3, <1>5, <1>9, <2>2, StartCascade
    <2>4. First(wheel, D, e) BY <1>3, <1>5, <2>2, FirstExpiration
    <2>5. e \in Expirations BY <2>4 DEF First, Expirations
    <2>6. PlainInv' BY <1>1, <2>1, <2>5 DEF IInv, PlainInv
    <2>7. WheelInv' BY <1>1, <1>3, <2>1, <2>3, <2>5 DEF WheelInv
    <2>8. StackInv' BY <1>1, <1>2, <2>1 DEF IInv, StackInv
    <2>9. ClockInv' BY <1>1, <2>1, <2>2 DEF IInv, ClockInv
    <2>10. DelayInv' BY <1>1, <2>1 DEF IInv, DelayInv
    <2>11. ParkInv' BY <1>1, <1>3, <2>1 DEF ParkInv
    <2>12. QED BY <2>6, <2>7, <2>8, <2>9, <2>10, <2>11 DEF IInv
  <1>10. CASE ~Expires(wheel, wheelNow)
    <2>1. /\ wheel' = SetElapsed(wheel, wheelNow)
          /\ delay' = SleepUntil(PollAt(wheel'))
          /\ pc' = (IF wheel.elapsed > wheelNow THEN "asserted" ELSE IF delay' = None THEN "idle" ELSE "delay")
          /\ UNCHANGED <<slab, expiration, returned>>
      BY <1>10 DEF PollWheel
    <2>2. pc' \in {"idle", "delay"}
      <3>1. ~(wheel.elapsed > wheelNow) BY <1>4
      <3>2. QED BY <2>1, <3>1
    <2>3. PICK w : w = wheel' OBVIOUS
    <2>4. Exact(w, K, D) /\ w.elapsed = wheelNow BY <1>3, <1>4, <1>10, <2>1, <2>3, Advance
    <2>5. PICK d : /\ d = SleepUntil(PollAt(w))
                   /\ d \in Sleeps \cup {None}
                   /\ d # None => SleepOK(d, now) /\ w.elapsed <= d.at
      BY <1>4, <2>4, ExactSettling, DelayForWheel
    <2>6. delay' = d BY <2>1, <2>3, <2>5
    <2>7. PlainInv' BY <1>1, <2>1, <2>2, <2>5, <2>6 DEF IInv, PlainInv
    <2>8. WheelInv' BY <1>3, <2>1, <2>2, <2>3, <2>4 DEF WheelInv
    <2>9. StackInv'
      <3>1. StackOK(expired, {}, D, w.elapsed) BY <1>7
      <3>2. QED BY <3>1, <1>1, <1>2, <2>1, <2>3 DEF StackInv
    <2>10. ClockInv' BY <1>1, <1>4, <2>1, <2>2, <2>3, <2>4 DEF IInv, ClockInv
    <2>11. DelayInv' BY <1>1, <2>3, <2>5, <2>6 DEF DelayInv
    <2>12. ParkInv' BY <1>1, <1>3, <2>1, <2>2 DEF ParkInv
    <2>13. QED BY <2>7, <2>8, <2>9, <2>10, <2>11, <2>12 DEF IInv
  <1>11. QED
    <2>1. \/ Expires(wheel, wheelNow) /\ e.level = 0
          \/ Expires(wheel, wheelNow) /\ e.level > 0
          \/ ~Expires(wheel, wheelNow)
      BY <1>5 DEF PollWheel
    <2>2. QED BY <2>1, <1>8, <1>9, <1>10

\* Cascading keeps the invariant, entry by entry (wheel/mod.rs 205-225).
LEMMA PollExpirationStep ==
    ASSUME IInv, PollExpiration
    PROVE  IInv'
  <1> DEFINE K == AheadOf(slab)
             D == DeadlinesOf(slab)
  <1>1. PICK e : e = expiration OBVIOUS
  <1>2. PICK list : list = wheel.slot[e.level][e.slot] OBVIOUS
  <1>3. pc = "cascade" /\ UNCHANGED <<now, slab, expired, wheelNow, delay, waker, returned>>
    BY DEF PollExpiration
  <1>4. Overdue(slab) = {} /\ expired = <<>> BY <1>3, NoneOverdue
  <1>5. e \in Expirations /\ Cascading(wheel, K, D, e) /\ SlabOK(slab) /\ waker
    BY <1>1, <1>3 DEF IInv, WheelInv, ParkInv
  <1>6. StackOK(expired, {}, D, wheel.elapsed) BY <1>4 DEF IInv, StackInv
  <1>7. CASE list # <<>>
    <2>1. PICK k : k = Head(list) OBVIOUS
    <2>2. wheel' = Cascade(wheel, e, Deadline(k)) /\ UNCHANGED <<pc, expiration>>
      BY <1>1, <1>2, <1>7, <2>1 DEF PollExpiration
    <2>3. k \in K
      <3>1. WheelOK(wheel) /\ e.level \in Levels /\ e.slot \in Slots /\ Holds(wheel, K, D, e.deadline)
        BY <1>5 DEF Cascading
      <3>2. list \in Seq(Nat) /\ IsInjective(list) BY <1>2, <3>1, SlotOK
      <3>3. k \in ToSet(list) BY <1>7, <2>1, <3>2, PopFacts
      <3>4. k \in At(wheel, e.level, e.slot) BY <1>2, <3>3 DEF At
      <3>5. QED BY <3>1, <3>4 DEF Holds
    <2>4. K \subseteq Nat /\ Deadline(k) = D[k] BY <1>5, <2>3, SlabSets DEF Deadline
    <2> HIDE DEF K, D
    <2>5. PICK w : w = wheel' OBVIOUS
    <2>6. Cascading(w, K, D, e) /\ w.elapsed = wheel.elapsed
      <3>1. w = Cascade(wheel, e, D[Head(wheel.slot[e.level][e.slot])])
        BY <1>2, <2>1, <2>2, <2>4, <2>5
      <3>2. wheel.slot[e.level][e.slot] # <<>> BY <1>2, <1>7
      <3>3. PICK x : x = wheel OBVIOUS
      <3>4. Cascading(x, K, D, e) BY <1>5, <3>3
      <3>5. K \subseteq Nat BY <2>4
      <3>6. x.slot[e.level][e.slot] # <<>> BY <3>2, <3>3
      <3>7. w = Cascade(x, e, D[Head(x.slot[e.level][e.slot])]) BY <3>1, <3>3
      <3>8. Cascading(w, K, D, e) /\ w.elapsed = x.elapsed
        <4>1. PICK L, E : L = K /\ E = D OBVIOUS
        <4>2. Cascading(x, L, E, e) /\ L \subseteq Nat BY <4>1, <3>4, <3>5
        <4>3. w = Cascade(x, e, E[Head(x.slot[e.level][e.slot])]) BY <4>1, <3>7
        <4>4. Cascaded(x, L, E, e, Cascade(x, e, E[Head(x.slot[e.level][e.slot])]))
          BY <4>2, <3>6, CascadeStep, Zenon
        <4>5. Cascading(w, L, E, e) /\ w.elapsed = x.elapsed BY <4>3, <4>4 DEF Cascaded
        <4>6. QED BY <4>1, <4>5
      <3>9. QED BY <3>3, <3>8
    <2> USE DEF K, D
    <2>7. PlainInv' BY <1>3, <2>2 DEF IInv, PlainInv
    <2>8. WheelInv' BY <1>1, <1>3, <1>5, <2>2, <2>5, <2>6 DEF WheelInv
    <2>9. StackInv' BY <1>3, <1>4, <1>6, <2>5, <2>6 DEF StackInv
    <2>10. ClockInv' BY <1>3, <2>2, <2>5, <2>6 DEF IInv, ClockInv
    <2>11. DelayInv' BY <1>3, <2>2 DEF IInv, DelayInv
    <2>12. ParkInv' BY <1>3, <1>5, <2>2 DEF ParkInv
    <2>13. QED BY <2>7, <2>8, <2>9, <2>10, <2>11, <2>12 DEF IInv
  <1>8. CASE list = <<>>
    <2>1. /\ wheel' = SetElapsed(wheel, e.deadline)
          /\ pc' = (IF wheel.elapsed > e.deadline THEN "asserted" ELSE "wheel")
          /\ expiration' = None
      BY <1>1, <1>2, <1>8 DEF PollExpiration
    <2>2. PICK w : w = wheel' OBVIOUS
    <2>3. Settling(w, K, D) /\ w.elapsed = e.deadline
      <3>1. wheel.slot[e.level][e.slot] = <<>> BY <1>2, <1>8
      <3>2. QED BY <3>1, <1>5, <2>1, <2>2, EndCascade
    <2>4. pc' = "wheel"
      <3>1. wheel.elapsed <= e.deadline /\ e.deadline \in Nat BY <1>5 DEF Cascading
      <3>2. wheel.elapsed \in Nat BY InvFacts
      <3>3. ~(wheel.elapsed > e.deadline) BY <3>1, <3>2
      <3>4. QED BY <2>1, <3>3
    <2>5. e.deadline <= wheelNow BY <1>1, <1>3 DEF IInv, ClockInv
    <2>6. PlainInv' BY <1>3, <2>1, <2>4 DEF IInv, PlainInv
    <2>7. WheelInv' BY <1>3, <1>5, <2>2, <2>3, <2>4 DEF WheelInv
    <2>8. StackInv'
      <3>1. StackOK(expired, {}, D, w.elapsed) BY <1>6 DEF StackOK
      <3>2. QED BY <3>1, <1>3, <1>4, <2>2 DEF StackInv
    <2>9. ClockInv' BY <1>3, <2>2, <2>3, <2>4, <2>5 DEF IInv, ClockInv
    <2>10. DelayInv' BY <1>3, <2>4 DEF IInv, DelayInv
    <2>11. ParkInv' BY <1>3, <1>5, <2>4 DEF ParkInv
    <2>12. QED BY <2>6, <2>7, <2>8, <2>9, <2>10, <2>11 DEF IInv
  <1>9. QED BY <1>7, <1>8

-----------------------------------------------------------------------------
(* The invariants of the queue.                                            *)

\* A step of nothing keeps the invariant.
LEMMA Stutter ==
    ASSUME IInv, UNCHANGED vars
    PROVE  IInv'
  <1> USE DEF vars, IInv
  <1>1. PlainInv' BY DEF PlainInv
  <1>2. WheelInv' BY DEF WheelInv
  <1>3. StackInv' BY DEF StackInv
  <1>4. ClockInv' BY DEF ClockInv
  <1>5. DelayInv' BY DEF DelayInv
  <1>6. ParkInv' BY DEF ParkInv
  <1>7. QED BY <1>1, <1>2, <1>3, <1>4, <1>5, <1>6

\* Every step keeps the invariant.
LEMMA NextStep ==
    ASSUME IInv, [Next]_vars
    PROVE  IInv'
  <1>1. CASE Operation
    <2>1. ASSUME NEW at \in Instants, NEW index \in Vacant(slab), QueueInsertAt(at, index) PROVE IInv'
      <3>1. at \in Nat BY DelayQueueAssumption
      <3>2. QED BY <2>1, <3>1, InsertStep
    <2>2. ASSUME NEW at \in Instants, NEW k \in Live(slab), QueueResetAt(k, at) PROVE IInv'
      <3>1. at \in Nat BY DelayQueueAssumption
      <3>2. QED BY <2>2, <3>1, ResetStep
    <2>3. ASSUME NEW k \in Live(slab), QueueRemove(k) PROVE IInv' BY <2>3, RemoveStep
    <2>4. CASE Clear BY <2>4, ClearStep
    <2>5. ASSUME NEW moved \in Remappings(slab), Compact(moved) PROVE IInv' BY <2>5, CompactStep
    <2>6. QED BY <1>1, <2>1, <2>2, <2>3, <2>4, <2>5 DEF Operation
  <1>2. CASE Tick BY <1>2, TickStep
  <1>3. CASE HostAnswers BY <1>3, HostStep
  <1>4. CASE WokenOtherwise BY <1>4, WokenStep
  <1>5. CASE PollExpired BY <1>5, PollExpiredStep
  <1>6. CASE PollDelay BY <1>6, PollDelayStep
  <1>7. CASE PollWheel BY <1>7, PollWheelStep
  <1>8. CASE PollExpiration BY <1>8, PollExpirationStep
  <1>9. CASE UNCHANGED vars BY <1>9, Stutter
  <1>10. QED BY <1>1, <1>2, <1>3, <1>4, <1>5, <1>6, <1>7, <1>8, <1>9 DEF Next, Progress, Poll

\* In every reachable state, at every stage of a poll, the wheel, the stack and the
\* slab agree on the entries, the time of the wheel is behind the clock and the
\* delay is not behind the wheel (delay_queue.rs 537-1059, wheel/mod.rs 91-238).
THEOREM InductiveInvariant == Spec => []IInv
  <1>1. Init => IInv BY InitStep
  <1>2. IInv /\ [Next]_vars => IInv' BY NextStep
  <1>3. QED BY <1>1, <1>2, PTL DEF Spec

\* The types follow from the invariant.
LEMMA InvType == ASSUME IInv PROVE TypeOK
  <1>1. WheelOK(wheel) /\ SlabOK(slab) BY InvFacts DEF IInv, WheelInv
  <1>2. wheel.elapsed \in Nat BY <1>1 DEF WheelOK, Wheels
  <1>3. \A l \in Levels : /\ wheel.occupied[l] \subseteq Slots
                          /\ \A s \in Slots : wheel.slot[l][s] \in Seq(Nat)
    BY <1>1 DEF WheelOK, Wheels
  <1>4. /\ DOMAIN slab.inner \subseteq 0..(MaxEntries - 1)
        /\ \A i \in DOMAIN slab.inner : slab.inner[i] \in Entries
        /\ slab.keyMap \in [DOMAIN slab.keyMap -> DOMAIN slab.inner]
        /\ DOMAIN slab.keyMap \cup {slab.nextKey} \subseteq Nat
    BY <1>1 DEF SlabOK
  <1>5. slab.compactCalled \in BOOLEAN BY <1>1 DEF SlabOK
  <1>6. expired \in Seq(Nat) BY DEF IInv, StackInv, StackOK
  <1>7. PlainInv BY DEF IInv
  <1>8. QED BY <1>2, <1>3, <1>4, <1>5, <1>6, <1>7 DEF TypeOK, PlainInv

\* The wheel, the slab, the stack, the delay and the place in poll_expired keep
\* their types.
THEOREM TypeCorrect == Spec => []TypeOK
  <1>1. IInv => TypeOK BY InvType
  <1>2. QED BY <1>1, InductiveInvariant, PTL

\* Exact, stated with the level and the slot that remove computes.
LEMMA InvExact == ASSUME IInv PROVE WheelExact
  <1>1. SUFFICES ASSUME Between
                 PROVE  /\ \A l \in Levels : wheel.occupied[l] = {s \in Slots : wheel.slot[l][s] # <<>>}
                        /\ \A l \in Levels, s \in Slots : ToSet(wheel.slot[l][s]) =
                               {k \in Live(slab) : /\ ~Data(slab, k).expired
                                                   /\ LevelFor(wheel.elapsed, Data(slab, k).when) = l
                                                   /\ SlotFor(Data(slab, k).when, l) = s}
                        /\ ToSet(expired) = {k \in Live(slab) : Data(slab, k).expired}
                        /\ \A l \in Levels, s \in Slots : IsInjective(wheel.slot[l][s])
                        /\ IsInjective(expired)
    BY DEF WheelExact
  <1> DEFINE K == AheadOf(slab)
             D == DeadlinesOf(slab)
  <1>2. Agree(wheel, slab, expired) BY <1>1, InvFacts DEF Between
  <1>3. SlabOK(slab) /\ Exact(wheel, K, D) /\ StackOK(expired, Overdue(slab), D, wheel.elapsed)
    BY <1>2 DEF Agree
  <1>4. WheelOK(wheel) /\ Holds(wheel, K, D, wheel.elapsed) BY <1>3 DEF Exact
  <1>5. ASSUME NEW l \in Levels, NEW s \in Slots
        PROVE  At(wheel, l, s) = {k \in Live(slab) : /\ ~Data(slab, k).expired
                                                     /\ LevelFor(wheel.elapsed, Data(slab, k).when) = l
                                                     /\ SlotFor(Data(slab, k).when, l) = s}
    <2>1. \A k \in K : k \in Live(slab) /\ D[k] = Data(slab, k).when BY <1>3, SlabSets
    <2>2. \A k \in Live(slab) : k \in K <=> ~Data(slab, k).expired BY DEF AheadOf
    <2>3. At(wheel, l, s) \subseteq K BY <1>4 DEF Holds
    <2> HIDE DEF K, D
    <2>4. \A k \in K : k \in At(wheel, l, s) <=> l = LevelFor(wheel.elapsed, D[k]) /\ s = SlotFor(D[k], l)
      BY <1>3, ExactHome
    <2>5. QED BY <2>1, <2>2, <2>3, <2>4
  <1>6. ToSet(expired) = {k \in Live(slab) : Data(slab, k).expired} /\ IsInjective(expired)
    BY <1>3 DEF StackOK, Overdue
  <1>7. \A l \in Levels : wheel.occupied[l] = {s \in Slots : wheel.slot[l][s] # <<>>}
    BY <1>4 DEF WheelOK
  <1>8. \A l \in Levels, s \in Slots : IsInjective(wheel.slot[l][s]) BY <1>4 DEF WheelOK
  <1>9. QED BY <1>5, <1>6, <1>7, <1>8 DEF At

\* Between two polls every entry is in exactly the slot that remove will look in,
\* whatever was inserted, reset, removed, compacted, cascaded or cleared before,
\* for any radix and any number of levels (wheel/mod.rs 119-132, 205-225).
THEOREM WheelIsExact == Spec => []WheelExact
  <1>1. IInv => WheelExact BY InvExact
  <1>2. QED BY <1>1, InductiveInvariant, PTL

\* The keys that insert_at handed out stay distinct, and each leads to an entry of
\* its own, in whatever order compact, insert_at, remove and clear are called
\* (delay_queue.rs 191-274).
THEOREM EveryKeyResolves == Spec => []KeysResolve
  <1>1. IInv => KeysResolve
    <2>1. ASSUME IInv PROVE KeysResolve
      <3>1. SlabOK(slab) BY <2>1 DEF IInv, WheelInv
      <3>2. \A k \in Live(slab) : RemapKey(slab, k) \in DOMAIN slab.inner BY <3>1, RemapFacts
      <3>3. \A i \in DOMAIN slab.inner : Cardinality({k \in Live(slab) : RemapKey(slab, k) = i}) = 1
        BY <3>1, OneKeyPerEntry
      <3>4. QED BY <3>2, <3>3 DEF KeysResolve
    <2>2. QED BY <2>1
  <1>2. QED BY <1>1, InductiveInvariant, PTL

\* The assertions of the wheel hold: its time never runs backwards, and an entry
\* is found where it is looked for (wheel/mod.rs 122, 228).
THEOREM NoAssertionFails == Spec => []NoAssertFails
  <1>1. IInv => NoAssertFails BY DEF IInv, PlainInv, NoAssertFails
  <1>2. QED BY <1>1, InductiveInvariant, PTL

-----------------------------------------------------------------------------
(* The delay stays ahead of the entries.                                   *)

\* Delay d ends no later than the deadlines D of the keys K.
Covers(d, K, D) == K # {} => d # None /\ \A k \in K : d.at <= D[k]

\* The deadlines ahead, as the queue computes them.
LEMMA CoversDelay ==
    ASSUME NEW s, SlabOK(s)
    PROVE  \A k \in AheadOf(s) : DeadlinesOf(s)[k] = Data(s, k).when
  BY SlabSets

\* Outside the wheel the delay ends no later than the first entry ahead: what is left of
\* DelayCovers, since SleepOK bounds the host's answer by the end of the delay.
AtCovers ==
    pc \in {"idle", "parked", "delay"} /\ Ahead # {} =>
        delay # None /\ \A k \in Ahead : delay.at <= Deadline(k)

\* AtCovers, stated with Covers.
LEMMA CoversNow ==
    ASSUME SlabOK(slab)
    PROVE  AtCovers <=> (pc \in {"idle", "parked", "delay"} => Covers(delay, AheadOf(slab), DeadlinesOf(slab)))
  <1>1. PICK s : s = slab OBVIOUS
  <1>2. \A k \in AheadOf(s) : DeadlinesOf(s)[k] = Data(s, k).when BY <1>1, CoversDelay
  <1>3. Ahead = AheadOf(s) BY <1>1 DEF Ahead, AheadOf
  <1>4. \A k : Deadline(k) = Data(s, k).when BY <1>1 DEF Deadline
  <1>5. QED BY <1>1, <1>2, <1>3, <1>4 DEF AtCovers, Covers

\* The same, after a step.
LEMMA CoversNext ==
    ASSUME SlabOK(slab')
    PROVE  AtCovers' <=> (pc' \in {"idle", "parked", "delay"} => Covers(delay', AheadOf(slab'), DeadlinesOf(slab')))
  <1>1. PICK s : s = slab' OBVIOUS
  <1>2. \A k \in AheadOf(s) : DeadlinesOf(s)[k] = Data(s, k).when BY <1>1, CoversDelay
  <1>3. Ahead' = AheadOf(s) BY <1>1 DEF Ahead, AheadOf
  <1>4. \A k : Deadline(k)' = Data(s, k).when BY <1>1 DEF Deadline
  <1>5. QED BY <1>1, <1>2, <1>3, <1>4 DEF AtCovers, Covers

\* The delay covers what it covered, when no entry ahead is new.
LEMMA CoversFewer ==
    ASSUME NEW d, NEW K, NEW D, NEW L, NEW E, Covers(d, K, D), L \subseteq K, \A k \in L : E[k] = D[k]
    PROVE  Covers(d, L, E)
  BY DEF Covers

\* The delay set for the next deadline of the wheel covers the wheel.
LEMMA CoversWheel ==
    ASSUME NEW w, NEW K, NEW D, Settling(w, K, D), now \in Nat
    PROVE  Covers(SleepUntil(PollAt(w)), K, D)
  <1> DEFINE d == SleepUntil(PollAt(w))
  <1>1. d = None <=> K = {} BY DelayForWheel
  <1>2. d # None => \A k \in K : d.at <= D[k] BY DelayForWheel
  <1> HIDE DEF d
  <1>3. Covers(d, K, D) BY <1>1, <1>2 DEF Covers
  <1>4. QED BY <1>3 DEF d

\* After insert_at the delay covers the new entry too (delay_queue.rs 554-573).
LEMMA InsertCovers ==
    ASSUME IInv, AtCovers, NEW at \in Nat, NEW index \in Vacant(slab), QueueInsertAt(at, index)
    PROVE  AtCovers'
  <1> DEFINE when == NormalizeDeadline(at)
  <1>1. pc \in {"idle", "parked"} BY DEF QueueInsertAt
  <1>2. now \in Nat /\ wheel.elapsed \in Nat /\ SlabOK(slab) BY InvFacts DEF IInv, WheelInv
  <1>3. when \in Nat /\ wheel.elapsed <= when BY <1>2, NormalizeFacts
  <1>4. CASE Rejected(when)
    <2>1. Panic BY <1>4 DEF QueueInsertAt
    <2>2. pc' = "panicked" BY <2>1 DEF Panic, Stop
    <2>3. QED BY <2>2 DEF AtCovers
  <1>5. CASE ~Rejected(when)
    <2>1. PICK s : s = slab' OBVIOUS
    <2>2. SlabOK(s) /\ \E k \in Nat : WithEntry(slab, s, k, when)
      BY <1>5, <2>1, InsertAgrees DEF Agree
    <2>3. delay' = (IF ShouldSetDelay(when) THEN Sleep(when) ELSE delay)
      BY <1>5 DEF QueueInsertAt
    <2>4. PICK wn : wn = when OBVIOUS
    <2> HIDE DEF when
    <2>5. wn \in Nat /\ wheel.elapsed <= wn BY <1>3, <2>4
    <2>6. PICK k \in Nat : WithEntry(slab, s, k, wn) BY <2>2, <2>4
    <2> DEFINE K == AheadOf(slab)
               D == DeadlinesOf(slab)
               L == AheadOf(s)
               E == DeadlinesOf(s)
    <2>7. Covers(delay, K, D) BY <1>1, <1>2, CoversNow
    <2>8. L \subseteq K \cup {k} /\ E[k] = wn /\ \A j \in K : E[j] = D[j]
      BY <2>6, <1>2, SlabSets DEF WithEntry
    <2>9. \A j \in K : D[j] \in Nat BY <1>2, SlabSets
    <2> HIDE DEF K, D, L, E
    <2>10. CASE ShouldSetDelay(wn)
      <3>1. PICK d : d = Sleep(wn) OBVIOUS
      <3>2. d # None /\ d.at = wn BY <1>2, <2>5, <3>1, SleepFacts
      <3>3. \A j \in K : wn <= D[j]
        <4>1. SUFFICES ASSUME NEW j \in K PROVE wn <= D[j] OBVIOUS
        <4>2. delay # None /\ delay.at <= D[j] BY <2>7 DEF Covers
        <4>3. wn <= delay.at BY <1>1, <2>5, <2>10, <4>2, Should
        <4>4. delay.at \in Nat BY <4>2 DEF IInv, PlainInv, Sleeps
        <4>5. QED BY <4>2, <4>3, <4>4, <2>5, <2>9
      <3>4. Covers(d, L, E) BY <3>2, <3>3, <2>5, <2>8 DEF Covers
      <3>5. delay' = d BY <2>3, <2>4, <2>10, <3>1
      <3>6. QED BY <3>4, <3>5, <2>1, <2>2, CoversNext DEF L, E
    <2>11. CASE ~ShouldSetDelay(wn)
      <3>1. delay # None BY <2>11 DEF ShouldSetDelay
      <3>2. delay.at <= wn BY <2>5, <2>11, <3>1, NotShould
      <3>3. Covers(delay, L, E) BY <3>1, <3>2, <2>7, <2>8 DEF Covers
      <3>4. delay' = delay BY <2>3, <2>4, <2>11
      <3>5. QED BY <3>3, <3>4, <2>1, <2>2, CoversNext DEF L, E
    <2>12. QED BY <2>10, <2>11
  <1>6. QED BY <1>4, <1>5

\* After reset_at the delay covers the entry at its new deadline, but where there
\* is no delay to be set (delay_queue.rs 786-790).
LEMMA ResetCovers ==
    ASSUME IInv, AtCovers, NEW k \in Live(slab), NEW at \in Nat, QueueResetAt(k, at), ~ResetUndelayed
    PROVE  AtCovers'
  <1>1. CASE Rejected(NormalizeDeadline(at))
    <2>1. Panic BY <1>1, ResetFinds
    <2>2. pc' = "panicked" BY <2>1 DEF Panic, Stop
    <2>3. QED BY <2>2 DEF AtCovers
  <1>2. CASE ~Rejected(NormalizeDeadline(at))
    <2>1. PICK w, s : w = wheel' /\ s = slab' OBVIOUS
    <2>2. Agree(w, s, expired') /\ Live(s) = Live(slab) /\ pc = "idle" /\ delay' = ResetDelay(PollAt(w))
      BY <1>2, <2>1, ResetAgrees
    <2>3. SlabOK(s) /\ SlabOK(slab) /\ now \in Nat BY <2>2, InvFacts DEF Agree, IInv, WheelInv
    <2>4. Settling(w, AheadOf(s), DeadlinesOf(s)) BY <2>2, ExactSettling DEF Agree
    <2>5. CASE PollAt(w) # None /\ delay # None
      <3>1. delay' = SleepUntil(PollAt(w)) BY <2>2, <2>5 DEF ResetDelay, SleepUntil
      <3>2. Covers(SleepUntil(PollAt(w)), AheadOf(s), DeadlinesOf(s)) BY <2>3, <2>4, CoversWheel
      <3>3. QED BY <3>1, <3>2, <2>1, <2>3, CoversNext
    <2>6. CASE PollAt(w) = None
      <3>1. AheadOf(s) = {} BY <2>3, <2>4, <2>6, DelayForWheel
      <3>2. QED BY <3>1, <2>1, <2>3, CoversNext DEF Covers
    <2>7. CASE delay = None
      <3>1. AheadOf(slab) = {} BY <2>2, <2>3, <2>7, CoversNow DEF Covers
      <3>2. Ahead = {} /\ Ahead' = AheadOf(s) BY <3>1, <2>1 DEF Ahead, AheadOf
      <3>3. \A j \in Live(slab) : j \notin AheadOf(s) BY <2>7, <3>2 DEF ResetUndelayed
      <3>4. AheadOf(s) \subseteq Live(slab) BY <2>2 DEF AheadOf
      <3>5. AheadOf(s) = {} BY <3>3, <3>4
      <3>6. QED BY <3>5, <2>1, <2>3, CoversNext DEF Covers
    <2>8. QED BY <2>5, <2>6, <2>7
  <1>3. QED BY <1>1, <1>2

\* remove leaves the delay where it was or sets it for the next deadline
\* (delay_queue.rs 726-732).
LEMMA RemoveCovers ==
    ASSUME IInv, IInv', AtCovers, NEW k \in Live(slab), QueueRemove(k)
    PROVE  AtCovers'
  <1>1. /\ pc = "idle" /\ slab' = SlabRemove(slab, k)
        /\ delay' = IF PollAt(wheel') = PollAt(wheel) THEN delay ELSE SleepUntil(PollAt(wheel'))
    BY DEF QueueRemove
  <1>2. SlabOK(slab) /\ now \in Nat BY InvFacts DEF IInv, WheelInv
  <1>3. PICK w, s : w = wheel' /\ s = slab' OBVIOUS
  <1>4. /\ SlabOK(s)
        /\ \A j \in Live(slab) \ {k} : DeadlinesOf(s)[j] = DeadlinesOf(slab)[j]
        /\ AheadOf(s) = AheadOf(slab) \ {k}
    BY <1>1, <1>2, <1>3, SlabTake
  <1>5. AheadOf(slab) \subseteq Live(slab) BY <1>2, SlabSets
  <1>6. CASE delay' = delay
    <2>1. Covers(delay, AheadOf(slab), DeadlinesOf(slab)) BY <1>1, <1>2, CoversNow
    <2>2. \A j \in AheadOf(s) : DeadlinesOf(s)[j] = DeadlinesOf(slab)[j] BY <1>4, <1>5
    <2>3. AheadOf(s) \subseteq AheadOf(slab) BY <1>4
    <2>4. Covers(delay, AheadOf(s), DeadlinesOf(s)) BY <2>1, <2>2, <2>3, CoversFewer
    <2>5. QED BY <1>3, <1>4, <1>6, <2>4, CoversNext
  <1>7. CASE delay' = SleepUntil(PollAt(w)) /\ pc' = "idle"
    <2>1. Exact(w, AheadOf(s), DeadlinesOf(s)) BY <1>3, <1>7 DEF IInv, WheelInv
    <2>2. Covers(SleepUntil(PollAt(w)), AheadOf(s), DeadlinesOf(s))
      BY <2>1, <1>2, ExactSettling, CoversWheel
    <2>3. QED BY <1>3, <1>4, <1>7, <2>2, CoversNext
  <1>8. pc' = "idle" \/ pc' = "asserted" BY DEF QueueRemove
  <1>9. CASE pc' = "asserted" BY <1>9 DEF AtCovers
  <1>10. QED BY <1>1, <1>3, <1>6, <1>7, <1>8, <1>9

\* When poll_expired returns, the delay covers what it left in the wheel
\* (delay_queue.rs 1036-1048).
LEMMA PollCovers ==
    ASSUME IInv, IInv', AtCovers, Poll
    PROVE  AtCovers'
  <1>1. SlabOK(slab) /\ SlabOK(slab') /\ now \in Nat BY InvFacts DEF IInv, WheelInv
  <1>2. PICK w, s : w = wheel' /\ s = slab' OBVIOUS
  <1>3. CASE PollExpired
    <2>1. pc = "idle" /\ delay' = delay BY <1>3 DEF PollExpired
    <2>2. Covers(delay, AheadOf(slab), DeadlinesOf(slab)) BY <1>1, <2>1, CoversNow
    <2>3. CASE expired # <<>>
      <3>1. PICK k : k = Head(expired) OBVIOUS
      <3>2. s = SlabRemove(slab, k) BY <1>2, <1>3, <2>3, <3>1 DEF PollExpired, Return
      <3>3. k \in Overdue(slab) BY <2>1, <2>3, <3>1, HeadAgrees, InvFacts
      <3>4. AheadOf(slab) \subseteq Live(slab) /\ k \in Live(slab) /\ k \notin AheadOf(slab)
        BY <1>1, <3>3, SlabSets
      <3>5. AheadOf(s) = AheadOf(slab) \ {k} /\ \A j \in Live(slab) \ {k} : DeadlinesOf(s)[j] = DeadlinesOf(slab)[j]
        BY <1>1, <3>2, <3>4, SlabTake
      <3>6. AheadOf(s) \subseteq AheadOf(slab) /\ \A j \in AheadOf(s) : DeadlinesOf(s)[j] = DeadlinesOf(slab)[j]
        BY <3>4, <3>5
      <3>7. Covers(delay, AheadOf(s), DeadlinesOf(s)) BY <2>2, <3>6, CoversFewer
      <3>8. QED BY <1>1, <1>2, <2>1, <3>7, CoversNext
    <2>4. CASE expired = <<>>
      <3>1. slab' = slab BY <1>3, <2>4 DEF PollExpired
      <3>2. QED BY <1>1, <2>1, <2>2, <3>1, CoversNext
    <2>5. QED BY <2>3, <2>4
  <1>4. CASE PollDelay
    <2>1. pc = "delay" /\ slab' = slab BY <1>4 DEF PollDelay
    <2>2. Covers(delay, AheadOf(slab), DeadlinesOf(slab)) BY <1>1, <2>1, CoversNow
    <2>3. CASE pc' = "parked" /\ delay # None /\ delay' = [delay EXCEPT !.hooked = TRUE]
      <3>1. delay \in Sleeps /\ delay' \in Sleeps \cup {None} BY <2>3 DEF IInv, PlainInv
      <3>2. PICK d : d = delay' /\ d = [delay EXCEPT !.hooked = TRUE] BY <2>3
      <3>3. d.at = delay.at /\ d \in Sleeps BY <3>1, <3>2 DEF Sleeps
      <3>4. d # None BY <3>3, NoneAssumption
      <3>5. Covers(d, AheadOf(slab), DeadlinesOf(slab)) BY <2>2, <3>3, <3>4 DEF Covers
      <3>6. QED BY <1>1, <2>1, <3>2, <3>5, CoversNext
    <2>4. CASE pc' = "wheel" BY <2>4 DEF AtCovers
    <2>5. QED BY <1>4, <2>3, <2>4 DEF PollDelay
  <1>5. CASE PollWheel
    <2>1. CASE delay' = SleepUntil(PollAt(w)) /\ pc' \in {"idle", "delay"}
      <3>1. Exact(w, AheadOf(s), DeadlinesOf(s)) BY <1>2, <2>1 DEF IInv, WheelInv
      <3>2. Covers(SleepUntil(PollAt(w)), AheadOf(s), DeadlinesOf(s))
        BY <1>1, <3>1, ExactSettling, CoversWheel
      <3>3. QED BY <1>1, <1>2, <2>1, <3>2, CoversNext
    <2>2. CASE pc' \in {"cascade", "asserted"} BY <2>2 DEF AtCovers
    <2>3. \/ delay' = SleepUntil(PollAt(w)) /\ pc' \in {"idle", "delay"}
          \/ pc' \in {"cascade", "asserted"}
      BY <1>2, <1>5 DEF PollWheel, Return
    <2>4. QED BY <2>1, <2>2, <2>3
  <1>6. CASE PollExpiration
    <2>1. pc' \in {"cascade", "wheel", "asserted"} BY <1>6 DEF PollExpiration
    <2>2. QED BY <2>1 DEF AtCovers
  <1>7. QED BY <1>3, <1>4, <1>5, <1>6 DEF Poll

\* clear, compact, the host and the clock leave the delay ahead.
LEMMA OtherCovers ==
    ASSUME IInv, IInv', AtCovers, Clear \/ (\E moved \in Remappings(slab) : Compact(moved)) \/ Tick
                                     \/ HostAnswers \/ WokenOtherwise
    PROVE  AtCovers'
  <1>1. SlabOK(slab) /\ SlabOK(slab') /\ MaxEntries \in Nat BY InvFacts DEF IInv, WheelInv
  <1>2. CASE Clear
    <2>1. PICK s : s = slab' OBVIOUS
    <2>2. Live(s) = {} BY <1>1, <1>2, <2>1, SlabClearOK DEF Clear
    <2>3. AheadOf(s) = {} BY <2>2 DEF AheadOf
    <2>4. QED BY <1>1, <2>1, <2>3, CoversNext DEF Covers
  <1>3. ASSUME NEW moved \in Remappings(slab), Compact(moved) PROVE AtCovers'
    <2>1. pc = "idle" /\ delay' = delay /\ slab' = SlabCompact(slab, moved) BY <1>3 DEF Compact
    <2>2. AheadOf(slab') = AheadOf(slab) /\ DeadlinesOf(slab') = DeadlinesOf(slab)
      BY <1>1, <1>3, <2>1, CompactSame
    <2>3. Covers(delay, AheadOf(slab), DeadlinesOf(slab)) BY <1>1, <2>1, CoversNow
    <2>4. QED BY <1>1, <2>1, <2>2, <2>3, CoversNext
  <1>4. CASE Tick \/ WokenOtherwise
    <2>1. UNCHANGED <<slab, delay>> /\ (pc' = pc \/ pc = "parked")
      BY <1>4 DEF Tick, WokenOtherwise
    <2>2. CASE pc' \in {"idle", "parked", "delay"}
      <3>1. pc \in {"idle", "parked", "delay"} BY <2>1, <2>2
      <3>2. Covers(delay, AheadOf(slab), DeadlinesOf(slab)) BY <1>1, <3>1, CoversNow
      <3>3. QED BY <1>1, <2>1, <3>2, CoversNext
    <2>3. CASE pc' \notin {"idle", "parked", "delay"} BY <2>3 DEF AtCovers
    <2>4. QED BY <2>2, <2>3
  <1>5. CASE HostAnswers
    <2>1. pc \in {"idle", "parked"} /\ delay # None /\ delay' = [delay EXCEPT !.fired = TRUE] /\ slab' = slab
      BY <1>5 DEF HostAnswers
    <2>2. Covers(delay, AheadOf(slab), DeadlinesOf(slab)) BY <1>1, <2>1, CoversNow
    <2>3. delay \in Sleeps BY <2>1 DEF IInv, PlainInv
    <2>4. PICK d : d = delay' /\ d = [delay EXCEPT !.fired = TRUE] BY <2>1
    <2>5. d.at = delay.at /\ d \in Sleeps BY <2>3, <2>4 DEF Sleeps
    <2>6. d # None BY <2>5, NoneAssumption
    <2>7. Covers(d, AheadOf(slab), DeadlinesOf(slab)) BY <2>2, <2>5, <2>6 DEF Covers
    <2>8. QED BY <1>1, <2>1, <2>4, <2>7, CoversNext
  <1>6. QED BY <1>2, <1>3, <1>4, <1>5

\* A step of nothing leaves the delay ahead.
LEMMA StutterCovers ==
    ASSUME AtCovers, UNCHANGED vars
    PROVE  AtCovers'
  BY DEF vars, AtCovers, Ahead, Deadline

\* No step but a reset_at without a delay leaves the delay behind.
LEMMA CoversStep ==
    ASSUME IInv, AtCovers, ~ResetUndelayed, [Next]_vars
    PROVE  AtCovers'
  <1>1. IInv' BY NextStep
  <1>2. CASE Operation
    <2>1. ASSUME NEW at \in Instants, NEW index \in Vacant(slab), QueueInsertAt(at, index) PROVE AtCovers'
      <3>1. at \in Nat BY DelayQueueAssumption
      <3>2. QED BY <2>1, <3>1, InsertCovers
    <2>2. ASSUME NEW at \in Instants, NEW k \in Live(slab), QueueResetAt(k, at) PROVE AtCovers'
      <3>1. at \in Nat BY DelayQueueAssumption
      <3>2. QED BY <2>2, <3>1, ResetCovers
    <2>3. ASSUME NEW k \in Live(slab), QueueRemove(k) PROVE AtCovers'
      BY <1>1, <2>3, RemoveCovers
    <2>4. QED BY <1>1, <1>2, <2>1, <2>2, <2>3, OtherCovers DEF Operation
  <1>3. CASE Poll BY <1>1, <1>3, PollCovers
  <1>4. CASE Tick \/ HostAnswers \/ WokenOtherwise BY <1>1, <1>4, OtherCovers
  <1>5. CASE UNCHANGED vars BY <1>5, StutterCovers
  <1>6. QED BY <1>2, <1>3, <1>4, <1>5 DEF Next, Progress

\* The host may answer a delay that ends by a deadline no later than that deadline: the
\* delay it is given is rounded down (delay.rs 11-14).
LEMMA FiresBy ==
    ASSUME NEW d, NEW t \in Nat, NEW u \in Nat, SleepOK(d, u), d.at <= t
    PROVE  d.fireAt <= t * Unit
  <1>1. d.at \in Nat /\ d.fireAt \in Nat /\ d.fireAt <= d.at * Unit BY DEF SleepOK, Sleeps
  <1>2. PICK a \in Nat, v \in Nat : a = d.at /\ v = Unit BY <1>1, DelayQueueAssumption
  <1>3. a * v <= t * v BY <1>2
  <1>4. QED BY <1>1, <1>2, <1>3

\* So the delay and its answer are ahead of the entries when the delay is.
LEMMA AnswerInTime ==
    ASSUME IInv
    PROVE  DelayCovers <=> AtCovers
  <1>1. SlabOK(slab) BY DEF IInv, WheelInv
  <1>2. ASSUME delay # None, NEW k \in Ahead, delay.at <= Deadline(k)
        PROVE  delay.fireAt <= Deadline(k) * Unit
    <2>1. SleepOK(delay, now) BY <1>2 DEF IInv, DelayInv
    <2>2. Deadline(k) \in Nat BY <1>1, SlabSets DEF Deadline, Ahead
    <2>3. PICK t \in Nat : t = Deadline(k) BY <2>2
    <2>4. now \in Nat BY InvFacts
    <2>5. QED BY <1>2, <2>1, <2>3, <2>4, FiresBy
  <1>3. QED BY <1>2 DEF DelayCovers, AtCovers

\* The delay and the host's answer to it stay ahead of the entries whatever is
\* inserted, removed, reset or polled; only reset_at with no delay set may leave
\* them behind (delay_queue.rs 554-573, 726-732, 786-790, 1038, delay.rs 11-14).
THEOREM DelayIsKept == Spec => DelayKept
  <1>1. IInv /\ [Next]_vars => [AtCovers /\ ~ResetUndelayed => AtCovers']_vars
    BY CoversStep
  <1>2. IInv => (DelayCovers <=> AtCovers) BY AnswerInTime
  <1>3. QED BY <1>1, <1>2, InductiveInvariant, PTL DEF Spec, DelayKept

\* A new queue has nothing to cover.
LEMMA InitCovers == ASSUME Init PROVE AtCovers
  <1>1. SlabOK(slab) /\ Live(slab) = {} BY NewSlabOK DEF Init
  <1>2. Ahead = {} BY <1>1 DEF Ahead
  <1>3. QED BY <1>2 DEF AtCovers

\* A delay that is ahead of the entries, when the task parks, ends no later than
\* the first of them.
LEMMA CoversParked ==
    ASSUME IInv, AtCovers
    PROVE  ParkedOnTime
  <1>1. SUFFICES ASSUME pc = "parked", Live(slab) # {}
                 PROVE  /\ delay # None
                        /\ delay.hooked
                        /\ \A k \in Live(slab) : delay.fireAt <= Deadline(k) * Unit
    BY DEF ParkedOnTime
  <1>2. delay # None /\ delay.hooked /\ \A k \in Overdue(slab) : delay.at <= DeadlinesOf(slab)[k]
    BY <1>1 DEF IInv, ParkInv
  <1>3. SlabOK(slab) BY DEF IInv, WheelInv
  <1>4. Covers(delay, AheadOf(slab), DeadlinesOf(slab)) BY <1>1, <1>3, CoversNow
  <1>5. ASSUME NEW k \in Live(slab) PROVE delay.fireAt <= Deadline(k) * Unit
    <2>1. DeadlinesOf(slab)[k] = Deadline(k) /\ Deadline(k) \in Nat
      BY <1>3, SlabSets DEF Deadline
    <2>2. k \in AheadOf(slab) \/ k \in Overdue(slab) BY <1>3, SlabSets
    <2>3. delay.at <= Deadline(k)
      <3>1. CASE k \in Overdue(slab) BY <3>1, <1>2, <2>1
      <3>2. CASE k \in AheadOf(slab) BY <3>2, <1>4, <2>1 DEF Covers
      <3>3. QED BY <2>2, <3>1, <3>2
    <2>4. SleepOK(delay, now) /\ now \in Nat BY <1>2, InvFacts DEF IInv, DelayInv
    <2>5. PICK t \in Nat : t = Deadline(k) BY <2>1
    <2>6. QED BY <2>3, <2>4, <2>5, FiresBy
  <1>6. QED BY <1>2, <1>5

\* Unless reset_at moves an overdue entry ahead while no delay is set, a parked task
\* is woken no later than its first deadline, as "the current task will be
\* notified once the deadline has been reached" says (delay_queue.rs 41-42).
THEOREM ParkedInTime == Spec /\ [][~ResetUndelayed]_vars => []ParkedOnTime
  <1>1. Init => IInv /\ AtCovers BY InitStep, InitCovers
  <1>2. IInv /\ AtCovers /\ [Next]_vars /\ [~ResetUndelayed]_vars => (IInv /\ AtCovers)'
    <2>1. SUFFICES ASSUME IInv, AtCovers, [Next]_vars, [~ResetUndelayed]_vars PROVE (IInv /\ AtCovers)'
      OBVIOUS
    <2>2. IInv' BY <2>1, NextStep
    <2>3. CASE ~ResetUndelayed BY <2>1, <2>2, <2>3, CoversStep
    <2>4. CASE UNCHANGED vars BY <2>1, <2>2, <2>4, StutterCovers
    <2>5. QED BY <2>1, <2>3, <2>4
  <1>3. IInv /\ AtCovers => ParkedOnTime BY CoversParked
  <1>4. QED BY <1>1, <1>2, <1>3, PTL DEF Spec

-----------------------------------------------------------------------------
(* The queue implements the map of deadlines, step by step.                *)

\* The deadlines that the queue is mapped to.
LEMMA MapNow == Map!vars = <<DeadlineOf, returned, now>> /\ DeadlineOf = DeadlinesOf(slab)
  BY DEF Map!vars, DeadlineOf, DeadlinesOf, Deadline

\* A step that changes no entry, gives out none and takes no time is no step of
\* the map.
LEMMA MapStutter ==
    ASSUME UNCHANGED <<slab, returned, now>>
    PROVE  UNCHANGED Map!vars
  BY DEF Map!vars, DeadlineOf, Deadline

\* A new queue is an empty map.
LEMMA MapInit ==
    ASSUME Init
    PROVE  Map!Init
  <1>1. Live(slab) = {} BY NewSlabOK DEF Init
  <1>2. DeadlineOf = <<>>
    <2>1. PICK f : f = <<>> OBVIOUS
    <2>2. DOMAIN f = {} /\ f = [i \in DOMAIN f |-> f[i]] BY <2>1
    <2>3. DeadlineOf = f BY <1>1, <2>2 DEF DeadlineOf
    <2>4. QED BY <2>1, <2>3
  <1>3. QED BY <1>2 DEF Map!Init, Init

\* What the steps of the map say of two slabs.
Kept(s, n, k) ==
    /\ Live(n) \ {k} = Live(s) \ {k}
    /\ \A j \in Live(s) \ {k} : DeadlinesOf(n)[j] = DeadlinesOf(s)[j]

\* A step that changes one entry of the slab changes that entry of the map.
LEMMA MapBecomes ==
    ASSUME NEW k, Kept(slab, slab', k), now' = now
    PROVE  Map!Becomes(Live(slab'), k)
  <1>1. PICK L, M : L = DeadlineOf /\ M = DeadlineOf' OBVIOUS
  <1>2. PICK s, n : s = slab /\ n = slab' OBVIOUS
  <1>3. L = DeadlinesOf(s) /\ M = DeadlinesOf(n)
    BY <1>1, <1>2 DEF DeadlineOf, DeadlinesOf, Deadline
  <1>4. DOMAIN L = Live(s) /\ DOMAIN M = Live(n) BY <1>3 DEF DeadlinesOf
  <1>5. \A j \in Live(s) \ {k} : M[j] = L[j] BY <1>2, <1>3 DEF Kept
  <1>6. QED BY <1>1, <1>2, <1>4, <1>5 DEF Map!Becomes, Map!Others

\* The keys of the map are the valid keys.
LEMMA MapDomains ==
    /\ DOMAIN DeadlineOf = Live(slab)
    /\ DOMAIN DeadlineOf' = Live(slab')
    /\ \A k : Map!Others(k) = Live(slab) \ {k}
  BY DEF DeadlineOf, Map!Others

\* A deadline that the wheel has reached is less than a millisecond ahead.
LEMMA NotEarly ==
    ASSUME IInv, NEW t \in Nat, t <= wheelNow
    PROVE  t * Unit < now + Unit
  <1>1. wheelNow \in Nat /\ now \in Nat /\ Unit \in Nat BY InvFacts DEF IInv, PlainInv
  <1>2. PICK a \in Nat, u \in Nat, m \in Nat : a = wheelNow /\ u = Unit /\ m = now BY <1>1
  <1>3. a * u < m + u BY <1>2 DEF IInv, ClockInv
  <1>4. t * u <= a * u BY <1>2
  <1>5. t * u \in Nat /\ a * u \in Nat BY <1>2
  <1> DEFINE x == t * u
             y == a * u
  <1>6. x \in Nat /\ y \in Nat /\ x <= y /\ y < m + u BY <1>3, <1>4, <1>5
  <1> HIDE DEF x, y
  <1>7. x < m + u BY <1>2, <1>6
  <1>8. QED BY <1>2, <1>7 DEF x

\* normalize_deadline gives a deadline no earlier than the instant asked for, and less
\* than a millisecond after it or after now (delay_queue.rs 1051-1059).
LEMMA NormalizeOnTime ==
    ASSUME IInv, NEW at \in Nat
    PROVE  Map!Rounded(NormalizeDeadline(at), at)
  <1>1. Unit \in Nat \ {0} /\ wheel.elapsed \in Nat /\ now \in Nat BY InvFacts
  <1>2. PICK a \in Nat : a = at + Unit - 1 BY <1>1
  <1>3. PICK q \in Nat : q = a \div Unit /\ Unit * q <= a /\ a < Unit * q + Unit BY <1>1, DivBounds
  <1>4. NormalizeDeadline(at) = IF q >= wheel.elapsed THEN q ELSE wheel.elapsed
    BY <1>2, <1>3 DEF NormalizeDeadline
  <1>5. PICK x \in Nat : x = q * Unit /\ x = Unit * q BY <1>1
  <1>6. at <= x /\ x < at + Unit BY <1>1, <1>2, <1>3, <1>5
  <1>7. CASE q >= wheel.elapsed
    <2>1. NormalizeDeadline(at) = q BY <1>4, <1>7
    <2>2. Map!Rounded(q, at) BY <1>5, <1>6 DEF Map!Rounded
    <2>3. QED BY <2>1, <2>2
  <1>8. CASE ~(q >= wheel.elapsed)
    <2>1. PICK t \in Nat : t = wheel.elapsed BY <1>1
    <2>2. NormalizeDeadline(at) = t BY <1>4, <1>8, <2>1
    <2>3. q <= t BY <1>8, <2>1
    <2>4. q * Unit <= t * Unit
      <3>1. PICK u \in Nat : u = Unit BY <1>1
      <3>2. q * u <= t * u BY <2>3
      <3>3. QED BY <3>1, <3>2
    <2>5. PICK y \in Nat : y = t * Unit BY <1>1
    <2>6. at <= y BY <1>5, <1>6, <2>4, <2>5
    <2>7. t <= wheelNow BY <2>1 DEF IInv, ClockInv
    <2>8. y < now + Unit BY <2>5, <2>7, NotEarly
    <2>9. Map!Rounded(t, at) BY <2>5, <2>6, <2>8 DEF Map!Rounded
    <2>10. QED BY <2>2, <2>9
  <1>9. QED BY <1>7, <1>8

\* insert_at inserts a key, or panics and changes nothing.
LEMMA MapInsert ==
    ASSUME IInv, NEW at \in Instants, at \in Nat, NEW index \in Vacant(slab), QueueInsertAt(at, index)
    PROVE  [Map!Next]_(Map!vars)
  <1>1. CASE Rejected(NormalizeDeadline(at))
    <2>1. Panic BY <1>1 DEF QueueInsertAt
    <2>2. QED BY <2>1, MapStutter DEF Panic, Stop
  <1>2. CASE ~Rejected(NormalizeDeadline(at))
    <2>1. PICK n : n = slab' OBVIOUS
    <2>2. PICK k \in Nat : WithEntry(slab, n, k, NormalizeDeadline(at))
      BY <1>2, <2>1, InsertAgrees
    <2>3. returned' = None /\ now' = now BY <1>2 DEF QueueInsertAt
    <2>4. k \notin Live(slab) /\ Live(n) = Live(slab) \cup {k} BY <2>2 DEF WithEntry
    <2>5. Kept(slab, n, k) BY <2>2, <2>4 DEF WithEntry, Kept
    <2>6. Map!Becomes(Live(slab'), k) BY <2>1, <2>3, <2>5, MapBecomes
    <2>7. Map!Rounded(DeadlineOf'[k], at)
      <3>1. DeadlineOf' = DeadlinesOf(n) BY <2>1 DEF DeadlineOf, DeadlinesOf, Deadline
      <3>2. DeadlineOf'[k] = NormalizeDeadline(at) BY <3>1, <2>2 DEF WithEntry
      <3>3. QED BY <3>2, NormalizeOnTime
    <2>8. Map!Insert(k, at) /\ k \in DOMAIN DeadlineOf'
      BY <2>1, <2>3, <2>4, <2>6, <2>7, MapDomains DEF Map!Insert
    <2>9. QED BY <2>8 DEF Map!Next
  <1>3. QED BY <1>1, <1>2

\* reset_at resets its key, or panics.
LEMMA MapReset ==
    ASSUME IInv, NEW k \in Live(slab), NEW at \in Instants, at \in Nat, QueueResetAt(k, at)
    PROVE  [Map!Next]_(Map!vars)
  <1>1. CASE Rejected(NormalizeDeadline(at))
    <2>1. Panic BY <1>1, ResetFinds
    <2>2. QED BY <2>1, MapStutter DEF Panic, Stop
  <1>2. CASE ~Rejected(NormalizeDeadline(at))
    <2>1. PICK n : n = slab' OBVIOUS
    <2>2. /\ Live(n) = Live(slab)
          /\ DeadlinesOf(n)[k] = NormalizeDeadline(at)
          /\ \A j \in Live(slab) \ {k} : DeadlinesOf(n)[j] = DeadlinesOf(slab)[j]
          /\ returned' = None /\ now' = now
      BY <1>2, <2>1, ResetAgrees
    <2>3. Kept(slab, n, k) BY <2>2 DEF Kept
    <2>4. Map!Becomes(Live(slab'), k) BY <2>1, <2>2, <2>3, MapBecomes
    <2>5. Map!Rounded(DeadlineOf'[k], at)
      <3>1. DeadlineOf' = DeadlinesOf(n) BY <2>1 DEF DeadlineOf, DeadlinesOf, Deadline
      <3>2. DeadlineOf'[k] = NormalizeDeadline(at) BY <3>1, <2>2
      <3>3. QED BY <3>2, NormalizeOnTime
    <2>6. Map!Reset(k, at) /\ k \in DOMAIN DeadlineOf
      BY <2>1, <2>2, <2>4, <2>5, MapDomains DEF Map!Reset
    <2>7. QED BY <2>6 DEF Map!Next
  <1>3. QED BY <1>1, <1>2

\* An entry is taken out of the slab.
LEMMA KeptWithout ==
    ASSUME NEW s, SlabOK(s), NEW k \in Live(s), NEW n, n = SlabRemove(s, k)
    PROVE  Kept(s, n, k) /\ Live(n) = Live(s) \ {k}
  <1>1. Live(n) = Live(s) \ {k} BY SlabTake
  <1>2. \A j \in Live(s) \ {k} : DeadlinesOf(n)[j] = DeadlinesOf(s)[j] BY SlabTake
  <1>3. QED BY <1>1, <1>2 DEF Kept

\* remove removes its key.
LEMMA MapRemove ==
    ASSUME IInv, NEW k \in Live(slab), QueueRemove(k)
    PROVE  Map!Next
  <1>1. slab' = SlabRemove(slab, k) /\ returned' = None /\ now' = now BY DEF QueueRemove
  <1>2. PICK n : n = slab' OBVIOUS
  <1>3. SlabOK(slab) BY DEF IInv, WheelInv
  <1>4. Kept(slab, n, k) /\ Live(n) = Live(slab) \ {k} BY <1>1, <1>2, <1>3, KeptWithout
  <1>5. Map!Becomes(Live(slab'), k) BY <1>1, <1>2, <1>4, MapBecomes
  <1>6. Map!Remove(k) /\ k \in DOMAIN DeadlineOf
    BY <1>1, <1>2, <1>4, <1>5, MapDomains DEF Map!Remove
  <1>7. QED BY <1>6 DEF Map!Next

\* An entry that is the earliest and not early is given out as the map does.
LEMMA MapExpire ==
    ASSUME IInv, NEW k \in Live(slab), slab' = SlabRemove(slab, k), returned' = k, now' = now,
           \A j \in Live(slab) : DeadlinesOf(slab)[k] <= DeadlinesOf(slab)[j],
           DeadlinesOf(slab)[k] * Unit < now + Unit
    PROVE  Map!Next
  <1>1. PICK n : n = slab' OBVIOUS
  <1>2. SlabOK(slab) BY DEF IInv, WheelInv
  <1>3. Kept(slab, n, k) /\ Live(n) = Live(slab) \ {k} BY <1>1, <1>2, KeptWithout
  <1>4. Map!Becomes(Live(slab'), k) BY <1>1, <1>3, MapBecomes
  <1>5. Map!Expire(k) /\ k \in DOMAIN DeadlineOf
    BY <1>1, <1>3, <1>4, MapDomains, MapNow DEF Map!Expire
  <1>6. QED BY <1>5 DEF Map!Next

\* What poll_expired gives out of the stack is the earliest entry, not early.
LEMMA MapPollExpired ==
    ASSUME IInv, PollExpired
    PROVE  Map!Next
  <1>1. pc = "idle" /\ now' = now BY DEF PollExpired
  <1>2. Agree(wheel, slab, expired) /\ SlabOK(slab) BY <1>1, InvFacts DEF Agree
  <1>3. CASE expired # <<>>
    <2>1. PICK k : k = Head(expired) OBVIOUS
    <2>2. slab' = SlabRemove(slab, k) /\ returned' = k BY <1>3, <2>1 DEF PollExpired, Return
    <2>3. k \in Overdue(slab) /\ k \in Live(slab) BY <1>2, <1>3, <2>1, HeadAgrees, SlabSets
    <2>4. \A j \in Overdue(slab) : DeadlinesOf(slab)[j] = wheel.elapsed
      BY <1>2 DEF Agree, StackOK
    <2>5. \A j \in AheadOf(slab) : wheel.elapsed <= DeadlinesOf(slab)[j]
      BY <1>2, ExactHome DEF Agree
    <2>6. wheel.elapsed \in Nat /\ wheel.elapsed <= wheelNow BY InvFacts DEF IInv, ClockInv
    <2>7. \A j \in Live(slab) : DeadlinesOf(slab)[k] <= DeadlinesOf(slab)[j]
      <3>1. SUFFICES ASSUME NEW j \in Live(slab) PROVE wheel.elapsed <= DeadlinesOf(slab)[j]
        BY <2>3, <2>4
      <3>2. j \in AheadOf(slab) \/ j \in Overdue(slab) BY <1>2, SlabSets
      <3>3. QED BY <2>4, <2>5, <2>6, <3>2
    <2>8. DeadlinesOf(slab)[k] * Unit < now + Unit
      <3>1. PICK t \in Nat : t = wheel.elapsed BY <2>6
      <3>2. t * Unit < now + Unit BY <2>6, <3>1, NotEarly
      <3>3. QED BY <2>3, <2>4, <3>1, <3>2
    <2>9. QED BY <1>1, <2>2, <2>3, <2>7, <2>8, MapExpire
  <1>4. CASE expired = <<>>
    <2>1. returned' = None /\ slab' = slab BY <1>4 DEF PollExpired
    <2>2. DeadlineOf' = DeadlineOf BY <2>1 DEF DeadlineOf, Deadline
    <2>3. Map!Forget BY <1>1, <2>1, <2>2 DEF Map!Forget
    <2>4. QED BY <2>3 DEF Map!Next
  <1>5. QED BY <1>3, <1>4

\* What the poll of the wheel gives out is the earliest entry, not early.
LEMMA MapPollWheel ==
    ASSUME IInv, PollWheel
    PROVE  [Map!Next]_(Map!vars)
  <1> DEFINE K == AheadOf(slab)
             D == DeadlinesOf(slab)
  <1>1. pc = "wheel" /\ now' = now BY DEF PollWheel
  <1>2. Overdue(slab) = {} BY <1>1, NoneOverdue
  <1>3. Settling(wheel, K, D) /\ SlabOK(slab) BY <1>1 DEF IInv, WheelInv
  <1>4. PICK e : e = NextExpiration(wheel) OBVIOUS
  <1>5. CASE Expires(wheel, wheelNow) /\ e.level = 0
    <2>1. PICK k : k = Head(wheel.slot[0][e.slot]) OBVIOUS
    <2>2. slab' = SlabRemove(slab, k) /\ returned' = k BY <1>4, <1>5, <2>1 DEF PollWheel, Return
    <2>3. Occupied(wheel) # {} /\ e.deadline <= wheelNow BY <1>4, <1>5 DEF Expires
    <2>4. \A j \in K \ {k} : D[j] = D[j] OBVIOUS
    <2>5. k \in K /\ D[k] = e.deadline /\ \A j \in K : D[k] <= D[j]
      <3>1. PICK L, E : L = K /\ E = D OBVIOUS
      <3>2. Settling(wheel, L, E) BY <1>3, <3>1
      <3>3. PICK F : F = E OBVIOUS
      <3>4. \A j \in L \ {k} : F[j] = E[j] BY <3>3
      <3>5. NextExpiration(wheel).level = 0 /\ k = Head(wheel.slot[0][NextExpiration(wheel).slot])
        BY <1>4, <1>5, <2>1
      <3>6. Soonest(wheel, L, E, k) BY <2>3, <3>2, <3>5, <3>4, PopExact
      <3>7. QED BY <1>4, <3>1, <3>6 DEF Soonest
    <2>6. Live(slab) = K BY <1>2, <1>3, SlabSets
    <2>7. D[k] \in Nat BY <1>3, <2>5, <2>6, SlabSets
    <2>8. D[k] * Unit < now + Unit BY <2>3, <2>5, <2>7, NotEarly
    <2>9. QED BY <1>1, <2>2, <2>5, <2>6, <2>8, MapExpire
  <1>6. CASE Expires(wheel, wheelNow) /\ e.level > 0
    <2>1. e.level # 0 BY <1>6
    <2>2. UNCHANGED <<slab, returned>> BY <1>4, <1>6, <2>1 DEF PollWheel
    <2>3. QED BY <1>1, <2>2, MapStutter
  <1>7. CASE ~Expires(wheel, wheelNow)
    <2>1. UNCHANGED <<slab, returned>> BY <1>7 DEF PollWheel
    <2>2. QED BY <1>1, <2>1, MapStutter
  <1>8. QED BY <1>4, <1>5, <1>6, <1>7 DEF PollWheel

\* Every step of the queue is a step of the map, or none.
LEMMA MapStep ==
    ASSUME IInv, [Next]_vars
    PROVE  [Map!Next]_(Map!vars)
  <1>1. SlabOK(slab) /\ MaxEntries \in Nat /\ now \in Nat BY InvFacts DEF IInv, WheelInv
  <1>2. ASSUME NEW at \in Instants, NEW index \in Vacant(slab), QueueInsertAt(at, index) PROVE [Map!Next]_(Map!vars)
    <2>1. at \in Nat BY DelayQueueAssumption
    <2>2. QED BY <1>2, <2>1, MapInsert
  <1>3. ASSUME NEW at \in Instants, NEW k \in Live(slab), QueueResetAt(k, at) PROVE [Map!Next]_(Map!vars)
    <2>1. at \in Nat BY DelayQueueAssumption
    <2>2. QED BY <1>3, <2>1, MapReset
  <1>4. ASSUME NEW k \in Live(slab), QueueRemove(k) PROVE [Map!Next]_(Map!vars)
    BY <1>4, MapRemove
  <1>5. CASE Clear
    <2>1. PICK n : n = slab' OBVIOUS
    <2>2. Live(n) = {} BY <1>1, <1>5, <2>1, SlabClearOK DEF Clear
    <2>3. PICK f : f = <<>> OBVIOUS
    <2>4. DOMAIN f = {} /\ f = [i \in DOMAIN f |-> f[i]] BY <2>3
    <2>5. DeadlineOf' = f BY <2>1, <2>2, <2>4 DEF DeadlineOf
    <2>6. Map!Clear BY <1>5, <2>3, <2>5 DEF Map!Clear, Clear
    <2>7. QED BY <2>6 DEF Map!Next
  <1>6. ASSUME NEW moved \in Remappings(slab), Compact(moved) PROVE [Map!Next]_(Map!vars)
    <2>1. PICK n : n = slab' OBVIOUS
    <2>2. DeadlinesOf(n) = DeadlinesOf(slab) BY <1>1, <1>6, <2>1, CompactSame DEF Compact
    <2>3. DeadlineOf' = DeadlineOf BY <2>1, <2>2 DEF DeadlineOf, DeadlinesOf, Deadline
    <2>4. Map!Forget BY <1>6, <2>3 DEF Map!Forget, Compact
    <2>5. QED BY <2>4 DEF Map!Next
  <1>7. CASE Tick
    <2>1. UNCHANGED <<slab, returned>> /\ now' = now + 1 BY <1>7 DEF Tick
    <2>2. DeadlineOf' = DeadlineOf BY <2>1 DEF DeadlineOf, Deadline
    <2>3. Map!Tick BY <1>1, <2>1, <2>2 DEF Map!Tick
    <2>4. QED BY <2>3 DEF Map!Next
  <1>8. CASE HostAnswers \/ WokenOtherwise \/ PollDelay \/ PollExpiration \/ UNCHANGED vars
    <2>1. UNCHANGED <<slab, returned, now>>
      BY <1>8 DEF HostAnswers, WokenOtherwise, PollDelay, PollExpiration, vars
    <2>2. QED BY <2>1, MapStutter
  <1>9. CASE PollExpired BY <1>9, MapPollExpired
  <1>10. CASE PollWheel BY <1>10, MapPollWheel
  <1>11. QED
    BY <1>2, <1>3, <1>4, <1>5, <1>6, <1>7, <1>8, <1>9, <1>10 DEF Next, Operation, Progress, Poll

\* The queue is a map of deadlines: each operation changes its own entry alone, the
\* deadline of an entry is the instant asked for, or now, rounded up to a millisecond,
\* and poll_expired gives out the earliest entry, at most a millisecond early
\* (delay_queue.rs 40-59, 581-603, 1015-1059).
THEOREM DeadlineMapImplemented == Spec => ImplementsDeadlineMap
  <1>1. Init => Map!Init BY MapInit
  <1>2. IInv /\ [Next]_vars => [Map!Next]_(Map!vars) BY MapStep
  <1>3. QED BY <1>1, <1>2, InductiveInvariant, PTL DEF Spec, Map!Spec, ImplementsDeadlineMap
=============================================================================

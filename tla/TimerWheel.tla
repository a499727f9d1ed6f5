----------------------------- MODULE TimerWheel -----------------------------
(***************************************************************************)
(* The hashed timing wheel of src/pkg/wasm-delay-queue/src/wheel.  Time is *)
(* in milliseconds since the start of the queue.  Level l has Radix slots  *)
(* of Radix^l milliseconds; the code has Radix 64 and NumLevels 6.         *)
(*                                                                         *)
(* A slot is the sequence of keys of its linked list, the head first, and  *)
(* occupied[l] the set of the bits of the level's bit field.               *)
(***************************************************************************)
EXTENDS Naturals, Sequences, FiniteSets, SequencesExt

CONSTANTS
    Radix, NumLevels,
    None              \* no deadline

ASSUME WheelAssumption == /\ Radix \in Nat \ {0, 1}
                          /\ NumLevels \in Nat \ {0}

Levels == 0..(NumLevels - 1)
Slots  == 0..(Radix - 1)

\* LEVEL_MULT to the power of the level.
SlotRange[level \in 0..NumLevels] == IF level = 0 THEN 1 ELSE Radix * SlotRange[level - 1]
LevelRange(level) == Radix * SlotRange[level]
MaxDuration == SlotRange[NumLevels] - 1
SlotFor(when, level) == (when \div SlotRange[level]) % Radix

\* The highest digit in which the two times differ; NumLevels for any digit
\* beyond the last level.
LevelFor(elapsed, when) ==
    LET D == {l \in 0..NumLevels : elapsed \div SlotRange[l] # when \div SlotRange[l]} IN
    IF D = {} THEN 0 ELSE CHOOSE l \in D : \A m \in D : m <= l

NewWheel == [elapsed  |-> 0,
             slot     |-> [l \in Levels |-> [s \in Slots |-> <<>>]],
             occupied |-> [l \in Levels |-> {}]]

\* The operations of a list: entries are pushed and popped at its head.
Push(stack, k)   == <<k>> \o stack
Pop(stack)       == Tail(stack)
Unlink(stack, k) == RemoveFirst(stack, k)

AddEntry(w, level, when, k) ==
    LET s == SlotFor(when, level) IN
    [w EXCEPT !.slot[level][s] = Push(@, k), !.occupied[level] = @ \cup {s}]

\* Faulty: the bit of an emptied slot stays set.
RemoveEntry_KeepsBit(w, level, when, k) ==
    [w EXCEPT !.slot[level][SlotFor(when, level)] = Unlink(@, k)]

RemoveEntry(w, level, when, k) ==
    LET s == SlotFor(when, level)
        rest == Unlink(w.slot[level][s], k)
    IN [w EXCEPT !.slot[level][s] = rest,
                 !.occupied[level] = IF rest = <<>> THEN @ \ {s} ELSE @]

\* insert: only when the entry lies ahead and a level has a slot for it.
Elapsed(w, when) == when <= w.elapsed
Valid(w, when)   == /\ when - w.elapsed <= MaxDuration
                    /\ LevelFor(w.elapsed, when) \in Levels
WheelInsert(w, when, k) == AddEntry(w, LevelFor(w.elapsed, when), when, k)

\* remove: the entry is where its deadline and the elapsed time say.
Removable(w, when, k) ==
    /\ w.elapsed <= when
    /\ LevelFor(w.elapsed, when) \in Levels
    /\ Contains(w.slot[LevelFor(w.elapsed, when)][SlotFor(when, LevelFor(w.elapsed, when))], k)
WheelRemove(w, when, k) == RemoveEntry(w, LevelFor(w.elapsed, when), when, k)

\* The first occupied slot at or after that of the elapsed time, cyclically.
NextOccupiedSlot(w, level) ==
    LET nowSlot == w.elapsed \div SlotRange[level]
        zeros == CHOOSE i \in Slots :
                    /\ (nowSlot + i) % Radix \in w.occupied[level]
                    /\ \A j \in 0..(i - 1) : (nowSlot + j) % Radix \notin w.occupied[level]
    IN (nowSlot + zeros) % Radix

LevelExpiration(w, level) ==
    LET s == NextOccupiedSlot(w, level) IN
    [level |-> level, slot |-> s,
     deadline |-> w.elapsed - (w.elapsed % LevelRange(level)) + s * SlotRange[level]]

Occupied(w) == {l \in Levels : w.occupied[l] # {}}
NextExpiration(w) == LevelExpiration(w, CHOOSE l \in Occupied(w) : \A m \in Occupied(w) : l <= m)

\* poll_at.
PollAt(w) == IF Occupied(w) = {} THEN None ELSE NextExpiration(w).deadline

\* Is there something to do at time now.
Expires(w, now) == Occupied(w) # {} /\ NextExpiration(w).deadline <= now

\* set_elapsed; its assertion is checked by the caller's step.
SetElapsed(w, when) == [w EXCEPT !.elapsed = IF when > @ THEN when ELSE @]

\* poll_expiration on level 0: the head of the slot is returned.
PopEntry(w, e) ==
    LET rest == Pop(w.slot[e.level][e.slot]) IN
    [w EXCEPT !.slot[e.level][e.slot] = rest,
              !.occupied[e.level] = IF rest = <<>> THEN @ \ {e.slot} ELSE @]

\* Faulty: the entries go back to the level they came from.
NextLevel_Same(e) == e.level
NextLevel(e) == e.level - 1

\* poll_expiration above level 0: the head of the slot, with its deadline, is
\* popped and pushed on the next level down.
Cascade(w, e, when) ==
    AddEntry(PopEntry(w, e), NextLevel(e), when, Head(w.slot[e.level][e.slot]))
=============================================================================

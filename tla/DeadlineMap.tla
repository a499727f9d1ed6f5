---------------------------- MODULE DeadlineMap -----------------------------
(***************************************************************************)
(* What a DelayQueue promises (src/pkg/wasm-delay-queue/src/delay_queue.rs *)
(* lines 40 to 59): a map from keys to deadlines in milliseconds.  An      *)
(* operation changes the one entry it is about, to the instant asked for   *)
(* rounded up to a millisecond; poll_expired returns the earliest entry,   *)
(* less than one millisecond before its deadline at most.                  *)
(***************************************************************************)
EXTENDS Naturals

CONSTANTS None,
          Unit,     \* units of the clock in a millisecond
          Instants  \* the instants that may be asked for, in units

VARIABLES
    live,      \* deadline of each entry, in milliseconds
    returned,  \* the entry that poll_expired gave out, until the next call, or None
    now        \* the clock, in units

vars == <<live, returned, now>>

Init == live = <<>> /\ returned = None /\ now = 0

Others(k) == DOMAIN live \ {k}

\* The keys become K, and no entry but k's changes.
Becomes(K, k) == /\ DOMAIN live' = K
                 /\ \A j \in Others(k) : live'[j] = live[j]
                 /\ now' = now

\* The deadline t, in milliseconds, for the instant at: never before it, and less
\* than a millisecond after it, or after now where it has passed.
Rounded(t, at) == /\ at <= t * Unit
                  /\ t * Unit < at + Unit \/ t * Unit < now + Unit

Insert(k, at) == /\ k \notin DOMAIN live
                 /\ Becomes(DOMAIN live \cup {k}, k)
                 /\ Rounded(live'[k], at)
                 /\ returned' = None

Reset(k, at) == /\ k \in DOMAIN live
                /\ Becomes(DOMAIN live, k)
                /\ Rounded(live'[k], at)
                /\ returned' = None

Remove(k) == /\ k \in DOMAIN live
             /\ Becomes(Others(k), k)
             /\ returned' = None

Clear == live' = <<>> /\ returned' = None /\ now' = now

Expire(k) == /\ k \in DOMAIN live
             /\ \A j \in DOMAIN live : live[k] <= live[j]
             /\ live[k] * Unit < now + Unit
             /\ Becomes(Others(k), k)
             /\ returned' = k

Tick == now' > now /\ UNCHANGED <<live, returned>>

Forget == returned' = None /\ UNCHANGED <<live, now>>

Next == \/ \E at \in Instants : \/ \E k \in DOMAIN live' : Insert(k, at)
                                \/ \E k \in DOMAIN live : Reset(k, at)
        \/ \E k \in DOMAIN live : Remove(k) \/ Expire(k)
        \/ Clear \/ Forget \/ Tick

Spec == Init /\ [][Next]_vars
=============================================================================

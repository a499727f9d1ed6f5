---------------------------- MODULE ResultQueue ----------------------------
(***************************************************************************)
(* What the guest ABI promises: the results of a request reach whoever     *)
(* holds the request one by one, in the order in which they came, and none *)
(* is lost until the request is given up.                                  *)
(***************************************************************************)
EXTENDS Sequences

CONSTANTS Ids, Values, Nothing

VARIABLES
    held,   \* requests that someone still reads
    queue,  \* results that came and were not read
    got     \* the latest result read

vars == <<held, queue, got>>

Init == /\ held = {}
        /\ queue = [i \in Ids |-> <<>>]
        /\ got = [i \in Ids |-> Nothing]

Open(i) == /\ i \notin held
           /\ held' = held \cup {i}
           /\ got' = [got EXCEPT ![i] = Nothing]
           /\ UNCHANGED queue

Put(i) == /\ i \in held
          /\ \E v \in Values : queue' = [queue EXCEPT ![i] = Append(@, v)]
          /\ UNCHANGED <<held, got>>

\* The reader may be through with the request.
Take(i) == /\ i \in held
           /\ queue[i] # <<>>
           /\ got' = [got EXCEPT ![i] = Head(queue[i])]
           /\ queue' = [queue EXCEPT ![i] = Tail(@)]
           /\ held' \in {held, held \ {i}}

GiveUp(i) == /\ i \in held
             /\ held' = held \ {i}
             /\ queue' = [queue EXCEPT ![i] = <<>>]
             /\ UNCHANGED got

Next == \E i \in Ids : Open(i) \/ Put(i) \/ Take(i) \/ GiveUp(i)

Spec == Init /\ [][Next]_vars
=============================================================================

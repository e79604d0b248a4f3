---------------------------- MODULE OrderedQueue ----------------------------
(***************************************************************************)
(* What a weave domain needs of its event queue: events go in with the     *)
(* cycle at which they are due, never before the last one taken out, and   *)
(* come out in order of cycle.  Events of the same cycle come out in any   *)
(* order.                                                                  *)
(***************************************************************************)
EXTENDS Integers

CONSTANTS Events,
          Cycles    \* the cycles at which an event may be due, a set of integers

VARIABLES pending,  \* the set of <<cycle, event>> in the queue
          now       \* the cycle of the last event taken out

Init == pending = {} /\ now = 0

Enqueue(e, cycle) ==
    /\ \A p \in pending : p[2] # e
    /\ cycle >= now
    /\ pending' = pending \cup {<<cycle, e>>}
    /\ UNCHANGED now

Dequeue(p) ==
    /\ p \in pending
    /\ \A q \in pending : p[1] <= q[1]
    /\ pending' = pending \ {p}
    /\ now' = p[1]

Next == \/ \E e \in Events, cycle \in Cycles : Enqueue(e, cycle)
        \/ \E p \in pending : Dequeue(p)

Spec == Init /\ [][Next]_<<pending, now>>
=============================================================================

---------------------------- MODULE BoundedFifo -----------------------------
(***************************************************************************)
(* What a task queue promises: a first-in first-out buffer of at most      *)
(* Capacity items.  `got' is the item each consumer was given last.        *)
(***************************************************************************)
EXTENDS Naturals, Sequences

CONSTANTS Items, Consumers, Capacity, None

VARIABLES queue, got

Init == queue = <<>> /\ got = [c \in Consumers |-> None]

Put ==
    /\ Len(queue) < Capacity
    /\ \E x \in Items : queue' = Append(queue, x)
    /\ UNCHANGED got

Get(c) ==
    /\ queue # <<>>
    /\ queue' = Tail(queue)
    /\ got' = [got EXCEPT ![c] = Head(queue)]

Next == Put \/ \E c \in Consumers : Get(c)

Spec == Init /\ [][Next]_<<queue, got>>
=============================================================================

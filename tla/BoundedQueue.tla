---------------------------- MODULE BoundedQueue ----------------------------
(***************************************************************************)
(* What a producers-consumers buffer promises: a first-in first-out queue  *)
(* that never holds more than Capacity items.  Every item put is got at    *)
(* most once, in the order of the puts.  The promise is for the first      *)
(* Lifetime items: a buffer that wears out is not bound by it afterwards.  *)
(***************************************************************************)
EXTENDS Naturals, Sequences

CONSTANTS
    Items,      \* what can be put
    Takers,     \* who gets
    Capacity,   \* the size of the buffer
    Lifetime,   \* how many items can be put
    None        \* a taker that has got nothing yet

VARIABLES
    queue,      \* the items put and not yet got
    got,        \* the last item each taker got
    count       \* how many items were put

Init ==
    /\ queue = <<>>
    /\ got = [c \in Takers |-> None]
    /\ count = 0

Put(x) ==
    /\ Len(queue) < Capacity
    /\ count' = count + 1
    /\ queue' = Append(queue, x)
    /\ UNCHANGED got

Get(c) ==
    /\ queue # <<>>
    /\ got' = [got EXCEPT ![c] = Head(queue)]
    /\ queue' = Tail(queue)
    /\ UNCHANGED count

WornOut == count' > Lifetime

Next == (\E x \in Items : Put(x)) \/ (\E c \in Takers : Get(c)) \/ WornOut

Spec == Init /\ [][Next]_<<queue, got, count>>
=============================================================================

----------------------------- MODULE TaskQueue -----------------------------
(***************************************************************************)
(* What LockFreeQueue promises: a bounded queue.  An item enters at the    *)
(* back while there is room; a consumer takes the item at the front.       *)
(***************************************************************************)
EXTENDS Naturals, Sequences

CONSTANTS Consumers, Items, Capacity, Nothing

VARIABLES queue,   \* the items inside, front first
          hand     \* what each consumer took last

queueVars == <<queue, hand>>

Init ==
    /\ queue = <<>>
    /\ hand = [c \in Consumers |-> Nothing]

Enqueue(x) ==
    /\ Len(queue) < Capacity
    /\ queue' = Append(queue, x)
    /\ UNCHANGED hand

Dequeue(c) ==
    /\ queue # <<>>
    /\ queue' = Tail(queue)
    /\ hand' = [hand EXCEPT ![c] = Head(queue)]

Next ==
    \/ \E x \in Items : Enqueue(x)
    \/ \E c \in Consumers : Dequeue(c)

Spec == Init /\ [][Next]_queueVars
=============================================================================

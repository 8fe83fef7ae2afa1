---------------------------- MODULE BoundedQueue -----------------------------
(***************************************************************************)
(* What the circular buffers of the journaling layers promise: a FIFO of   *)
(* at most Size items.  Journal and JournalSemaphore use the buffers as    *)
(* this queue; RingBuffer shows that the code implements it.               *)
(***************************************************************************)
EXTENDS Naturals, Sequences

CONSTANTS Size, Producers, Consumers, Items, NoItem

VARIABLES
    queue,      \* the items in the buffer, oldest first
    received    \* received[c]: the item that c took last

Init ==
    /\ queue = <<>>
    /\ received = [c \in Consumers |-> NoItem]

Put(item) ==
    /\ Len(queue) < Size
    /\ queue' = Append(queue, item)
    /\ UNCHANGED received

Take(c) ==
    /\ queue # <<>>
    /\ received' = [received EXCEPT ![c] = Head(queue)]
    /\ queue' = Tail(queue)

Next ==
    \/ \E item \in Items : Put(item)
    \/ \E c \in Consumers : Take(c)

Spec == Init /\ [][Next]_<<queue, received>>
=============================================================================

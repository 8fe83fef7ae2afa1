----------------------------- MODULE RingBuffer ------------------------------
(***************************************************************************)
(* circular_buffer_t of p2/journal.c: a ring of BUFFER_SIZE cells, a mutex *)
(* for the indices and the count, and two counting semaphores.  A thread   *)
(* may lose the processor between any two of the steps below.              *)
(***************************************************************************)
EXTENDS Integers, Sequences, FiniteSets

CONSTANTS
    BUFFER_SIZE,   \* cells in the ring
    Producers,     \* threads that call circ_buffer_add
    Consumers,     \* threads that call circ_buffer_remove
    PerProducer,   \* items that each producer adds
    NoItem,        \* content of a cell never written, and value of no thread
    Nobody         \* the mutex is free

ASSUME RingAssumption ==
    /\ BUFFER_SIZE \in Nat \ {0}
    /\ PerProducer \in Nat
    /\ IsFiniteSet(Producers) /\ IsFiniteSet(Consumers)
    /\ Producers \cap Consumers = {}
    /\ Nobody \notin Producers \cup Consumers

Threads == Producers \cup Consumers
Items == Producers \X (1..PerProducer)
Cells == 0..(BUFFER_SIZE - 1)

VARIABLES
    cells, in, out, count,       \* fields of circular_buffer_t
    mutex,                       \* the thread that holds it
    empty_slots, full_slots,     \* values of the semaphores
    pc,                          \* next step of each thread
    val                          \* item being added or removed, by thread

ring == <<cells, in, out, count>>
sems == <<empty_slots, full_slots>>
ringvars == <<ring, mutex, sems, pc, val>>

Step == {"wait", "lock", "copy", "advance", "unlock", "post", "done"}

\* Both indices stay inside the ring, and the semaphores do not go below zero.
RingTypeOK ==
    /\ cells \in [Cells -> Items \cup {NoItem}]
    /\ in \in Cells /\ out \in Cells
    /\ count \in Int
    /\ mutex \in Threads \cup {Nobody}
    /\ empty_slots \in Nat /\ full_slots \in Nat
    /\ pc \in [Threads -> Step]
    /\ val \in [Threads -> Items \cup {NoItem}]

\* init_buffer; a producer has its first item ready.
RingInit ==
    /\ cells = [i \in Cells |-> NoItem]
    /\ in = 0 /\ out = 0 /\ count = 0
    /\ mutex = Nobody
    /\ empty_slots = BUFFER_SIZE /\ full_slots = 0
    /\ pc = [t \in Threads |-> IF t \in Producers /\ PerProducer = 0 THEN "done" ELSE "wait"]
    /\ val = [t \in Threads |->
                IF t \in Producers /\ PerProducer > 0 THEN <<t, 1>> ELSE NoItem]

Goto(t, step) == pc' = [pc EXCEPT ![t] = step]

-----------------------------------------------------------------------------
(* circ_buffer_add.                                                        *)

AddWait(p) ==
    /\ pc[p] = "wait"
    /\ empty_slots > 0
    /\ empty_slots' = empty_slots - 1
    /\ Goto(p, "lock")
    /\ UNCHANGED <<ring, mutex, full_slots, val>>

AddCopy(p) ==
    /\ pc[p] = "copy"
    /\ cells' = [cells EXCEPT ![in] = val[p]]
    /\ Goto(p, "advance")
    /\ UNCHANGED <<in, out, count, mutex, sems, val>>

AddAdvance(p) ==
    /\ pc[p] = "advance"
    /\ in' = (in + 1) % BUFFER_SIZE
    /\ count' = count + 1
    /\ Goto(p, "unlock")
    /\ UNCHANGED <<cells, out, mutex, sems, val>>

\* The call returns, and the producer calls again with its next item.
AddPost(p) ==
    /\ pc[p] = "post"
    /\ full_slots' = full_slots + 1
    /\ IF val[p][2] < PerProducer
         THEN Goto(p, "wait") /\ val' = [val EXCEPT ![p] = <<p, @[2] + 1>>]
         ELSE Goto(p, "done") /\ UNCHANGED val
    /\ UNCHANGED <<ring, mutex, empty_slots>>

-----------------------------------------------------------------------------
(* circ_buffer_remove.                                                     *)

RemoveWait(c) ==
    /\ pc[c] = "wait"
    /\ full_slots > 0
    /\ full_slots' = full_slots - 1
    /\ Goto(c, "lock")
    /\ UNCHANGED <<ring, mutex, empty_slots, val>>

RemoveCopy(c) ==
    /\ pc[c] = "copy"
    /\ val' = [val EXCEPT ![c] = cells[out]]
    /\ Goto(c, "advance")
    /\ UNCHANGED <<ring, mutex, sems>>

RemoveAdvance(c) ==
    /\ pc[c] = "advance"
    /\ out' = (out + 1) % BUFFER_SIZE
    /\ count' = count - 1
    /\ Goto(c, "unlock")
    /\ UNCHANGED <<cells, in, mutex, sems, val>>

\* Mutant: the slot that was emptied is not given back.
RemovePostNothing(c) ==
    /\ pc[c] = "post"
    /\ Goto(c, "wait")
    /\ UNCHANGED <<ring, mutex, sems, val>>

RemovePost(c) ==
    /\ pc[c] = "post"
    /\ empty_slots' = empty_slots + 1
    /\ Goto(c, "wait")
    /\ UNCHANGED <<ring, mutex, full_slots, val>>

-----------------------------------------------------------------------------
(* The mutex, in both.                                                     *)

\* Mutant: a thread enters without the mutex.
LockNothing(t) ==
    /\ pc[t] = "lock"
    /\ Goto(t, "copy")
    /\ UNCHANGED <<ring, mutex, sems, val>>

Lock(t) ==
    /\ pc[t] = "lock"
    /\ mutex = Nobody
    /\ mutex' = t
    /\ Goto(t, "copy")
    /\ UNCHANGED <<ring, sems, val>>

Unlock(t) ==
    /\ pc[t] = "unlock"
    /\ mutex' = Nobody
    /\ Goto(t, "post")
    /\ UNCHANGED <<ring, sems, val>>

circ_buffer_add(p) == AddWait(p) \/ AddCopy(p) \/ AddAdvance(p) \/ AddPost(p)
circ_buffer_remove(c) == RemoveWait(c) \/ RemoveCopy(c) \/ RemoveAdvance(c) \/ RemovePost(c)

\* Everything was added and removed; the consumers wait for more.
AllDone ==
    /\ \A p \in Producers : pc[p] = "done"
    /\ \A c \in Consumers : pc[c] = "wait"
    /\ full_slots = 0

RingIdle == AllDone /\ UNCHANGED ringvars

RingNext ==
    \/ \E p \in Producers : circ_buffer_add(p)
    \/ \E c \in Consumers : circ_buffer_remove(c)
    \/ \E t \in Threads : Lock(t) \/ Unlock(t)
    \/ RingIdle

RingSpec == RingInit /\ [][RingNext]_ringvars

\* Every thread that can take its next step eventually takes it or another one;
\* the mutex and the semaphores need not be fair.
RingFairSpec ==
    /\ RingSpec
    /\ \A p \in Producers : WF_ringvars(circ_buffer_add(p))
    /\ \A c \in Consumers : WF_ringvars(circ_buffer_remove(c))
    /\ \A t \in Threads : WF_ringvars(Lock(t) \/ Unlock(t))

-----------------------------------------------------------------------------
At(step, T) == {t \in T : pc[t] = step}

-----------------------------------------------------------------------------
(* The ring implements a bounded FIFO: an item enters it when in moves on  *)
(* and leaves it when it is copied out, both under the mutex.              *)

\* The cells from out to in, oldest first, without the one being removed.
Content ==
    LET taken == Cardinality(At("advance", Consumers)) IN
    [i \in 1..(count - taken) |-> cells[(out + taken + i - 1) % BUFFER_SIZE]]

Fifo == INSTANCE BoundedQueue WITH
    Size <- BUFFER_SIZE, queue <- Content, received <- [c \in Consumers |-> val[c]]

\* Seen from outside, circ_buffer_add and circ_buffer_remove are the two atomic
\* operations of a FIFO of BUFFER_SIZE items.
ImplementsQueue == Fifo!Spec

\* Every item that a producer adds is removed by some consumer.
Drained == <>[](AllDone /\ count = 0)
=============================================================================

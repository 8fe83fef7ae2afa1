----------------------------- MODULE JournalSpec -----------------------------
(***************************************************************************)
(* What the journaling layer promises to its callers: writes are completed *)
(* in the order in which they were queued, and the blocks of one write     *)
(* reach the disk in the write-ahead order data and journal blocks, then   *)
(* the transaction-end block, then the checkpointed metadata.              *)
(* Both implementations (p2 and p2attempt2) are shown to refine it.        *)
(***************************************************************************)
EXTENDS Naturals, Sequences

CONSTANT Ids    \* the write_ids that may be requested

VARIABLES
    outstanding,   \* queued and not yet reported by write_complete, oldest first
    durable        \* [Ids -> SUBSET Ops]: blocks of the outstanding write on disk

svars == <<outstanding, durable>>

\* The seven block operations declared by journal.h, by the stage that issues them.
StageOps == [s \in 1..3 |->
    IF s = 1 THEN {"write_data", "journal_txb", "journal_bitmap", "journal_inode"}
    ELSE IF s = 2 THEN {"journal_txe"}
    ELSE {"write_bitmap", "write_inode"}]

Ops == StageOps[1] \cup StageOps[2] \cup StageOps[3]

\* The operations that must be on disk before an operation of stage s starts.
Before(s) == UNION {StageOps[r] : r \in 1..(s - 1)}

IsOutstanding(id) == \E i \in DOMAIN outstanding : outstanding[i] = id

-----------------------------------------------------------------------------
Init ==
    /\ outstanding = <<>>
    /\ durable = [id \in Ids |-> {}]

Submit(id) ==
    /\ ~IsOutstanding(id)
    /\ outstanding' = Append(outstanding, id)
    /\ UNCHANGED durable

Persist(id, s, op) ==
    /\ IsOutstanding(id)
    /\ op \in StageOps[s] \ durable[id]
    /\ Before(s) \subseteq durable[id]
    /\ durable' = [durable EXCEPT ![id] = @ \cup {op}]
    /\ UNCHANGED outstanding

\* write_complete(id): only the oldest write, and only when all of it is on disk.
Complete(id) ==
    /\ outstanding # <<>>
    /\ id = Head(outstanding)
    /\ durable[id] = Ops
    /\ outstanding' = Tail(outstanding)
    /\ durable' = [durable EXCEPT ![id] = {}]

Next ==
    \E id \in Ids :
        \/ Submit(id)
        \/ \E s \in 1..3 : \E op \in StageOps[s] : Persist(id, s, op)
        \/ Complete(id)

Spec == Init /\ [][Next]_svars
=============================================================================

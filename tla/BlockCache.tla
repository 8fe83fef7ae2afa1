----------------------------- MODULE BlockCache ------------------------------
(***************************************************************************)
(* What a buffer cache promises to the log and the file system             *)
(* (kernel/bio.c:7-15): a block has one content, which is in the hands of  *)
(* one process at a time; what was written is on the disk; and what was    *)
(* changed and not written is kept only as long as the block is held or    *)
(* pinned.                                                                 *)
(***************************************************************************)
CONSTANTS Procs, Blocks, Values, Zero, Nobody

VARIABLES
    disk,    \* the blocks on the disk
    view,    \* what the next bread of a block returns
    holder,  \* the process between bread and brelse of a block
    pinned   \* the blocks between bpin and bunpin

bvars == <<disk, view, holder, pinned>>

Init ==
    /\ disk = [b \in Blocks |-> Zero]
    /\ view = disk
    /\ holder = [b \in Blocks |-> Nobody]
    /\ pinned = {}

Bread(p, b) ==
    /\ holder[b] = Nobody
    /\ holder' = [holder EXCEPT ![b] = p]
    /\ UNCHANGED <<disk, view, pinned>>

Modify(p, b) ==
    /\ holder[b] = p
    /\ \E v \in Values : view' = [view EXCEPT ![b] = v]
    /\ UNCHANGED <<disk, holder, pinned>>

Bwrite(p, b) ==
    /\ holder[b] = p
    /\ disk' = [disk EXCEPT ![b] = view[b]]
    /\ UNCHANGED <<view, holder, pinned>>

Brelse(p, b) ==
    /\ holder[b] = p
    /\ holder' = [holder EXCEPT ![b] = Nobody]
    /\ UNCHANGED <<disk, view, pinned>>

Bpin(p, b) ==
    /\ holder[b] = p /\ b \notin pinned
    /\ pinned' = pinned \cup {b}
    /\ UNCHANGED <<disk, view, holder>>

Bunpin(p, b) ==
    /\ holder[b] = p /\ b \in pinned
    /\ pinned' = pinned \ {b}
    /\ UNCHANGED <<disk, view, holder>>

\* The buffer of a block is given to another block.
Forget(b) ==
    /\ holder[b] = Nobody /\ b \notin pinned
    /\ view' = [view EXCEPT ![b] = disk[b]]
    /\ UNCHANGED <<disk, holder, pinned>>

Next ==
    \E b \in Blocks :
        \/ Forget(b)
        \/ \E p \in Procs : \/ Bread(p, b) \/ Modify(p, b) \/ Bwrite(p, b)
                            \/ Brelse(p, b) \/ Bpin(p, b) \/ Bunpin(p, b)

Spec == Init /\ [][Next]_bvars
=============================================================================

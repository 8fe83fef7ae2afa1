----------------------------- MODULE AtomicDisk ------------------------------
(***************************************************************************)
(* What the logging layer of xv6 promises to the file system: the writes   *)
(* of an FS system call reach the disk all or none, and those of a call    *)
(* never before the call has ended (log.c:10-16).                          *)
(***************************************************************************)
CONSTANTS Procs, Blocks, Values, Zero

VARIABLES
    mem,        \* what the system calls see
    committed,  \* what a crash leaves
    active      \* processes between begin_op and end_op

Init ==
    /\ mem = [b \in Blocks |-> Zero]
    /\ committed = mem
    /\ active = {}

Begin(p) ==
    /\ p \notin active
    /\ active' = active \cup {p}
    /\ UNCHANGED <<mem, committed>>

Write(p, b, v) ==
    /\ p \in active
    /\ mem' = [mem EXCEPT ![b] = v]
    /\ UNCHANGED <<committed, active>>

End(p) ==
    /\ p \in active
    /\ active' = active \ {p}
    /\ UNCHANGED <<mem, committed>>

\* Only complete system calls are ever committed.
Commit ==
    /\ active = {}
    /\ committed' = mem
    /\ UNCHANGED <<mem, active>>

Crash ==
    /\ mem' = committed
    /\ active' = {}
    /\ UNCHANGED committed

Next ==
    \/ \E p \in Procs : Begin(p) \/ End(p) \/ \E b \in Blocks : \E v \in Values : Write(p, b, v)
    \/ Commit
    \/ Crash

Spec == Init /\ [][Next]_<<mem, committed, active>>
=============================================================================

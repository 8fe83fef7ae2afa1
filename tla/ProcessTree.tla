----------------------------- MODULE ProcessTree -----------------------------
(***************************************************************************)
(* What fork, exit and wait of xv6 promise, in terms of process ids: a     *)
(* tree of processes in which everybody who exits is waited for once, by   *)
(* its parent, and the children of a process that exits become children of *)
(* init.  Slots of the process table do not occur.                         *)
(***************************************************************************)
CONSTANTS
    Pids,
    InitPid    \* the pid of init, which never exits

VARIABLES
    alive,     \* processes that have not exited
    zombies,   \* processes that have exited and were not waited for
    parent     \* the parent of every process and zombie, except init

tree == <<alive, zombies, parent>>

Init ==
    /\ alive = {InitPid}
    /\ zombies = {}
    /\ parent = [c \in {} |-> InitPid]

\* A new pid belongs to nobody.
Fork(p, c) ==
    /\ p \in alive /\ c \notin alive \cup zombies
    /\ alive' = alive \cup {c}
    /\ parent' = [d \in DOMAIN parent \cup {c} |-> IF d = c THEN p ELSE parent[d]]
    /\ UNCHANGED zombies

Exit(c) ==
    /\ c \in alive \ {InitPid}
    /\ alive' = alive \ {c}
    /\ zombies' = zombies \cup {c}
    /\ parent' = [d \in DOMAIN parent |-> IF parent[d] = c THEN InitPid ELSE parent[d]]

Wait(p, c) ==
    /\ p \in alive /\ c \in zombies /\ parent[c] = p
    /\ zombies' = zombies \ {c}
    /\ parent' = [d \in DOMAIN parent \ {c} |-> parent[d]]
    /\ UNCHANGED alive

Next ==
    \/ \E p, c \in Pids : Fork(p, c) \/ Wait(p, c)
    \/ \E c \in Pids : Exit(c)

Spec == Init /\ [][Next]_tree
=============================================================================

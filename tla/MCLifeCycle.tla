---------------------------- MODULE MCLifeCycle -----------------------------
(***************************************************************************)
(* Instances of LifeCycle for TLC.                                         *)
(***************************************************************************)
EXTENDS LifeCycle

\* Three processes that do everything, and four that are only a family: the least
\* number for an exit whose zombie child is neither its parent's nor init's.
Families == {
    [slots |-> 3, does |-> {"pause", "kill", "fault", "fail"}],
    [slots |-> 4, does |-> {}] }

\* Every pid that is given out, except that of init.
TheirPids == 2..MaxPid
=============================================================================

---------------------------- MODULE MCSchedulers ----------------------------
(***************************************************************************)
(* Instances of Schedulers for TLC.  With arguments of -39 and 39, nice()  *)
(* takes a process to one of the values -20, 0 (the initial one) and 19:   *)
(* the two bounds and a value between them, one in each queue.             *)
(***************************************************************************)
EXTENDS Schedulers

CONSTANTS cpu0, cpu1

AllCPUs == {cpu0, cpu1}

Setup(s, n, i, k) ==
    [scheduler |-> s, cpus |-> n, boot |-> cpu0, incs |-> i, used |-> 0..(k - 1)]

\* Round robin on two CPUs; the others on one CPU, with changing nice values.
EachScheduler == {
    Setup("RR", AllCPUs, {}, 3),
    Setup("RR", {cpu0}, {}, 3),
    Setup("RRSP", {cpu0}, {-39, 39}, 3),
    Setup("MLFQ", {cpu0}, {}, 3),
    Setup("MLFQ", {cpu0}, {-39}, 2) }

=============================================================================

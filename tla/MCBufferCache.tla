---------------------------- MODULE MCBufferCache -----------------------------
EXTENDS BufferCache

CONSTANTS p1, p2, p3, x, y, z

MCBlocks == 1..3

\* One process and fewer buffers than blocks; two processes, one of which may write, and a
\* chain of descriptors for each; three processes and one chain, so that two of them wait
\* for descriptors together.
MCWorkloads ==
    {[num |-> 4, bufs |-> {x, y}, blocks |-> 1..3, pins |-> 1, kills |-> 0,
      calls |-> [p \in Procs |-> IF p = p1 THEN 4 ELSE 0]],
     [num |-> 7, bufs |-> {x, y, z}, blocks |-> 1..2, pins |-> 1, kills |-> 0,
      calls |-> [p \in Procs |-> IF p = p1 THEN 2 ELSE IF p = p2 THEN 1 ELSE 0]],
     [num |-> 4, bufs |-> {x, y, z}, blocks |-> 1..2, pins |-> 0, kills |-> 1,
      calls |-> [p \in Procs |-> 1]]}
=============================================================================

---------------------------- MODULE AddressSpaces -----------------------------
(***************************************************************************)
(* What fork, exec, sbrk and memory mean to the processes of xv6: each has *)
(* its own pages, fork copies them, exec replaces them by those of the     *)
(* program, sbrk adds pages of zeros or takes the last ones away.  A call  *)
(* that fails changes nothing.                                             *)
(***************************************************************************)
EXTENDS Integers

CONSTANTS Slots, PageSize, Values, Zero, NoSpace

VARIABLES
    program,   \* the space that exec makes
    more, less,   \* the arguments of sbrk: bytes to add, and to take away
    space      \* by process: [sz: bytes, mem: pages, each [user, write, value]]

svars == <<program, more, less, space>>

PagesIn(n) == (n + PageSize - 1) \div PageSize

ZeroPage == [user |-> TRUE, write |-> TRUE, value |-> Zero]

\* The space with another size: pages that are kept, then zeros.
Resize(s, n) ==
    [sz |-> n,
     mem |-> [a \in 0..(PagesIn(n) - 1) |->
                 IF a < PagesIn(s.sz) THEN s.mem[a] ELSE ZeroPage]]

Init ==
    \* Before the first exec: one process without memory.
    \E p \in Slots :
        space = [q \in Slots |-> IF q = p THEN [sz |-> 0, mem |-> [a \in {} |-> ZeroPage]]
                                          ELSE NoSpace]

Alive(p) == space[p] # NoSpace

Fork(p, q) ==
    /\ Alive(p) /\ ~Alive(q)
    /\ space' = [space EXCEPT ![q] = space[p]]

Exec(p) ==
    /\ Alive(p)
    /\ space' = [space EXCEPT ![p] = program]

Sbrk(p) ==
    /\ Alive(p)
    /\ \E n \in {space[p].sz + k : k \in more} \cup {space[p].sz - k : k \in less} :
          n >= 0 /\ space' = [space EXCEPT ![p] = Resize(@, n)]

Write(p) ==
    /\ Alive(p)
    /\ \E a \in DOMAIN space[p].mem, v \in Values :
          /\ space[p].mem[a].user /\ space[p].mem[a].write
          /\ space' = [space EXCEPT ![p].mem[a].value = v]

Exit(p) ==
    /\ Alive(p)
    /\ space' = [space EXCEPT ![p] = NoSpace]

Next ==
    /\ UNCHANGED <<program, more, less>>
    /\ \E p \in Slots :
          \/ \E q \in Slots : Fork(p, q)
          \/ Exec(p) \/ Sbrk(p) \/ Write(p) \/ Exit(p)

Spec == Init /\ [][Next]_svars
=============================================================================

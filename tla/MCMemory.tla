------------------------------- MODULE MCMemory -------------------------------
(***************************************************************************)
(* Instances of Memory for TLC.  Addresses of the user are under two       *)
(* page-table pages, those of the trampoline under one.                    *)
(***************************************************************************)
EXTENDS Memory

MCPath == [a \in 0..(UserPages + 1) |->
             IF a < 2 THEN <<"low">> ELSE IF a < UserPages THEN <<"high">> ELSE <<"top">>]

\* A program of one segment, its last page not filled; one of two segments, of which the
\* first is text and the second has a page that is not in the file.
Small == <<[first |-> 0, end |-> 1, file |-> 1, write |-> FALSE]>>
Large == <<[first |-> 0, end |-> 1, file |-> 1, write |-> FALSE],
           [first |-> 1, end |-> 5, file |-> 1, write |-> TRUE]>>

\* Two processes that grow and shrink, before or after a fork, with memory for one page
\* more than the two of them begin with; a fork, and calls that run out of memory; two that
\* execute a program at once, with memory for one; the larger program with its arguments; a
\* fork with memory for less than a page table.
MCWorkloads ==
    {[pages |-> 18, calls |-> 3, does |-> {"fork"}, image |-> Small, args |-> 0,
      grow |-> {1, 3}, shrink |-> {3, 9}, stores |-> {"one"}],
     [pages |-> 16, calls |-> 3, does |-> {"fork", "exec"}, image |-> Small, args |-> 1,
      grow |-> {3}, shrink |-> {3}, stores |-> {}],
     [pages |-> 24, calls |-> 3, does |-> {"fork", "exec"}, image |-> Small, args |-> 1,
      grow |-> {}, shrink |-> {}, stores |-> {}],
     [pages |-> 20, calls |-> 3, does |-> {"exec"}, image |-> Large, args |-> 2,
      grow |-> {1}, shrink |-> {3}, stores |-> {"one"}],
     [pages |-> 10, calls |-> 2, does |-> {"fork"}, image |-> Small, args |-> 0,
      grow |-> {1}, shrink |-> {}, stores |-> {}]}
=============================================================================

------------------------------ MODULE MCConsole ------------------------------
EXTENDS Console

CONSTANTS p1, p2

Each(a, b) == [p \in Procs |-> IF p = p1 THEN a ELSE b]

\* Two readers of what is typed, erased, ended or fills the buffer.
Reading ==
    [keys |-> {"x", "eof", "bs"}, typed |-> 4, start |-> IdxMod - 1, bad |-> FALSE,
     reads |-> Each({3}, {2}), writes |-> Each({}, {}), calls |-> Each(1, 1), kills |-> 0]

\* A reader and a writer that are killed, or have bad memory.
Failing ==
    [keys |-> {"x", "cr"}, typed |-> 2, start |-> 0, bad |-> TRUE,
     reads |-> Each({2}, {}), writes |-> Each({}, {3}), calls |-> Each(1, 1), kills |-> 1]

\* Lines that are taken back, the keys that store nothing, and a read of nothing.
Editing ==
    [keys |-> {"x", "kill", "list", "nul"}, typed |-> 3, start |-> 0, bad |-> FALSE,
     reads |-> Each({}, {0, 1}), writes |-> Each({1}, {}), calls |-> Each(1, 1), kills |-> 0]

\* Two writers, while input is echoed.
Writing ==
    [keys |-> {"x"}, typed |-> 2, start |-> 0, bad |-> FALSE,
     reads |-> Each({}, {}), writes |-> Each({3}, {2}), calls |-> Each(2, 1), kills |-> 0]

MCWorkloads == {Reading, Failing, Editing, Writing}
=============================================================================

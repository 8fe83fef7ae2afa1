------------------------------- MODULE MCPipe --------------------------------
EXTENDS Pipe

CONSTANTS p1, p2, p3, b0, b1

Fds(s) == [d \in FDs |-> s[d + 1]]
Nothing == [d \in FDs |-> NoFile]
Each(a, b, c) == [p \in Procs |-> IF p = p1 THEN a ELSE IF p = p2 THEN b ELSE c]

\* A reader and a writer, with counters that are about to wrap.
Streaming ==
    [ofile |-> Each(Fds(<<1, NoFile, NoFile>>), Fds(<<2, NoFile, NoFile>>),
                    Nothing),
     alive |-> {p1, p2}, calls |-> Each(2, 1, 0), sizes |-> {1, 3}, bytes |-> Bytes,
     start |-> IdxMod - 1, kills |-> 0, bad |-> 0]

\* Two writers that share the end, and a reader; one is killed.
Killing ==
    [ofile |-> Each(Fds(<<1, NoFile, NoFile>>), Fds(<<2, NoFile, NoFile>>),
                    Fds(<<2, NoFile, NoFile>>)),
     alive |-> {p1, p2, p3}, calls |-> Each(1, 1, 1), sizes |-> {2}, bytes |-> {b0},
     start |-> 0, kills |-> 1, bad |-> 0]

\* Processes that create, inherit and close pipes, with too few files, pages and descriptors.
Creating ==
    [ofile |-> Each(Nothing, Nothing, Nothing),
     alive |-> {p1, p2}, calls |-> Each(3, 1, 0), sizes |-> {}, bytes |-> {},
     start |-> 0, kills |-> 0, bad |-> 1]

MCWorkloads == {Streaming, Killing, Creating}
=============================================================================

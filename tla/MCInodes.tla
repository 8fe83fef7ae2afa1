------------------------------ MODULE MCInodes -------------------------------
EXTENDS Inodes

CONSTANTS p1, p2, a, b

MCInums == 1..3
Call(op, at) == [op |-> op, absolute |-> TRUE, path |-> at, new |-> <<b>>, inum |-> NoInum]
Each(i, j) == [p \in Procs |-> IF p = p1 THEN i ELSE j]

\* Files with two names, open and unlinked, and a crash.
FileCalls ==
    [calls |-> Each({Call("create", <<a>>), Call("link", <<a>>), Call("close", <<>>)},
                    {Call("open", <<a>>), Call("unlink", <<a>>), Call("unlink", <<b>>)}),
     left |-> Each(3, 2), crashes |-> 1, full |-> 0]

\* Directories, and what is in them, on a disk that may be full once.
DirCalls ==
    [calls |-> Each({Call("mkdir", <<a>>), Call("create", <<a, b>>), Call("unlink", <<a, b>>)},
                    {Call("mkdir", <<a>>), Call("unlink", <<a>>), Call("chdir", <<a>>),
                     Call("mkdir", <<>>)}),
     left |-> Each(3, 2), crashes |-> 0, full |-> 1]

\* A file that gets names, some of which exist or find no room, while it loses its own.
LinkCalls ==
    [calls |-> Each({Call("create", <<a>>), Call("link", <<a>>)},
                    {Call("create", <<b>>), Call("unlink", <<a>>), Call("unlink", <<b>>)}),
     left |-> Each(3, 2), crashes |-> 0, full |-> 1]

MCWorkloads == {FileCalls, DirCalls, LinkCalls}
=============================================================================

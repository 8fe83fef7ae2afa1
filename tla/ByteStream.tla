----------------------------- MODULE ByteStream ------------------------------
(***************************************************************************)
(* What pipes promise (kernel/pipe.c): bytes come out in the order in      *)
(* which they went in, at most Size of them are under way, and they are    *)
(* kept while an end is open.  A page serves one pipe after the other.     *)
(***************************************************************************)
EXTENDS Naturals, Sequences

CONSTANTS Pipes, Bytes, Size

VARIABLES
    queue,               \* the bytes under way
    readopen, writeopen, \* the pipes whose ends are open
    last                 \* the byte that was delivered last

svars == <<queue, readopen, writeopen, last>>

Init ==
    /\ queue \in [Pipes -> UNION {[1..n -> Bytes] : n \in 0..Size}]
    /\ readopen \subseteq Pipes /\ writeopen \subseteq Pipes
    /\ \A pi \in Pipes : last[pi] \notin Bytes

Create(pi) ==
    /\ pi \notin readopen \cup writeopen
    /\ readopen' = readopen \cup {pi} /\ writeopen' = writeopen \cup {pi}
    /\ queue' = [queue EXCEPT ![pi] = <<>>]
    /\ UNCHANGED last

Put(pi) ==
    /\ pi \in readopen \cap writeopen /\ Len(queue[pi]) < Size
    /\ \E v \in Bytes : queue' = [queue EXCEPT ![pi] = Append(@, v)]
    /\ UNCHANGED <<readopen, writeopen, last>>

\* A byte is delivered, or the reader has no memory for it.
Take(pi) ==
    /\ pi \in readopen /\ queue[pi] # <<>>
    /\ last' \in {last, [last EXCEPT ![pi] = Head(queue[pi])]}
    /\ queue' = [queue EXCEPT ![pi] = Tail(@)]
    /\ UNCHANGED <<readopen, writeopen>>

\* What is under way is lost with the second end.
Left(pi, other) == IF pi \in other THEN queue ELSE [queue EXCEPT ![pi] = <<>>]

CloseRead(pi) ==
    /\ pi \in readopen
    /\ readopen' = readopen \ {pi}
    /\ queue' = Left(pi, writeopen)
    /\ UNCHANGED <<writeopen, last>>

CloseWrite(pi) ==
    /\ pi \in writeopen
    /\ writeopen' = writeopen \ {pi}
    /\ queue' = Left(pi, readopen)
    /\ UNCHANGED <<readopen, last>>

Next == \E pi \in Pipes : Create(pi) \/ Put(pi) \/ Take(pi) \/ CloseRead(pi) \/ CloseWrite(pi)

Spec == Init /\ [][Next]_svars
=============================================================================

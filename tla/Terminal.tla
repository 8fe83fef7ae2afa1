------------------------------ MODULE Terminal -------------------------------
(***************************************************************************)
(* What a terminal promises to those who read and write it.  Input can be  *)
(* edited until the line ends; after that it is read in the order in which *)
(* it was typed, by one reader or another, and no read goes beyond the end *)
(* of a line.  Output appears in the order in which each process wrote it, *)
(* mixed with that of the others.                                          *)
(***************************************************************************)
EXTENDS Naturals, Sequences

CONSTANTS
    Procs,
    Size,       \* the characters that may wait to be read
    Keys,
    Newline, Eof

VARIABLES
    ready, line,        \* what may be read, and what may still be edited
    got,                \* got[p]: what the last read of p has returned so far
    written, shown      \* how many characters p has written, and how many can be seen

vars == <<ready, line, got, written, shown>>

Init ==
    /\ ready = <<>>
    /\ line = <<>>
    /\ got = [p \in Procs |-> <<>>]
    /\ written = [p \in Procs |-> 0]
    /\ shown = [p \in Procs |-> 0]

\* A character that can be stored is; a line that ends, or fills the terminal, is ready.
Type(c) ==
    LET typed == Append(line, c) IN
    /\ Len(ready) + Len(line) < Size
    /\ IF c \in {Newline, Eof} \/ Len(ready) + Len(typed) = Size
         THEN ready' = ready \o typed /\ line' = <<>>
         ELSE line' = typed /\ UNCHANGED ready
    /\ UNCHANGED <<got, written, shown>>

\* One character, or the line, is taken back.
Erase ==
    /\ line # <<>>
    /\ line' \in {SubSeq(line, 1, Len(line) - 1), <<>>}
    /\ UNCHANGED <<ready, got, written, shown>>

BeginRead(p) ==
    /\ got' = [got EXCEPT ![p] = <<>>]
    /\ UNCHANGED <<ready, line, written, shown>>

\* A read stops behind a newline.
Take(p) ==
    /\ ready # <<>>
    /\ Head(ready) # Eof
    /\ \A i \in DOMAIN got[p] : got[p][i] # Newline
    /\ ready' = Tail(ready)
    /\ got' = [got EXCEPT ![p] = Append(@, Head(ready))]
    /\ UNCHANGED <<line, written, shown>>

\* A read whose memory is bad, or which finds the end of the file at once, returns
\* without the character.
Drop(p) ==
    /\ ready # <<>>
    /\ Head(ready) = Eof => got[p] = <<>>
    /\ ready' = Tail(ready)
    /\ UNCHANGED <<line, got, written, shown>>

Write(p) ==
    /\ \E k \in 1..Size : written' = [written EXCEPT ![p] = @ + k]
    /\ UNCHANGED <<ready, line, got, shown>>

Show(p) ==
    /\ shown[p] < written[p]
    /\ shown' = [shown EXCEPT ![p] = @ + 1]
    /\ UNCHANGED <<ready, line, got, written>>

Next ==
    \/ \E c \in Keys : Type(c)
    \/ Erase
    \/ \E p \in Procs : BeginRead(p) \/ Take(p) \/ Drop(p) \/ Write(p) \/ Show(p)

Spec == Init /\ [][Next]_vars
=============================================================================

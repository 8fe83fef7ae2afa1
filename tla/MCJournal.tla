------------------------------ MODULE MCJournal ------------------------------
(***************************************************************************)
(* Instances of Journal for TLC.                                           *)
(***************************************************************************)
EXTENDS Journal

CONSTANTS main, writer

\* filesystem.c: main requests ids in turn, here also one that is in use, one
\* that is free again and one out of range, and then waits for all of them.
OneCaller == {main}
MainScript == [c \in OneCaller |-> <<0, 1, 2, 0>>]
MainWaits == {main}

NoDelay == {}
\* A disk that completes an operation of every stage late.
SlowDisk == {"journal_txb", "journal_txe", "write_inode"}

\* A second thread requests the slot that main uses, and only main waits.
TwoCallers == {main, writer}
SharedScript == [c \in TwoCallers |-> <<0>>]
=============================================================================

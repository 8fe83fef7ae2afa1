------------------------- MODULE MCJournalSemaphore --------------------------
(***************************************************************************)
(* Instances of JournalSemaphore for TLC.                                  *)
(***************************************************************************)
EXTENDS JournalSemaphore

\* Operations of every stage are late; block_service.c delays the first TXE in any case.
SlowDisk == {"write_data", "journal_inode", "journal_txe", "write_bitmap"}

\* The threads that cannot be created, if one cannot.
AnyThreadFails == {"worker", "txe"}
=============================================================================

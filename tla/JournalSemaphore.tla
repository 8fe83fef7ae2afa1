-------------------------- MODULE JournalSemaphore ---------------------------
(***************************************************************************)
(* The journaling layer of p2attempt2: the pipeline of Journal, but each   *)
(* worker waits on one counting semaphore for the completions of whatever  *)
(* write it has in hand, and nothing is kept per write.  main              *)
(* (filesystem.c) requests the writes 0, 1, ... and returns after the      *)
(* write_complete of the last one, which ends the process.                 *)
(*                                                                         *)
(* done is a history variable: the blocks of a write on disk, that is, the *)
(* calls of *_complete(id), which the code counts and does not remember.   *)
(***************************************************************************)
EXTENDS Integers, Sequences, FiniteSets, Functions

CONSTANTS
    Requests,        \* main requests the writes 0..Requests-1
    BufferSize,      \* BUFFER_SIZE
    DelayedOps,      \* operations that the disk may complete after issue_* returned
    MayFail          \* the pthread_create calls that can fail: "worker", "txe"

ASSUME ConstantsAssumption ==
    /\ Requests \in Nat \ {0}
    /\ BufferSize \in Nat \ {0}
    /\ MayFail \subseteq {"worker", "txe"}

Ids == 0..(Requests - 1)
NoId == -1
Stages == 1..3

\* The operations of a stage, in the order in which its worker issues them.
Program == <<
    <<"write_data", "journal_txb", "journal_bitmap", "journal_inode">>,
    <<"journal_txe">>,
    <<"write_bitmap", "write_inode">> >>

Ops == UNION {Range(Program[s]) : s \in Stages}

VARIABLES
    failing,      \* the pthread_create calls that fail in this execution
    buffer,       \* request_buffer and the two *_complete_buffers
    started,      \* the stages whose worker thread was created
    pc, wid,      \* the workers: next step, write_id
    step,         \* next operation to issue, or number of posts still to wait for
    sem,          \* *_thread_sem of each stage
    inflight,     \* inflight[id]: operations the disk completes later
    first_txe,
    next, exited, \* main: next write to request, and whether it has returned
    done

worker == <<pc, wid, step>>
vars == <<failing, buffer, started, worker, sem, inflight, first_txe, next, exited, done>>

TypeOK ==
    /\ failing \subseteq MayFail
    /\ buffer \in [Stages -> Seq(Ids)]
    /\ started \subseteq Stages
    /\ pc \in [Stages -> {"remove", "issue", "wait", "add", "write_complete"}]
    /\ wid \in [Stages -> Ids \cup {NoId}]
    /\ step \in [Stages -> 0..5]
    /\ sem \in [Stages -> Nat]
    /\ inflight \in [Ids -> SUBSET Ops]
    /\ first_txe \in BOOLEAN
    /\ next \in 0..Requests
    /\ exited \in BOOLEAN
    /\ done \in [Ids -> SUBSET Ops]

\* init_journal: a worker thread that cannot be created is only reported.
Init ==
    /\ failing \in SUBSET MayFail
    /\ buffer = [s \in Stages |-> <<>>]
    /\ started \in IF "worker" \in failing THEN SUBSET Stages ELSE {Stages}
    /\ pc = [s \in Stages |-> "remove"]
    /\ wid = [s \in Stages |-> NoId]
    /\ step = [s \in Stages |-> 1]
    /\ sem = [s \in Stages |-> 0]
    /\ inflight = [id \in Ids |-> {}]
    /\ first_txe = TRUE
    /\ next = 0
    /\ exited = FALSE
    /\ done = [id \in Ids |-> {}]

-----------------------------------------------------------------------------

\* main: request_write(next).
Request ==
    /\ ~exited
    /\ next < Requests
    /\ Len(buffer[1]) < BufferSize
    /\ buffer' = [buffer EXCEPT ![1] = Append(@, next)]
    /\ next' = next + 1
    /\ UNCHANGED <<failing, started, worker, sem, inflight, first_txe, exited, done>>

Remove(s) ==
    /\ ~exited
    /\ s \in started
    /\ pc[s] = "remove"
    /\ buffer[s] # <<>>
    /\ wid' = [wid EXCEPT ![s] = Head(buffer[s])]
    /\ buffer' = [buffer EXCEPT ![s] = Tail(@)]
    /\ pc' = [pc EXCEPT ![s] = "issue"]
    /\ step' = [step EXCEPT ![s] = 1]
    /\ UNCHANGED <<failing, started, sem, inflight, first_txe, next, exited, done>>

\* issue_* returned; after the last one the worker waits for as many posts.
Issued(s) ==
    IF step[s] < Len(Program[s])
      THEN step' = [step EXCEPT ![s] = @ + 1] /\ UNCHANGED pc
      ELSE UNCHANGED step /\ pc' = [pc EXCEPT ![s] = "wait"]

FirstTxe(op) == op = "journal_txe" /\ first_txe
UsedFirstTxe(op) == first_txe' = (first_txe /\ op # "journal_txe")

\* issue_* calls *_complete, which posts the semaphore of the stage.
IssueSync(s) ==
    LET op == Program[s][step[s]] IN
    /\ ~exited
    /\ pc[s] = "issue"
    /\ ~FirstTxe(op)
    /\ sem' = [sem EXCEPT ![s] = @ + 1]
    /\ done' = [done EXCEPT ![wid[s]] = @ \cup {op}]
    /\ Issued(s)
    /\ UNCHANGED <<failing, buffer, started, wid, inflight, first_txe, next, exited>>

\* The first TXE goes to a thread; a slow disk takes its time for any operation.
IssueDelayed(s) ==
    LET op == Program[s][step[s]] IN
    /\ ~exited
    /\ pc[s] = "issue"
    /\ FirstTxe(op) \/ op \in DelayedOps
    /\ inflight' = [inflight EXCEPT ![wid[s]] = @ \cup {op}]
    /\ UsedFirstTxe(op)
    /\ Issued(s)
    /\ UNCHANGED <<failing, buffer, started, wid, sem, next, exited, done>>

\* pthread_create fails: a message, and nobody will complete the first TXE.
IssueLost(s) ==
    LET op == Program[s][step[s]] IN
    /\ ~exited
    /\ "txe" \in failing
    /\ pc[s] = "issue"
    /\ FirstTxe(op)
    /\ UsedFirstTxe(op)
    /\ Issued(s)
    /\ UNCHANGED <<failing, buffer, started, wid, sem, inflight, next, exited, done>>

\* *_complete(id), called by the disk's thread.
DiskComplete(s, id, op) ==
    /\ ~exited
    /\ op \in inflight[id]
    /\ op \in Range(Program[s])
    /\ inflight' = [inflight EXCEPT ![id] = @ \ {op}]
    /\ sem' = [sem EXCEPT ![s] = @ + 1]
    /\ done' = [done EXCEPT ![id] = @ \cup {op}]
    /\ UNCHANGED <<failing, buffer, started, worker, first_txe, next, exited>>

\* Mutant: one post is taken for all of the stage.
WaitOnce(s) ==
    /\ ~exited
    /\ pc[s] = "wait"
    /\ sem[s] > 0
    /\ sem' = [sem EXCEPT ![s] = @ - 1]
    /\ pc' = [pc EXCEPT ![s] = IF s = 3 THEN "write_complete" ELSE "add"]
    /\ UNCHANGED <<failing, buffer, started, wid, step, inflight, first_txe, next, exited, done>>

\* One sem_wait of the loop; step counts down to 1.
Wait(s) ==
    /\ ~exited
    /\ pc[s] = "wait"
    /\ sem[s] > 0
    /\ sem' = [sem EXCEPT ![s] = @ - 1]
    /\ IF step[s] > 1
         THEN step' = [step EXCEPT ![s] = @ - 1] /\ UNCHANGED pc
         ELSE /\ pc' = [pc EXCEPT ![s] = IF s = 3 THEN "write_complete" ELSE "add"]
              /\ UNCHANGED step
    /\ UNCHANGED <<failing, buffer, started, wid, inflight, first_txe, next, exited, done>>

Add(s) ==
    /\ ~exited
    /\ pc[s] = "add"
    /\ Len(buffer[s + 1]) < BufferSize
    /\ buffer' = [buffer EXCEPT ![s + 1] = Append(@, wid[s])]
    /\ pc' = [pc EXCEPT ![s] = "remove"]
    /\ wid' = [wid EXCEPT ![s] = NoId]
    /\ UNCHANGED <<failing, started, step, sem, inflight, first_txe, next, exited, done>>

\* Mutant: main is let go by the write_complete of the first write.
WriteCompleteAny ==
    /\ ~exited
    /\ pc[3] = "write_complete"
    /\ exited' = TRUE
    /\ pc' = [pc EXCEPT ![3] = "remove"]
    /\ wid' = [wid EXCEPT ![3] = NoId]
    /\ UNCHANGED <<failing, buffer, started, step, sem, inflight, first_txe, next, done>>

\* Mutant: an off-by-one in the test for the last write.
WriteCompleteNever ==
    /\ ~exited
    /\ pc[3] = "write_complete"
    /\ exited' = (exited \/ wid[3] = Requests)
    /\ pc' = [pc EXCEPT ![3] = "remove"]
    /\ wid' = [wid EXCEPT ![3] = NoId]
    /\ UNCHANGED <<failing, buffer, started, step, sem, inflight, first_txe, next, done>>

\* write_complete(id) lets main return when it is the last write.
WriteComplete ==
    /\ ~exited
    /\ pc[3] = "write_complete"
    /\ exited' = (exited \/ wid[3] = Requests - 1)
    /\ pc' = [pc EXCEPT ![3] = "remove"]
    /\ wid' = [wid EXCEPT ![3] = NoId]
    /\ UNCHANGED <<failing, buffer, started, step, sem, inflight, first_txe, next, done>>

-----------------------------------------------------------------------------
Worker(s) ==
    \/ Remove(s)
    \/ IssueSync(s)
    \/ IssueDelayed(s)
    \/ IssueLost(s)
    \/ Wait(s)

\* The process is gone.
Stopped == exited /\ UNCHANGED vars

Next ==
    \/ Request
    \/ \E s \in Stages : Worker(s)
    \/ \E s \in {1, 2} : Add(s)
    \/ WriteComplete
    \/ \E s \in Stages : \E id \in Ids : \E op \in Ops : DiskComplete(s, id, op)
    \/ Stopped

Spec == Init /\ [][Next]_vars

\* Every thread that can run eventually runs, and the disk answers.
FairSpec ==
    /\ Spec
    /\ WF_vars(Request)
    /\ \A s \in Stages : WF_vars(Worker(s))
    /\ \A s \in {1, 2} : WF_vars(Add(s))
    /\ WF_vars(WriteComplete)
    /\ WF_vars(\E s \in Stages : \E id \in Ids : \E op \in Ops : DiskComplete(s, id, op))

-----------------------------------------------------------------------------

\* main returns, and with it the process ends, only when every write it requested
\* has been reported and no block is still on its way.
NothingLostAtExit ==
    /\ TypeOK
    /\ exited => /\ next = Requests
                 /\ \A s \in Stages : buffer[s] = <<>> /\ wid[s] = NoId
                 /\ \A id \in Ids : inflight[id] = {} /\ done[id] = Ops

\* The writes queued and not reported yet.
Hand(s) == IF wid[s] = NoId THEN <<>> ELSE <<wid[s]>>
Outstanding == Hand(3) \o buffer[3] \o Hand(2) \o buffer[2] \o Hand(1) \o buffer[1]

\* Their blocks on disk.
Durable == [id \in Ids |-> IF id \in Range(Outstanding) THEN done[id] ELSE {}]

Promise == INSTANCE JournalSpec WITH outstanding <- Outstanding, durable <- Durable

\* The semaphores alone keep the promise of JournalSpec.
ImplementsPromise == Promise!Spec

\* main gets through all of its requests and returns when every thread could be created:
\* the counts of the semaphores leave no worker waiting for a post that was already
\* taken.  (Otherwise it may wait for ever: the failures are reported only.)
MainReturnsIfCreated == failing = {} => <>exited
=============================================================================

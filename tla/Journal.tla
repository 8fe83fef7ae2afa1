------------------------------- MODULE Journal -------------------------------
(***************************************************************************)
(* The journaling layer of p2 (journal.c) with its block layer stub        *)
(* (block_service.c) and its callers (filesystem.c).                       *)
(*                                                                         *)
(* Three worker threads form a pipeline.  Worker s takes a write_id from   *)
(* buffer[s], counts and issues the block operations of its stage one      *)
(* after the other, waits on the per-request semaphore of the stage and    *)
(* hands the id on; the last one reports it with write_complete and frees  *)
(* the request slot.  Completion handlers run in the worker that issued    *)
(* the operation or in a thread of the block layer.                        *)
(*                                                                         *)
(* Grain: one action per critical section under state_mutex, per semaphore *)
(* operation and per buffer operation (RingBuffer shows that the circular  *)
(* buffer of journal.c is a bounded FIFO).                                 *)
(***************************************************************************)
EXTENDS Integers, Sequences, FiniteSets

CONSTANTS
    MaxRequests,   \* MAX_REQUESTS: write_ids are slot indices 0..MaxRequests-1
    BufferSize,    \* BUFFER_SIZE
    Clients,       \* threads that call request_write
    Script,        \* Script[c]: the write_ids that c requests, in order
    Waiters,       \* the clients that call journal_wait_for_all afterwards
    DelayedOps     \* operations a block layer always completes from its own thread
                   \* ({} is block_service.c, which delays the first TXE only)

Ids == 0..(MaxRequests - 1)
NoId == -1
Stages == 1..3

StageOps == [s \in Stages |->
    IF s = 1 THEN {"write_data", "journal_txb", "journal_bitmap", "journal_inode"}
    ELSE IF s = 2 THEN {"journal_txe"}
    ELSE {"write_bitmap", "write_inode"}]

Ops == StageOps[1] \cup StageOps[2] \cup StageOps[3]
NoOp == "none"

\* The order in which a worker issues the operations of its stage.
FirstOp == [s \in Stages |->
    IF s = 1 THEN "write_data" ELSE IF s = 2 THEN "journal_txe" ELSE "write_bitmap"]

NextOp == [op \in Ops |->
    CASE op = "write_data"     -> "journal_txb"
      [] op = "journal_txb"    -> "journal_bitmap"
      [] op = "journal_bitmap" -> "journal_inode"
      [] op = "write_bitmap"   -> "write_inode"
      [] OTHER                 -> NoOp]

StageOf == [op \in Ops |->
    IF op \in StageOps[1] THEN 1 ELSE IF op \in StageOps[2] THEN 2 ELSE 3]

ASSUME ConstantsAssumption ==
    /\ MaxRequests \in Nat \ {0}
    /\ BufferSize \in Nat \ {0}
    /\ IsFiniteSet(Clients)
    /\ Script \in [Clients -> Seq(Int)]
    /\ Waiters \subseteq Clients
    /\ DelayedOps \subseteq Ops

VARIABLES
    \* request_states[id], protected by state_mutex
    in_use, complete, pending_io, checkpoint_done,
    \* metadata_wait, commit_wait and checkpoint_wait of request_states[id]
    wait,
    \* request_buffer, journal_metadata_buffer, journal_commit_buffer
    buffer,
    \* the workers: program counter, the id in hand, the operation being issued
    wpc, wid, wop,
    \* completion handlers: where the handler of (id, op) is, and is_first_time
    handler, is_first_time,
    \* the callers: program counter and write_ids still to request
    cpc, todo

slots == <<in_use, complete, pending_io, checkpoint_done>>
workers == <<wpc, wid, wop>>
vars == <<slots, wait, buffer, workers, handler, is_first_time, cpc, todo>>

WorkerPC == {"remove", "reset", "count", "issue", "call", "wait", "add",
             "write_complete", "checkpoint"}
HandlerPC == {"idle", "flag", "post", "drop"}
ClientPC == {"request", "request_cond", "add", "wait_all", "wait_all_cond", "done"}

TypeOK ==
    /\ in_use \in [Ids -> BOOLEAN]
    /\ complete \in [Ids -> SUBSET Ops]
    /\ pending_io \in [Ids -> Nat]
    /\ checkpoint_done \in [Ids -> BOOLEAN]
    /\ wait \in [Stages -> [Ids -> Nat]]
    /\ buffer \in [Stages -> Seq(Ids)]
    /\ wpc \in [Stages -> WorkerPC]
    /\ wid \in [Stages -> Ids \cup {NoId}]
    /\ wop \in [Stages -> Ops \cup {NoOp}]
    /\ handler \in [Ids -> [Ops -> HandlerPC]]
    /\ is_first_time \in BOOLEAN
    /\ cpc \in [Clients -> ClientPC]
    /\ todo \in [Clients -> Seq(Int)]

-----------------------------------------------------------------------------
(* The condition variable state_free_cond.                                 *)

CondWaiters == {c \in Clients : cpc[c] \in {"request_cond", "wait_all_cond"}}

\* A woken thread tests its condition again once it has the mutex.
Wake(c) ==
    cpc' = [cpc EXCEPT ![c] = IF @ = "request_cond" THEN "request" ELSE "wait_all"]

Signal ==
    \/ CondWaiters = {} /\ UNCHANGED cpc
    \/ \E c \in CondWaiters : Wake(c)

\* Mutant: a slot is freed as soon as it is checkpointed.
TryFreeTooEarly(id, ckpt, pending) ==
    /\ pending_io' = [pending_io EXCEPT ![id] = pending]
    /\ IF in_use[id] /\ ckpt
         THEN /\ in_use' = [in_use EXCEPT ![id] = FALSE]
              /\ complete' = [complete EXCEPT ![id] = {}]
              /\ checkpoint_done' = [checkpoint_done EXCEPT ![id] = FALSE]
              /\ Signal
         ELSE /\ checkpoint_done' = [checkpoint_done EXCEPT ![id] = ckpt]
              /\ UNCHANGED <<in_use, complete, cpc>>

\* Mutant: the slot is freed and nobody is told.
TryFreeSilently(id, ckpt, pending) ==
    /\ pending_io' = [pending_io EXCEPT ![id] = pending]
    /\ IF in_use[id] /\ ckpt /\ pending = 0
         THEN /\ in_use' = [in_use EXCEPT ![id] = FALSE]
              /\ complete' = [complete EXCEPT ![id] = {}]
              /\ checkpoint_done' = [checkpoint_done EXCEPT ![id] = FALSE]
              /\ UNCHANGED cpc
         ELSE /\ checkpoint_done' = [checkpoint_done EXCEPT ![id] = ckpt]
              /\ UNCHANGED <<in_use, complete, cpc>>

\* try_free_slot_if_done_locked, with the new values of checkpoint_done and
\* pending_io that the caller has just stored.
TryFree(id, ckpt, pending) ==
    /\ pending_io' = [pending_io EXCEPT ![id] = pending]
    /\ IF in_use[id] /\ ckpt /\ pending = 0
         THEN /\ in_use' = [in_use EXCEPT ![id] = FALSE]
              /\ complete' = [complete EXCEPT ![id] = {}]
              /\ checkpoint_done' = [checkpoint_done EXCEPT ![id] = FALSE]
              /\ Signal
         ELSE /\ checkpoint_done' = [checkpoint_done EXCEPT ![id] = ckpt]
              /\ UNCHANGED <<in_use, complete, cpc>>

-----------------------------------------------------------------------------
(* init_journal.                                                           *)

AfterScript(c) == IF c \in Waiters THEN "wait_all" ELSE "done"

Init ==
    /\ in_use = [id \in Ids |-> FALSE]
    /\ complete = [id \in Ids |-> {}]
    /\ pending_io = [id \in Ids |-> 0]
    /\ checkpoint_done = [id \in Ids |-> FALSE]
    /\ wait = [s \in Stages |-> [id \in Ids |-> 0]]
    /\ buffer = [s \in Stages |-> <<>>]
    /\ wpc = [s \in Stages |-> "remove"]
    /\ wid = [s \in Stages |-> NoId]
    /\ wop = [s \in Stages |-> NoOp]
    /\ handler = [id \in Ids |-> [op \in Ops |-> "idle"]]
    /\ is_first_time = TRUE
    /\ cpc = [c \in Clients |-> IF Script[c] = <<>> THEN AfterScript(c) ELSE "request"]
    /\ todo = Script

-----------------------------------------------------------------------------
(* The callers: request_write and journal_wait_for_all.                    *)

NextRequest(c) ==
    /\ todo' = [todo EXCEPT ![c] = Tail(@)]
    /\ cpc' = [cpc EXCEPT ![c] = IF Tail(todo[c]) = <<>> THEN AfterScript(c) ELSE "request"]

\* get_request_state(write_id) is NULL: request_write returns at once.
RequestOutOfRange(c) ==
    /\ cpc[c] = "request"
    /\ Head(todo[c]) \notin Ids
    /\ NextRequest(c)
    /\ UNCHANGED <<slots, wait, buffer, workers, handler, is_first_time>>

RequestBlocked(c) ==
    /\ cpc[c] = "request"
    /\ Head(todo[c]) \in Ids
    /\ in_use[Head(todo[c])]
    /\ cpc' = [cpc EXCEPT ![c] = "request_cond"]
    /\ UNCHANGED <<slots, wait, buffer, workers, handler, is_first_time, todo>>

RequestClaim(c) ==
    LET id == Head(todo[c]) IN
    /\ cpc[c] = "request"
    /\ id \in Ids
    /\ ~in_use[id]
    /\ in_use' = [in_use EXCEPT ![id] = TRUE]
    /\ complete' = [complete EXCEPT ![id] = {}]
    /\ pending_io' = [pending_io EXCEPT ![id] = 0]
    /\ checkpoint_done' = [checkpoint_done EXCEPT ![id] = FALSE]
    /\ cpc' = [cpc EXCEPT ![c] = "add"]
    /\ UNCHANGED <<wait, buffer, workers, handler, is_first_time, todo>>

\* circ_buffer_add(&request_buffer, write_id); request_write returns.
RequestAdd(c) ==
    /\ cpc[c] = "add"
    /\ Len(buffer[1]) < BufferSize
    /\ buffer' = [buffer EXCEPT ![1] = Append(@, Head(todo[c]))]
    /\ NextRequest(c)
    /\ UNCHANGED <<slots, wait, workers, handler, is_first_time>>

WaitForAll(c) ==
    /\ cpc[c] = "wait_all"
    /\ cpc' = [cpc EXCEPT ![c] =
                 IF \E id \in Ids : in_use[id] THEN "wait_all_cond" ELSE "done"]
    /\ UNCHANGED <<slots, wait, buffer, workers, handler, is_first_time, todo>>

\* POSIX lets pthread_cond_wait return without a signal; both callers loop.
SpuriousWakeup(c) ==
    /\ c \in CondWaiters
    /\ Wake(c)
    /\ UNCHANGED <<slots, wait, buffer, workers, handler, is_first_time, todo>>

-----------------------------------------------------------------------------
(* The three workers.                                                      *)

Remove(s) ==
    /\ wpc[s] = "remove"
    /\ buffer[s] # <<>>
    /\ wid' = [wid EXCEPT ![s] = Head(buffer[s])]
    /\ buffer' = [buffer EXCEPT ![s] = Tail(@)]
    /\ wpc' = [wpc EXCEPT ![s] = "reset"]
    /\ UNCHANGED <<slots, wait, wop, handler, is_first_time, cpc, todo>>

Reset(s) ==
    /\ wpc[s] = "reset"
    /\ complete' = [complete EXCEPT ![wid[s]] = @ \ StageOps[s]]
    /\ wop' = [wop EXCEPT ![s] = FirstOp[s]]
    /\ wpc' = [wpc EXCEPT ![s] = "count"]
    /\ UNCHANGED <<in_use, pending_io, checkpoint_done, wait, buffer, wid, handler,
                   is_first_time, cpc, todo>>

\* Mutant: the operation is not counted before it is issued.
CountNothing(s) ==
    /\ wpc[s] = "count"
    /\ wpc' = [wpc EXCEPT ![s] = "issue"]
    /\ UNCHANGED <<slots, wait, buffer, wid, wop, handler, is_first_time, cpc, todo>>

Count(s) ==
    /\ wpc[s] = "count"
    /\ pending_io' = [pending_io EXCEPT ![wid[s]] = @ + 1]
    /\ wpc' = [wpc EXCEPT ![s] = "issue"]
    /\ UNCHANGED <<in_use, complete, checkpoint_done, wait, buffer, wid, wop, handler,
                   is_first_time, cpc, todo>>

\* The worker goes on to the next operation of the stage, or waits for them all.
Advance(s) ==
    /\ wop' = [wop EXCEPT ![s] = NextOp[@]]
    /\ wpc' = [wpc EXCEPT ![s] = IF NextOp[wop[s]] = NoOp THEN "wait" ELSE "count"]

\* issue_*(id) completes the operation before it returns ...
IssueSync(s) ==
    /\ wpc[s] = "issue"
    /\ wop[s] \notin DelayedOps
    /\ handler' = [handler EXCEPT ![wid[s]][wop[s]] = "flag"]
    /\ wpc' = [wpc EXCEPT ![s] = "call"]
    /\ is_first_time' = (is_first_time /\ wop[s] # "journal_txe")
    /\ UNCHANGED <<slots, wait, buffer, wid, wop, cpc, todo>>

\* ... or leaves that to another thread: the first TXE when malloc and
\* pthread_create succeed, and every operation of DelayedOps.
IssueDelayed(s) ==
    /\ wpc[s] = "issue"
    /\ wop[s] \in DelayedOps \/ (wop[s] = "journal_txe" /\ is_first_time)
    /\ handler' = [handler EXCEPT ![wid[s]][wop[s]] = "flag"]
    /\ Advance(s)
    /\ is_first_time' = (is_first_time /\ wop[s] # "journal_txe")
    /\ UNCHANGED <<slots, wait, buffer, wid, cpc, todo>>

\* The handler called by issue_* has returned.
Return(s) ==
    /\ wpc[s] = "call"
    /\ handler[wid[s]][wop[s]] = "idle"
    /\ Advance(s)
    /\ UNCHANGED <<slots, wait, buffer, wid, handler, is_first_time, cpc, todo>>

\* Mutant: the worker goes on without the semaphore of its stage.
WaitForNothing(s) ==
    /\ wpc[s] = "wait"
    /\ wpc' = [wpc EXCEPT ![s] = IF s = 3 THEN "write_complete" ELSE "add"]
    /\ UNCHANGED <<slots, wait, buffer, wid, wop, handler, is_first_time, cpc, todo>>

Wait(s) ==
    /\ wpc[s] = "wait"
    /\ wait[s][wid[s]] > 0
    /\ wait' = [wait EXCEPT ![s][wid[s]] = @ - 1]
    /\ wpc' = [wpc EXCEPT ![s] = IF s = 3 THEN "write_complete" ELSE "add"]
    /\ UNCHANGED <<slots, buffer, wid, wop, handler, is_first_time, cpc, todo>>

Add(s) ==
    /\ wpc[s] = "add"
    /\ Len(buffer[s + 1]) < BufferSize
    /\ buffer' = [buffer EXCEPT ![s + 1] = Append(@, wid[s])]
    /\ wpc' = [wpc EXCEPT ![s] = "remove"]
    /\ wid' = [wid EXCEPT ![s] = NoId]
    /\ UNCHANGED <<slots, wait, wop, handler, is_first_time, cpc, todo>>

\* The call of write_complete(id), which the file system sees.
WriteComplete ==
    /\ wpc[3] = "write_complete"
    /\ wpc' = [wpc EXCEPT ![3] = "checkpoint"]
    /\ UNCHANGED <<slots, wait, buffer, wid, wop, handler, is_first_time, cpc, todo>>

Checkpoint ==
    /\ wpc[3] = "checkpoint"
    /\ TryFree(wid[3], TRUE, pending_io[wid[3]])
    /\ wpc' = [wpc EXCEPT ![3] = "remove"]
    /\ wid' = [wid EXCEPT ![3] = NoId]
    /\ UNCHANGED <<wait, buffer, wop, handler, is_first_time, todo>>

-----------------------------------------------------------------------------
(* The completion handlers.                                                *)

\* First critical section: set the flag, and post the semaphore of the stage
\* when this was its last flag.  journal_txe_complete posts after unlocking.
HandlerFlag(id, op) ==
    LET s == StageOf[op] IN
    /\ handler[id][op] = "flag"
    /\ complete' = [complete EXCEPT ![id] = @ \cup {op}]
    /\ IF op = "journal_txe"
         THEN /\ handler' = [handler EXCEPT ![id][op] = "post"]
              /\ UNCHANGED wait
         ELSE /\ handler' = [handler EXCEPT ![id][op] = "drop"]
              /\ wait' = IF StageOps[s] \subseteq complete[id] \cup {op}
                           THEN [wait EXCEPT ![s][id] = @ + 1] ELSE wait
    /\ UNCHANGED <<in_use, pending_io, checkpoint_done, buffer, workers,
                   is_first_time, cpc, todo>>

HandlerPost(id, op) ==
    /\ handler[id][op] = "post"
    /\ wait' = [wait EXCEPT ![StageOf[op]][id] = @ + 1]
    /\ handler' = [handler EXCEPT ![id][op] = "drop"]
    /\ UNCHANGED <<slots, buffer, workers, is_first_time, cpc, todo>>

\* Mutant: the counter is decremented for the flag and again for the post.
HandlerDropUnguarded(id, op) ==
    /\ handler[id][op] = "drop"
    /\ TryFree(id, checkpoint_done[id],
               pending_io[id] - (IF op = "journal_txe" THEN 2 ELSE 1))
    /\ handler' = [handler EXCEPT ![id][op] = "idle"]
    /\ UNCHANGED <<wait, buffer, workers, is_first_time, todo>>

\* decrement_pending_and_maybe_free.
HandlerDrop(id, op) ==
    /\ handler[id][op] = "drop"
    /\ TryFree(id, checkpoint_done[id],
               IF pending_io[id] > 0 THEN pending_io[id] - 1 ELSE pending_io[id])
    /\ handler' = [handler EXCEPT ![id][op] = "idle"]
    /\ UNCHANGED <<wait, buffer, workers, is_first_time, todo>>

-----------------------------------------------------------------------------
Client(c) ==
    \/ RequestOutOfRange(c)
    \/ RequestBlocked(c)
    \/ RequestClaim(c)
    \/ RequestAdd(c)
    \/ WaitForAll(c)

Worker(s) ==
    \/ Remove(s)
    \/ Reset(s)
    \/ Count(s)
    \/ IssueSync(s)
    \/ IssueDelayed(s)
    \/ Return(s)
    \/ Wait(s)

Handler(id, op) ==
    \/ HandlerFlag(id, op)
    \/ HandlerPost(id, op)
    \/ HandlerDrop(id, op)

\* All callers are done and the workers wait on empty buffers for ever.
Quiescent ==
    /\ \A s \in Stages : buffer[s] = <<>> /\ wpc[s] = "remove"
    /\ \A id \in Ids : \A op \in Ops : handler[id][op] = "idle"

Idle ==
    /\ \A c \in Clients : cpc[c] = "done"
    /\ Quiescent
    /\ UNCHANGED vars

Next ==
    \/ \E c \in Clients : Client(c) \/ SpuriousWakeup(c)
    \/ \E s \in Stages : Worker(s)
    \/ \E s \in {1, 2} : Add(s)
    \/ WriteComplete
    \/ Checkpoint
    \/ \E id \in Ids : \E op \in Ops : Handler(id, op)
    \/ Idle

Spec == Init /\ [][Next]_vars

\* Every thread that can run eventually runs, and the disk answers; nothing
\* makes a thread wake spuriously.
Fairness ==
    /\ \A c \in Clients : WF_vars(Client(c))
    /\ \A s \in Stages : WF_vars(Worker(s))
    /\ \A s \in {1, 2} : WF_vars(Add(s))
    /\ WF_vars(WriteComplete)
    /\ WF_vars(Checkpoint)
    /\ \A id \in Ids : \A op \in Ops : WF_vars(Handler(id, op))

FairSpec == Spec /\ Fairness

-----------------------------------------------------------------------------
(* Safety properties.                                                      *)

Active(id) == {op \in Ops : handler[id][op] # "idle"}

\* Worker s holds id and has counted an operation that it has not issued yet.
Counted(s, id) == wid[s] = id /\ wpc[s] = "issue"

InBuffer(s, id) == \E i \in DOMAIN buffer[s] : buffer[s][i] = id

\* pending_io counts the operations in flight exactly, so that the test for zero
\* in try_free_slot_if_done_locked (82) cannot miss a late handler, and the
\* guard of 328 never hides an extra decrement.
PendingIsExact ==
    \A id \in Ids :
        pending_io[id] = Cardinality(Active(id))
                         + Cardinality({s \in Stages : Counted(s, id)})

\* A free slot is out of reach: no buffer, no worker and no completion handler
\* (not even one that lost the processor between its post and its decrement,
\* 413-415) still refers to it, so the next request_write may reuse it.
FreeSlotIsQuiet ==
    \A id \in Ids : ~in_use[id] =>
        /\ Active(id) = {}
        /\ \A s \in Stages : wid[s] # id /\ ~InBuffer(s, id)

-----------------------------------------------------------------------------
(* Liveness and refinement.                                                *)

\* Every caller comes back from its calls of request_write and, where it makes
\* that call, of journal_wait_for_all.
CallersReturn == \A c \in Clients : <>[](cpc[c] = "done")

\* A thread that request_write blocked gets on when its slot is free.
RequestsAreQueued ==
    \A c \in Clients : cpc[c] = "request_cond" ~> cpc[c] \in {"add", "done"}

\* The id that worker s has taken from its buffer and not handed on.
Hand(s) ==
    IF wid[s] = NoId \/ (s = 3 /\ wpc[s] = "checkpoint") THEN <<>> ELSE <<wid[s]>>

Outstanding == Hand(3) \o buffer[3] \o Hand(2) \o buffer[2] \o Hand(1) \o buffer[1]

Durable == [id \in Ids |->
    IF \E i \in DOMAIN Outstanding : Outstanding[i] = id THEN complete[id] ELSE {}]

Promise == INSTANCE JournalSpec WITH outstanding <- Outstanding, durable <- Durable

\* The pipeline does what JournalSpec promises: write_complete is called in the
\* order of the calls of request_write, once for each, and only for a write all
\* of whose blocks reached the disk, in write-ahead order.
ImplementsPromise == Promise!Spec
=============================================================================

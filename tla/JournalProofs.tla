---------------------------- MODULE JournalProofs ----------------------------
(***************************************************************************)
(* Proofs about Journal, for every number of slots, buffer size, set of    *)
(* callers with any scripts, and any behaviour of the disk: its variables  *)
(* keep their types, the counter of a slot is exact and a free slot out of *)
(* reach, and the pipeline implements JournalSpec.  After them the proofs  *)
(* about RingBuffer, the circular buffer between the stages, for every     *)
(* number of producers, consumers and cells.                               *)
(***************************************************************************)
EXTENDS Journal, RingBuffer, FiniteSetTheorems, SequenceTheorems, TLAPS

\* The sets of operations of the stages, and the order within a stage.
LEMMA StageFacts ==
    /\ StageOps \in [Stages -> SUBSET Ops]
    /\ FirstOp \in [Stages -> Ops]
    /\ NextOp \in [Ops -> Ops \cup {NoOp}]
    /\ StageOf \in [Ops -> Stages]
    /\ \A s \in Stages : /\ FirstOp[s] \in StageOps[s]
                         /\ \A op \in StageOps[s] : NextOp[op] \in StageOps[s] \cup {NoOp}
    /\ NoOp \notin Ops
BY DEF StageOps, FirstOp, NextOp, StageOf, Stages, Ops, NoOp

\* The queues: taking from and adding to a sequence.
LEMMA QueueFacts ==
    ASSUME NEW S, NEW q \in Seq(S), NEW x \in S
    PROVE  /\ Append(q, x) \in Seq(S)
           /\ q # <<>> => Head(q) \in S /\ Tail(q) \in Seq(S)
OBVIOUS

\* The empty hand of a worker is no id.
LEMMA NoIdFacts == NoId \notin Ids
BY ConstantsAssumption DEF NoId, Ids

\* A request moves on only along the script, whose length never grows.
LEMMA NextRequestTypes ==
    ASSUME TypeOK, NEW c \in Clients, todo[c] # <<>>, NextRequest(c)
    PROVE  /\ cpc' \in [Clients -> ClientPC]
           /\ todo' \in [Clients -> Seq(Int)]
BY DEF TypeOK, NextRequest, AfterScript, ClientPC

\* A caller at its request or in the buffer still has a write_id to request.
ScriptsOK ==
    \A c \in Clients :
        /\ cpc[c] \in {"request", "request_cond", "add"} => todo[c] # <<>>
        /\ cpc[c] \in {"request_cond", "add"} => Head(todo[c]) \in Ids

\* A worker has an id in hand except at its buffer, and an operation of its
\* stage to issue while it counts and issues.
WorkersOK ==
    \A s \in Stages :
        /\ wid[s] = NoId <=> wpc[s] = "remove"
        /\ wpc[s] \in {"count", "issue", "call"} => wop[s] \in StageOps[s]

\* Assigning one cell of a two-dimensional array keeps its type.
LEMMA CellUpdate ==
    ASSUME NEW S, NEW T, NEW V, NEW f \in [S -> [T -> V]],
           NEW a \in S, NEW b \in T, NEW v \in V
    PROVE  [f EXCEPT ![a][b] = v] \in [S -> [T -> V]]
OBVIOUS

\* Adding one to a counter, or to a cell of an array of counters.
LEMMA CounterUpdate ==
    ASSUME NEW S, NEW f \in [S -> Nat], NEW a \in S
    PROVE  [f EXCEPT ![a] = @ + 1] \in [S -> Nat]
OBVIOUS

\* Adding one to a cell of a two-dimensional array of counters.
LEMMA CellCounterUpdate ==
    ASSUME NEW S, NEW T, NEW f \in [S -> [T -> Nat]], NEW a \in S, NEW b \in T
    PROVE  /\ [f EXCEPT ![a][b] = @ + 1] \in [S -> [T -> Nat]]
           /\ f[a][b] > 0 => [f EXCEPT ![a][b] = @ - 1] \in [S -> [T -> Nat]]
OBVIOUS

\* Storing the new counter and the flag, and freeing the slot, keep the types.
LEMMA TryFreeTypes ==
    ASSUME TypeOK, ScriptsOK, NEW id \in Ids, NEW ckpt \in BOOLEAN, NEW n \in Nat,
           TryFree(id, ckpt, n)
    PROVE  /\ in_use' \in [Ids -> BOOLEAN]
           /\ complete' \in [Ids -> SUBSET Ops]
           /\ pending_io' \in [Ids -> Nat]
           /\ checkpoint_done' \in [Ids -> BOOLEAN]
           /\ cpc' \in [Clients -> ClientPC]
           /\ \A c \in Clients : cpc'[c] = cpc[c] \/ (cpc[c] = "request_cond" /\ cpc'[c] = "request")
                                               \/ cpc'[c] = "wait_all"
<1>1. cpc' = cpc \/ \E c \in CondWaiters : Wake(c)
  BY DEF TryFree, Signal
<1>2. /\ cpc' \in [Clients -> ClientPC]
      /\ \A c \in Clients : cpc'[c] = cpc[c] \/ (cpc[c] = "request_cond" /\ cpc'[c] = "request")
                                          \/ cpc'[c] = "wait_all"
  BY <1>1 DEF Wake, CondWaiters, TypeOK, ClientPC
<1> QED BY <1>2 DEF TryFree, TypeOK

WellTyped == TypeOK /\ ScriptsOK /\ WorkersOK

\* init_journal.
LEMMA TypeInit == Init => WellTyped
BY ConstantsAssumption, StageFacts, NoIdFacts
   DEF Init, AfterScript, WellTyped, TypeOK, ScriptsOK, WorkersOK, Stages, WorkerPC, HandlerPC, ClientPC

\* Every step keeps the types.
LEMMA TypeStep == WellTyped /\ [Next]_vars => WellTyped'
<1> SUFFICES ASSUME WellTyped, [Next]_vars PROVE WellTyped'
  OBVIOUS
<1>1. ASSUME NEW c \in Clients, RequestOutOfRange(c) PROVE WellTyped'
  BY <1>1, NextRequestTypes, StageFacts, NoIdFacts DEF WellTyped, TypeOK, ScriptsOK, WorkersOK, Stages, WorkerPC, HandlerPC, ClientPC,
         RequestOutOfRange, NextRequest, AfterScript, slots, workers
<1>2. ASSUME NEW c \in Clients, RequestBlocked(c) PROVE WellTyped'
  BY <1>2, StageFacts, NoIdFacts DEF WellTyped, TypeOK, ScriptsOK, WorkersOK, Stages, WorkerPC, HandlerPC, ClientPC,
         RequestBlocked, slots, workers
<1>3. ASSUME NEW c \in Clients, RequestClaim(c) PROVE WellTyped'
  BY <1>3, StageFacts, NoIdFacts DEF WellTyped, TypeOK, ScriptsOK, WorkersOK, Stages, WorkerPC, HandlerPC, ClientPC,
         RequestClaim, slots, workers
<1>4. ASSUME NEW c \in Clients, RequestAdd(c) PROVE WellTyped'
  <2>1. /\ todo[c] # <<>> /\ todo[c] \in Seq(Int)
        /\ Head(todo[c]) \in Ids
    BY <1>4, StageFacts, NoIdFacts DEF WellTyped, TypeOK, ScriptsOK, WorkersOK, Stages, WorkerPC, HandlerPC, ClientPC,
           RequestAdd
  <2>2. Append(buffer[1], Head(todo[c])) \in Seq(Ids)
    BY <2>1, QueueFacts DEF WellTyped, TypeOK, Stages
  <2>3. buffer' \in [Stages -> Seq(Ids)]
    BY <1>4, <2>2, StageFacts, NoIdFacts DEF WellTyped, TypeOK, ScriptsOK, WorkersOK, Stages, WorkerPC, HandlerPC, ClientPC,
           RequestAdd
  <2> QED
    BY <1>4, <2>1, <2>3, NextRequestTypes
       DEF WellTyped, TypeOK, ScriptsOK, WorkersOK, Stages, WorkerPC, HandlerPC, ClientPC,
              RequestAdd, NextRequest, AfterScript, slots, workers
<1>5. ASSUME NEW c \in Clients, WaitForAll(c) PROVE WellTyped'
  BY <1>5, StageFacts, NoIdFacts DEF WellTyped, TypeOK, ScriptsOK, WorkersOK, Stages, WorkerPC, HandlerPC, ClientPC,
         WaitForAll, slots, workers
<1>6. ASSUME NEW c \in Clients, SpuriousWakeup(c) PROVE WellTyped'
  BY <1>6, StageFacts, NoIdFacts DEF WellTyped, TypeOK, ScriptsOK, WorkersOK, Stages, WorkerPC, HandlerPC, ClientPC,
         SpuriousWakeup, Wake, CondWaiters, slots, workers
<1>7. ASSUME NEW s \in Stages, Remove(s) PROVE WellTyped'
  <2>1. Head(buffer[s]) \in Ids /\ Tail(buffer[s]) \in Seq(Ids)
    BY <1>7, QueueFacts, StageFacts, NoIdFacts DEF WellTyped, TypeOK, ScriptsOK, WorkersOK, Stages, WorkerPC, HandlerPC, ClientPC,
           Remove
  <2> QED BY <1>7, <2>1, StageFacts, NoIdFacts DEF WellTyped, TypeOK, ScriptsOK, WorkersOK, Stages, WorkerPC, HandlerPC, ClientPC,
         Remove, slots, workers
<1>8. ASSUME NEW s \in Stages, Reset(s) PROVE WellTyped'
  BY <1>8, StageFacts, NoIdFacts DEF WellTyped, TypeOK, ScriptsOK, WorkersOK, Stages, WorkerPC, HandlerPC, ClientPC,
         Reset, slots, workers
<1>9. ASSUME NEW s \in Stages, Count(s) PROVE WellTyped'
  <2>1. wid[s] \in Ids
    BY <1>9, StageFacts, NoIdFacts DEF WellTyped, TypeOK, ScriptsOK, WorkersOK, Stages, WorkerPC, HandlerPC, ClientPC,
           Count
  <2>2. pending_io' \in [Ids -> Nat]
    BY <1>9, <2>1, CounterUpdate, StageFacts, NoIdFacts DEF WellTyped, TypeOK, ScriptsOK, WorkersOK, Stages, WorkerPC, HandlerPC, ClientPC,
           Count
  <2> QED BY <1>9, <2>2, StageFacts, NoIdFacts DEF WellTyped, TypeOK, ScriptsOK, WorkersOK, Stages, WorkerPC, HandlerPC, ClientPC,
         Count, slots, workers
<1>10. ASSUME NEW s \in Stages, IssueSync(s) PROVE WellTyped'
  <2>1. wid[s] \in Ids /\ wop[s] \in Ops
    BY <1>10, StageFacts, NoIdFacts DEF WellTyped, TypeOK, ScriptsOK, WorkersOK, Stages, WorkerPC, HandlerPC, ClientPC,
           IssueSync
  <2>2. handler' \in [Ids -> [Ops -> HandlerPC]]
    BY <1>10, <2>1, CellUpdate, Zenon DEF WellTyped, TypeOK, ScriptsOK, WorkersOK, Stages, WorkerPC, HandlerPC, ClientPC,
           IssueSync
  <2> QED BY <1>10, <2>2, StageFacts, NoIdFacts DEF WellTyped, TypeOK, ScriptsOK, WorkersOK, Stages, WorkerPC, HandlerPC, ClientPC,
         IssueSync, slots, workers
<1>11. ASSUME NEW s \in Stages, IssueDelayed(s) PROVE WellTyped'
  <2>1. wid[s] \in Ids /\ wop[s] \in Ops /\ wop[s] \in StageOps[s]
    BY <1>11, StageFacts, NoIdFacts DEF WellTyped, TypeOK, ScriptsOK, WorkersOK, Stages, WorkerPC, HandlerPC, ClientPC,
           IssueDelayed
  <2>2. handler' \in [Ids -> [Ops -> HandlerPC]]
    BY <1>11, <2>1, CellUpdate, Zenon DEF WellTyped, TypeOK, ScriptsOK, WorkersOK, Stages, WorkerPC, HandlerPC, ClientPC,
           IssueDelayed
  <2> QED BY <1>11, <2>1, <2>2, StageFacts, NoIdFacts DEF WellTyped, TypeOK, ScriptsOK, WorkersOK, Stages, WorkerPC, HandlerPC, ClientPC,
         IssueDelayed, Advance, slots, workers
<1>12. ASSUME NEW s \in Stages, Return(s) PROVE WellTyped'
  <2>1. wop[s] \in Ops /\ wop[s] \in StageOps[s]
    BY <1>12, StageFacts, NoIdFacts DEF WellTyped, TypeOK, ScriptsOK, WorkersOK, Stages, WorkerPC, HandlerPC, ClientPC,
           Return
  <2> QED BY <1>12, <2>1, StageFacts, NoIdFacts DEF WellTyped, TypeOK, ScriptsOK, WorkersOK, Stages, WorkerPC, HandlerPC, ClientPC,
         Return, Advance, slots, workers
<1>13. ASSUME NEW s \in Stages, Wait(s) PROVE WellTyped'
  <2>1. wid[s] \in Ids
    BY <1>13, StageFacts, NoIdFacts DEF WellTyped, TypeOK, ScriptsOK, WorkersOK, Stages, WorkerPC, HandlerPC, ClientPC,
           Wait
  <2>4. wait' \in [Stages -> [Ids -> Nat]]
    BY <1>13, <2>1, CellCounterUpdate, StageFacts, NoIdFacts DEF WellTyped, TypeOK, ScriptsOK, WorkersOK, Stages, WorkerPC, HandlerPC, ClientPC,
           Wait
  <2> QED BY <1>13, <2>4, StageFacts, NoIdFacts DEF WellTyped, TypeOK, ScriptsOK, WorkersOK, Stages, WorkerPC, HandlerPC, ClientPC,
         Wait, slots, workers
<1>14. ASSUME NEW s \in {1, 2}, Add(s) PROVE WellTyped'
  <2>1. wid[s] \in Ids /\ s \in Stages /\ s + 1 \in Stages
    BY <1>14, StageFacts, NoIdFacts DEF WellTyped, TypeOK, ScriptsOK, WorkersOK, Stages, WorkerPC, HandlerPC, ClientPC,
           Add
  <2>2. Append(buffer[s + 1], wid[s]) \in Seq(Ids)
    BY <2>1, QueueFacts DEF WellTyped, TypeOK
  <2> QED BY <1>14, <2>1, <2>2, StageFacts, NoIdFacts DEF WellTyped, TypeOK, ScriptsOK, WorkersOK, Stages, WorkerPC, HandlerPC, ClientPC,
         Add, slots, workers
<1>15. CASE WriteComplete
  BY <1>15, StageFacts, NoIdFacts DEF WellTyped, TypeOK, ScriptsOK, WorkersOK, Stages, WorkerPC, HandlerPC, ClientPC,
         WriteComplete, slots, workers
<1>16. CASE Checkpoint
  <2>1. wid[3] \in Ids /\ pending_io[wid[3]] \in Nat
    BY <1>16, NoIdFacts DEF Checkpoint, WellTyped, TypeOK, WorkersOK, Stages
  <2>2. TryFree(wid[3], TRUE, pending_io[wid[3]])
    BY <1>16 DEF Checkpoint
  <2> QED
    BY <1>16, <2>1, <2>2, TryFreeTypes
       DEF Checkpoint, WellTyped, TypeOK, ScriptsOK, WorkersOK, Stages, WorkerPC, workers
<1>17. ASSUME NEW id \in Ids, NEW op \in Ops, HandlerFlag(id, op) PROVE WellTyped'
  <2>1. handler' \in [Ids -> [Ops -> HandlerPC]]
    <3>1. PICK step \in HandlerPC : handler' = [handler EXCEPT ![id][op] = step]
      BY <1>17 DEF HandlerFlag, HandlerPC
    <3> QED BY <3>1, CellUpdate DEF WellTyped, TypeOK
  <2>2. StageOf[op] \in Stages
    BY StageFacts
  <2>3. [wait EXCEPT ![StageOf[op]][id] = @ + 1] \in [Stages -> [Ids -> Nat]]
    BY <2>2, CellCounterUpdate DEF WellTyped, TypeOK
  <2>4. wait' \in [Stages -> [Ids -> Nat]]
    BY <1>17, <2>3, StageFacts, NoIdFacts DEF WellTyped, TypeOK, ScriptsOK, WorkersOK, Stages, WorkerPC, HandlerPC, ClientPC,
           HandlerFlag
  <2>5. complete' \in [Ids -> SUBSET Ops]
    BY <1>17, StageFacts, NoIdFacts DEF WellTyped, TypeOK, ScriptsOK, WorkersOK, Stages, WorkerPC, HandlerPC, ClientPC,
           HandlerFlag
  <2> QED BY <1>17, <2>1, <2>4, <2>5, StageFacts, NoIdFacts DEF WellTyped, TypeOK, ScriptsOK, WorkersOK, Stages, WorkerPC, HandlerPC, ClientPC,
         HandlerFlag, workers
<1>18. ASSUME NEW id \in Ids, NEW op \in Ops, HandlerPost(id, op) PROVE WellTyped'
  <2>1. handler' \in [Ids -> [Ops -> HandlerPC]]
    BY <1>18, CellUpdate, Zenon DEF WellTyped, TypeOK, ScriptsOK, WorkersOK, Stages, WorkerPC, HandlerPC, ClientPC,
           HandlerPost
  <2>2. StageOf[op] \in Stages
    BY StageFacts
  <2>3. wait' \in [Stages -> [Ids -> Nat]]
    BY <1>18, <2>2, CellCounterUpdate, StageFacts, NoIdFacts DEF WellTyped, TypeOK, ScriptsOK, WorkersOK, Stages, WorkerPC, HandlerPC, ClientPC,
           HandlerPost
  <2> QED BY <1>18, <2>1, <2>3, StageFacts, NoIdFacts DEF WellTyped, TypeOK, ScriptsOK, WorkersOK, Stages, WorkerPC, HandlerPC, ClientPC,
         HandlerPost, slots, workers
<1>19. ASSUME NEW id \in Ids, NEW op \in Ops, HandlerDrop(id, op) PROVE WellTyped'
  <2>1. handler' \in [Ids -> [Ops -> HandlerPC]]
    BY <1>19, CellUpdate, Zenon DEF WellTyped, TypeOK, ScriptsOK, WorkersOK, Stages, WorkerPC, HandlerPC, ClientPC,
           HandlerDrop
  <2>2. PICK n \in Nat : TryFree(id, checkpoint_done[id], n)
    BY <1>19 DEF HandlerDrop, WellTyped, TypeOK
  <2> QED
    BY <1>19, <2>1, <2>2, TryFreeTypes
       DEF HandlerDrop, WellTyped, TypeOK, ScriptsOK, WorkersOK, workers
<1>20. CASE UNCHANGED vars
  BY <1>20, StageFacts, NoIdFacts DEF WellTyped, TypeOK, ScriptsOK, WorkersOK, Stages, WorkerPC, HandlerPC, ClientPC,
         vars, slots, workers
<1> QED
  BY <1>1, <1>2, <1>3, <1>4, <1>5, <1>6, <1>7, <1>8, <1>9, <1>10, <1>11, <1>12, <1>13,
     <1>14, <1>15, <1>16, <1>17, <1>18, <1>19, <1>20
     DEF Next, Client, Worker, Handler, Idle

\* The variables keep their types in every reachable state, every caller follows
\* its script and every worker its stage.
THEOREM TypeCorrect == Spec => []TypeOK
<1>1. WellTyped => TypeOK
  BY DEF WellTyped
<1> QED BY <1>1, TypeInit, TypeStep, PTL DEF Spec

-----------------------------------------------------------------------------
(* The request slots.                                                      *)

Contains(q, x) == \E i \in DOMAIN q : q[i] = x
Distinct(q) == \A i, j \in DOMAIN q : q[i] = q[j] => i = j

\* A caller has claimed the slot and not yet put the id in a buffer (p2/journal.c:302-318).
Claims(c, id) == cpc[c] = "add" /\ Head(todo[c]) = id

\* Somebody or some buffer has the id.
Held(id) ==
    \/ \E c \in Clients : Claims(c, id)
    \/ \E s \in Stages : wid[s] = id \/ Contains(buffer[s], id)

\* An id is in one place at most: with the caller that claimed its slot, in one cell
\* of one buffer, or in the hand of one worker.
OnePlace ==
    /\ \A id \in Ids :
         /\ \A c, d \in Clients : Claims(c, id) /\ Claims(d, id) => c = d
         /\ \A s, t \in Stages : wid[s] = id /\ wid[t] = id => s = t
         /\ \A s, t \in Stages : Contains(buffer[s], id) /\ Contains(buffer[t], id) => s = t
         /\ \A c \in Clients : \A s \in Stages :
               Claims(c, id) => wid[s] # id /\ ~Contains(buffer[s], id)
         /\ \A s, t \in Stages : wid[s] = id => ~Contains(buffer[t], id)
    /\ \A s \in Stages : Distinct(buffer[s])

\* An id that is somewhere has a slot in use that is not checkpointed yet, and nothing
\* is counted on a free slot.
SlotsInUse ==
    /\ \A id \in Ids : Held(id) => in_use[id] /\ ~checkpoint_done[id]
    /\ \A id \in Ids : ~in_use[id] => pending_io[id] = 0

\* The operations of a write in the order in which they are issued.
Number == [op \in Ops |->
    CASE op = "write_data" -> 1 [] op = "journal_txb" -> 2 [] op = "journal_bitmap" -> 3
      [] op = "journal_inode" -> 4 [] op = "journal_txe" -> 5 [] op = "write_bitmap" -> 6
      [] OTHER -> 7]

FirstNumber == [s \in Stages |-> IF s = 1 THEN 1 ELSE IF s = 2 THEN 5 ELSE 6]
LastNumber == [s \in Stages |-> IF s = 1 THEN 4 ELSE IF s = 2 THEN 5 ELSE 7]

\* The first operation that worker s has not issued yet.
Unissued(s) ==
    CASE wpc[s] = "reset" -> FirstNumber[s]
      [] wpc[s] \in {"count", "issue"} -> Number[wop[s]]
      [] wpc[s] = "call" -> Number[wop[s]] + 1
      [] OTHER -> LastNumber[s] + 1

QuietFrom(id, n) == \A op \in Ops : Number[op] >= n => handler[id][op] = "idle"

\* No operation that is still to be issued has a handler: each of them is issued once
\* for each use of the slot.
NotYetIssued ==
    \A id \in Ids :
        /\ (\E c \in Clients : Claims(c, id)) => QuietFrom(id, 1)
        /\ \A s \in Stages : Contains(buffer[s], id) => QuietFrom(id, FirstNumber[s])
        /\ \A s \in Stages : wid[s] = id => QuietFrom(id, Unissued(s))

\* The inductive invariant.
SlotsExact == OnePlace /\ SlotsInUse /\ NotYetIssued /\ PendingIsExact

-----------------------------------------------------------------------------
(* Sequences, operations and counters.                                     *)

\* What circ_buffer_add does to the ids in a buffer.
LEMMA AppendFacts ==
    ASSUME NEW S, NEW q \in Seq(S), NEW x \in S
    PROVE  /\ \A y : Contains(Append(q, x), y) <=> Contains(q, y) \/ y = x
           /\ Distinct(q) /\ ~Contains(q, x) => Distinct(Append(q, x))
BY DEF Contains, Distinct

\* What circ_buffer_remove does to the ids in a buffer without duplicates.
LEMMA TailFacts ==
    ASSUME NEW S, NEW q \in Seq(S), q # <<>>, Distinct(q)
    PROVE  /\ \A y : Contains(Tail(q), y) <=> Contains(q, y) /\ y # Head(q)
           /\ Distinct(Tail(q))
           /\ Contains(q, Head(q))
<1>1. /\ Len(q) \in Nat \ {0} /\ Head(q) = q[1] /\ DOMAIN q = 1..Len(q)
      /\ DOMAIN Tail(q) = 1..(Len(q) - 1)
      /\ \A i \in DOMAIN Tail(q) : Tail(q)[i] = q[i + 1]
  OBVIOUS
<1>2. Contains(q, Head(q))
  BY <1>1 DEF Contains
<1>3. ASSUME NEW y, Contains(q, y), y # Head(q) PROVE Contains(Tail(q), y)
  <2>1. PICK i \in DOMAIN q : q[i] = y /\ i # 1
    BY <1>1, <1>3 DEF Contains
  <2>2. i - 1 \in DOMAIN Tail(q) /\ Tail(q)[i - 1] = y
    BY <1>1, <2>1
  <2> QED BY <2>2 DEF Contains
<1>4. ASSUME NEW y, Contains(Tail(q), y) PROVE Contains(q, y) /\ y # Head(q)
  <2>1. PICK i \in DOMAIN Tail(q) : Tail(q)[i] = y
    BY <1>4 DEF Contains
  <2>2. i + 1 \in DOMAIN q /\ q[i + 1] = y /\ 1 \in DOMAIN q /\ i + 1 # 1
    BY <1>1, <2>1
  <2> QED BY <1>1, <2>2 DEF Contains, Distinct
<1>5. Distinct(Tail(q))
  BY <1>1 DEF Distinct
<1> QED BY <1>2, <1>3, <1>4, <1>5

\* The numbers follow FirstOp and NextOp.
LEMMA NumberFacts ==
    /\ Number \in [Ops -> 1..7]
    /\ FirstNumber \in [Stages -> 1..7] /\ LastNumber \in [Stages -> 1..7]
    /\ \A s \in Stages : /\ Number[FirstOp[s]] = FirstNumber[s]
                         /\ FirstNumber[s] >= 1 /\ LastNumber[s] >= FirstNumber[s]
    /\ \A s \in {1, 2} : FirstNumber[s + 1] = LastNumber[s] + 1
    /\ \A s \in Stages : \A op \in StageOps[s] :
          IF NextOp[op] = NoOp THEN Number[op] = LastNumber[s]
                               ELSE Number[NextOp[op]] = Number[op] + 1
    /\ \A op, other \in Ops : Number[op] = Number[other] => op = other
BY DEF Number, FirstNumber, LastNumber, FirstOp, NextOp, StageOps, Stages, Ops, NoOp

\* The sets that pending_io counts are finite.
LEMMA FiniteFacts ==
    /\ IsFiniteSet(Ops)
    /\ \A id : IsFiniteSet(Active(id))
<1>1. Number \in Injection(Ops, 1..7)
  <2>1. Number \in [Ops -> 1..7] /\ DOMAIN Number = Ops
    BY NumberFacts
  <2>2. IsInjective(Number)
    BY <2>1, NumberFacts DEF IsInjective
  <2> QED BY <2>1, <2>2, Zenon DEF Injection
<1>2. IsFiniteSet(1..7)
  <2>1. \A a, b \in Int : IsFiniteSet(a..b)
    BY FS_Interval, Zenon
  <2>2. 1 \in Int /\ 7 \in Int
    OBVIOUS
  <2> QED BY <2>1, <2>2, Zenon
<1>3. IsFiniteSet(Ops)
  BY <1>1, <1>2, FS_Injection, Zenon
<1>4. ASSUME NEW id PROVE IsFiniteSet(Active(id))
  BY <1>3, FS_Subset DEF Active
<1> QED BY <1>3, <1>4

\* The workers that have counted an operation and not issued it yet.
CountedBy(id) == {s \in Stages : Counted(s, id)}

\* At most one worker has the id in hand, so at most one has counted for it.
LEMMA CountedFacts ==
    ASSUME OnePlace, NEW id \in Ids
    PROVE  /\ \A s \in Stages : Counted(s, id) => Cardinality(CountedBy(id)) = 1
           /\ (\A s \in Stages : ~Counted(s, id)) => Cardinality(CountedBy(id)) = 0
<1>1. ASSUME NEW s \in Stages, Counted(s, id) PROVE CountedBy(id) = {s}
  BY <1>1 DEF OnePlace, CountedBy, Counted
<1>2. (\A s \in Stages : ~Counted(s, id)) => CountedBy(id) = {}
  BY DEF CountedBy
<1> QED BY <1>1, <1>2, FS_EmptySet, FS_Singleton

-----------------------------------------------------------------------------
(* Steps that move no id.                                                  *)

\* The same callers hold the same claims.
ClaimsKept == \A c \in Clients : \A id \in Ids : Claims(c, id)' <=> Claims(c, id)

\* A step that leaves the callers alone leaves their claims alone.
LEMMA ClaimsKeptByOthers ==
    ASSUME todo' = todo, \A c \in Clients : cpc'[c] = "add" <=> cpc[c] = "add"
    PROVE  ClaimsKept
BY DEF ClaimsKept, Claims

\* An id stays where it is when no claim, no buffer and no worker changes.
LEMMA PlacesKept ==
    ASSUME OnePlace, UNCHANGED <<buffer, wid>>, ClaimsKept
    PROVE  OnePlace' /\ \A id \in Ids : Held(id)' <=> Held(id)
<1>1. OnePlace'
  BY DEF OnePlace, ClaimsKept
<1>2. \A id \in Ids : Held(id)' <=> Held(id)
  BY DEF Held, ClaimsKept
<1> QED BY <1>1, <1>2

\* A step that moves no id, and starts and ends no handler, keeps the invariant.
LEMMA NothingMoves ==
    ASSUME SlotsExact,
           UNCHANGED <<in_use, pending_io, checkpoint_done, buffer, wid>>, ClaimsKept,
           \A id \in Ids : \A op \in Ops : handler'[id][op] = "idle" <=> handler[id][op] = "idle",
           \A s \in Stages : /\ wid[s] # NoId => Unissued(s)' = Unissued(s)
                             /\ wpc'[s] = "issue" <=> wpc[s] = "issue"
    PROVE  SlotsExact'
<1>1. OnePlace' /\ \A id \in Ids : Held(id)' <=> Held(id)
  BY PlacesKept DEF SlotsExact
<1>2. SlotsInUse'
  BY <1>1 DEF SlotsExact, SlotsInUse
<1>3. NotYetIssued'
  BY NoIdFacts DEF SlotsExact, NotYetIssued, QuietFrom, ClaimsKept
<1>4. ASSUME NEW id \in Ids PROVE /\ Active(id)' = Active(id)
                                  /\ {s \in Stages : Counted(s, id)'} = {s \in Stages : Counted(s, id)}
  BY DEF Active, Counted
<1>5. PendingIsExact'
  BY <1>4 DEF SlotsExact, PendingIsExact
<1> QED BY <1>1, <1>2, <1>3, <1>5 DEF SlotsExact

-----------------------------------------------------------------------------
(* Counting, issuing and completing an operation.                          *)

\* A worker counts an operation before it issues it.
LEMMA CountStep ==
    ASSUME WellTyped, SlotsExact, NEW s \in Stages, Count(s)
    PROVE  SlotsExact'
<1> DEFINE id == wid[s]
<1>1. id \in Ids /\ Held(id) /\ in_use[id]
  BY DEF WellTyped, TypeOK, WorkersOK, Count, Held, SlotsExact, SlotsInUse
<1>2. ClaimsKept
  BY ClaimsKeptByOthers DEF Count
<1>3. OnePlace' /\ \A x \in Ids : Held(x)' <=> Held(x)
  BY <1>2, PlacesKept DEF SlotsExact, Count
<1>4. SlotsInUse'
  BY <1>1, <1>3 DEF SlotsExact, SlotsInUse, Count, WellTyped, TypeOK
<1>5. NotYetIssued'
  <2>1. \A t \in Stages : Unissued(t)' = Unissued(t)
    BY DEF Count, Unissued, WellTyped, TypeOK
  <2> QED BY <1>2, <2>1 DEF SlotsExact, NotYetIssued, QuietFrom, ClaimsKept, Count
<1>6. ASSUME NEW x \in Ids
      PROVE  pending_io'[x] = Cardinality(Active(x)') + Cardinality(CountedBy(x)')
  <2>1. Active(x)' = Active(x)
    BY DEF Active, Count
  <2>2. pending_io[x] = Cardinality(Active(x)) + Cardinality(CountedBy(x))
    BY DEF SlotsExact, PendingIsExact, CountedBy
  <2>3. Cardinality(Active(x)) \in Nat
    BY FiniteFacts, FS_CardinalityType
  <2>4. CASE x = id
    <3>1. \A t \in Stages : ~Counted(t, x)
      BY <1>1, <2>4 DEF Counted, Count, SlotsExact, OnePlace
    <3>2. CountedBy(x)' = {s}
      BY <1>1, <2>4 DEF CountedBy, Counted, Count, SlotsExact, OnePlace, WellTyped, TypeOK
    <3>3. Cardinality(CountedBy(x)) = 0 /\ Cardinality(CountedBy(x)') = 1
      BY <3>1, <3>2, CountedFacts, FS_Singleton DEF SlotsExact
    <3>4. pending_io'[x] = pending_io[x] + 1
      BY <1>1, <2>4 DEF Count, WellTyped, TypeOK
    <3> QED BY <2>1, <2>2, <2>3, <3>3, <3>4
  <2>5. CASE x # id
    <3>1. CountedBy(x)' = CountedBy(x)
      BY <2>5 DEF CountedBy, Counted, Count, WellTyped, TypeOK
    <3>2. pending_io'[x] = pending_io[x]
      BY <1>1, <2>5 DEF Count, WellTyped, TypeOK
    <3> QED BY <2>1, <2>2, <3>1, <3>2
  <2> QED BY <2>4, <2>5
<1>7. PendingIsExact'
  BY <1>6 DEF PendingIsExact, CountedBy
<1> QED BY <1>3, <1>4, <1>5, <1>7 DEF SlotsExact

\* An operation that is issued goes from the worker to its handler, whether the worker
\* calls the handler itself or not.
LEMMA IssueStep ==
    ASSUME WellTyped, SlotsExact, NEW s \in Stages, wpc[s] = "issue",
           handler' = [handler EXCEPT ![wid[s]][wop[s]] = "flag"],
           wpc'[s] # "issue", Unissued(s)' = Unissued(s) + 1,
           \A t \in Stages \ {s} : wpc'[t] = wpc[t] /\ wop'[t] = wop[t],
           UNCHANGED <<slots, buffer, wid, cpc, todo>>
    PROVE  SlotsExact'
<1> DEFINE id == wid[s]
           op == wop[s]
<1>1. id \in Ids /\ op \in Ops /\ Unissued(s) = Number[op]
  BY StageFacts DEF WellTyped, TypeOK, WorkersOK, Unissued
<1>2. ClaimsKept
  BY ClaimsKeptByOthers
<1>3. OnePlace' /\ \A x \in Ids : Held(x)' <=> Held(x)
  BY <1>2, PlacesKept DEF SlotsExact
<1>4. SlotsInUse'
  BY <1>3 DEF SlotsExact, SlotsInUse, slots
<1>5. \A x \in Ids : \A o \in Ops :
         handler'[x][o] = IF x = id /\ o = op THEN "flag" ELSE handler[x][o]
  BY <1>1 DEF WellTyped, TypeOK
<1>6. QuietFrom(id, Number[op])
  BY <1>1 DEF SlotsExact, NotYetIssued
<1>7. NotYetIssued'
  <2>1. \A t \in Stages \ {s} : Unissued(t)' = Unissued(t)
    BY DEF Unissued
  <2>2. \A x \in Ids \ {id} : \A n : QuietFrom(x, n) => QuietFrom(x, n)'
    BY <1>5 DEF QuietFrom
  <2>3. QuietFrom(id, Unissued(s))'
    BY <1>1, <1>5, <1>6, NumberFacts DEF QuietFrom
  <2>4. /\ \A c \in Clients : ~Claims(c, id)
        /\ \A t \in Stages : ~Contains(buffer[t], id) /\ (wid[t] = id => t = s)
    BY <1>1 DEF SlotsExact, OnePlace
  <2>5. ASSUME NEW x \in Ids
        PROVE  /\ (\E c \in Clients : Claims(c, x)') => QuietFrom(x, 1)'
               /\ \A t \in Stages : Contains(buffer'[t], x) => QuietFrom(x, FirstNumber[t])'
               /\ \A t \in Stages : wid'[t] = x => QuietFrom(x, Unissued(t))'
    <3>1. CASE x = id
      BY <1>2, <2>3, <2>4, <3>1 DEF ClaimsKept
    <3>2. CASE x # id
      BY <1>2, <2>1, <2>2, <3>2 DEF SlotsExact, NotYetIssued, ClaimsKept
    <3> QED BY <3>1, <3>2
  <2> QED BY <2>5 DEF NotYetIssued
<1>8. ASSUME NEW x \in Ids
      PROVE  pending_io'[x] = Cardinality(Active(x)') + Cardinality(CountedBy(x)')
  <2>1. pending_io[x] = Cardinality(Active(x)) + Cardinality(CountedBy(x))
    BY DEF SlotsExact, PendingIsExact, CountedBy
  <2>2. pending_io'[x] = pending_io[x] /\ Cardinality(Active(x)) \in Nat
    BY FiniteFacts, FS_CardinalityType DEF slots
  <2>3. CASE x = id
    <3>1. Active(x)' = Active(x) \cup {op} /\ op \notin Active(x)
      BY <1>1, <1>5, <1>6, <2>3, NumberFacts DEF Active, QuietFrom
    <3>2. Cardinality(Active(x)') = Cardinality(Active(x)) + 1
      BY <3>1, FiniteFacts, FS_AddElement
    <3>3. CountedBy(x)' = {}
      BY <1>1, <2>3 DEF CountedBy, Counted, SlotsExact, OnePlace
    <3>4. Cardinality(CountedBy(x)) = 1 /\ Cardinality(CountedBy(x)') = 0
      BY <1>1, <2>3, <3>3, CountedFacts, FS_EmptySet DEF SlotsExact, Counted
    <3> QED BY <2>1, <2>2, <3>2, <3>4
  <2>4. CASE x # id
    <3>1. Active(x)' = Active(x)
      BY <1>5, <2>4 DEF Active
    <3>2. CountedBy(x)' = CountedBy(x)
      BY <2>4 DEF CountedBy, Counted
    <3> QED BY <2>1, <2>2, <3>1, <3>2
  <2> QED BY <2>3, <2>4
<1>9. PendingIsExact'
  BY <1>8 DEF PendingIsExact, CountedBy
<1> QED BY <1>3, <1>4, <1>7, <1>9 DEF SlotsExact

\* What try_free_slot_if_done_locked does: it frees the slot of id or nothing.
LEMMA TryFreeFacts ==
    ASSUME WellTyped, NEW id \in Ids, NEW ckpt \in BOOLEAN, NEW n \in Nat,
           TryFree(id, ckpt, n), todo' = todo
    PROVE  /\ ClaimsKept
           /\ pending_io'[id] = n
           /\ \A x \in Ids : x # id => /\ in_use'[x] = in_use[x]
                                       /\ pending_io'[x] = pending_io[x]
                                       /\ checkpoint_done'[x] = checkpoint_done[x]
           /\ \/ /\ in_use'[id] = in_use[id] /\ checkpoint_done'[id] = ckpt
              \/ ckpt /\ n = 0
<1>1. \A c \in Clients : cpc'[c] = "add" <=> cpc[c] = "add"
  BY DEF TryFree, Signal, Wake, CondWaiters, WellTyped, TypeOK
<1>2. ClaimsKept
  BY <1>1, ClaimsKeptByOthers
<1> QED BY <1>2 DEF TryFree, WellTyped, TypeOK

\* A handler leaves: it decrements pending_io and may free the slot.
LEMMA DropStep ==
    ASSUME WellTyped, SlotsExact, NEW id \in Ids, NEW op \in Ops, HandlerDrop(id, op)
    PROVE  SlotsExact'
<1>1. /\ op \in Active(id)
      /\ pending_io[id] = Cardinality(Active(id)) + Cardinality(CountedBy(id))
      /\ Cardinality(Active(id)) \in Nat \ {0}
      /\ Cardinality(CountedBy(id)) \in {0, 1}
  <2>1. op \in Active(id)
    BY DEF Active, HandlerDrop
  <2>2. Cardinality(Active(id)) \in Nat /\ (Cardinality(Active(id)) = 0 <=> Active(id) = {})
    BY FiniteFacts, FS_CardinalityType, FS_EmptySet
  <2>3. Cardinality(CountedBy(id)) \in {0, 1}
    BY CountedFacts DEF SlotsExact
  <2> QED BY <2>1, <2>2, <2>3 DEF SlotsExact, PendingIsExact, CountedBy
<1>2. /\ TryFree(id, checkpoint_done[id], pending_io[id] - 1)
      /\ pending_io[id] - 1 \in Nat
  BY <1>1 DEF HandlerDrop
<1>3. /\ ClaimsKept
      /\ pending_io'[id] = pending_io[id] - 1
      /\ \A x \in Ids : x # id => /\ in_use'[x] = in_use[x]
                                  /\ pending_io'[x] = pending_io[x]
                                  /\ checkpoint_done'[x] = checkpoint_done[x]
      /\ \/ /\ in_use'[id] = in_use[id] /\ checkpoint_done'[id] = checkpoint_done[id]
         \/ checkpoint_done[id] /\ pending_io[id] - 1 = 0
  BY <1>2, TryFreeFacts DEF HandlerDrop, WellTyped, TypeOK
<1>4. OnePlace' /\ \A x \in Ids : Held(x)' <=> Held(x)
  BY <1>3, PlacesKept DEF SlotsExact, HandlerDrop, workers
<1>5. SlotsInUse'
  <2>1. in_use[id]
    BY <1>1 DEF SlotsExact, SlotsInUse
  <2> QED BY <1>3, <1>4, <2>1 DEF SlotsExact, SlotsInUse
<1>6. \A x \in Ids : \A o \in Ops :
         handler'[x][o] = IF x = id /\ o = op THEN "idle" ELSE handler[x][o]
  BY DEF HandlerDrop, WellTyped, TypeOK
<1>7. NotYetIssued'
  <2>1. \A x \in Ids : \A n : QuietFrom(x, n) => QuietFrom(x, n)'
    BY <1>6 DEF QuietFrom
  <2>2. \A s \in Stages : Unissued(s)' = Unissued(s)
    BY DEF Unissued, HandlerDrop, workers
  <2> QED BY <1>3, <2>1, <2>2
          DEF SlotsExact, NotYetIssued, ClaimsKept, HandlerDrop, workers
<1>8. ASSUME NEW x \in Ids
      PROVE  pending_io'[x] = Cardinality(Active(x)') + Cardinality(CountedBy(x)')
  <2>1. CountedBy(x)' = CountedBy(x)
    BY DEF CountedBy, Counted, HandlerDrop, workers
  <2>2. CASE x = id
    <3>1. Active(x)' = Active(x) \ {op}
      BY <1>6, <2>2 DEF Active
    <3>2. Cardinality(Active(x)') = Cardinality(Active(x)) - 1
      BY <1>1, <2>2, <3>1, FiniteFacts, FS_RemoveElement
    <3> QED BY <1>1, <1>3, <2>1, <2>2, <3>2
  <2>3. CASE x # id
    <3>1. Active(x)' = Active(x)
      BY <1>6, <2>3 DEF Active
    <3> QED BY <1>3, <2>1, <2>3, <3>1 DEF SlotsExact, PendingIsExact, CountedBy
  <2> QED BY <2>2, <2>3
<1>9. PendingIsExact'
  BY <1>8 DEF PendingIsExact, CountedBy
<1> QED BY <1>4, <1>5, <1>7, <1>9 DEF SlotsExact

-----------------------------------------------------------------------------
(* Steps that move an id from one place to the next.                       *)

\* request_write takes a free slot, which nobody has.
LEMMA ClaimStep ==
    ASSUME WellTyped, SlotsExact, NEW c \in Clients, RequestClaim(c)
    PROVE  SlotsExact'
<1> DEFINE id == Head(todo[c])
<1>1. id \in Ids /\ ~in_use[id] /\ ~Held(id) /\ pending_io[id] = 0
  BY DEF RequestClaim, SlotsExact, SlotsInUse
<1>2. \A d \in Clients : \A x \in Ids : Claims(d, x)' <=> Claims(d, x) \/ (d = c /\ x = id)
  BY DEF Claims, RequestClaim, WellTyped, TypeOK
<1>3. UNCHANGED <<buffer, wid, wpc, wop, handler, todo>>
  BY DEF RequestClaim, workers
<1>4. OnePlace'
  BY <1>1, <1>2, <1>3 DEF SlotsExact, OnePlace, Held
<1>5. \A x \in Ids : Held(x)' <=> Held(x) \/ x = id
  BY <1>2, <1>3 DEF Held
<1>6. SlotsInUse'
  BY <1>1, <1>5 DEF SlotsExact, SlotsInUse, RequestClaim, WellTyped, TypeOK
<1>7. \A x \in Ids : pending_io'[x] = pending_io[x]
  BY <1>1 DEF RequestClaim, WellTyped, TypeOK
<1>8. PendingIsExact'
  <2>1. \A x \in Ids : Active(x)' = Active(x)
                       /\ {s \in Stages : Counted(s, x)'} = {s \in Stages : Counted(s, x)}
    BY <1>3 DEF Active, Counted
  <2> QED BY <1>7, <2>1 DEF SlotsExact, PendingIsExact
<1>9. NotYetIssued'
  <2>1. Active(id) = {}
    <3>1. Cardinality(Active(id)) \in Nat /\ (Cardinality(Active(id)) = 0 <=> Active(id) = {})
      BY FiniteFacts, FS_CardinalityType, FS_EmptySet
    <3>2. Cardinality(CountedBy(id)) \in {0, 1}
      BY <1>1, CountedFacts DEF SlotsExact
    <3> QED BY <1>1, <3>1, <3>2 DEF SlotsExact, PendingIsExact, CountedBy
  <2>2. QuietFrom(id, 1)'
    BY <1>3, <2>1 DEF Active, QuietFrom
  <2>3. /\ \A s \in Stages : Unissued(s)' = Unissued(s)
        /\ \A x \in Ids : \A n : QuietFrom(x, n)' <=> QuietFrom(x, n)
    BY <1>3 DEF Unissued, QuietFrom
  <2> QED BY <1>2, <1>3, <2>2, <2>3 DEF SlotsExact, NotYetIssued
<1> QED BY <1>4, <1>6, <1>8, <1>9 DEF SlotsExact

\* Nobody has the id in a second place, so that what is known of it goes with it.
LEMMA AddRequestStep ==
    ASSUME WellTyped, SlotsExact, NEW c \in Clients, RequestAdd(c)
    PROVE  SlotsExact'
<1> DEFINE id == Head(todo[c])
<1>1. id \in Ids /\ Claims(c, id)
  BY DEF RequestAdd, WellTyped, ScriptsOK, Claims
<1>2. \A d \in Clients : \A x \in Ids : Claims(d, x)' <=> Claims(d, x) /\ d # c
  BY DEF Claims, RequestAdd, NextRequest, AfterScript, WellTyped, TypeOK
<1>3. /\ \A t \in Stages : \A x : Contains(buffer'[t], x) <=>
                              Contains(buffer[t], x) \/ (t = 1 /\ x = id)
      /\ \A t \in Stages : Distinct(buffer'[t])
  <2>1. ~Contains(buffer[1], id) /\ Distinct(buffer[1]) /\ buffer[1] \in Seq(Ids)
    BY <1>1 DEF SlotsExact, OnePlace, WellTyped, TypeOK, Stages
  <2>2. buffer' = [buffer EXCEPT ![1] = Append(buffer[1], id)]
    BY DEF RequestAdd
  <2>3. \A t \in Stages : buffer'[t] = IF t = 1 THEN Append(buffer[1], id) ELSE buffer[t]
    BY <2>2 DEF WellTyped, TypeOK
  <2> QED BY <1>1, <2>1, <2>3, AppendFacts DEF SlotsExact, OnePlace
<1>4. UNCHANGED <<in_use, checkpoint_done, pending_io, wid, wpc, wop, handler>>
  BY DEF RequestAdd, slots, workers
<1>5. OnePlace'
  BY <1>1, <1>2, <1>3, <1>4 DEF SlotsExact, OnePlace
<1>6. \A x \in Ids : Held(x)' => Held(x)
  BY <1>1, <1>2, <1>3, <1>4 DEF Held
<1>7. SlotsInUse'
  BY <1>4, <1>6 DEF SlotsExact, SlotsInUse
<1>8. PendingIsExact'
  <2>1. \A x \in Ids : Active(x)' = Active(x)
                       /\ {s \in Stages : Counted(s, x)'} = {s \in Stages : Counted(s, x)}
    BY <1>4 DEF Active, Counted
  <2> QED BY <1>4, <2>1 DEF SlotsExact, PendingIsExact
<1>9. NotYetIssued'
  <2>1. /\ \A s \in Stages : Unissued(s)' = Unissued(s)
        /\ \A x \in Ids : \A n : QuietFrom(x, n)' <=> QuietFrom(x, n)
        /\ FirstNumber[1] = 1
    BY <1>4 DEF Unissued, QuietFrom, FirstNumber, Stages
  <2> QED BY <1>1, <1>2, <1>3, <1>4, <2>1 DEF SlotsExact, NotYetIssued
<1> QED BY <1>5, <1>7, <1>8, <1>9 DEF SlotsExact

\* A worker takes an id out of its buffer.
LEMMA RemoveStep ==
    ASSUME WellTyped, SlotsExact, NEW s \in Stages, Remove(s)
    PROVE  SlotsExact'
<1> DEFINE id == Head(buffer[s])
<1>1. /\ buffer[s] \in Seq(Ids) /\ buffer[s] # <<>> /\ Distinct(buffer[s])
      /\ id \in Ids /\ Contains(buffer[s], id) /\ wid[s] = NoId
  BY TailFacts, QueueFacts DEF Remove, SlotsExact, OnePlace, WellTyped, TypeOK, WorkersOK
<1>2. /\ \A t \in Stages : \A x : Contains(buffer'[t], x) <=>
                              Contains(buffer[t], x) /\ ~(t = s /\ x = id)
      /\ \A t \in Stages : Distinct(buffer'[t])
  <2>1. \A t \in Stages : buffer'[t] = IF t = s THEN Tail(buffer[s]) ELSE buffer[t]
    BY DEF Remove, WellTyped, TypeOK
  <2> QED BY <1>1, <2>1, TailFacts DEF SlotsExact, OnePlace
<1>3. /\ \A t \in Stages : wid'[t] = IF t = s THEN id ELSE wid[t]
      /\ \A t \in Stages : wpc'[t] = IF t = s THEN "reset" ELSE wpc[t]
      /\ ClaimsKept
      /\ UNCHANGED <<in_use, checkpoint_done, pending_io, wop, handler>>
  BY ClaimsKeptByOthers DEF Remove, slots, WellTyped, TypeOK
<1>4. OnePlace'
  <2>1. ASSUME NEW x \in Ids
        PROVE  /\ \A c, d \in Clients : Claims(c, x)' /\ Claims(d, x)' => c = d
               /\ \A t, u \in Stages : wid'[t] = x /\ wid'[u] = x => t = u
               /\ \A t, u \in Stages : Contains(buffer'[t], x) /\ Contains(buffer'[u], x) => t = u
               /\ \A c \in Clients : \A t \in Stages :
                     Claims(c, x)' => wid'[t] # x /\ ~Contains(buffer'[t], x)
               /\ \A t, u \in Stages : wid'[t] = x => ~Contains(buffer'[u], x)
    <3>1. CASE x = id
      <4>1. /\ \A c \in Clients : ~Claims(c, id)
            /\ \A t \in Stages : wid[t] # id /\ (Contains(buffer[t], id) => t = s)
        BY <1>1 DEF SlotsExact, OnePlace
      <4> QED BY <1>2, <1>3, <3>1, <4>1 DEF ClaimsKept
    <3>2. CASE x # id
      BY <1>2, <1>3, <3>2, NoIdFacts DEF SlotsExact, OnePlace, ClaimsKept
    <3> QED BY <3>1, <3>2
  <2> QED BY <1>2, <2>1 DEF OnePlace
<1>5. \A x \in Ids : Held(x)' => Held(x)
  BY <1>1, <1>2, <1>3 DEF Held, ClaimsKept
<1>6. SlotsInUse'
  BY <1>3, <1>5 DEF SlotsExact, SlotsInUse
<1>7. PendingIsExact'
  <2>1. \A x \in Ids : Active(x)' = Active(x)
                       /\ {t \in Stages : Counted(t, x)'} = {t \in Stages : Counted(t, x)}
    BY <1>3 DEF Active, Counted, Remove
  <2> QED BY <1>3, <2>1 DEF SlotsExact, PendingIsExact
<1>8. NotYetIssued'
  <2>1. /\ \A t \in Stages : Unissued(t)' = IF t = s THEN FirstNumber[s] ELSE Unissued(t)
        /\ \A x \in Ids : \A n : QuietFrom(x, n)' <=> QuietFrom(x, n)
    BY <1>3 DEF Unissued, QuietFrom
  <2> QED BY <1>1, <1>2, <1>3, <2>1 DEF SlotsExact, NotYetIssued, ClaimsKept
<1> QED BY <1>4, <1>6, <1>7, <1>8 DEF SlotsExact

\* A worker hands its id on to the next stage.
LEMMA AddStep ==
    ASSUME WellTyped, SlotsExact, NEW s \in {1, 2}, Add(s)
    PROVE  SlotsExact'
<1> DEFINE id == wid[s]
<1>1. s \in Stages /\ s + 1 \in Stages /\ id \in Ids /\ id # NoId
  BY NoIdFacts DEF Add, WellTyped, TypeOK, WorkersOK, Stages
<1>2. /\ \A t \in Stages : \A x : Contains(buffer'[t], x) <=>
                              Contains(buffer[t], x) \/ (t = s + 1 /\ x = id)
      /\ \A t \in Stages : Distinct(buffer'[t])
  <2>1. ~Contains(buffer[s + 1], id) /\ Distinct(buffer[s + 1]) /\ buffer[s + 1] \in Seq(Ids)
    BY <1>1 DEF SlotsExact, OnePlace, WellTyped, TypeOK
  <2>2. \A t \in Stages : buffer'[t] = IF t = s + 1 THEN Append(buffer[s + 1], id) ELSE buffer[t]
    BY DEF Add, WellTyped, TypeOK
  <2> QED BY <1>1, <2>1, <2>2, AppendFacts DEF SlotsExact, OnePlace
<1>3. /\ \A t \in Stages : wid'[t] = IF t = s THEN NoId ELSE wid[t]
      /\ \A t \in Stages : wpc'[t] = IF t = s THEN "remove" ELSE wpc[t]
      /\ wpc[s] = "add"
      /\ ClaimsKept
      /\ UNCHANGED <<in_use, checkpoint_done, pending_io, wop, handler>>
  BY <1>1, ClaimsKeptByOthers DEF Add, slots, WellTyped, TypeOK
<1>4. OnePlace'
  <2>1. ASSUME NEW x \in Ids
        PROVE  /\ \A c, d \in Clients : Claims(c, x)' /\ Claims(d, x)' => c = d
               /\ \A t, u \in Stages : wid'[t] = x /\ wid'[u] = x => t = u
               /\ \A t, u \in Stages : Contains(buffer'[t], x) /\ Contains(buffer'[u], x) => t = u
               /\ \A c \in Clients : \A t \in Stages :
                     Claims(c, x)' => wid'[t] # x /\ ~Contains(buffer'[t], x)
               /\ \A t, u \in Stages : wid'[t] = x => ~Contains(buffer'[u], x)
    <3>1. CASE x = id
      BY <1>1, <1>2, <1>3, <3>1, NoIdFacts DEF SlotsExact, OnePlace, ClaimsKept
    <3>2. CASE x # id
      BY <1>2, <1>3, <3>2, NoIdFacts DEF SlotsExact, OnePlace, ClaimsKept
    <3> QED BY <3>1, <3>2
  <2> QED BY <1>2, <2>1 DEF OnePlace
<1>5. \A x \in Ids : Held(x)' => Held(x)
  BY <1>1, <1>2, <1>3, NoIdFacts DEF Held, ClaimsKept
<1>6. SlotsInUse'
  BY <1>3, <1>5 DEF SlotsExact, SlotsInUse
<1>7. PendingIsExact'
  <2>1. \A x \in Ids : Active(x)' = Active(x)
                       /\ {t \in Stages : Counted(t, x)'} = {t \in Stages : Counted(t, x)}
    BY <1>3, NoIdFacts DEF Active, Counted
  <2> QED BY <1>3, <2>1 DEF SlotsExact, PendingIsExact
<1>8. NotYetIssued'
  <2>1. /\ \A t \in Stages \ {s} : Unissued(t)' = Unissued(t)
        /\ Unissued(s) = FirstNumber[s + 1]
        /\ \A x \in Ids : \A n : QuietFrom(x, n)' <=> QuietFrom(x, n)
    BY <1>1, <1>3, NumberFacts DEF Unissued, QuietFrom
  <2> QED BY <1>1, <1>2, <1>3, <2>1, NoIdFacts DEF SlotsExact, NotYetIssued, ClaimsKept
<1> QED BY <1>4, <1>6, <1>7, <1>8 DEF SlotsExact

\* The last worker marks the write as checkpointed and may free its slot.
LEMMA CheckpointStep ==
    ASSUME WellTyped, SlotsExact, Checkpoint
    PROVE  SlotsExact'
<1> DEFINE id == wid[3]
<1>1. 3 \in Stages /\ id \in Ids
  BY NoIdFacts DEF Checkpoint, WellTyped, TypeOK, WorkersOK, Stages
<1>2. /\ ClaimsKept
      /\ \A x \in Ids : pending_io'[x] = pending_io[x]
      /\ \A x \in Ids : x # id => /\ in_use'[x] = in_use[x]
                                  /\ checkpoint_done'[x] = checkpoint_done[x]
      /\ in_use'[id] = in_use[id] \/ pending_io[id] = 0
  <2>1. TryFree(id, TRUE, pending_io[id]) /\ pending_io[id] \in Nat /\ todo' = todo
    BY <1>1 DEF Checkpoint, WellTyped, TypeOK
  <2> QED BY <1>1, <2>1, TryFreeFacts
<1>3. /\ \A t \in Stages : wid'[t] = IF t = 3 THEN NoId ELSE wid[t]
      /\ \A t \in Stages : wpc'[t] = IF t = 3 THEN "remove" ELSE wpc[t]
      /\ wpc[3] = "checkpoint"
      /\ UNCHANGED <<buffer, wop, handler>>
  BY <1>1 DEF Checkpoint, WellTyped, TypeOK
<1>4. OnePlace'
  BY <1>1, <1>2, <1>3, NoIdFacts DEF SlotsExact, OnePlace, ClaimsKept
<1>5. \A x \in Ids : Held(x)' => Held(x) /\ x # id
  BY <1>1, <1>2, <1>3, NoIdFacts DEF Held, ClaimsKept, SlotsExact, OnePlace
<1>6. SlotsInUse'
  <2>1. in_use[id]
    BY <1>1 DEF SlotsExact, SlotsInUse, Held
  <2>2. ASSUME NEW x \in Ids, Held(x)' PROVE in_use'[x] /\ ~checkpoint_done'[x]
    BY <1>2, <1>5, <2>2 DEF SlotsExact, SlotsInUse
  <2>3. ASSUME NEW x \in Ids, ~in_use'[x] PROVE pending_io'[x] = 0
    BY <1>2, <2>1, <2>3 DEF SlotsExact, SlotsInUse
  <2> QED BY <2>2, <2>3 DEF SlotsInUse
<1>7. PendingIsExact'
  <2>1. \A x \in Ids : Active(x)' = Active(x)
                       /\ {t \in Stages : Counted(t, x)'} = {t \in Stages : Counted(t, x)}
    BY <1>3, NoIdFacts DEF Active, Counted
  <2> QED BY <1>2, <2>1 DEF SlotsExact, PendingIsExact
<1>8. NotYetIssued'
  <2>1. /\ \A t \in Stages \ {3} : Unissued(t)' = Unissued(t)
        /\ \A x \in Ids : \A n : QuietFrom(x, n)' <=> QuietFrom(x, n)
    BY <1>3 DEF Unissued, QuietFrom
  <2> QED BY <1>2, <1>3, <2>1, NoIdFacts DEF SlotsExact, NotYetIssued, ClaimsKept
<1> QED BY <1>4, <1>6, <1>7, <1>8 DEF SlotsExact

-----------------------------------------------------------------------------
\* init_journal: all slots are free, all buffers empty, nothing is in flight.
LEMMA SlotsInit == Init => SlotsExact
<1> SUFFICES ASSUME Init PROVE SlotsExact
  OBVIOUS
<1>1. \A id \in Ids : ~Held(id) /\ Active(id) = {} /\ CountedBy(id) = {}
  BY NoIdFacts DEF Init, Held, Claims, Contains, Active, CountedBy, Counted, AfterScript
<1>2. OnePlace
  <2>1. \A s \in Stages : Distinct(buffer[s])
    BY DEF Init, Distinct
  <2> QED BY <1>1, <2>1 DEF OnePlace, Held
<1>3. SlotsInUse
  BY <1>1 DEF Init, SlotsInUse
<1>4. NotYetIssued
  BY <1>1 DEF NotYetIssued, Held
<1>5. PendingIsExact
  <2>1. Cardinality({}) = 0
    BY FS_EmptySet
  <2>2. ASSUME NEW id \in Ids
        PROVE  pending_io[id] = Cardinality(Active(id)) + Cardinality(CountedBy(id))
    <3>1. Active(id) = {} /\ CountedBy(id) = {}
      BY <1>1
    <3>2. Cardinality(Active(id)) = 0 /\ Cardinality(CountedBy(id)) = 0
      BY <2>1, <3>1, Zenon
    <3>3. pending_io[id] = 0
      BY DEF Init
    <3> QED BY <3>2, <3>3
  <2> QED BY <2>2 DEF PendingIsExact, CountedBy
<1> QED BY <1>2, <1>3, <1>4, <1>5 DEF SlotsExact

\* After the call of an operation the next one is the first that is not issued.
LEMMA AdvanceFacts ==
    ASSUME WellTyped, NEW s \in Stages, wop[s] \in StageOps[s], Advance(s)
    PROVE  /\ wpc'[s] # "issue"
           /\ Unissued(s)' = Number[wop[s]] + 1
           /\ \A t \in Stages \ {s} : wpc'[t] = wpc[t] /\ wop'[t] = wop[t]
<1>1. /\ wop'[s] = NextOp[wop[s]]
      /\ wpc'[s] = IF NextOp[wop[s]] = NoOp THEN "wait" ELSE "count"
      /\ \A t \in Stages \ {s} : wpc'[t] = wpc[t] /\ wop'[t] = wop[t]
  BY DEF Advance, WellTyped, TypeOK
<1>2. Unissued(s)' = Number[wop[s]] + 1
  BY <1>1, NumberFacts DEF Unissued
<1> QED BY <1>1, <1>2

\* Every step keeps the invariant.
LEMMA SlotsStep == WellTyped /\ SlotsExact /\ [Next]_vars => SlotsExact'
<1> SUFFICES ASSUME WellTyped, SlotsExact, [Next]_vars PROVE SlotsExact'
  OBVIOUS
<1>1. ASSUME NEW c \in Clients,
             \/ RequestOutOfRange(c) \/ RequestBlocked(c)
             \/ WaitForAll(c) \/ SpuriousWakeup(c)
      PROVE  SlotsExact'
  <2>1. ClaimsKept
    BY <1>1 DEF ClaimsKept, Claims, RequestOutOfRange, NextRequest, AfterScript,
         RequestBlocked, WaitForAll, SpuriousWakeup, Wake, CondWaiters, WellTyped, TypeOK
  <2>2. UNCHANGED <<slots, buffer, workers, handler>>
    BY <1>1 DEF RequestOutOfRange, RequestBlocked, WaitForAll, SpuriousWakeup
  <2> QED BY <2>1, <2>2, NothingMoves DEF slots, workers, Unissued
<1>2. ASSUME NEW s \in Stages, Reset(s) \/ Return(s) \/ Wait(s) PROVE SlotsExact'
  <2>1. UNCHANGED <<in_use, pending_io, checkpoint_done, buffer, wid, handler, cpc, todo>>
    BY <1>2 DEF Reset, Return, Wait, slots
  <2>2. ClaimsKept
    BY <2>1, ClaimsKeptByOthers
  <2>3. \A t \in Stages : /\ Unissued(t)' = Unissued(t)
                          /\ wpc'[t] = "issue" <=> wpc[t] = "issue"
    <3>1. CASE Reset(s)
      BY <3>1, NumberFacts DEF Reset, Unissued, WellTyped, TypeOK
    <3>2. CASE Wait(s)
      BY <3>2 DEF Wait, Unissued, WellTyped, TypeOK
    <3>3. CASE Return(s)
      <4>1. wop[s] \in StageOps[s] /\ wpc[s] = "call" /\ Advance(s)
        BY <3>3 DEF Return, WellTyped, WorkersOK
      <4> QED BY <4>1, AdvanceFacts DEF Unissued
    <3> QED BY <1>2, <3>1, <3>2, <3>3
  <2> QED BY <2>1, <2>2, <2>3, NothingMoves
<1>3. CASE WriteComplete
  <2>1. UNCHANGED <<slots, buffer, wid, wop, handler, cpc, todo>>
    BY <1>3 DEF WriteComplete
  <2>2. ClaimsKept
    BY <2>1, ClaimsKeptByOthers
  <2>3. \A t \in Stages : /\ Unissued(t)' = Unissued(t)
                          /\ wpc'[t] = "issue" <=> wpc[t] = "issue"
    BY <1>3 DEF WriteComplete, Unissued, WellTyped, TypeOK
  <2> QED BY <2>1, <2>2, <2>3, NothingMoves DEF slots
<1>4. ASSUME NEW id \in Ids, NEW op \in Ops, HandlerFlag(id, op) \/ HandlerPost(id, op)
      PROVE  SlotsExact'
  <2>1. UNCHANGED <<in_use, pending_io, checkpoint_done, buffer, workers, cpc, todo>>
    BY <1>4 DEF HandlerFlag, HandlerPost, slots
  <2>2. ClaimsKept
    BY <2>1, ClaimsKeptByOthers
  <2>3. \A x \in Ids : \A o \in Ops : handler'[x][o] = "idle" <=> handler[x][o] = "idle"
    BY <1>4 DEF HandlerFlag, HandlerPost, WellTyped, TypeOK
  <2> QED BY <2>1, <2>2, <2>3, NothingMoves DEF workers, Unissued
<1>5. ASSUME NEW s \in Stages, IssueSync(s) \/ IssueDelayed(s) PROVE SlotsExact'
  <2>1. /\ wpc[s] = "issue"
        /\ handler' = [handler EXCEPT ![wid[s]][wop[s]] = "flag"]
        /\ UNCHANGED <<slots, buffer, wid, cpc, todo>>
    BY <1>5 DEF IssueSync, IssueDelayed
  <2>2. /\ wpc'[s] # "issue" /\ Unissued(s)' = Unissued(s) + 1
        /\ \A t \in Stages \ {s} : wpc'[t] = wpc[t] /\ wop'[t] = wop[t]
    <3>1. wop[s] \in StageOps[s] /\ Unissued(s) = Number[wop[s]]
      BY <2>1 DEF Unissued, WellTyped, WorkersOK
    <3>2. CASE IssueSync(s)
      BY <3>1, <3>2 DEF IssueSync, Unissued, WellTyped, TypeOK
    <3>3. CASE IssueDelayed(s)
      BY <3>1, <3>3, AdvanceFacts DEF IssueDelayed
    <3> QED BY <1>5, <3>2, <3>3
  <2> QED BY <2>1, <2>2, IssueStep
<1>6. CASE UNCHANGED vars
  <2>1. ClaimsKept
    BY <1>6, ClaimsKeptByOthers DEF vars
  <2> QED BY <1>6, <2>1, NothingMoves DEF vars, slots, workers, Unissued
<1>7. \A s \in Stages : (Count(s) \/ Remove(s)) => SlotsExact'
  BY CountStep, RemoveStep
<1>8. \A s \in {1, 2} : Add(s) => SlotsExact'
  BY AddStep
<1>9. \A id \in Ids : \A op \in Ops : HandlerDrop(id, op) => SlotsExact'
  BY DropStep
<1>10. \A c \in Clients : (RequestClaim(c) \/ RequestAdd(c)) => SlotsExact'
  BY ClaimStep, AddRequestStep
<1> QED
  BY <1>1, <1>2, <1>3, <1>4, <1>5, <1>6, <1>7, <1>8, <1>9, <1>10, CheckpointStep
     DEF Next, Client, Worker, Handler, Idle

\* The invariant of the slots holds together with the types.
LEMMA SlotsInvariant == Spec => [](WellTyped /\ SlotsExact)
BY TypeInit, TypeStep, SlotsInit, SlotsStep, PTL DEF Spec

\* pending_io counts the operations of a slot that are in flight, and nothing else, at
\* every moment: the guard of p2/journal.c:328 never hides a decrement too many.
THEOREM CountersAreExact == Spec => []PendingIsExact
<1>1. SlotsExact => PendingIsExact
  BY DEF SlotsExact
<1> QED BY <1>1, SlotsInvariant, PTL

\* A slot that is free is out of reach of all buffers, workers and completion handlers,
\* so that request_write may give it to the next write.
THEOREM FreeSlotsAreQuiet == Spec => []FreeSlotIsQuiet
<1>1. SlotsExact => FreeSlotIsQuiet
  <2> SUFFICES ASSUME SlotsExact, NEW id \in Ids, ~in_use[id]
               PROVE  Active(id) = {} /\ \A s \in Stages : wid[s] # id /\ ~InBuffer(s, id)
    BY DEF FreeSlotIsQuiet
  <2>1. pending_io[id] = 0 /\ ~Held(id)
    BY DEF SlotsExact, SlotsInUse
  <2>2. Cardinality(Active(id)) \in Nat /\ (Cardinality(Active(id)) = 0 <=> Active(id) = {})
    BY FiniteFacts, FS_CardinalityType, FS_EmptySet
  <2>3. Cardinality(CountedBy(id)) \in {0, 1}
    BY CountedFacts DEF SlotsExact
  <2>4. Active(id) = {}
    BY <2>1, <2>2, <2>3 DEF SlotsExact, PendingIsExact, CountedBy
  <2> QED BY <2>1, <2>4 DEF Held, InBuffer, Contains
<1> QED BY <1>1, SlotsInvariant, PTL

-----------------------------------------------------------------------------
(* Journal implements JournalSpec: the pipeline keeps the write-ahead order *)
(* and the order of the requests.                                          *)

\* No completion of stage s of the write is on its way to the worker.
Settled(id, s) ==
    /\ wait[s][id] = 0
    /\ \A op \in StageOps[s] : handler[id][op] \in {"idle", "drop"}

Fresh(id, s) == Settled(id, s) /\ complete[id] \cap StageOps[s] = {}
Done(id, s) == Settled(id, s) /\ StageOps[s] \subseteq complete[id]

\* The first n stages of the write are over, and the others have not begun.
Reached(id, n) == \A r \in Stages : IF r <= n THEN Done(id, r) ELSE Fresh(id, r)

\* Worker s is at its stage of the write: an operation is complete when its handler has
\* set the flag, and the semaphore is posted once, after the last of the flags.
Going(id, s) ==
    /\ \A op \in StageOps[s] :
         /\ Number[op] < Unissued(s) => (op \in complete[id] <=> handler[id][op] # "flag")
         /\ Number[op] >= Unissued(s) => op \notin complete[id]
    /\ wait[s][id] = IF /\ StageOps[s] \subseteq complete[id]
                        /\ \A op \in StageOps[s] : handler[id][op] # "post"
                       THEN 1 ELSE 0

Midway(id, s) ==
    \A r \in Stages : IF r < s THEN Done(id, r) ELSE IF r = s THEN Going(id, s) ELSE Fresh(id, r)

AtWork == {"count", "issue", "call", "wait"}
Through == {"add", "write_complete", "checkpoint"}

\* What is complete follows from where the write is.
InOrder(id) ==
    /\ \A c \in Clients : Claims(c, id) => Reached(id, 0)
    /\ \A s \in Stages : Contains(buffer[s], id) => Reached(id, s - 1)
    /\ \A s \in Stages : wid[s] = id /\ wpc[s] = "reset" => Reached(id, s - 1)
    /\ \A s \in Stages : wid[s] = id /\ wpc[s] \in AtWork => Midway(id, s)
    /\ \A s \in Stages : wid[s] = id /\ wpc[s] \in Through => Reached(id, s)
    /\ ~Held(id) => \A s \in Stages : Settled(id, s)
    /\ \A op \in Ops : handler[id][op] = "post" => op = "journal_txe"

StagesInOrder == \A id \in Ids : InOrder(id)

-----------------------------------------------------------------------------
(* Operations and places.                                                  *)

\* Every operation belongs to one stage, and its number lies in the range of the stage.
LEMMA OpFacts ==
    /\ \A op \in Ops : StageOf[op] \in Stages /\ op \in StageOps[StageOf[op]]
    /\ \A s \in Stages : \A op \in StageOps[s] : op \in Ops /\ StageOf[op] = s
    /\ \A s \in Stages : \A op \in StageOps[s] :
          FirstNumber[s] <= Number[op] /\ Number[op] <= LastNumber[s]
    /\ \A s \in Stages : FirstOp[s] \in StageOps[s]
    /\ StageOps[2] = {"journal_txe"} /\ "journal_txe" \in Ops
BY DEF StageOps, StageOf, FirstOp, Number, FirstNumber, LastNumber, Stages, Ops

\* The write stays as it is when neither its place nor its slot changes.
LEMMA SameOrder ==
    ASSUME NEW x \in Ids, InOrder(x),
           \A c \in Clients : Claims(c, x)' <=> Claims(c, x),
           \A s \in Stages : /\ Contains(buffer[s], x)' <=> Contains(buffer[s], x)
                             /\ wid'[s] = x <=> wid[s] = x
                             /\ wid[s] = x => wpc'[s] = wpc[s] /\ Unissued(s)' = Unissued(s)
                             /\ wait'[s][x] = wait[s][x],
           handler'[x] = handler[x], complete'[x] = complete[x]
    PROVE  InOrder(x)'
<1>1. /\ \A s \in Stages : /\ Settled(x, s)' <=> Settled(x, s)
                           /\ Done(x, s)' <=> Done(x, s)
                           /\ Fresh(x, s)' <=> Fresh(x, s)
                           /\ wid[s] = x => (Going(x, s)' <=> Going(x, s))
      /\ Held(x)' <=> Held(x)
  BY DEF Settled, Done, Fresh, Going, Held
<1>2. \A n : Reached(x, n)' <=> Reached(x, n)
  BY <1>1 DEF Reached
<1>3. \A s \in Stages : wid[s] = x => (Midway(x, s)' <=> Midway(x, s))
  BY <1>1 DEF Midway
<1> QED BY <1>1, <1>2, <1>3 DEF InOrder

\* A write in a buffer is nowhere else, so its buffer says all there is to say of it.
LEMMA OrderInBuffer ==
    ASSUME OnePlace, NEW x \in Ids, NEW s \in Stages, Contains(buffer[s], x),
           Reached(x, s - 1), \A op \in Ops : handler[x][op] = "post" => op = "journal_txe"
    PROVE  InOrder(x)
<1>1. /\ \A c \in Clients : ~Claims(c, x)
      /\ \A t \in Stages : wid[t] # x /\ (Contains(buffer[t], x) => t = s)
      /\ Held(x)
  BY DEF OnePlace, Held
<1> QED BY <1>1 DEF InOrder

\* And so does the worker that has it in hand.
LEMMA OrderInHand ==
    ASSUME OnePlace, NEW x \in Ids, NEW s \in Stages, wid[s] = x,
           wpc[s] = "reset" => Reached(x, s - 1),
           wpc[s] \in AtWork => Midway(x, s),
           wpc[s] \in Through => Reached(x, s),
           \A op \in Ops : handler[x][op] = "post" => op = "journal_txe"
    PROVE  InOrder(x)
<1>1. /\ \A c \in Clients : ~Claims(c, x)
      /\ \A t \in Stages : ~Contains(buffer[t], x) /\ (wid[t] = x => t = s)
      /\ Held(x)
  BY DEF OnePlace, Held
<1> QED BY <1>1 DEF InOrder

\* A handler that has not posted yet belongs to the worker that waits for it.
LEMMA HandlerHasWorker ==
    ASSUME WellTyped, NEW id \in Ids, InOrder(id), NEW op \in Ops,
           handler[id][op] \in {"flag", "post"}
    PROVE  LET s == StageOf[op] IN
           s \in Stages /\ op \in StageOps[s] /\ wid[s] = id /\ wpc[s] \in AtWork /\ Midway(id, s)
<1> DEFINE s == StageOf[op]
<1>1. s \in Stages /\ op \in StageOps[s]
  BY OpFacts
<1>2. ~Settled(id, s)
  BY <1>1 DEF Settled
<1>3. \A n : ~Reached(id, n)
  BY <1>1, <1>2 DEF Reached, Done, Fresh
<1>4. PICK t \in Stages : wid[t] = id
  BY <1>1, <1>2, <1>3 DEF InOrder, Held
<1>5. wpc[t] \in AtWork /\ Midway(id, t)
  BY <1>3, <1>4, NoIdFacts DEF InOrder, AtWork, Through, WellTyped, TypeOK, WorkersOK, WorkerPC
<1>6. t = s
  BY <1>1, <1>2, <1>5 DEF Midway, Done, Fresh, Stages
<1> QED BY <1>1, <1>4, <1>5, <1>6

-----------------------------------------------------------------------------
(* The order of the stages is kept.                                        *)

\* A step that only moves threads that have no id in hand, or a worker within its stage.
LEMMA OrderKept ==
    ASSUME StagesInOrder, ClaimsKept,
           UNCHANGED <<complete, wait, handler, buffer, wid>>,
           \A s \in Stages : wid[s] # NoId =>
               /\ Unissued(s)' = Unissued(s)
               /\ \/ wpc'[s] = wpc[s]
                  \/ {wpc[s], wpc'[s]} \subseteq AtWork
                  \/ {wpc[s], wpc'[s]} \subseteq Through
    PROVE  StagesInOrder'
<1> SUFFICES ASSUME NEW x \in Ids PROVE InOrder(x)'
  BY DEF StagesInOrder
<1>1. /\ \A s \in Stages : /\ Settled(x, s)' <=> Settled(x, s)
                           /\ Done(x, s)' <=> Done(x, s)
                           /\ Fresh(x, s)' <=> Fresh(x, s)
                           /\ wid[s] = x => (Going(x, s)' <=> Going(x, s))
      /\ Held(x)' <=> Held(x)
  BY NoIdFacts DEF Settled, Done, Fresh, Going, Held, ClaimsKept
<1>2. \A n : Reached(x, n)' <=> Reached(x, n)
  BY <1>1 DEF Reached
<1>3. \A s \in Stages : wid[s] = x => (Midway(x, s)' <=> Midway(x, s))
  BY <1>1 DEF Midway
<1>4. \A s \in Stages : wid[s] = x =>
          /\ wpc'[s] = "reset" => wpc[s] = "reset"
          /\ wpc'[s] \in AtWork => wpc[s] \in AtWork
          /\ wpc'[s] \in Through => wpc[s] \in Through
  BY NoIdFacts DEF AtWork, Through
<1> QED BY <1>1, <1>2, <1>3, <1>4 DEF InOrder, StagesInOrder, ClaimsKept

\* A slot that is claimed starts with no flag and no post of an earlier write.
LEMMA OrderClaim ==
    ASSUME WellTyped, SlotsExact, SlotsExact', StagesInOrder, NEW c \in Clients, RequestClaim(c)
    PROVE  StagesInOrder'
<1>1. PICK id \in Ids : id = Head(todo[c]) /\ ~Held(id)
  BY DEF RequestClaim, SlotsExact, SlotsInUse
<1>2. \A d \in Clients : \A x \in Ids : Claims(d, x)' <=> Claims(d, x) \/ (d = c /\ x = id)
  BY <1>1 DEF Claims, RequestClaim, WellTyped, TypeOK
<1>3. /\ UNCHANGED <<wait, buffer, wid, wpc, wop, handler, todo>>
      /\ \A x \in Ids : complete'[x] = IF x = id THEN {} ELSE complete[x]
  BY <1>1 DEF RequestClaim, workers, WellTyped, TypeOK
<1>4. ASSUME NEW x \in Ids \ {id} PROVE InOrder(x)'
  <2>1. \A s \in Stages : Unissued(s)' = Unissued(s)
    BY <1>3 DEF Unissued
  <2> QED BY <1>2, <1>3, <2>1, SameOrder DEF StagesInOrder
<1>5. InOrder(id)'
  <2>1. \A s \in Stages : Fresh(id, s)'
    BY <1>1, <1>3 DEF StagesInOrder, InOrder, Fresh, Settled
  <2>2. Reached(id, 0)'
    BY <2>1 DEF Reached, Stages
  <2>3. \A s \in Stages : wid'[s] # id /\ ~Contains(buffer'[s], id)
    BY <1>1, <1>3 DEF Held
  <2>4. Held(id)'
    BY <1>2 DEF Held
  <2>5. \A op \in Ops : handler'[id][op] = "post" => op = "journal_txe"
    BY <1>1, <1>3 DEF StagesInOrder, InOrder
  <2> QED BY <2>2, <2>3, <2>4, <2>5 DEF InOrder
<1> QED BY <1>1, <1>4, <1>5 DEF StagesInOrder

\* request_write puts the id in the first buffer.
LEMMA OrderAddRequest ==
    ASSUME WellTyped, SlotsExact, SlotsExact', StagesInOrder, NEW c \in Clients, RequestAdd(c)
    PROVE  StagesInOrder'
<1>1. PICK id \in Ids : id = Head(todo[c]) /\ Claims(c, id)
  BY DEF RequestAdd, Claims, WellTyped, ScriptsOK
<1>2. \A d \in Clients : \A x \in Ids \ {id} : Claims(d, x)' <=> Claims(d, x)
  <2>1. \A d \in Clients \ {c} : cpc'[d] = cpc[d] /\ todo'[d] = todo[d]
    BY DEF RequestAdd, NextRequest, WellTyped, TypeOK
  <2>2. cpc[c] = "add" /\ cpc'[c] # "add"
    BY DEF RequestAdd, NextRequest, AfterScript, WellTyped, TypeOK
  <2> QED BY <1>1, <2>1, <2>2 DEF Claims
<1>3. UNCHANGED <<complete, wait, wid, wpc, wop, handler>>
  BY DEF RequestAdd, slots, workers
<1>4. \A t \in Stages : \A x : Contains(buffer'[t], x) <=>
                            Contains(buffer[t], x) \/ (t = 1 /\ x = id)
  <2>1. \A t \in Stages : buffer'[t] = IF t = 1 THEN Append(buffer[1], id) ELSE buffer[t]
    BY <1>1 DEF RequestAdd, WellTyped, TypeOK
  <2>2. buffer[1] \in Seq(Ids)
    BY DEF WellTyped, TypeOK, Stages
  <2> QED BY <1>1, <2>1, <2>2, AppendFacts
<1>5. ASSUME NEW x \in Ids \ {id} PROVE InOrder(x)'
  <2>1. \A s \in Stages : Unissued(s)' = Unissued(s)
    BY <1>3 DEF Unissued
  <2> QED BY <1>2, <1>3, <1>4, <2>1, SameOrder DEF StagesInOrder
<1>6. InOrder(id)'
  <2>1. Reached(id, 0)'
    BY <1>1, <1>3 DEF StagesInOrder, InOrder, Reached, Done, Fresh, Settled
  <2>2. OnePlace' /\ Contains(buffer'[1], id) /\ 1 \in Stages /\ 1 - 1 = 0
    BY <1>4 DEF SlotsExact, Stages
  <2>3. \A op \in Ops : handler'[id][op] = "post" => op = "journal_txe"
    BY <1>1, <1>3 DEF StagesInOrder, InOrder
  <2>4. \A t \in Stages : t = 1 => InOrder(id)'
    BY <1>1, <2>1, <2>2, <2>3 DEF InOrder, OnePlace, Held
  <2> QED BY <2>2, <2>4
<1> QED BY <1>1, <1>5, <1>6 DEF StagesInOrder

\* A worker takes an id out of its buffer.
LEMMA OrderRemove ==
    ASSUME WellTyped, SlotsExact, SlotsExact', StagesInOrder, NEW s \in Stages, Remove(s)
    PROVE  StagesInOrder'
<1>1. /\ buffer[s] \in Seq(Ids) /\ buffer[s] # <<>> /\ Distinct(buffer[s])
      /\ wid[s] = NoId
      /\ \E id \in Ids : id = Head(buffer[s]) /\ Contains(buffer[s], id)
  BY TailFacts, QueueFacts DEF Remove, SlotsExact, OnePlace, WellTyped, TypeOK, WorkersOK
<1> PICK id \in Ids : id = Head(buffer[s]) /\ Contains(buffer[s], id)
  BY <1>1
<1>2. \A t \in Stages : \A x : Contains(buffer'[t], x) <=>
                            Contains(buffer[t], x) /\ ~(t = s /\ x = id)
  <2>1. \A t \in Stages : buffer'[t] = IF t = s THEN Tail(buffer[s]) ELSE buffer[t]
    BY DEF Remove, WellTyped, TypeOK
  <2> QED BY <1>1, <2>1, TailFacts
<1>3. /\ \A t \in Stages : wid'[t] = IF t = s THEN id ELSE wid[t]
      /\ \A t \in Stages : wpc'[t] = IF t = s THEN "reset" ELSE wpc[t]
      /\ UNCHANGED <<complete, wait, wop, handler, cpc, todo>>
  BY DEF Remove, slots, WellTyped, TypeOK
<1>4. ASSUME NEW x \in Ids \ {id} PROVE InOrder(x)'
  <2>1. \A t \in Stages \ {s} : Unissued(t)' = Unissued(t)
    BY <1>3 DEF Unissued
  <2> QED BY <1>1, <1>2, <1>3, <2>1, NoIdFacts, SameOrder DEF StagesInOrder, Claims
<1>5. InOrder(id)'
  <2>1. Reached(id, s - 1)'
    BY <1>1, <1>3 DEF StagesInOrder, InOrder, Reached, Done, Fresh, Settled
  <2>2. \A op \in Ops : handler'[id][op] = "post" => op = "journal_txe"
    BY <1>1, <1>3 DEF StagesInOrder, InOrder
  <2>3. wid'[s] = id /\ wpc'[s] = "reset" /\ wpc'[s] \notin AtWork /\ wpc'[s] \notin Through
    BY <1>3 DEF AtWork, Through
  <2>4. OnePlace'
    BY DEF SlotsExact
  <2> QED BY <1>1, <2>1, <2>2, <2>3, <2>4 DEF InOrder, OnePlace, Held
<1> QED BY <1>1, <1>4, <1>5 DEF StagesInOrder

\* A worker hands its id on to the next stage.
LEMMA OrderAdd ==
    ASSUME WellTyped, SlotsExact, SlotsExact', StagesInOrder, NEW s \in {1, 2}, Add(s)
    PROVE  StagesInOrder'
<1>1. s \in Stages /\ s + 1 \in Stages /\ wid[s] \in Ids
  BY NoIdFacts DEF Add, WellTyped, TypeOK, WorkersOK, Stages
<1> PICK id \in Ids : id = wid[s]
  BY <1>1
<1>2. \A t \in Stages : \A x : Contains(buffer'[t], x) <=>
                            Contains(buffer[t], x) \/ (t = s + 1 /\ x = id)
  <2>1. buffer[s + 1] \in Seq(Ids)
    BY <1>1 DEF WellTyped, TypeOK
  <2>2. \A t \in Stages : buffer'[t] = IF t = s + 1 THEN Append(buffer[s + 1], id) ELSE buffer[t]
    BY DEF Add, WellTyped, TypeOK
  <2>3. \A x : Contains(Append(buffer[s + 1], id), x) <=> Contains(buffer[s + 1], x) \/ x = id
    BY <2>1, AppendFacts
  <2> QED BY <1>1, <2>2, <2>3
<1>3. /\ \A t \in Stages : wid'[t] = IF t = s THEN NoId ELSE wid[t]
      /\ \A t \in Stages : wpc'[t] = IF t = s THEN "remove" ELSE wpc[t]
      /\ wpc[s] = "add"
      /\ UNCHANGED <<complete, wait, wop, handler, cpc, todo>>
  BY <1>1 DEF Add, slots, WellTyped, TypeOK
<1>4. ASSUME NEW x \in Ids \ {id} PROVE InOrder(x)'
  <2>1. \A t \in Stages \ {s} : Unissued(t)' = Unissued(t)
    BY <1>3 DEF Unissued
  <2> QED BY <1>1, <1>2, <1>3, <2>1, NoIdFacts, SameOrder DEF StagesInOrder, Claims
<1>5. InOrder(id)'
  <2>1. Reached(id, s)'
    BY <1>1, <1>3 DEF StagesInOrder, InOrder, Reached, Done, Fresh, Settled, Through
  <2>2. \A op \in Ops : handler'[id][op] = "post" => op = "journal_txe"
    BY <1>1, <1>3 DEF StagesInOrder, InOrder
  <2>3. OnePlace' /\ Contains(buffer'[s + 1], id) /\ (s + 1) - 1 = s
    BY <1>1, <1>2 DEF SlotsExact
  <2>4. /\ \A c \in Clients : ~Claims(c, id)'
        /\ \A t \in Stages : wid'[t] # id /\ (Contains(buffer'[t], id) => t = s + 1)
        /\ Held(id)'
    BY <1>1, <2>3 DEF OnePlace, Held
  <2> QED BY <2>1, <2>2, <2>3, <2>4 DEF InOrder
<1> QED BY <1>1, <1>4, <1>5 DEF StagesInOrder

\* A worker begins its stage: no operation of it is complete, none is posted.
LEMMA OrderReset ==
    ASSUME WellTyped, SlotsExact, SlotsExact', StagesInOrder, NEW s \in Stages, Reset(s)
    PROVE  StagesInOrder' /\ \A x \in Ids : complete'[x] = complete[x]
<1>1. PICK id \in Ids : id = wid[s]
  BY NoIdFacts DEF Reset, WellTyped, TypeOK, WorkersOK
<1>2. Reached(id, s - 1)
  BY <1>1 DEF Reset, StagesInOrder, InOrder
<1>3. Fresh(id, s)
  BY <1>2 DEF Reached, Stages
<1>4. /\ wpc[s] = "reset" /\ wpc'[s] = "count" /\ wop'[s] = FirstOp[s]
      /\ \A t \in Stages \ {s} : wpc'[t] = wpc[t] /\ wop'[t] = wop[t]
      /\ UNCHANGED <<wait, buffer, wid, handler, cpc, todo>>
  BY DEF Reset, WellTyped, TypeOK
<1>5. \A x \in Ids : complete'[x] = complete[x]
  <2>1. complete[id] \ StageOps[s] = complete[id]
    BY <1>3 DEF Fresh
  <2> QED BY <1>1, <2>1 DEF Reset, WellTyped, TypeOK
<1>6. Unissued(s)' = FirstNumber[s]
  BY <1>4, NumberFacts DEF Unissued
<1>7. ASSUME NEW x \in Ids \ {id} PROVE InOrder(x)'
  <2>1. \A t \in Stages \ {s} : Unissued(t)' = Unissued(t)
    BY <1>4 DEF Unissued
  <2> QED BY <1>1, <1>4, <1>5, <2>1, SameOrder DEF StagesInOrder, Claims
<1>8. InOrder(id)'
  <2>1. Going(id, s)'
    <3>1. \A op \in StageOps[s] : Number[op] >= FirstNumber[s]
      BY OpFacts
    <3>2. \A op \in StageOps[s] : op \notin complete'[id]
      BY <1>3, <1>5 DEF Fresh
    <3>3. FirstOp[s] \in StageOps[s] /\ wait'[s][id] = 0
      BY <1>3, <1>4, OpFacts DEF Fresh, Settled
    <3>4. /\ FirstNumber[s] \in Int
          /\ \A op \in StageOps[s] : Number[op] \in Int
      BY NumberFacts, OpFacts
    <3> QED BY <1>6, <3>1, <3>2, <3>3, <3>4 DEF Going
  <2>2. Midway(id, s)'
    <3>1. \A r \in Stages : IF r < s THEN Done(id, r) ELSE r # s => Fresh(id, r)
      BY <1>2 DEF Reached, Stages
    <3>2. \A r \in Stages : (Done(id, r) => Done(id, r)') /\ (Fresh(id, r) => Fresh(id, r)')
      BY <1>4, <1>5 DEF Done, Fresh, Settled
    <3> QED BY <2>1, <3>1, <3>2 DEF Midway
  <2>3. \A op \in Ops : handler'[id][op] = "post" => op = "journal_txe"
    BY <1>4 DEF StagesInOrder, InOrder
  <2>4. wid'[s] = id /\ wpc'[s] \in AtWork /\ wpc'[s] # "reset" /\ wpc'[s] \notin Through
    BY <1>1, <1>4 DEF AtWork, Through
  <2>5. OnePlace'
    BY DEF SlotsExact
  <2> QED BY <2>2, <2>3, <2>4, <2>5 DEF InOrder, OnePlace, Held
<1> QED BY <1>5, <1>7, <1>8 DEF StagesInOrder

\* A worker issues an operation, once.
LEMMA OrderIssue ==
    ASSUME WellTyped, SlotsExact, SlotsExact', StagesInOrder, NEW s \in Stages,
           IssueSync(s) \/ IssueDelayed(s)
    PROVE  StagesInOrder'
<1>1. PICK id \in Ids, op \in StageOps[s] : id = wid[s] /\ op = wop[s]
  BY NoIdFacts DEF IssueSync, IssueDelayed, WellTyped, TypeOK, WorkersOK
<1>2. /\ wpc[s] = "issue" /\ Unissued(s) = Number[op] /\ op \in Ops
      /\ wpc'[s] \in AtWork /\ Unissued(s)' = Number[op] + 1
      /\ \A t \in Stages \ {s} : wpc'[t] = wpc[t] /\ wop'[t] = wop[t]
  <2>1. wpc[s] = "issue" /\ Unissued(s) = Number[op] /\ op \in Ops
    BY <1>1, OpFacts DEF IssueSync, IssueDelayed, Unissued
  <2>2. CASE IssueSync(s)
    BY <1>1, <2>1, <2>2 DEF IssueSync, Unissued, AtWork, WellTyped, TypeOK
  <2>3. CASE IssueDelayed(s)
    <3>1. wop[s] \in StageOps[s] /\ Advance(s)
      BY <1>1, <2>3 DEF IssueDelayed
    <3>2. wpc'[s] \in AtWork
      BY <3>1 DEF Advance, AtWork, WellTyped, TypeOK
    <3> QED BY <1>1, <2>1, <3>1, <3>2, AdvanceFacts
  <2> QED BY <2>1, <2>2, <2>3
<1>3. /\ UNCHANGED <<complete, wait, buffer, wid, cpc, todo>>
      /\ \A x \in Ids : \A o \in Ops :
            handler'[x][o] = IF x = id /\ o = op THEN "flag" ELSE handler[x][o]
  BY <1>1, <1>2 DEF IssueSync, IssueDelayed, slots, WellTyped, TypeOK
<1>4. ASSUME NEW x \in Ids \ {id} PROVE InOrder(x)'
  <2>1. \A t \in Stages \ {s} : Unissued(t)' = Unissued(t)
    BY <1>2 DEF Unissued
  <2>2. handler'[x] = handler[x]
    BY <1>1 DEF IssueSync, IssueDelayed, WellTyped, TypeOK
  <2> QED BY <1>1, <1>2, <1>3, <2>1, <2>2, SameOrder DEF StagesInOrder, Claims
<1>5. InOrder(id)'
  <2>1. Midway(id, s)
    BY <1>1, <1>2 DEF StagesInOrder, InOrder, AtWork
  <2>2. Going(id, s)
    BY <2>1 DEF Midway, Stages
  <2>3. op \notin complete[id]
    BY <1>2, <2>2, NumberFacts DEF Going
  <2>4. \A o \in StageOps[s] \ {op} : Number[o] # Number[op] /\ o \in Ops /\ handler'[id][o] = handler[id][o]
    BY <1>2, <1>3, NumberFacts, OpFacts
  <2>5. \A o \in StageOps[s] : Number[o] \in Int
    BY NumberFacts, OpFacts
  <2>6. Going(id, s)'
    <3>1. ASSUME NEW o \in StageOps[s]
          PROVE  /\ Number[o] < Number[op] + 1 => (o \in complete[id] <=> handler'[id][o] # "flag")
                 /\ Number[o] >= Number[op] + 1 => o \notin complete[id]
      <4>1. CASE o = op
        BY <1>2, <1>3, <2>3, <2>5, <4>1
      <4>2. CASE o # op
        BY <1>2, <2>2, <2>4, <2>5, <4>2 DEF Going
      <4> QED BY <4>1, <4>2
    <3>2. wait[s][id] = 0
      BY <2>2, <2>3 DEF Going
    <3> QED BY <1>2, <1>3, <2>3, <3>1, <3>2 DEF Going
  <2>7. Midway(id, s)'
    <3>1. \A r \in Stages \ {s} : \A o \in StageOps[r] : handler'[id][o] = handler[id][o]
      BY <1>3, OpFacts
    <3>2. \A r \in Stages \ {s} : (Done(id, r) => Done(id, r)') /\ (Fresh(id, r) => Fresh(id, r)')
      BY <1>3, <3>1 DEF Done, Fresh, Settled
    <3> QED BY <2>1, <2>6, <3>2 DEF Midway, Stages
  <2>8. \A o \in Ops : handler'[id][o] = "post" => o = "journal_txe"
    BY <1>3 DEF StagesInOrder, InOrder
  <2>9. wid'[s] = id /\ wpc'[s] # "reset" /\ wpc'[s] \notin Through
    BY <1>1, <1>2, <1>3 DEF AtWork, Through
  <2>10. OnePlace'
    BY DEF SlotsExact
  <2> QED BY <2>7, <2>8, <2>9, <2>10 DEF InOrder, OnePlace, Held
<1> QED BY <1>4, <1>5 DEF StagesInOrder

\* The semaphore lets the worker pass when all operations of the stage are complete.
LEMMA OrderWait ==
    ASSUME WellTyped, SlotsExact, SlotsExact', StagesInOrder, NEW s \in Stages, Wait(s)
    PROVE  StagesInOrder'
<1>1. PICK id \in Ids : id = wid[s]
  BY NoIdFacts DEF Wait, WellTyped, TypeOK, WorkersOK
<1>2. /\ wpc[s] = "wait" /\ wait[s][id] > 0 /\ wpc'[s] \in Through
      /\ \A t \in Stages \ {s} : wpc'[t] = wpc[t]
      /\ \A x \in Ids : \A t \in Stages :
            wait'[t][x] = IF x = id /\ t = s THEN wait[s][id] - 1 ELSE wait[t][x]
      /\ UNCHANGED <<complete, buffer, wid, wop, handler, cpc, todo>>
  BY <1>1 DEF Wait, Through, slots, WellTyped, TypeOK
<1>3. ASSUME NEW x \in Ids \ {id} PROVE InOrder(x)'
  <2>1. \A t \in Stages \ {s} : Unissued(t)' = Unissued(t)
    BY <1>2 DEF Unissued
  <2> QED BY <1>1, <1>2, <2>1, SameOrder DEF StagesInOrder, Claims
<1>4. InOrder(id)'
  <2>1. Midway(id, s)
    BY <1>1, <1>2 DEF StagesInOrder, InOrder, AtWork
  <2>2. Going(id, s)
    BY <2>1 DEF Midway, Stages
  <2>3. /\ StageOps[s] \subseteq complete[id] /\ wait[s][id] = 1
        /\ \A op \in StageOps[s] : handler[id][op] # "post"
    BY <1>2, <2>2 DEF Going
  <2>4. \A op \in StageOps[s] : handler[id][op] # "flag"
    <3>1. Unissued(s) = LastNumber[s] + 1
      BY <1>2 DEF Unissued
    <3>2. \A op \in StageOps[s] : Number[op] < LastNumber[s] + 1
      BY NumberFacts, OpFacts
    <3> QED BY <2>2, <2>3, <3>1, <3>2 DEF Going
  <2>5. Done(id, s)'
    <3>1. \A op \in StageOps[s] : handler[id][op] \in {"idle", "drop"}
      BY <1>1, <2>3, <2>4, OpFacts DEF WellTyped, TypeOK, HandlerPC
    <3> QED BY <1>2, <2>3, <3>1 DEF Done, Settled
  <2>6. Reached(id, s)'
    <3>1. \A r \in Stages \ {s} : (Done(id, r) => Done(id, r)') /\ (Fresh(id, r) => Fresh(id, r)')
      BY <1>2 DEF Done, Fresh, Settled
    <3> QED BY <2>1, <2>5, <3>1 DEF Midway, Reached, Stages
  <2>7. \A op \in Ops : handler'[id][op] = "post" => op = "journal_txe"
    BY <1>2 DEF StagesInOrder, InOrder
  <2>8. wid'[s] = id /\ wpc'[s] # "reset" /\ wpc'[s] \notin AtWork
    BY <1>1, <1>2 DEF AtWork, Through
  <2>9. OnePlace'
    BY DEF SlotsExact
  <2> QED BY <2>6, <2>7, <2>8, <2>9 DEF InOrder, OnePlace, Held
<1> QED BY <1>3, <1>4 DEF StagesInOrder

\* A handler sets its flag, and posts when it was the last of the stage.
LEMMA OrderFlag ==
    ASSUME WellTyped, SlotsExact, SlotsExact', StagesInOrder,
           NEW id \in Ids, NEW op \in Ops, HandlerFlag(id, op)
    PROVE  /\ StagesInOrder'
           /\ wid[StageOf[op]] = id /\ wpc[StageOf[op]] \in AtWork
           /\ Midway(id, StageOf[op]) /\ op \notin complete[id]
<1>1. PICK s \in Stages : s = StageOf[op]
  BY OpFacts
<1>2. /\ handler[id][op] = "flag" /\ op \in StageOps[s] /\ wid[s] = id /\ wpc[s] \in AtWork
      /\ Midway(id, s) /\ Going(id, s)
  <2>1. handler[id][op] = "flag"
    BY DEF HandlerFlag
  <2>2. op \in StageOps[s] /\ wid[s] = id /\ wpc[s] \in AtWork /\ Midway(id, s)
    BY <1>1, <2>1, HandlerHasWorker DEF StagesInOrder
  <2> QED BY <2>1, <2>2 DEF Midway, Stages
<1>3. op \notin complete[id]
  <2>1. QuietFrom(id, Unissued(s))
    BY <1>2 DEF SlotsExact, NotYetIssued
  <2>2. ~(Number[op] >= Unissued(s))
    BY <1>2, <2>1 DEF QuietFrom
  <2>3. Number[op] \in Int /\ Unissued(s) \in Int
    BY <1>2, NumberFacts, OpFacts DEF Unissued, AtWork, WellTyped, WorkersOK
  <2> QED BY <1>2, <2>2, <2>3 DEF Going
<1>4. /\ UNCHANGED <<buffer, workers, cpc, todo>>
      /\ \A x \in Ids : complete'[x] = IF x = id THEN complete[id] \cup {op} ELSE complete[x]
      /\ \A x \in Ids \ {id} : handler'[x] = handler[x]
      /\ \A o \in Ops \ {op} : handler'[id][o] = handler[id][o]
      /\ handler'[id][op] = IF op = "journal_txe" THEN "post" ELSE "drop"
  BY DEF HandlerFlag, WellTyped, TypeOK
<1>5. \A x \in Ids : \A t \in Stages : x # id \/ t # s => wait'[t][x] = wait[t][x]
  BY <1>1 DEF HandlerFlag, WellTyped, TypeOK
<1>6. wait'[s][id] = IF op # "journal_txe" /\ StageOps[s] \subseteq complete[id] \cup {op}
                       THEN wait[s][id] + 1 ELSE wait[s][id]
  BY <1>1 DEF HandlerFlag, WellTyped, TypeOK
<1>7. \A t \in Stages : Unissued(t)' = Unissued(t) /\ wpc'[t] = wpc[t] /\ wid'[t] = wid[t]
  BY <1>4 DEF Unissued, workers
<1>8. ASSUME NEW x \in Ids \ {id} PROVE InOrder(x)'
  BY <1>4, <1>5, <1>7, SameOrder DEF StagesInOrder, Claims
<1>9. \A o \in Ops : handler'[id][o] = "post" => o = "journal_txe"
  BY <1>4 DEF StagesInOrder, InOrder
<1>10. Going(id, s)'
  <2>1. ASSUME NEW o \in StageOps[s]
        PROVE  /\ Number[o] < Unissued(s)' => (o \in complete'[id] <=> handler'[id][o] # "flag")
               /\ Number[o] >= Unissued(s)' => o \notin complete'[id]
    <3>1. CASE o = op
      <4>1. ~(Number[op] >= Unissued(s))
        BY <1>2 DEF SlotsExact, NotYetIssued, QuietFrom
      <4> QED BY <1>4, <1>7, <3>1, <4>1
    <3>2. CASE o # op
      BY <1>2, <1>4, <1>7, <3>2, OpFacts DEF Going
    <3> QED BY <3>1, <3>2
  <2>2. wait[s][id] = 0
    BY <1>2, <1>3 DEF Going
  <2>3. CASE op = "journal_txe"
    BY <1>2, <1>4, <1>6, <2>1, <2>2, <2>3 DEF Going
  <2>4. CASE op # "journal_txe"
    <3>1. \A o \in StageOps[s] : o # "journal_txe" /\ o \in Ops
      BY <1>2, <2>4, OpFacts DEF Stages
    <3>2. \A o \in StageOps[s] : handler'[id][o] # "post"
      BY <1>9, <3>1
    <3>3. complete'[id] = complete[id] \cup {op}
      BY <1>4
    <3> QED BY <1>6, <2>1, <2>2, <2>4, <3>2, <3>3 DEF Going
  <2> QED BY <2>3, <2>4
<1>11. InOrder(id)'
  <2>1. Midway(id, s)'
    <3>1. \A r \in Stages \ {s} : op \notin StageOps[r] /\ StageOps[r] \subseteq Ops
      BY <1>1, OpFacts
    <3>2. \A r \in Stages \ {s} : (Done(id, r) => Done(id, r)') /\ (Fresh(id, r) => Fresh(id, r)')
      BY <1>4, <1>5, <3>1 DEF Done, Fresh, Settled
    <3> QED BY <1>2, <1>10, <3>2 DEF Midway, Stages
  <2>2. wid'[s] = id /\ wpc'[s] # "reset" /\ wpc'[s] \notin Through
    BY <1>2, <1>7 DEF AtWork, Through
  <2>3. OnePlace'
    BY DEF SlotsExact
  <2> QED BY <1>9, <2>1, <2>2, <2>3 DEF InOrder, OnePlace, Held
<1>12. StagesInOrder'
  BY <1>8, <1>11 DEF StagesInOrder
<1> QED BY <1>1, <1>2, <1>3, <1>12

\* The handler of the transaction-end block posts after the mutex is released.
LEMMA OrderPost ==
    ASSUME WellTyped, SlotsExact, SlotsExact', StagesInOrder,
           NEW id \in Ids, NEW op \in Ops, HandlerPost(id, op)
    PROVE  StagesInOrder'
<1>1. PICK s \in Stages : s = StageOf[op]
  BY OpFacts
<1>2. /\ handler[id][op] = "post" /\ op = "journal_txe" /\ StageOps[s] = {op}
      /\ wid[s] = id /\ wpc[s] \in AtWork
      /\ Midway(id, s) /\ Going(id, s)
  <2>1. handler[id][op] = "post"
    BY DEF HandlerPost
  <2>2. op \in StageOps[s] /\ wid[s] = id /\ wpc[s] \in AtWork /\ Midway(id, s)
    BY <1>1, <2>1, HandlerHasWorker DEF StagesInOrder
  <2>3. op = "journal_txe"
    BY <2>1 DEF StagesInOrder, InOrder
  <2>4. StageOps[s] = {op}
    BY <2>2, <2>3, OpFacts DEF Stages
  <2> QED BY <2>1, <2>2, <2>3, <2>4 DEF Midway, Stages
<1>3. op \in complete[id] /\ wait[s][id] = 0
  <2>1. ~(Number[op] >= Unissued(s))
    BY <1>2 DEF SlotsExact, NotYetIssued, QuietFrom
  <2>2. Number[op] \in Int /\ Unissued(s) \in Int
    BY <1>2, NumberFacts, OpFacts DEF Unissued, AtWork, WellTyped, WorkersOK
  <2> QED BY <1>2, <2>1, <2>2 DEF Going
<1>4. /\ UNCHANGED <<complete, buffer, workers, cpc, todo>>
      /\ \A x \in Ids \ {id} : handler'[x] = handler[x]
      /\ \A o \in Ops \ {op} : handler'[id][o] = handler[id][o]
      /\ handler'[id][op] = "drop"
  BY DEF HandlerPost, slots, WellTyped, TypeOK
<1>5. /\ \A x \in Ids : \A t \in Stages : x # id \/ t # s => wait'[t][x] = wait[t][x]
      /\ wait'[s][id] = wait[s][id] + 1
  BY <1>1 DEF HandlerPost, WellTyped, TypeOK
<1>6. \A t \in Stages : Unissued(t)' = Unissued(t) /\ wpc'[t] = wpc[t] /\ wid'[t] = wid[t]
  BY <1>4 DEF Unissued, workers
<1>7. ASSUME NEW x \in Ids \ {id} PROVE InOrder(x)'
  BY <1>4, <1>5, <1>6, SameOrder DEF StagesInOrder, Claims
<1>8. Going(id, s)'
  BY <1>2, <1>3, <1>4, <1>5, <1>6 DEF Going
<1>9. InOrder(id)'
  <2>1. Midway(id, s)'
    <3>1. \A r \in Stages \ {s} : op \notin StageOps[r] /\ StageOps[r] \subseteq Ops
      BY <1>1, OpFacts
    <3>2. \A r \in Stages \ {s} : (Done(id, r) => Done(id, r)') /\ (Fresh(id, r) => Fresh(id, r)')
      BY <1>4, <1>5, <3>1 DEF Done, Fresh, Settled
    <3> QED BY <1>2, <1>8, <3>2 DEF Midway, Stages
  <2>2. wid'[s] = id /\ wpc'[s] # "reset" /\ wpc'[s] \notin Through
    BY <1>2, <1>6 DEF AtWork, Through
  <2>3. \A o \in Ops : handler'[id][o] = "post" => o = "journal_txe"
    BY <1>4 DEF StagesInOrder, InOrder
  <2>4. OnePlace'
    BY DEF SlotsExact
  <2> QED BY <2>1, <2>2, <2>3, <2>4 DEF InOrder, OnePlace, Held
<1> QED BY <1>7, <1>9 DEF StagesInOrder

\* Freeing a slot clears its flags, and no other slot's.
LEMMA TryFreeFlags ==
    ASSUME WellTyped, NEW id \in Ids, NEW ckpt \in BOOLEAN, NEW n, TryFree(id, ckpt, n)
    PROVE  /\ \A x \in Ids : x # id => complete'[x] = complete[x]
           /\ ~ckpt => complete'[id] = complete[id]
           /\ \A c \in Clients : cpc'[c] = "add" <=> cpc[c] = "add"
BY DEF TryFree, Signal, Wake, CondWaiters, WellTyped, TypeOK

\* A handler leaves; a slot it frees is the slot of no write.
LEMMA OrderDrop ==
    ASSUME WellTyped, SlotsExact, StagesInOrder,
           NEW id \in Ids, NEW op \in Ops, HandlerDrop(id, op)
    PROVE  /\ StagesInOrder'
           /\ \A x \in Ids : Held(x) => complete'[x] = complete[x]
<1>1. /\ \A x \in Ids : x # id => complete'[x] = complete[x]
      /\ ~checkpoint_done[id] => complete'[id] = complete[id]
      /\ \A c \in Clients : cpc'[c] = "add" <=> cpc[c] = "add"
  <2>1. PICK n : TryFree(id, checkpoint_done[id], n)
    BY DEF HandlerDrop
  <2> QED BY <2>1, TryFreeFlags DEF WellTyped, TypeOK
<1>2. \A x \in Ids : Held(x) => complete'[x] = complete[x]
  BY <1>1 DEF SlotsExact, SlotsInUse
<1>3. /\ UNCHANGED <<wait, buffer, workers, todo>>
      /\ handler[id][op] = "drop"
      /\ \A x \in Ids : \A o \in Ops :
            handler'[x][o] = IF x = id /\ o = op THEN "idle" ELSE handler[x][o]
  BY DEF HandlerDrop, WellTyped, TypeOK
<1>4. ASSUME NEW x \in Ids PROVE InOrder(x)'
  <2>1. /\ \A t \in Stages : Unissued(t)' = Unissued(t) /\ wpc'[t] = wpc[t] /\ wid'[t] = wid[t]
        /\ \A c \in Clients : Claims(c, x)' <=> Claims(c, x)
        /\ Held(x)' <=> Held(x)
    BY <1>1, <1>3 DEF Unissued, workers, Claims, Held
  <2>2. \A s \in Stages : Settled(x, s) => Settled(x, s)'
    BY <1>3, OpFacts DEF Settled
  <2>3. ASSUME Held(x)
        PROVE  \A s \in Stages : /\ Done(x, s) => Done(x, s)'
                                 /\ Fresh(x, s) => Fresh(x, s)'
                                 /\ Going(x, s) => Going(x, s)'
    <3>1. complete'[x] = complete[x]
      BY <1>2, <2>3
    <3>2. \A o \in Ops : /\ handler'[x][o] = "flag" <=> handler[x][o] = "flag"
                         /\ handler'[x][o] = "post" <=> handler[x][o] = "post"
      BY <1>3
    <3> QED BY <1>3, <2>1, <2>2, <3>1, <3>2, OpFacts DEF Done, Fresh, Going
  <2>4. ASSUME Held(x)
        PROVE  /\ \A n : Reached(x, n) => Reached(x, n)'
               /\ \A s \in Stages : Midway(x, s) => Midway(x, s)'
    BY <2>3, <2>4 DEF Reached, Midway
  <2>5. \A o \in Ops : handler'[x][o] = "post" => o = "journal_txe"
    BY <1>3 DEF StagesInOrder, InOrder
  <2>6. CASE Held(x)
    BY <1>3, <2>1, <2>4, <2>5, <2>6 DEF StagesInOrder, InOrder
  <2>7. CASE ~Held(x)
    BY <1>3, <2>1, <2>2, <2>5, <2>7 DEF StagesInOrder, InOrder, Held
  <2> QED BY <2>6, <2>7
<1> QED BY <1>2, <1>4 DEF StagesInOrder

\* The last worker lets go of the write, all of which is complete.
LEMMA OrderCheckpoint ==
    ASSUME WellTyped, SlotsExact, SlotsExact', StagesInOrder, Checkpoint
    PROVE  /\ StagesInOrder'
           /\ \A x \in Ids : x # wid[3] => complete'[x] = complete[x]
<1>1. PICK id \in Ids : id = wid[3] /\ 3 \in Stages
  BY NoIdFacts DEF Checkpoint, WellTyped, TypeOK, WorkersOK, Stages
<1>2. /\ \A x \in Ids : x # id => complete'[x] = complete[x]
      /\ \A c \in Clients : cpc'[c] = "add" <=> cpc[c] = "add"
  BY <1>1, TryFreeFlags DEF Checkpoint, WellTyped, TypeOK
<1>3. /\ \A t \in Stages : wid'[t] = IF t = 3 THEN NoId ELSE wid[t]
      /\ \A t \in Stages : wpc'[t] = IF t = 3 THEN "remove" ELSE wpc[t]
      /\ wpc[3] = "checkpoint"
      /\ UNCHANGED <<wait, buffer, wop, handler, todo>>
  BY <1>1 DEF Checkpoint, WellTyped, TypeOK
<1>4. \A t \in Stages \ {3} : Unissued(t)' = Unissued(t)
  BY <1>3 DEF Unissued
<1>5. ASSUME NEW x \in Ids \ {id} PROVE InOrder(x)'
  BY <1>1, <1>2, <1>3, <1>4, NoIdFacts, SameOrder DEF StagesInOrder, Claims
<1>6. InOrder(id)'
  <2>1. /\ \A c \in Clients : ~Claims(c, id)
        /\ \A t \in Stages : ~Contains(buffer[t], id) /\ (wid[t] = id => t = 3)
    BY <1>1 DEF SlotsExact, OnePlace
  <2>2. ~Held(id)'
    BY <1>2, <1>3, <2>1, NoIdFacts DEF Held, Claims
  <2>3. Reached(id, 3)
    BY <1>1, <1>3 DEF StagesInOrder, InOrder, Through
  <2>4. \A s \in Stages : Settled(id, s)'
    BY <1>3, <2>3 DEF Reached, Done, Settled, Stages
  <2>5. \A op \in Ops : handler'[id][op] = "post" => op = "journal_txe"
    BY <1>3 DEF StagesInOrder, InOrder
  <2> QED BY <2>2, <2>4, <2>5 DEF InOrder, Held
<1> QED BY <1>1, <1>2, <1>5, <1>6 DEF StagesInOrder

-----------------------------------------------------------------------------
\* init_journal: nobody has an id and nothing is on its way.
LEMMA OrderInit == Init => StagesInOrder
<1> SUFFICES ASSUME Init, NEW id \in Ids PROVE InOrder(id)
  BY DEF StagesInOrder
<1>1. ~Held(id)
  BY NoIdFacts DEF Init, Held, Claims, Contains, AfterScript
<1>2. \A s \in Stages : Settled(id, s)
  BY OpFacts DEF Init, Settled
<1>3. \A op \in Ops : handler[id][op] = "idle"
  BY DEF Init
<1> QED BY <1>1, <1>2, <1>3 DEF InOrder, Held

\* Every step keeps the order of the stages.
LEMMA OrderStep ==
    WellTyped /\ SlotsExact /\ StagesInOrder /\ [Next]_vars => StagesInOrder'
<1> SUFFICES ASSUME WellTyped, SlotsExact, StagesInOrder, [Next]_vars PROVE StagesInOrder'
  OBVIOUS
<1>1. SlotsExact'
  BY SlotsStep
<1>2. ASSUME NEW c \in Clients,
             \/ RequestOutOfRange(c) \/ RequestBlocked(c)
             \/ WaitForAll(c) \/ SpuriousWakeup(c)
      PROVE  StagesInOrder'
  <2>1. ClaimsKept
    BY <1>2 DEF ClaimsKept, Claims, RequestOutOfRange, NextRequest, AfterScript,
         RequestBlocked, WaitForAll, SpuriousWakeup, Wake, CondWaiters, WellTyped, TypeOK
  <2>2. UNCHANGED <<slots, wait, buffer, workers, handler>>
    BY <1>2 DEF RequestOutOfRange, RequestBlocked, WaitForAll, SpuriousWakeup
  <2> QED BY <2>1, <2>2, OrderKept DEF slots, workers, Unissued
<1>3. ASSUME NEW s \in Stages, Count(s) \/ Return(s) PROVE StagesInOrder'
  <2>1. UNCHANGED <<complete, wait, handler, buffer, wid, cpc, todo>>
    BY <1>3 DEF Count, Return, slots
  <2>2. ClaimsKept
    BY <2>1, ClaimsKeptByOthers
  <2>3. \A t \in Stages : /\ Unissued(t)' = Unissued(t)
                          /\ wpc'[t] = wpc[t] \/ {wpc[t], wpc'[t]} \subseteq AtWork
    <3>1. CASE Count(s)
      BY <3>1 DEF Count, Unissued, AtWork, WellTyped, TypeOK
    <3>2. CASE Return(s)
      <4>1. wop[s] \in StageOps[s] /\ wpc[s] = "call" /\ Advance(s)
        BY <3>2 DEF Return, WellTyped, WorkersOK
      <4>2. wpc'[s] \in AtWork
        BY <4>1 DEF Advance, AtWork, WellTyped, TypeOK
      <4> QED BY <4>1, <4>2, AdvanceFacts DEF Unissued, AtWork
    <3> QED BY <1>3, <3>1, <3>2
  <2> QED BY <2>1, <2>2, <2>3, OrderKept
<1>4. CASE WriteComplete
  <2>1. UNCHANGED <<complete, wait, handler, buffer, wid, cpc, todo>>
    BY <1>4 DEF WriteComplete, slots
  <2>2. ClaimsKept
    BY <2>1, ClaimsKeptByOthers
  <2>3. \A t \in Stages : /\ Unissued(t)' = Unissued(t)
                          /\ wpc'[t] = wpc[t] \/ {wpc[t], wpc'[t]} \subseteq Through
    BY <1>4 DEF WriteComplete, Unissued, Through, WellTyped, TypeOK
  <2> QED BY <2>1, <2>2, <2>3, OrderKept
<1>5. CASE UNCHANGED vars
  <2>1. ClaimsKept
    BY <1>5, ClaimsKeptByOthers DEF vars
  <2> QED BY <1>5, <2>1, OrderKept DEF vars, slots, workers, Unissued
<1>6. \A c \in Clients : RequestClaim(c) \/ RequestAdd(c) => StagesInOrder'
  BY <1>1, OrderClaim, OrderAddRequest
<1>7. \A s \in Stages :
         Remove(s) \/ Reset(s) \/ IssueSync(s) \/ IssueDelayed(s) \/ Wait(s) => StagesInOrder'
  BY <1>1, OrderRemove, OrderReset, OrderIssue, OrderWait
<1>8. \A s \in {1, 2} : Add(s) => StagesInOrder'
  BY <1>1, OrderAdd
<1>9. \A id \in Ids : \A op \in Ops : Handler(id, op) => StagesInOrder'
  BY <1>1, OrderFlag, OrderPost, OrderDrop DEF Handler
<1>10. Checkpoint => StagesInOrder'
  BY <1>1, OrderCheckpoint
<1> QED
  BY <1>2, <1>3, <1>4, <1>5, <1>6, <1>7, <1>8, <1>9, <1>10 DEF Next, Client, Worker, Idle

-----------------------------------------------------------------------------
(* The writes in the pipeline, oldest first.                               *)

\* The contents of the pipeline, from the last stage back to the first.
Line(h3, q3, h2, q2, h1, q1) == h3 \o q3 \o h2 \o q2 \o h1 \o q1

\* What is in a concatenation is in one of its parts.
LEMMA ConcatContains ==
    ASSUME NEW S, NEW p \in Seq(S), NEW q \in Seq(S)
    PROVE  /\ p \o q \in Seq(S)
           /\ \A x : Contains(p \o q, x) <=> Contains(p, x) \/ Contains(q, x)
<1>1. /\ p \o q \in Seq(S) /\ Len(p \o q) = Len(p) + Len(q)
      /\ \A i \in 1..(Len(p) + Len(q)) :
            (p \o q)[i] = IF i <= Len(p) THEN p[i] ELSE q[i - Len(p)]
  BY ConcatProperties
<1>2. /\ Len(p) \in Nat /\ DOMAIN p = 1..Len(p)
      /\ Len(q) \in Nat /\ DOMAIN q = 1..Len(q)
      /\ DOMAIN (p \o q) = 1..(Len(p) + Len(q))
  BY <1>1, LenProperties
<1>3. ASSUME NEW x, Contains(p, x) PROVE Contains(p \o q, x)
  <2>1. PICK i \in DOMAIN p : p[i] = x
    BY <1>3 DEF Contains
  <2>2. i \in DOMAIN (p \o q) /\ (p \o q)[i] = x
    BY <1>1, <1>2, <2>1
  <2> QED BY <2>2 DEF Contains
<1>4. ASSUME NEW x, Contains(q, x) PROVE Contains(p \o q, x)
  <2>1. PICK i \in DOMAIN q : q[i] = x
    BY <1>4 DEF Contains
  <2>2. /\ Len(p) + i \in 1..(Len(p) + Len(q)) /\ ~(Len(p) + i <= Len(p))
        /\ Len(p) + i - Len(p) = i
    BY <1>2, <2>1
  <2>3. (p \o q)[Len(p) + i] = x
    BY <1>1, <2>1, <2>2
  <2> QED BY <1>2, <2>2, <2>3 DEF Contains
<1>5. ASSUME NEW x, Contains(p \o q, x) PROVE Contains(p, x) \/ Contains(q, x)
  <2>1. PICK i \in 1..(Len(p) + Len(q)) : (p \o q)[i] = x
    BY <1>2, <1>5 DEF Contains
  <2>2. CASE i <= Len(p)
    BY <1>1, <1>2, <2>1, <2>2 DEF Contains
  <2>3. CASE ~(i <= Len(p))
    <3>1. i - Len(p) \in DOMAIN q /\ q[i - Len(p)] = x
      BY <1>1, <1>2, <2>1, <2>3
    <3> QED BY <3>1 DEF Contains
  <2> QED BY <2>2, <2>3
<1> QED BY <1>1, <1>3, <1>4, <1>5

\* The pipeline holds what its parts hold.
LEMMA LineContains ==
    ASSUME NEW S, NEW h3 \in Seq(S), NEW q3 \in Seq(S), NEW h2 \in Seq(S),
           NEW q2 \in Seq(S), NEW h1 \in Seq(S), NEW q1 \in Seq(S)
    PROVE  /\ Line(h3, q3, h2, q2, h1, q1) \in Seq(S)
           /\ \A x : Contains(Line(h3, q3, h2, q2, h1, q1), x) <=>
                \/ Contains(h3, x) \/ Contains(q3, x) \/ Contains(h2, x)
                \/ Contains(q2, x) \/ Contains(h1, x) \/ Contains(q1, x)
<1> DEFINE a == h3 \o q3
           b == a \o h2
           c == b \o q2
           d == c \o h1
           e == d \o q1
<1>1. a \in Seq(S) /\ \A x : Contains(a, x) <=> Contains(h3, x) \/ Contains(q3, x)
  BY ConcatContains
<1> HIDE DEF a
<1>2. b \in Seq(S) /\ \A x : Contains(b, x) <=> Contains(a, x) \/ Contains(h2, x)
  BY <1>1, ConcatContains
<1> HIDE DEF b
<1>3. c \in Seq(S) /\ \A x : Contains(c, x) <=> Contains(b, x) \/ Contains(q2, x)
  BY <1>2, ConcatContains
<1> HIDE DEF c
<1>4. d \in Seq(S) /\ \A x : Contains(d, x) <=> Contains(c, x) \/ Contains(h1, x)
  BY <1>3, ConcatContains
<1> HIDE DEF d
<1>5. e \in Seq(S) /\ \A x : Contains(e, x) <=> Contains(d, x) \/ Contains(q1, x)
  BY <1>4, ConcatContains
<1>6. Line(h3, q3, h2, q2, h1, q1) = e
  BY Zenon DEF Line, a, b, c, d, e
<1> HIDE DEF e
<1> QED BY <1>1, <1>2, <1>3, <1>4, <1>5, <1>6, Zenon

\* From the head of a buffer to the hand of its worker ...
LEMMA TakeOne ==
    ASSUME NEW S, NEW p \in Seq(S), NEW q \in Seq(S), q # <<>>
    PROVE  /\ (p \o <<Head(q)>>) \o Tail(q) = (p \o <<>>) \o q
           /\ <<Head(q)>> \o Tail(q) = <<>> \o q
<1>1. /\ Head(q) \in S /\ Tail(q) \in Seq(S) /\ Len(Tail(q)) = Len(q) - 1
      /\ \A i \in 1..Len(Tail(q)) : Tail(q)[i] = q[i + 1]
      /\ Head(q) = q[1] /\ Len(q) \in Nat \ {0}
  BY HeadTailProperties
<1>2. <<Head(q)>> \in Seq(S) /\ Len(<<Head(q)>>) = 1 /\ <<Head(q)>>[1] = Head(q)
  BY <1>1
<1>3. <<Head(q)>> \o Tail(q) = q
  <2> DEFINE r == <<Head(q)>> \o Tail(q)
  <2>1. /\ r \in Seq(S) /\ Len(r) = 1 + Len(Tail(q))
        /\ \A i \in 1..(1 + Len(Tail(q))) :
              r[i] = IF i <= 1 THEN <<Head(q)>>[i] ELSE Tail(q)[i - 1]
    BY <1>1, <1>2, ConcatProperties
  <2> HIDE DEF r
  <2>2. Len(r) = Len(q)
    BY <1>1, <2>1
  <2>3. ASSUME NEW i \in 1..Len(r) PROVE r[i] = q[i]
    <3>1. CASE i = 1
      BY <1>1, <1>2, <2>1, <2>2, <3>1
    <3>2. CASE i # 1
      <4>1. i - 1 \in 1..Len(Tail(q)) /\ ~(i <= 1) /\ i \in 1..(1 + Len(Tail(q))) /\ (i - 1) + 1 = i
        BY <1>1, <2>2, <3>2
      <4> QED BY <1>1, <2>1, <4>1
    <3> QED BY <3>1, <3>2
  <2>4. r = q
    BY <2>1, <2>2, <2>3, SeqEqual
  <2> QED BY <2>4 DEF r
<1>4. <<>> \o q = q /\ p \o <<>> = p
  BY ConcatEmptySeq
<1>5. (p \o <<Head(q)>>) \o Tail(q) = p \o (<<Head(q)>> \o Tail(q))
  BY <1>1, <1>2, ConcatAssociative
<1> QED BY <1>3, <1>4, <1>5, Zenon

\* ... and from the hand to the end of the next buffer.
LEMMA GiveOne ==
    ASSUME NEW S, NEW p \in Seq(S), NEW q \in Seq(S), NEW x \in S
    PROVE  /\ (p \o Append(q, x)) \o <<>> = (p \o q) \o <<x>>
           /\ p \o Append(q, x) = Append(p \o q, x)
<1>1. <<x>> \in Seq(S) /\ Append(q, x) \in Seq(S) /\ Append(q, x) = q \o <<x>>
  BY AppendIsConcat, AppendProperties
<1>2. p \o q \in Seq(S) /\ Append(p \o q, x) = (p \o q) \o <<x>>
  BY AppendIsConcat, ConcatProperties
<1>3. (p \o q) \o <<x>> = p \o (q \o <<x>>)
  BY <1>1, ConcatAssociative
<1>4. p \o Append(q, x) \in Seq(S)
  BY <1>1, ConcatProperties
<1>5. (p \o Append(q, x)) \o <<>> = p \o Append(q, x)
  BY <1>4, ConcatEmptySeq
<1> QED BY <1>1, <1>2, <1>3, <1>5, Zenon

\* Taking x out at the head leaves the rest of the pipeline.
Leads(x, q3, h2, q2, h1, q1) ==
    /\ Line(<<x>>, q3, h2, q2, h1, q1) # <<>>
    /\ Head(Line(<<x>>, q3, h2, q2, h1, q1)) = x
    /\ Tail(Line(<<x>>, q3, h2, q2, h1, q1)) = Line(<<>>, q3, h2, q2, h1, q1)

\* The oldest write leaves the pipeline at its head.
LEMMA LineHead ==
    ASSUME NEW x \in Ids, NEW q3 \in Seq(Ids), NEW h2 \in Seq(Ids),
           NEW q2 \in Seq(Ids), NEW h1 \in Seq(Ids), NEW q1 \in Seq(Ids)
    PROVE  Leads(x, q3, h2, q2, h1, q1)
<1> DEFINE a == <<>> \o q3
           b == a \o h2
           c == b \o q2
           d == c \o h1
           e == d \o q1
<1>1. <<x>> \in Seq(Ids)
  OBVIOUS
<1>2. a \in Seq(Ids) /\ a = q3
  BY ConcatEmptySeq
<1>3. <<x>> \o q3 = <<x>> \o a
  BY <1>2
<1> HIDE DEF a
<1>4. b \in Seq(Ids) /\ (<<x>> \o a) \o h2 = <<x>> \o b
  BY <1>1, <1>2, ConcatAssociative, ConcatProperties
<1> HIDE DEF b
<1>5. c \in Seq(Ids) /\ (<<x>> \o b) \o q2 = <<x>> \o c
  BY <1>1, <1>4, ConcatAssociative, ConcatProperties DEF c
<1> HIDE DEF c
<1>6. d \in Seq(Ids) /\ (<<x>> \o c) \o h1 = <<x>> \o d
  BY <1>1, <1>5, ConcatAssociative, ConcatProperties DEF d
<1> HIDE DEF d
<1>7. e \in Seq(Ids) /\ (<<x>> \o d) \o q1 = <<x>> \o e
  BY <1>1, <1>6, ConcatAssociative, ConcatProperties DEF e
<1>8. Line(<<>>, q3, h2, q2, h1, q1) = e
  BY Zenon DEF Line, a, b, c, d, e
<1> HIDE DEF e
<1>9. Line(<<x>>, q3, h2, q2, h1, q1) = <<x>> \o e
  BY <1>3, <1>4, <1>5, <1>6, <1>7, Zenon DEF Line
<1>10. <<x>> \o e # <<>> /\ Head(<<x>> \o e) = x /\ Tail(<<x>> \o e) = e
  <2> DEFINE r == <<x>> \o e
  <2>1. /\ r \in Seq(Ids) /\ Len(r) = 1 + Len(e) /\ Len(e) \in Nat
        /\ \A i \in 1..(1 + Len(e)) : r[i] = IF i <= 1 THEN <<x>>[i] ELSE e[i - 1]
    BY <1>1, <1>7, ConcatProperties
  <2> HIDE DEF r
  <2>2. r # <<>> /\ Head(r) = x
    BY <2>1
  <2>3. /\ Tail(r) \in Seq(Ids) /\ Len(Tail(r)) = Len(r) - 1
        /\ \A i \in 1..Len(Tail(r)) : Tail(r)[i] = r[i + 1]
    BY <2>1, <2>2, HeadTailProperties
  <2>4. Len(Tail(r)) = Len(e)
    BY <2>1, <2>3
  <2>5. ASSUME NEW i \in 1..Len(e) PROVE Tail(r)[i] = e[i]
    <3>1. i + 1 \in 1..(1 + Len(e)) /\ ~(i + 1 <= 1) /\ (i + 1) - 1 = i
      BY <2>1
    <3> QED BY <2>1, <2>3, <2>4, <3>1
  <2>6. Tail(r) = e
    BY <1>7, <2>3, <2>4, <2>5, SeqEqual
  <2> QED BY <2>2, <2>6 DEF r
<1> QED BY <1>8, <1>9, <1>10 DEF Leads

-----------------------------------------------------------------------------
(* Journal implements JournalSpec.                                         *)

\* The id that a worker has taken and not handed on or reported.
LEMMA HandFacts ==
    ASSUME WellTyped, NEW s \in Stages
    PROVE  /\ Hand(s) \in Seq(Ids)
           /\ \A x \in Ids : Contains(Hand(s), x) <=>
                 wid[s] = x /\ ~(s = 3 /\ wpc[s] = "checkpoint")
<1>1. CASE wid[s] = NoId \/ (s = 3 /\ wpc[s] = "checkpoint")
  <2>1. Hand(s) = <<>>
    BY <1>1 DEF Hand
  <2> QED BY <1>1, <2>1, NoIdFacts DEF Contains
<1>2. CASE ~(wid[s] = NoId \/ (s = 3 /\ wpc[s] = "checkpoint"))
  <2>1. Hand(s) = <<wid[s]>> /\ wid[s] \in Ids
    BY <1>2 DEF Hand, WellTyped, TypeOK
  <2> QED BY <1>2, <2>1 DEF Contains
<1> QED BY <1>1, <1>2

\* The outstanding writes are those in buffers and hands.
LEMMA OutstandingFacts ==
    ASSUME WellTyped
    PROVE  /\ Outstanding = Line(Hand(3), buffer[3], Hand(2), buffer[2], Hand(1), buffer[1])
           /\ Outstanding \in Seq(Ids)
           /\ Hand(3) \in Seq(Ids) /\ Hand(2) \in Seq(Ids) /\ Hand(1) \in Seq(Ids)
           /\ buffer[3] \in Seq(Ids) /\ buffer[2] \in Seq(Ids) /\ buffer[1] \in Seq(Ids)
           /\ \A x \in Ids : Contains(Outstanding, x) <=>
                 \E s \in Stages : \/ Contains(buffer[s], x)
                                   \/ wid[s] = x /\ ~(s = 3 /\ wpc[s] = "checkpoint")
<1>1. \A s \in Stages : Hand(s) \in Seq(Ids) /\ buffer[s] \in Seq(Ids)
  BY HandFacts DEF WellTyped, TypeOK
<1>2. Outstanding = Line(Hand(3), buffer[3], Hand(2), buffer[2], Hand(1), buffer[1])
  BY Zenon DEF Outstanding, Line
<1>3. 1 \in Stages /\ 2 \in Stages /\ 3 \in Stages
  BY DEF Stages
<1>4. /\ Hand(3) \in Seq(Ids) /\ Hand(2) \in Seq(Ids) /\ Hand(1) \in Seq(Ids)
      /\ buffer[3] \in Seq(Ids) /\ buffer[2] \in Seq(Ids) /\ buffer[1] \in Seq(Ids)
  BY <1>1, <1>3, Zenon
<1>5. /\ Outstanding \in Seq(Ids)
      /\ \A x : Contains(Outstanding, x) <=>
                \/ Contains(Hand(3), x) \/ Contains(buffer[3], x) \/ Contains(Hand(2), x)
                \/ Contains(buffer[2], x) \/ Contains(Hand(1), x) \/ Contains(buffer[1], x)
  <2>1. PICK h3, q3, h2, q2, h1, q1 \in Seq(Ids) :
           /\ h3 = Hand(3) /\ h2 = Hand(2) /\ h1 = Hand(1)
           /\ q3 = buffer[3] /\ q2 = buffer[2] /\ q1 = buffer[1]
    BY <1>4, Zenon
  <2>2. /\ Line(h3, q3, h2, q2, h1, q1) \in Seq(Ids)
        /\ \A x : Contains(Line(h3, q3, h2, q2, h1, q1), x) <=>
              \/ Contains(h3, x) \/ Contains(q3, x) \/ Contains(h2, x)
              \/ Contains(q2, x) \/ Contains(h1, x) \/ Contains(q1, x)
    BY LineContains
  <2>3. Outstanding = Line(h3, q3, h2, q2, h1, q1)
    BY <1>2, <2>1, Zenon
  <2> QED BY <2>1, <2>2, <2>3, Zenon
<1>6. \A x \in Ids : Contains(Outstanding, x) <=>
                       \E s \in Stages : Contains(buffer[s], x) \/ Contains(Hand(s), x)
  BY <1>5 DEF Stages
<1> QED BY <1>1, <1>2, <1>4, <1>6, <1>5, HandFacts

\* Somebody has every outstanding write.
LEMMA OutstandingIsHeld ==
    ASSUME WellTyped, NEW x \in Ids, Contains(Outstanding, x)
    PROVE  Held(x)
BY OutstandingFacts DEF Held

\* A step is a stutter when the pipeline holds the same writes with the same flags.
LEMMA StutterStep ==
    ASSUME Outstanding' = Outstanding,
           \A x \in Ids : Contains(Outstanding, x) => complete'[x] = complete[x]
    PROVE  UNCHANGED Promise!svars
<1>1. Durable' = Durable
  BY DEF Durable, Contains
<1> QED BY <1>1 DEF Promise!svars

\* The pipeline stays as it is when no buffer and no hand changes.
LEMMA PipelineKept ==
    ASSUME UNCHANGED <<buffer, wid>>, wpc'[3] = "checkpoint" <=> wpc[3] = "checkpoint"
    PROVE  Outstanding' = Outstanding
<1>1. Hand(1)' = Hand(1) /\ Hand(2)' = Hand(2) /\ Hand(3)' = Hand(3)
  BY DEF Hand
<1> QED BY <1>1 DEF Outstanding

\* init_journal starts with nothing outstanding.
LEMMA PromiseInit == Init => Promise!Init
<1> SUFFICES ASSUME Init PROVE Promise!Init
  OBVIOUS
<1>1. Hand(1) = <<>> /\ Hand(2) = <<>> /\ Hand(3) = <<>>
  BY DEF Init, Hand, Stages
<1>2. buffer[1] = <<>> /\ buffer[2] = <<>> /\ buffer[3] = <<>>
  BY DEF Init, Stages
<1>3. Outstanding = <<>>
  <2>1. <<>> \o <<>> = <<>>
    OBVIOUS
  <2> QED BY <1>1, <1>2, <2>1, Zenon DEF Outstanding
<1>4. Durable = [id \in Ids |-> {}]
  BY DEF Init, Durable
<1> QED BY <1>3, <1>4 DEF Promise!Init

\* request_write: the write is outstanding once its id is in the first buffer.
LEMMA SubmitStep ==
    ASSUME WellTyped, WellTyped', SlotsExact, StagesInOrder, NEW c \in Clients, RequestAdd(c)
    PROVE  Promise!Next
<1>1. PICK id \in Ids : id = Head(todo[c]) /\ Claims(c, id)
  BY DEF RequestAdd, Claims, WellTyped, ScriptsOK
<1>2. /\ \A s \in Stages : wid[s] # id /\ ~Contains(buffer[s], id)
      /\ ~Contains(Outstanding, id)
  BY <1>1, OutstandingFacts DEF SlotsExact, OnePlace
<1>3. complete[id] = {}
  <2>1. \A s \in Stages : complete[id] \cap StageOps[s] = {}
    BY <1>1 DEF StagesInOrder, InOrder, Reached, Fresh, Stages
  <2>2. complete[id] \subseteq Ops
    BY DEF WellTyped, TypeOK
  <2>3. \A op \in Ops : \E s \in Stages : op \in StageOps[s]
    BY OpFacts
  <2> QED BY <2>1, <2>2, <2>3
<1>4. Outstanding' = Append(Outstanding, id)
  <2>1. Hand(1)' = Hand(1) /\ Hand(2)' = Hand(2) /\ Hand(3)' = Hand(3)
    BY DEF RequestAdd, workers, Hand
  <2>2. buffer'[1] = Append(buffer[1], id) /\ buffer'[2] = buffer[2] /\ buffer'[3] = buffer[3]
    BY <1>1 DEF RequestAdd, WellTyped, TypeOK, Stages
  <2> DEFINE p == Hand(3) \o buffer[3] \o Hand(2) \o buffer[2] \o Hand(1)
  <2>3. p \in Seq(Ids) /\ buffer[1] \in Seq(Ids)
    BY OutstandingFacts, ConcatProperties
  <2>4. Outstanding = p \o buffer[1] /\ Outstanding' = p \o Append(buffer[1], id)
    BY <2>1, <2>2 DEF Outstanding
  <2> HIDE DEF p
  <2> QED BY <2>3, <2>4, GiveOne
<1>5. Durable' = Durable
  <2>1. complete' = complete
    BY DEF RequestAdd, slots
  <2>2. Outstanding \in Seq(Ids)
    BY OutstandingFacts
  <2>3. \A x \in Ids : Contains(Outstanding', x) <=> Contains(Outstanding, x) \/ x = id
    BY <1>4, <2>2, AppendFacts
  <2> QED BY <1>3, <2>1, <2>3 DEF Durable, Contains
<1>6. Promise!Submit(id)
  BY <1>2, <1>4, <1>5 DEF Promise!Submit, Promise!IsOutstanding, Contains
<1> QED BY <1>6 DEF Promise!Next

\* A handler that sets its flag makes one more block of the write durable.
LEMMA PersistStep ==
    ASSUME WellTyped, SlotsExact, SlotsExact', StagesInOrder,
           NEW id \in Ids, NEW op \in Ops, HandlerFlag(id, op)
    PROVE  Promise!Next
<1>1. PICK s \in Stages : s = StageOf[op] /\ op \in StageOps[s]
  BY OpFacts
<1>2. wid[s] = id /\ wpc[s] \in AtWork /\ Midway(id, s) /\ op \notin complete[id]
  BY <1>1, OrderFlag
<1>3. Contains(Outstanding, id)
  BY <1>2, OutstandingFacts DEF AtWork
<1>4. Outstanding' = Outstanding
  BY PipelineKept DEF HandlerFlag, workers
<1>5. Durable' = [Durable EXCEPT ![id] = @ \cup {op}]
  <2>1. \A x \in Ids : complete'[x] = IF x = id THEN complete[id] \cup {op} ELSE complete[x]
    BY DEF HandlerFlag, WellTyped, TypeOK
  <2>2. \A x \in Ids : Durable[x] = IF Contains(Outstanding, x) THEN complete[x] ELSE {}
    BY DEF Durable, Contains
  <2>3. \A x \in Ids : Durable'[x] = IF Contains(Outstanding, x) THEN complete'[x] ELSE {}
    BY <1>4 DEF Durable, Contains
  <2>4. /\ Durable = [x \in Ids |-> Durable[x]]
        /\ Durable' = [x \in Ids |-> Durable'[x]]
    BY DEF Durable
  <2> QED BY <1>3, <2>1, <2>2, <2>3, <2>4
<1>6. Durable[id] = complete[id]
  BY <1>3 DEF Durable, Contains
<1>7. Promise!StageOps = StageOps
  BY DEF Promise!StageOps, StageOps, Stages
<1>8. Promise!Before(s) \subseteq complete[id]
  <2>1. \A r \in Stages : r < s => StageOps[r] \subseteq complete[id]
    BY <1>2 DEF Midway, Done
  <2>2. \A r \in 1..(s - 1) : r \in Stages /\ r < s
    BY DEF Stages
  <2> QED BY <1>7, <2>1, <2>2 DEF Promise!Before
<1>9. Promise!Persist(id, s, op)
  BY <1>1, <1>2, <1>3, <1>4, <1>5, <1>6, <1>7, <1>8
     DEF Promise!Persist, Promise!IsOutstanding, Contains
<1> QED BY <1>1, <1>7, <1>9 DEF Promise!Next, Stages

\* write_complete reports the oldest write, all of which is durable.
LEMMA CompleteStep ==
    ASSUME WellTyped, SlotsExact, StagesInOrder, WriteComplete
    PROVE  Promise!Next
<1>1. PICK id \in Ids : id = wid[3] /\ 3 \in Stages
  BY NoIdFacts DEF WriteComplete, WellTyped, TypeOK, WorkersOK, Stages
<1>2. wpc[3] = "write_complete" /\ wpc'[3] = "checkpoint" /\ UNCHANGED <<buffer, wid, complete>>
  BY <1>1 DEF WriteComplete, slots, WellTyped, TypeOK
<1>3. /\ Outstanding = Line(<<id>>, buffer[3], Hand(2), buffer[2], Hand(1), buffer[1])
      /\ Outstanding' = Line(<<>>, buffer[3], Hand(2), buffer[2], Hand(1), buffer[1])
  <2>1. Hand(3) = <<id>> /\ Hand(3)' = <<>> /\ Hand(2)' = Hand(2) /\ Hand(1)' = Hand(1)
    BY <1>1, <1>2, NoIdFacts DEF Hand
  <2> QED BY <1>2, <2>1, Zenon DEF Outstanding, Line
<1>4. /\ Hand(2) \in Seq(Ids) /\ Hand(1) \in Seq(Ids)
      /\ buffer[3] \in Seq(Ids) /\ buffer[2] \in Seq(Ids) /\ buffer[1] \in Seq(Ids)
  BY OutstandingFacts
<1>5. PICK q3, h2, q2, h1, q1 \in Seq(Ids) :
        /\ h2 = Hand(2) /\ h1 = Hand(1)
        /\ q3 = buffer[3] /\ q2 = buffer[2] /\ q1 = buffer[1]
  BY <1>4, Zenon
<1>6. /\ Outstanding = Line(<<id>>, q3, h2, q2, h1, q1)
      /\ Outstanding' = Line(<<>>, q3, h2, q2, h1, q1)
  BY <1>3, <1>5, Zenon
<1>7. Outstanding # <<>> /\ Head(Outstanding) = id /\ Outstanding' = Tail(Outstanding)
  <2>1. Leads(id, q3, h2, q2, h1, q1)
    BY LineHead
  <2> QED BY <1>6, <2>1, Zenon DEF Leads
<1>8. \A x \in Ids : Contains(Outstanding', x) <=> Contains(Outstanding, x) /\ x # id
  <2> DEFINE Behind(x) == \/ Contains(q3, x) \/ Contains(h2, x)
                         \/ Contains(q2, x) \/ Contains(h1, x) \/ Contains(q1, x)
  <2>1. ASSUME NEW h \in Seq(Ids)
        PROVE  \A x : Contains(Line(h, q3, h2, q2, h1, q1), x) <=> Contains(h, x) \/ Behind(x)
    BY LineContains
  <2> HIDE DEF Behind
  <2>2. <<id>> \in Seq(Ids) /\ <<>> \in Seq(Ids)
    OBVIOUS
  <2>3. /\ \A x : Contains(Outstanding, x) <=> Contains(<<id>>, x) \/ Behind(x)
        /\ \A x : Contains(Outstanding', x) <=> Contains(<<>>, x) \/ Behind(x)
    BY <1>6, <2>1, <2>2, Zenon
  <2>4. \A x : ~Contains(<<>>, x) /\ (Contains(<<id>>, x) <=> x = id)
    BY DEF Contains
  <2>5. ~Behind(id)
    <3>1. \A s \in Stages : ~Contains(buffer[s], id) /\ (wid[s] = id => s = 3)
      BY <1>1 DEF SlotsExact, OnePlace
    <3>2. ~Contains(Hand(1), id) /\ ~Contains(Hand(2), id)
      BY <1>1, <3>1, HandFacts DEF Stages
    <3> QED BY <1>5, <3>1, <3>2 DEF Stages, Behind
  <2> QED BY <2>3, <2>4, <2>5, Zenon
<1>9. Durable' = [Durable EXCEPT ![id] = {}]
  BY <1>2, <1>8 DEF Durable, Contains
<1>10. Durable[id] = Ops
  <2>1. Reached(id, 3)
    BY <1>1, <1>2 DEF StagesInOrder, InOrder, Through
  <2>2. \A s \in Stages : StageOps[s] \subseteq complete[id]
    BY <2>1 DEF Reached, Done, Stages
  <2>3. complete[id] = Ops
    <3>1. complete[id] \subseteq Ops
      BY DEF WellTyped, TypeOK
    <3> QED BY <2>2, <3>1 DEF Ops, Stages
  <2>4. Contains(Outstanding, id)
    BY <1>1, <1>2, OutstandingFacts
  <2> QED BY <2>3, <2>4 DEF Durable, Contains
<1>11. Promise!Ops = Ops
  BY DEF Promise!Ops, Promise!StageOps, Ops, StageOps, Stages
<1>12. Promise!Complete(id)
  BY <1>9, <1>10, <1>11, <1>7 DEF Promise!Complete
<1> QED BY <1>12 DEF Promise!Next

\* Taking an id out of a buffer moves it within the pipeline.
LEMMA RemoveIsStutter ==
    ASSUME WellTyped, NEW s \in Stages, Remove(s)
    PROVE  UNCHANGED Promise!svars
<1>1. /\ Hand(3) \in Seq(Ids) /\ Hand(2) \in Seq(Ids) /\ Hand(1) \in Seq(Ids)
      /\ buffer[3] \in Seq(Ids) /\ buffer[2] \in Seq(Ids) /\ buffer[1] \in Seq(Ids)
  BY OutstandingFacts
<1>2. /\ buffer[s] # <<>> /\ Hand(s) = <<>> /\ Hand(s)' = <<Head(buffer[s])>>
      /\ buffer'[s] = Tail(buffer[s])
      /\ \A t \in Stages \ {s} : Hand(t)' = Hand(t) /\ buffer'[t] = buffer[t]
      /\ complete' = complete
  <2>1. wid[s] = NoId /\ Head(buffer[s]) # NoId
    BY QueueFacts, NoIdFacts DEF Remove, WellTyped, TypeOK, WorkersOK
  <2> QED BY <2>1 DEF Remove, Hand, slots, WellTyped, TypeOK
<1>3. Outstanding' = Outstanding
  <2>1. CASE s = 3
    <3>1. Hand(3)' \o buffer'[3] = Hand(3) \o buffer[3]
      BY <1>1, <1>2, <2>1, TakeOne
    <3>2. Hand(2)' = Hand(2) /\ buffer'[2] = buffer[2] /\ Hand(1)' = Hand(1) /\ buffer'[1] = buffer[1]
      BY <1>2, <2>1 DEF Stages
    <3> QED BY <3>1, <3>2, Zenon DEF Outstanding
  <2>2. CASE s = 2
    <3> DEFINE p == Hand(3) \o buffer[3]
    <3>1. p \in Seq(Ids)
      BY <1>1, ConcatProperties
    <3>2. (p \o <<Head(buffer[2])>>) \o Tail(buffer[2]) = (p \o <<>>) \o buffer[2]
      <4> HIDE DEF p
      <4> QED BY <1>1, <1>2, <2>2, <3>1, TakeOne
    <3>3. /\ Hand(3)' = Hand(3) /\ buffer'[3] = buffer[3] /\ Hand(1)' = Hand(1) /\ buffer'[1] = buffer[1]
          /\ Hand(2) = <<>> /\ Hand(2)' = <<Head(buffer[2])>> /\ buffer'[2] = Tail(buffer[2])
      BY <1>2, <2>2 DEF Stages
    <3> QED BY <3>2, <3>3, Zenon DEF Outstanding, p
  <2>3. CASE s = 1
    <3> DEFINE p == Hand(3) \o buffer[3] \o Hand(2) \o buffer[2]
    <3>1. p \in Seq(Ids)
      BY <1>1, ConcatProperties
    <3>2. (p \o <<Head(buffer[1])>>) \o Tail(buffer[1]) = (p \o <<>>) \o buffer[1]
      <4> HIDE DEF p
      <4> QED BY <1>1, <1>2, <2>3, <3>1, TakeOne
    <3>3. /\ Hand(3)' = Hand(3) /\ buffer'[3] = buffer[3] /\ Hand(2)' = Hand(2) /\ buffer'[2] = buffer[2]
          /\ Hand(1) = <<>> /\ Hand(1)' = <<Head(buffer[1])>> /\ buffer'[1] = Tail(buffer[1])
      BY <1>2, <2>3 DEF Stages
    <3> QED BY <3>2, <3>3, Zenon DEF Outstanding, p
  <2> QED BY <2>1, <2>2, <2>3 DEF Stages
<1> QED BY <1>2, <1>3, StutterStep

\* So does handing it on.
LEMMA AddIsStutter ==
    ASSUME WellTyped, NEW s \in {1, 2}, Add(s)
    PROVE  UNCHANGED Promise!svars
<1>1. /\ Hand(3) \in Seq(Ids) /\ Hand(2) \in Seq(Ids) /\ Hand(1) \in Seq(Ids)
      /\ buffer[3] \in Seq(Ids) /\ buffer[2] \in Seq(Ids) /\ buffer[1] \in Seq(Ids)
  BY OutstandingFacts
<1>2. PICK x \in Ids : x = wid[s]
  BY NoIdFacts DEF Add, WellTyped, TypeOK, WorkersOK, Stages
<1>3. /\ Hand(s) = <<x>> /\ Hand(s)' = <<>>
      /\ buffer'[s + 1] = Append(buffer[s + 1], x)
      /\ \A t \in Stages \ {s} : Hand(t)' = Hand(t)
      /\ \A t \in Stages \ {s + 1} : buffer'[t] = buffer[t]
      /\ complete' = complete
  <2>1. s \in Stages /\ s + 1 \in Stages /\ wid[s] \in Ids /\ wid[s] # NoId
    BY NoIdFacts DEF Add, WellTyped, TypeOK, WorkersOK, Stages
  <2> QED BY <1>2, <2>1 DEF Add, Hand, slots, WellTyped, TypeOK
<1>4. Outstanding' = Outstanding
  <2>1. CASE s = 2
    <3>1. (Hand(3) \o Append(buffer[3], x)) \o <<>> = (Hand(3) \o buffer[3]) \o <<x>>
      BY <1>1, GiveOne
    <3>2. /\ Hand(3)' = Hand(3) /\ buffer'[2] = buffer[2] /\ Hand(1)' = Hand(1) /\ buffer'[1] = buffer[1]
          /\ Hand(2) = <<x>> /\ Hand(2)' = <<>> /\ buffer'[3] = Append(buffer[3], x)
      BY <1>3, <2>1 DEF Stages
    <3> QED BY <3>1, <3>2, Zenon DEF Outstanding
  <2>2. CASE s = 1
    <3> DEFINE p == Hand(3) \o buffer[3] \o Hand(2)
    <3>1. p \in Seq(Ids)
      BY <1>1, ConcatProperties
    <3>2. (p \o Append(buffer[2], x)) \o <<>> = (p \o buffer[2]) \o <<x>>
      <4> HIDE DEF p
      <4> QED BY <1>1, <3>1, GiveOne
    <3>3. /\ Hand(3)' = Hand(3) /\ buffer'[3] = buffer[3] /\ Hand(2)' = Hand(2) /\ buffer'[1] = buffer[1]
          /\ Hand(1) = <<x>> /\ Hand(1)' = <<>> /\ buffer'[2] = Append(buffer[2], x)
      BY <1>3, <2>2 DEF Stages
    <3> QED BY <3>2, <3>3, Zenon DEF Outstanding, p
  <2> QED BY <2>1, <2>2
<1> QED BY <1>3, <1>4, StutterStep

\* Every step of Journal is a step of JournalSpec or a stutter.
LEMMA PromiseStep ==
    ASSUME WellTyped, WellTyped', SlotsExact, SlotsExact', StagesInOrder, [Next]_vars
    PROVE  [Promise!Next]_Promise!svars
<1>1. ASSUME NEW c \in Clients,
             \/ RequestOutOfRange(c) \/ RequestBlocked(c) \/ WaitForAll(c) \/ SpuriousWakeup(c)
      PROVE  UNCHANGED Promise!svars
  <2>1. UNCHANGED <<slots, buffer, workers>>
    BY <1>1 DEF RequestOutOfRange, RequestBlocked, WaitForAll, SpuriousWakeup
  <2> QED BY <2>1, PipelineKept, StutterStep DEF slots, workers
<1>2. ASSUME NEW c \in Clients, RequestClaim(c) PROVE UNCHANGED Promise!svars
  <2>1. UNCHANGED <<buffer, workers>> /\ ~Held(Head(todo[c]))
    BY <1>2 DEF RequestClaim, SlotsExact, SlotsInUse
  <2>2. \A x \in Ids : Held(x) => complete'[x] = complete[x]
    BY <1>2, <2>1 DEF RequestClaim, WellTyped, TypeOK
  <2> QED BY <2>1, <2>2, OutstandingIsHeld, PipelineKept, StutterStep DEF workers
<1>3. ASSUME NEW s \in Stages,
             Reset(s) \/ Count(s) \/ IssueSync(s) \/ IssueDelayed(s) \/ Return(s) \/ Wait(s)
      PROVE  UNCHANGED Promise!svars
  <2>1. UNCHANGED <<buffer, wid>> /\ \A x \in Ids : complete'[x] = complete[x]
    <3>1. CASE Reset(s)
      BY <3>1, OrderReset DEF Reset
    <3> QED BY <1>3, <3>1 DEF Count, IssueSync, IssueDelayed, Return, Wait, slots
  <2>2. wpc'[3] = "checkpoint" <=> wpc[3] = "checkpoint"
    <3>1. wpc[s] # "checkpoint" /\ wpc'[s] # "checkpoint"
      BY <1>3 DEF Reset, Count, IssueSync, IssueDelayed, Return, Advance, Wait, WellTyped, TypeOK
    <3>2. \A t \in Stages \ {s} : wpc'[t] = wpc[t]
      BY <1>3 DEF Reset, Count, IssueSync, IssueDelayed, Return, Advance, Wait, WellTyped, TypeOK
    <3> QED BY <3>1, <3>2 DEF Stages
  <2> QED BY <2>1, <2>2, PipelineKept, StutterStep
<1>4. CASE Checkpoint
  <2>1. \A x \in Ids : x # wid[3] => complete'[x] = complete[x]
    BY <1>4, OrderCheckpoint
  <2>2. /\ wpc[3] = "checkpoint" /\ buffer' = buffer /\ Hand(3)' = <<>> /\ Hand(3) = <<>>
        /\ Hand(2)' = Hand(2) /\ Hand(1)' = Hand(1)
    BY <1>4 DEF Checkpoint, Hand, WellTyped, TypeOK, Stages
  <2>3. Outstanding' = Outstanding
    BY <2>2 DEF Outstanding
  <2>4. \A x \in Ids : Contains(Outstanding, x) => x # wid[3]
    BY <2>2, OutstandingFacts DEF SlotsExact, OnePlace, Stages
  <2> QED BY <2>1, <2>3, <2>4, StutterStep
<1>5. ASSUME NEW id \in Ids, NEW op \in Ops, HandlerPost(id, op) \/ HandlerDrop(id, op)
      PROVE  UNCHANGED Promise!svars
  <2>1. UNCHANGED <<buffer, workers>>
    BY <1>5 DEF HandlerPost, HandlerDrop
  <2>2. \A x \in Ids : Held(x) => complete'[x] = complete[x]
    BY <1>5, OrderDrop DEF HandlerPost, slots
  <2> QED BY <2>1, <2>2, OutstandingIsHeld, PipelineKept, StutterStep DEF workers
<1>6. CASE UNCHANGED vars
  BY <1>6, PipelineKept, StutterStep DEF vars, slots, workers
<1>7. \A c \in Clients : RequestAdd(c) => Promise!Next
  BY SubmitStep
<1>8. \A id \in Ids : \A op \in Ops : HandlerFlag(id, op) => Promise!Next
  BY PersistStep
<1>9. WriteComplete => Promise!Next
  BY CompleteStep
<1>10. \A s \in Stages : Remove(s) => UNCHANGED Promise!svars
  BY RemoveIsStutter
<1>11. \A s \in {1, 2} : Add(s) => UNCHANGED Promise!svars
  BY AddIsStutter
<1> QED
  BY <1>1, <1>2, <1>3, <1>4, <1>5, <1>6, <1>7, <1>8, <1>9, <1>10, <1>11
     DEF Next, Client, Worker, Handler, Idle

\* Whatever the number of slots and the size of the buffers, whatever is requested and
\* whenever the disk answers, write_complete is called for the writes in the order in
\* which request_write queued them (p2/journal.c:320), for each only when all of its blocks
\* are on the disk, and the blocks of a write get there in the order data and journal,
\* transaction end, checkpoint.
THEOREM JournalKeepsPromise == Spec => ImplementsPromise
<1>1. WellTyped /\ SlotsExact /\ StagesInOrder /\ [Next]_vars
        => (WellTyped /\ SlotsExact /\ StagesInOrder)'
  BY TypeStep, SlotsStep, OrderStep
<1>2. Init => WellTyped /\ SlotsExact /\ StagesInOrder
  BY TypeInit, SlotsInit, OrderInit
<1>3. WellTyped /\ SlotsExact /\ StagesInOrder /\ (WellTyped /\ SlotsExact /\ StagesInOrder)' /\ [Next]_vars
        => [Promise!Next]_Promise!svars
  BY PromiseStep
<1> QED BY <1>1, <1>2, <1>3, PromiseInit, PTL DEF Spec, ImplementsPromise, Promise!Spec

-----------------------------------------------------------------------------
(* RingBuffer.                                                             *)

\* The threads of T that f has at one of the steps.
Amount(f, T, steps) == Cardinality({t \in T : f[t] \in steps})

Inside == {"copy", "advance", "unlock"}     \* the mutex is held
Entering == {"lock", "copy", "advance"}     \* a permit is taken, the count is not changed yet
Leaving == {"unlock", "post"}               \* the count is changed, no permit is given yet

Claimed == Amount(pc, Producers, Entering)
Stored == Amount(pc, Producers, Leaving)
Claiming == Amount(pc, Consumers, Entering)
Emptied == Amount(pc, Consumers, Leaving)

Exclusive == \A t \in Threads : pc[t] \in Inside <=> mutex = t

\* Every cell is free for the taking, claimed, filled, or emptied and not yet given back;
\* and every item is there for the taking, claimed, or stored and not yet announced.
Permits ==
    /\ empty_slots + Claimed + count + Emptied = BUFFER_SIZE
    /\ full_slots + Claiming + Stored = count

Cell(a) == a % BUFFER_SIZE

InStep == in = Cell(out + count)

ItemsInHand == \A p \in Producers :
    /\ pc[p] # "done" => val[p] \in Items
    /\ pc[p] = "advance" => cells[in] = val[p]

\* The inductive invariant of the refinement.
Orderly == RingTypeOK /\ Exclusive /\ Permits /\ InStep /\ ItemsInHand

-----------------------------------------------------------------------------
(* The arithmetic of the ring: n cells from o on, oldest first.            *)

CellLine(b, o, n) == [i \in 1..n |-> b[Cell(o + i - 1)]]

Values == Items \cup {NoItem}

LEMMA ModWrap ==
    ASSUME NEW B \in Nat \ {0}, NEW a \in Nat, a < B + B
    PROVE  a % B = IF a < B THEN a ELSE a - B
BY SMT

LEMMA CellOf ==
    ASSUME NEW a \in Nat, a < BUFFER_SIZE + BUFFER_SIZE
    PROVE  /\ Cell(a) = IF a < BUFFER_SIZE THEN a ELSE a - BUFFER_SIZE
           /\ Cell(a) \in Cells
<1>1. Cell(a) = IF a < BUFFER_SIZE THEN a ELSE a - BUFFER_SIZE
  BY ModWrap, RingAssumption DEF Cell
<1> QED BY <1>1, RingAssumption DEF Cells

\* A line stays within the ring.
LEMMA LineIsSeq ==
    ASSUME NEW b \in [Cells -> Values], NEW o \in Nat, NEW n \in Nat, o + n <= BUFFER_SIZE + BUFFER_SIZE
    PROVE  /\ CellLine(b, o, n) \in Seq(Values)
           /\ Len(CellLine(b, o, n)) = n
           /\ \A i \in 1..n : CellLine(b, o, n)[i] = b[Cell(o + i - 1)]
<1>1. \A i \in 1..n : Cell(o + i - 1) \in Cells
  <2> TAKE i \in 1..n
  <2>1. o + i - 1 \in Nat /\ o + i - 1 < BUFFER_SIZE + BUFFER_SIZE
    BY RingAssumption
  <2> QED BY <2>1, CellOf
<1>2. CellLine(b, o, n) \in [1..n -> Values]
  BY <1>1 DEF CellLine
<1>3. CellLine(b, o, n) \in Seq(Values)
  BY <1>2
<1>4. Len(CellLine(b, o, n)) = n
  BY <1>2, <1>3, LenProperties
<1> QED BY <1>3, <1>4 DEF CellLine

\* The index that wraps names the same cells.
LEMMA LineWraps ==
    ASSUME NEW b \in [Cells -> Values], NEW o \in Cells, NEW n \in Nat, n < BUFFER_SIZE
    PROVE  CellLine(b, Cell(o + 1), n) = CellLine(b, o + 1, n)
<1>1. ASSUME NEW i \in 1..n
      PROVE  Cell(Cell(o + 1) + i - 1) = Cell(o + 1 + i - 1)
  <2>1. /\ BUFFER_SIZE \in Nat \ {0} /\ o \in Nat /\ i \in Nat \ {0}
        /\ o + 1 <= BUFFER_SIZE /\ i < BUFFER_SIZE
    BY RingAssumption DEF Cells
  <2>2. CASE o + 1 < BUFFER_SIZE
    <3>1. Cell(o + 1) = o + 1
      BY <2>1, <2>2, CellOf
    <3> QED BY <3>1
  <2>3. CASE o + 1 = BUFFER_SIZE
    <3>1. Cell(BUFFER_SIZE) = 0
      BY <2>1, CellOf
    <3>2. Cell(i - 1) = i - 1
      BY <2>1, CellOf
    <3>3. Cell(BUFFER_SIZE + i - 1) = i - 1
      <4> DEFINE a == BUFFER_SIZE + i - 1
      <4>1. a \in Nat /\ a < BUFFER_SIZE + BUFFER_SIZE /\ ~(a < BUFFER_SIZE)
        BY <2>1
      <4>2. Cell(a) = a - BUFFER_SIZE
        <5> HIDE DEF a
        <5> QED BY <4>1, CellOf
      <4> QED BY <4>2, <2>1
    <3>4. Cell(o + 1) + i - 1 = i - 1 /\ o + 1 + i - 1 = BUFFER_SIZE + i - 1
      BY <2>1, <2>3, <3>1
    <3> QED BY <3>2, <3>3, <3>4
  <2> QED BY <2>1, <2>2, <2>3
<1>2. CellLine(b, Cell(o + 1), n) = [i \in 1..n |-> b[Cell(Cell(o + 1) + i - 1)]]
  BY DEF CellLine
<1>3. CellLine(b, o + 1, n) = [i \in 1..n |-> b[Cell(o + 1 + i - 1)]]
  BY DEF CellLine
<1> QED BY <1>1, <1>2, <1>3

LEMMA LineGrows ==
    ASSUME NEW b \in [Cells -> Values], NEW o \in Cells, NEW n \in Nat, n < BUFFER_SIZE
    PROVE  CellLine(b, o, n + 1) = Append(CellLine(b, o, n), b[Cell(o + n)])
<1> DEFINE s == CellLine(b, o, n)
           t == CellLine(b, o, n + 1)
           e == b[Cell(o + n)]
<1>0. /\ o \in Nat /\ n + 1 \in Nat /\ o + n \in Nat
      /\ o + n <= BUFFER_SIZE + BUFFER_SIZE /\ o + (n + 1) <= BUFFER_SIZE + BUFFER_SIZE
      /\ o + n < BUFFER_SIZE + BUFFER_SIZE
  BY RingAssumption DEF Cells
<1>1. /\ s \in Seq(Values) /\ Len(s) = n
      /\ \A i \in 1..n : s[i] = b[Cell(o + i - 1)]
  BY <1>0, LineIsSeq
<1>2. /\ t \in Seq(Values) /\ Len(t) = n + 1
      /\ \A i \in 1..(n + 1) : t[i] = b[Cell(o + i - 1)]
  BY <1>0, LineIsSeq
<1>3. e \in Values
  BY <1>0, CellOf
<1>4. t[n + 1] = e
  <2>1. o + (n + 1) - 1 = o + n
    BY DEF Cells
  <2> QED BY <1>2, <2>1
<1>5. \A i \in 1..n : t[i] = s[i]
  BY <1>1, <1>2
<1> HIDE DEF s, t, e
<1>6. /\ Append(s, e) \in Seq(Values) /\ Len(Append(s, e)) = n + 1
      /\ \A i \in 1..n : Append(s, e)[i] = s[i]
      /\ Append(s, e)[n + 1] = e
  BY <1>1, <1>3
<1>7. t = Append(s, e)
  <2>1. \A i \in 1..Len(t) : t[i] = Append(s, e)[i]
    BY <1>2, <1>4, <1>5, <1>6
  <2> QED BY <1>2, <1>6, <2>1, SeqEqual
<1> QED BY <1>7 DEF s, t, e

LEMMA LineShrinks ==
    ASSUME NEW b \in [Cells -> Values], NEW o \in Cells, NEW n \in Nat \ {0}, n <= BUFFER_SIZE
    PROVE  /\ CellLine(b, o, n) # <<>>
           /\ Head(CellLine(b, o, n)) = b[o]
           /\ Tail(CellLine(b, o, n)) = CellLine(b, o + 1, n - 1)
<1> DEFINE s == CellLine(b, o, n)
           t == CellLine(b, o + 1, n - 1)
<1>0. /\ o \in Nat /\ n - 1 \in Nat /\ o + 1 \in Nat /\ o < BUFFER_SIZE
      /\ o + n <= BUFFER_SIZE + BUFFER_SIZE /\ (o + 1) + (n - 1) <= BUFFER_SIZE + BUFFER_SIZE
  BY RingAssumption DEF Cells
<1>1. /\ s \in Seq(Values) /\ Len(s) = n
      /\ \A i \in 1..n : s[i] = b[Cell(o + i - 1)]
  BY <1>0, LineIsSeq
<1>2. /\ t \in Seq(Values) /\ Len(t) = n - 1
      /\ \A i \in 1..(n - 1) : t[i] = b[Cell(o + 1 + i - 1)]
  BY <1>0, LineIsSeq
<1>3. s[1] = b[o]
  <2>1. o + 1 - 1 = o /\ Cell(o) = o
    BY <1>0, CellOf, RingAssumption
  <2> QED BY <1>1, <2>1
<1>4. \A i \in 1..(n - 1) : t[i] = s[i + 1]
  <2> TAKE i \in 1..(n - 1)
  <2>1. i + 1 \in 1..n /\ o + (i + 1) - 1 = o + 1 + i - 1
    BY DEF Cells
  <2> QED BY <1>1, <1>2, <2>1
<1> HIDE DEF s, t
<1>5. s # <<>>
  BY <1>1
<1>6. /\ Tail(s) \in Seq(Values) /\ Len(Tail(s)) = n - 1
      /\ \A i \in 1..(n - 1) : Tail(s)[i] = s[i + 1]
  BY <1>1, <1>5, HeadTailProperties
<1>7. Tail(s) = t
  BY <1>2, <1>4, <1>6, SeqEqual
<1>8. Head(s) = b[o]
  BY <1>1, <1>3, <1>5
<1> QED BY <1>5, <1>7, <1>8 DEF s, t

\* The cell behind a line that does not fill the ring is none of the line's.
LEMMA LineUntouched ==
    ASSUME NEW b \in [Cells -> Values], NEW o \in Cells, NEW n \in Nat, n < BUFFER_SIZE, NEW x
    PROVE  CellLine([b EXCEPT ![Cell(o + n)] = x], o, n) = CellLine(b, o, n)
<1>1. ASSUME NEW i \in 1..n
      PROVE  /\ Cell(o + i - 1) \in Cells
             /\ Cell(o + i - 1) # Cell(o + n)
  <2>1. /\ o \in Nat /\ o < BUFFER_SIZE /\ i \in 1..n /\ BUFFER_SIZE \in Nat
        /\ o + i - 1 \in Nat /\ o + i - 1 < BUFFER_SIZE + BUFFER_SIZE
        /\ o + n \in Nat /\ o + n < BUFFER_SIZE + BUFFER_SIZE
    BY RingAssumption DEF Cells
  <2>2. /\ Cell(o + i - 1)
             = IF o + i - 1 < BUFFER_SIZE THEN o + i - 1 ELSE o + i - 1 - BUFFER_SIZE
        /\ Cell(o + n) = IF o + n < BUFFER_SIZE THEN o + n ELSE o + n - BUFFER_SIZE
        /\ Cell(o + i - 1) \in Cells
    BY <2>1, CellOf
  <2> QED BY <2>1, <2>2
<1> QED BY <1>1 DEF CellLine

\* The index that in moves to, and the one it has when out moves.
LEMMA CellsMove ==
    ASSUME NEW o \in Cells, NEW n \in Nat
    PROVE  /\ n < BUFFER_SIZE => Cell(Cell(o + n) + 1) = Cell(o + (n + 1))
           /\ n > 0 /\ n <= BUFFER_SIZE => Cell(Cell(o + 1) + (n - 1)) = Cell(o + n)
<1>1. BUFFER_SIZE \in Nat \ {0} /\ o \in Nat /\ o < BUFFER_SIZE
  BY RingAssumption DEF Cells
<1>2. ASSUME n < BUFFER_SIZE PROVE Cell(Cell(o + n) + 1) = Cell(o + (n + 1))
  <2>1. CASE o + n < BUFFER_SIZE
    <3>1. Cell(o + n) = o + n
      BY <1>1, <2>1, CellOf
    <3> QED BY <1>1, <3>1
  <2>2. CASE o + n >= BUFFER_SIZE
    <3> DEFINE a == o + n
               b == o + (n + 1)
    <3>1. /\ a \in Nat /\ a < BUFFER_SIZE + BUFFER_SIZE /\ a >= BUFFER_SIZE
          /\ b \in Nat /\ b < BUFFER_SIZE + BUFFER_SIZE /\ b >= BUFFER_SIZE
          /\ a - BUFFER_SIZE + 1 = b - BUFFER_SIZE /\ b - BUFFER_SIZE < BUFFER_SIZE
          /\ b - BUFFER_SIZE \in Nat
      BY <1>1, <1>2, <2>2
    <3> HIDE DEF a, b
    <3>2. Cell(a) = a - BUFFER_SIZE /\ Cell(b) = b - BUFFER_SIZE
      BY <1>1, <3>1, CellOf
    <3>3. Cell(b - BUFFER_SIZE) = b - BUFFER_SIZE
      BY <1>1, <3>1, CellOf
    <3>4. Cell(Cell(a) + 1) = Cell(b)
      BY <3>1, <3>2, <3>3
    <3> QED BY <3>4 DEF a, b
  <2> QED BY <1>1, <2>1, <2>2
<1>3. ASSUME n > 0, n <= BUFFER_SIZE PROVE Cell(Cell(o + 1) + (n - 1)) = Cell(o + n)
  <2>1. CASE o + 1 < BUFFER_SIZE
    <3>1. Cell(o + 1) = o + 1
      BY <1>1, <2>1, CellOf
    <3>2. o + 1 + (n - 1) = o + n
      BY <1>1
    <3> QED BY <3>1, <3>2
  <2>2. CASE o + 1 = BUFFER_SIZE
    <3> DEFINE a == o + n
    <3>1. /\ a \in Nat /\ a < BUFFER_SIZE + BUFFER_SIZE /\ a >= BUFFER_SIZE
          /\ a - BUFFER_SIZE = n - 1 /\ n - 1 \in Nat /\ n - 1 < BUFFER_SIZE
      BY <1>1, <1>3, <2>2
    <3> HIDE DEF a
    <3>2. Cell(a) = n - 1 /\ Cell(n - 1) = n - 1 /\ Cell(BUFFER_SIZE) = 0
      BY <1>1, <3>1, CellOf
    <3>3. Cell(Cell(o + 1) + (n - 1)) = Cell(a)
      BY <2>2, <3>1, <3>2
    <3> QED BY <3>3 DEF a
  <2> QED BY <1>1, <2>1, <2>2
<1> QED BY <1>2, <1>3

-----------------------------------------------------------------------------
(* Counting threads.                                                       *)

LEMMA Numbers ==
    ASSUME NEW T, IsFiniteSet(T), NEW f, NEW steps
    PROVE  /\ IsFiniteSet({t \in T : f[t] \in steps})
           /\ Amount(f, T, steps) \in Nat
<1>1. {t \in T : f[t] \in steps} \in SUBSET T
  OBVIOUS
<1> QED BY <1>1, FS_Subset, FS_CardinalityType DEF Amount

One(x, A) == IF x \in A THEN 1 ELSE 0

\* One thread that moves changes one number by at most one.
LEMMA NumberMoves ==
    ASSUME NEW T, IsFiniteSet(T), NEW f, NEW g, NEW t, NEW steps,
           \A u \in T : u # t => g[u] = f[u]
    PROVE  Amount(g, T, steps)
             = IF t \notin T THEN Amount(f, T, steps)
               ELSE Amount(f, T, steps) - One(f[t], steps) + One(g[t], steps)
<1> DEFINE F == {u \in T : f[u] \in steps}
           G == {u \in T : g[u] \in steps}
<1>1. IsFiniteSet(F) /\ Amount(f, T, steps) = Cardinality(F) /\ Cardinality(F) \in Nat
  <2>1. IsFiniteSet(F) /\ Amount(f, T, steps) \in Nat
    BY Numbers
  <2>2. Amount(f, T, steps) = Cardinality(F)
    BY DEF Amount
  <2> QED BY <2>1, <2>2
<1>2. Amount(g, T, steps) = Cardinality(G)
  BY DEF Amount
<1>3. CASE t \notin T
  <2>1. G = F
    BY <1>3
  <2> QED BY <1>1, <1>2, <1>3, <2>1
<1>4. CASE t \in T /\ g[t] \in steps
  <2>1. G = F \cup {t}
    BY <1>4
  <2>2. t \in F <=> f[t] \in steps
    BY <1>4
  <2>3. Cardinality(G) = IF t \in F THEN Cardinality(F) ELSE Cardinality(F) + 1
    BY <1>1, <2>1, FS_AddElement
  <2> HIDE DEF F, G
  <2>4. Amount(g, T, steps) = IF f[t] \in steps THEN Amount(f, T, steps)
                                                ELSE Amount(f, T, steps) + 1
    BY <1>1, <1>2, <2>2, <2>3
  <2> QED BY <1>1, <1>4, <2>4 DEF One
<1>5. CASE t \in T /\ g[t] \notin steps
  <2>1. G = F \ {t}
    BY <1>5
  <2>2. t \in F <=> f[t] \in steps
    BY <1>5
  <2>3. Cardinality(G) = IF t \in F THEN Cardinality(F) - 1 ELSE Cardinality(F)
    BY <1>1, <2>1, FS_RemoveElement
  <2> HIDE DEF F, G
  <2>4. Amount(g, T, steps) = IF f[t] \in steps THEN Amount(f, T, steps) - 1
                                                ELSE Amount(f, T, steps)
    BY <1>1, <1>2, <2>2, <2>3
  <2> QED BY <1>1, <1>5, <2>4 DEF One
<1> QED BY <1>3, <1>4, <1>5

\* A thread that is counted makes its number positive.
LEMMA AmountIsNat ==
    ASSUME NEW T, IsFiniteSet(T), NEW f, NEW steps, NEW t \in T, f[t] \in steps
    PROVE  Amount(f, T, steps) \in Nat \ {0}
<1> DEFINE F == {u \in T : f[u] \in steps}
<1>1. IsFiniteSet(F) /\ Cardinality(F) \in Nat /\ t \in F
  BY Numbers DEF Amount
<1>2. Cardinality(F) # 0
  BY <1>1, FS_EmptySet
<1> QED BY <1>1, <1>2 DEF Amount

LEMMA Finite == IsFiniteSet(Producers) /\ IsFiniteSet(Consumers)
BY RingAssumption

LEMMA NumbersAreNat ==
    Claimed \in Nat /\ Stored \in Nat /\ Claiming \in Nat /\ Emptied \in Nat
BY Finite, Numbers DEF Claimed, Stored, Claiming, Emptied

LEMMA ProducerMoves ==
    ASSUME RingTypeOK, NEW p \in Producers, NEW step, Goto(p, step)
    PROVE  /\ Claimed' = Claimed - One(pc[p], Entering) + One(step, Entering)
           /\ Stored' = Stored - One(pc[p], Leaving) + One(step, Leaving)
           /\ Claiming' = Claiming /\ Emptied' = Emptied
<1>0. /\ Claimed' = Amount(pc', Producers, Entering)
      /\ Stored' = Amount(pc', Producers, Leaving)
      /\ Claiming' = Amount(pc', Consumers, Entering)
      /\ Emptied' = Amount(pc', Consumers, Leaving)
  BY DEF Claimed, Stored, Claiming, Emptied, Amount
<1>1. /\ p \in Threads /\ p \notin Consumers /\ pc \in [Threads -> Step]
      /\ Producers \subseteq Threads /\ Consumers \subseteq Threads
      /\ pc' = [pc EXCEPT ![p] = step]
  BY RingAssumption DEF Threads, RingTypeOK, Goto
<1>2. \A T, steps : IsFiniteSet(T) /\ T \subseteq Threads =>
        Amount(pc', T, steps) = IF p \notin T THEN Amount(pc, T, steps)
               ELSE Amount(pc, T, steps) - One(pc[p], steps) + One(step, steps)
  <2> TAKE T, steps
  <2> HAVE IsFiniteSet(T) /\ T \subseteq Threads
  <2>1. pc'[p] = step /\ \A u \in T : u # p => pc'[u] = pc[u]
    BY <1>1
  <2> QED BY <2>1, NumberMoves
<1> QED BY <1>0, <1>1, <1>2, Finite DEF Claimed, Stored, Claiming, Emptied

LEMMA ConsumerMoves ==
    ASSUME RingTypeOK, NEW c \in Consumers, NEW step, Goto(c, step)
    PROVE  /\ Claiming' = Claiming - One(pc[c], Entering) + One(step, Entering)
           /\ Emptied' = Emptied - One(pc[c], Leaving) + One(step, Leaving)
           /\ Claimed' = Claimed /\ Stored' = Stored
<1>0. /\ Claimed' = Amount(pc', Producers, Entering)
      /\ Stored' = Amount(pc', Producers, Leaving)
      /\ Claiming' = Amount(pc', Consumers, Entering)
      /\ Emptied' = Amount(pc', Consumers, Leaving)
  BY DEF Claimed, Stored, Claiming, Emptied, Amount
<1>1. /\ c \in Threads /\ c \notin Producers /\ pc \in [Threads -> Step]
      /\ Producers \subseteq Threads /\ Consumers \subseteq Threads
      /\ pc' = [pc EXCEPT ![c] = step]
  BY RingAssumption DEF Threads, RingTypeOK, Goto
<1>2. \A T, steps : IsFiniteSet(T) /\ T \subseteq Threads =>
        Amount(pc', T, steps) = IF c \notin T THEN Amount(pc, T, steps)
               ELSE Amount(pc, T, steps) - One(pc[c], steps) + One(step, steps)
  <2> TAKE T, steps
  <2> HAVE IsFiniteSet(T) /\ T \subseteq Threads
  <2>1. pc'[c] = step /\ \A u \in T : u # c => pc'[u] = pc[u]
    BY <1>1
  <2> QED BY <2>1, NumberMoves
<1> QED BY <1>0, <1>1, <1>2, Finite DEF Claimed, Stored, Claiming, Emptied

-----------------------------------------------------------------------------
(* Order is kept.                                                          *)

\* A claimed cell is free, and a claimed item is there.
LEMMA Bounds ==
    ASSUME RingTypeOK, Permits
    PROVE  /\ count \in Nat /\ count <= BUFFER_SIZE
           /\ \A p \in Producers : pc[p] \in Entering => count < BUFFER_SIZE
           /\ \A c \in Consumers : pc[c] \in Entering => count > 0
<1>1. BUFFER_SIZE \in Nat /\ count \in Int /\ empty_slots \in Nat /\ full_slots \in Nat
  BY RingAssumption DEF RingTypeOK
<1>2. ASSUME NEW p \in Producers, pc[p] \in Entering PROVE Claimed \in Nat \ {0}
  BY <1>2, Finite, AmountIsNat DEF Claimed
<1>3. ASSUME NEW c \in Consumers, pc[c] \in Entering PROVE Claiming \in Nat \ {0}
  BY <1>3, Finite, AmountIsNat DEF Claiming
<1> QED BY <1>1, <1>2, <1>3, NumbersAreNat DEF Permits

LEMMA InitiallyOrderly == RingInit => Orderly
<1> SUFFICES ASSUME RingInit PROVE Orderly
  OBVIOUS
<1>1. RingTypeOK
  BY RingAssumption DEF RingInit, RingTypeOK, Threads, Items, Cells, Step
<1>2. Exclusive
  BY RingAssumption DEF RingInit, Exclusive, Inside, Threads
<1>3. ASSUME NEW T, T \subseteq Threads, NEW steps, steps \in {Entering, Leaving}
      PROVE  Amount(pc, T, steps) = 0
  <2>1. {t \in T : pc[t] \in steps} = {}
    BY <1>3 DEF RingInit, Entering, Leaving
  <2> QED BY <2>1, FS_EmptySet DEF Amount
<1>4. Permits
  <2>1. Producers \subseteq Threads /\ Consumers \subseteq Threads
    BY DEF Threads
  <2>2. Claimed = 0 /\ Stored = 0 /\ Claiming = 0 /\ Emptied = 0
    BY <1>3, <2>1 DEF Claimed, Stored, Claiming, Emptied
  <2> QED BY <2>2, RingAssumption DEF RingInit, Permits
<1>5. InStep
  <2>1. Cell(0) = 0
    BY CellOf, RingAssumption
  <2> QED BY <2>1 DEF RingInit, InStep
<1>6. ItemsInHand
  BY RingAssumption DEF RingInit, ItemsInHand, Threads, Items
<1> QED BY <1>1, <1>2, <1>4, <1>5, <1>6 DEF Orderly

LEMMA RingTypeStep ==
    ASSUME RingTypeOK, Permits, ItemsInHand, RingNext
    PROVE  RingTypeOK'
<1> USE DEF Threads, Step
<1>1. in \in Nat /\ out \in Nat /\ in + 1 < BUFFER_SIZE + BUFFER_SIZE
      /\ out + 1 < BUFFER_SIZE + BUFFER_SIZE
  BY RingAssumption DEF RingTypeOK, Cells
<1>2. (in + 1) % BUFFER_SIZE \in Cells /\ (out + 1) % BUFFER_SIZE \in Cells
  BY <1>1, CellOf DEF Cell
<1>3. ASSUME NEW p \in Producers, AddWait(p) PROVE RingTypeOK'
  BY <1>3 DEF RingTypeOK, AddWait, Goto, ring
<1>4. ASSUME NEW p \in Producers, AddCopy(p) PROVE RingTypeOK'
  BY <1>4 DEF RingTypeOK, AddCopy, Goto, sems
<1>5. ASSUME NEW p \in Producers, AddAdvance(p) PROVE RingTypeOK'
  BY <1>2, <1>5 DEF RingTypeOK, AddAdvance, Goto, sems
<1>6. ASSUME NEW p \in Producers, AddPost(p) PROVE RingTypeOK'
  <2>1. val[p] \in Items
    BY <1>6 DEF AddPost, ItemsInHand
  <2>2. val[p][2] < PerProducer => <<p, val[p][2] + 1>> \in Items
    BY <2>1, RingAssumption DEF Items
  <2> QED BY <1>6, <2>2 DEF RingTypeOK, AddPost, Goto, ring
<1>7. ASSUME NEW c \in Consumers, RemoveWait(c) PROVE RingTypeOK'
  BY <1>7 DEF RingTypeOK, RemoveWait, Goto, ring
<1>8. ASSUME NEW c \in Consumers, RemoveCopy(c) PROVE RingTypeOK'
  BY <1>8 DEF RingTypeOK, RemoveCopy, Goto, ring, sems
<1>9. ASSUME NEW c \in Consumers, RemoveAdvance(c) PROVE RingTypeOK'
  BY <1>2, <1>9 DEF RingTypeOK, RemoveAdvance, Goto, sems
<1>10. ASSUME NEW c \in Consumers, RemovePost(c) PROVE RingTypeOK'
  BY <1>10 DEF RingTypeOK, RemovePost, Goto, ring
<1>11. ASSUME NEW t \in Threads, Lock(t) \/ Unlock(t) PROVE RingTypeOK'
  BY <1>11 DEF RingTypeOK, Lock, Unlock, Goto, ring, sems
<1>12. CASE RingIdle
  BY <1>12 DEF RingIdle, RingTypeOK, ringvars, ring, sems
<1> QED BY <1>3, <1>4, <1>5, <1>6, <1>7, <1>8, <1>9, <1>10, <1>11, <1>12
        DEF RingNext, circ_buffer_add, circ_buffer_remove

LEMMA RingStutters ==
    ASSUME Orderly, UNCHANGED ringvars
    PROVE  Orderly'
<1>1. UNCHANGED <<Claimed, Stored, Claiming, Emptied>>
  BY DEF ringvars, Claimed, Stored, Claiming, Emptied, Amount
<1> QED BY <1>1 DEF ringvars, ring, sems, Orderly, RingTypeOK, Exclusive, Permits, InStep, ItemsInHand

\* The mutex admits one thread to the indices and the count.
LEMMA ExclusiveStep ==
    ASSUME RingTypeOK, Exclusive, RingNext
    PROVE  Exclusive'
<1> USE RingAssumption DEF Exclusive, Inside, Goto, RingTypeOK, Threads
<1>1. ASSUME NEW p \in Producers, AddWait(p) PROVE Exclusive'
  BY <1>1 DEF AddWait
<1>2. ASSUME NEW p \in Producers, AddCopy(p) PROVE Exclusive'
  BY <1>2 DEF AddCopy
<1>3. ASSUME NEW p \in Producers, AddAdvance(p) PROVE Exclusive'
  BY <1>3 DEF AddAdvance
<1>4. ASSUME NEW p \in Producers, AddPost(p) PROVE Exclusive'
  BY <1>4 DEF AddPost
<1>5. ASSUME NEW c \in Consumers, RemoveWait(c) PROVE Exclusive'
  BY <1>5 DEF RemoveWait
<1>6. ASSUME NEW c \in Consumers, RemoveCopy(c) PROVE Exclusive'
  BY <1>6 DEF RemoveCopy
<1>7. ASSUME NEW c \in Consumers, RemoveAdvance(c) PROVE Exclusive'
  BY <1>7 DEF RemoveAdvance
<1>8. ASSUME NEW c \in Consumers, RemovePost(c) PROVE Exclusive'
  BY <1>8 DEF RemovePost
<1>9. ASSUME NEW t \in Threads, Lock(t) \/ Unlock(t) PROVE Exclusive'
  BY <1>9 DEF Lock, Unlock
<1>10. CASE RingIdle
  BY <1>10 DEF RingIdle, ringvars
<1> QED BY <1>1, <1>2, <1>3, <1>4, <1>5, <1>6, <1>7, <1>8, <1>9, <1>10
        DEF RingNext, circ_buffer_add, circ_buffer_remove

\* Each wait takes the permit that some post gives.
LEMMA PermitsStep ==
    ASSUME RingTypeOK, Permits, RingNext
    PROVE  Permits'
<1>0. /\ BUFFER_SIZE \in Nat /\ count \in Int /\ empty_slots \in Nat /\ full_slots \in Nat
      /\ Claimed \in Nat /\ Stored \in Nat /\ Claiming \in Nat /\ Emptied \in Nat
  BY RingAssumption, NumbersAreNat DEF RingTypeOK
<1> USE <1>0 DEF Permits, One, Entering, Leaving
<1>1. ASSUME NEW p \in Producers, AddWait(p) PROVE Permits'
  BY <1>1, ProducerMoves DEF AddWait, ring, sems
<1>2. ASSUME NEW p \in Producers, AddCopy(p) PROVE Permits'
  BY <1>2, ProducerMoves DEF AddCopy, ring, sems
<1>3. ASSUME NEW p \in Producers, AddAdvance(p) PROVE Permits'
  BY <1>3, ProducerMoves DEF AddAdvance, ring, sems
<1>4. ASSUME NEW p \in Producers, AddPost(p) PROVE Permits'
  <2>1. CASE Goto(p, "wait")
    BY <1>4, <2>1, ProducerMoves DEF AddPost, ring
  <2>2. CASE Goto(p, "done")
    BY <1>4, <2>2, ProducerMoves DEF AddPost, ring
  <2> QED BY <1>4, <2>1, <2>2 DEF AddPost
<1>5. ASSUME NEW c \in Consumers, RemoveWait(c) PROVE Permits'
  BY <1>5, ConsumerMoves DEF RemoveWait, ring, sems
<1>6. ASSUME NEW c \in Consumers, RemoveCopy(c) PROVE Permits'
  <2>1. UNCHANGED <<Claimed, Stored, Claiming, Emptied>>
    BY <1>6, ConsumerMoves DEF RemoveCopy
  <2> QED BY <1>6, <2>1 DEF RemoveCopy, ring, sems
<1>7. ASSUME NEW c \in Consumers, RemoveAdvance(c) PROVE Permits'
  BY <1>7, ConsumerMoves DEF RemoveAdvance, ring, sems
<1>8. ASSUME NEW c \in Consumers, RemovePost(c) PROVE Permits'
  BY <1>8, ConsumerMoves DEF RemovePost, ring, sems
<1>9. ASSUME NEW t \in Threads, Lock(t) \/ Unlock(t) PROVE Permits'
  <2>1. CASE t \in Producers
    BY <1>9, <2>1, ProducerMoves DEF Lock, Unlock, ring, sems
  <2>2. CASE t \in Consumers
    BY <1>9, <2>2, ConsumerMoves DEF Lock, Unlock, ring, sems
  <2> QED BY <1>9, <2>1, <2>2 DEF Threads
<1>10. CASE RingIdle
  <2>1. UNCHANGED <<Claimed, Stored, Claiming, Emptied>>
    BY <1>10 DEF RingIdle, ringvars, Claimed, Stored, Claiming, Emptied, Amount
  <2> QED BY <1>10, <2>1 DEF RingIdle, ringvars, ring, sems
<1> QED BY <1>1, <1>2, <1>3, <1>4, <1>5, <1>6, <1>7, <1>8, <1>9, <1>10
        DEF RingNext, circ_buffer_add, circ_buffer_remove

\* The indices and the count move together.
LEMMA InStepStep ==
    ASSUME Orderly, RingNext
    PROVE  InStep'
<1>1. RingTypeOK /\ Permits /\ in = Cell(out + count)
  BY DEF Orderly, InStep
<1>2. out \in Cells /\ count \in Nat /\ count <= BUFFER_SIZE
  BY <1>1, Bounds DEF RingTypeOK
<1>3. ASSUME NEW p \in Producers, AddAdvance(p) PROVE InStep'
  <2>1. in' = Cell(in + 1) /\ out' = out /\ count' = count + 1 /\ pc[p] \in Entering
    BY <1>3 DEF AddAdvance, Cell, Entering
  <2>2. count < BUFFER_SIZE
    BY <1>1, <2>1, Bounds
  <2>3. Cell(in + 1) = Cell(out + (count + 1))
    BY <1>1, <1>2, <2>2, CellsMove
  <2>4. in' = Cell(out' + count')
    BY <2>1, <2>3
  <2> QED BY <2>4 DEF InStep, Cell
<1>4. ASSUME NEW c \in Consumers, RemoveAdvance(c) PROVE InStep'
  <2>1. in' = in /\ out' = Cell(out + 1) /\ count' = count - 1 /\ pc[c] \in Entering
    BY <1>4 DEF RemoveAdvance, Cell, Entering
  <2>2. count > 0
    BY <1>1, <2>1, Bounds
  <2>3. Cell(Cell(out + 1) + (count - 1)) = Cell(out + count)
    BY <1>2, <2>2, CellsMove
  <2>4. in' = Cell(out' + count')
    BY <1>1, <2>1, <2>3
  <2> QED BY <2>4 DEF InStep, Cell
<1>5. CASE UNCHANGED <<in, out, count>>
  BY <1>1, <1>5 DEF InStep, Cell
<1> QED BY <1>3, <1>4, <1>5 DEF RingNext, circ_buffer_add, circ_buffer_remove, AddWait, AddCopy, AddPost, RemoveWait,
           RemoveCopy, RemovePost, Lock, Unlock, RingIdle, ringvars, ring

\* The item that a producer has copied in stays in its cell until in moves on.
LEMMA ItemsInHandStep ==
    ASSUME Orderly, RingNext
    PROVE  ItemsInHand'
<1> USE RingAssumption DEF ItemsInHand, Goto, RingTypeOK, Threads
<1>0. RingTypeOK /\ Exclusive /\ ItemsInHand
  BY DEF Orderly
<1>1. \A p, q \in Threads : pc[p] \in Inside /\ pc[q] \in Inside => p = q
  BY <1>0 DEF Exclusive
<1>2. ASSUME NEW p \in Producers, AddWait(p) PROVE ItemsInHand'
  BY <1>0, <1>1, <1>2 DEF AddWait, Inside, ring, sems
<1>3. ASSUME NEW p \in Producers, AddCopy(p) PROVE ItemsInHand'
  BY <1>0, <1>1, <1>3 DEF AddCopy, Inside, ring, sems
<1>4. ASSUME NEW p \in Producers, AddAdvance(p) PROVE ItemsInHand'
  BY <1>0, <1>1, <1>4 DEF AddAdvance, Inside, ring, sems
<1>5. ASSUME NEW p \in Producers, AddPost(p) PROVE ItemsInHand'
  <2>1. val[p] \in Items
    BY <1>0, <1>5 DEF AddPost
  <2>2. val[p][2] < PerProducer => <<p, val[p][2] + 1>> \in Items
    BY <2>1 DEF Items
  <2> QED BY <1>0, <1>5, <2>2 DEF AddPost, ring
<1>6. ASSUME NEW c \in Consumers, RemoveWait(c) PROVE ItemsInHand'
  BY <1>0, <1>1, <1>6 DEF RemoveWait, Inside, ring, sems
<1>7. ASSUME NEW c \in Consumers, RemoveCopy(c) PROVE ItemsInHand'
  BY <1>0, <1>1, <1>7 DEF RemoveCopy, Inside, ring, sems
<1>8. ASSUME NEW c \in Consumers, RemoveAdvance(c) PROVE ItemsInHand'
  BY <1>0, <1>1, <1>8 DEF RemoveAdvance, Inside, ring, sems
<1>9. ASSUME NEW c \in Consumers, RemovePost(c) PROVE ItemsInHand'
  BY <1>0, <1>1, <1>9 DEF RemovePost, Inside, ring, sems
<1>10. ASSUME NEW t \in Threads, Lock(t) \/ Unlock(t) PROVE ItemsInHand'
  BY <1>0, <1>10 DEF Lock, Unlock, ring, sems
<1>11. CASE RingIdle
  BY <1>0, <1>11 DEF RingIdle, ringvars, ring, sems
<1> QED BY <1>2, <1>3, <1>4, <1>5, <1>6, <1>7, <1>8, <1>9, <1>10, <1>11
        DEF RingNext, circ_buffer_add, circ_buffer_remove

THEOREM StaysOrderly == RingSpec => []Orderly
<1>1. Orderly /\ [RingNext]_ringvars => Orderly'
  BY RingTypeStep, ExclusiveStep, PermitsStep, InStepStep, ItemsInHandStep, RingStutters
     DEF Orderly
<1> QED BY InitiallyOrderly, <1>1, PTL DEF RingSpec

\* The fields of circular_buffer_t keep their types; the indices stay in the ring.
THEOREM RingTypeCorrect == RingSpec => []RingTypeOK
<1>1. Orderly => RingTypeOK
  BY DEF Orderly
<1> QED BY <1>1, StaysOrderly, PTL

-----------------------------------------------------------------------------
(* The ring implements the queue.                                          *)

\* Whether an item has been copied out and is still counted.
Taken(f) == Cardinality({c \in Consumers : f[c] = "advance"})

LEMMA NoTaker ==
    ASSUME NEW f, \A c \in Consumers : f[c] # "advance"
    PROVE  Taken(f) = 0
<1>1. {c \in Consumers : f[c] = "advance"} = {}
  OBVIOUS
<1> QED BY <1>1, FS_EmptySet DEF Taken

LEMMA OneTaker ==
    ASSUME NEW f, NEW c \in Consumers, f[c] = "advance",
           \A d \in Consumers : f[d] = "advance" => d = c
    PROVE  Taken(f) = 1
<1>1. {d \in Consumers : f[d] = "advance"} = {c}
  OBVIOUS
<1> QED BY <1>1, FS_Singleton DEF Taken

LEMMA SameTaken ==
    ASSUME NEW f, NEW g, \A c \in Consumers : g[c] = "advance" <=> f[c] = "advance"
    PROVE  Taken(g) = Taken(f)
<1>1. {c \in Consumers : g[c] = "advance"} = {c \in Consumers : f[c] = "advance"}
  OBVIOUS
<1> QED BY <1>1 DEF Taken

LEMMA ContentIsLine ==
    /\ Content = CellLine(cells, out + Taken(pc), count - Taken(pc))
    /\ Content' = CellLine(cells', out' + Taken(pc'), count' - Taken(pc'))
BY DEF Content, CellLine, Taken, At, Cell

Received == [c \in Consumers |-> val[c]]

\* A producer's step into the queue.
LEMMA PutStep ==
    ASSUME Orderly, NEW p \in Producers, AddAdvance(p)
    PROVE  Fifo!Put(val[p])
<1>1. /\ RingTypeOK /\ Exclusive /\ Permits /\ in = Cell(out + count)
      /\ p \in Threads /\ Consumers \subseteq Threads
      /\ pc[p] = "advance" /\ pc[p] \in Entering /\ pc[p] \in Inside
  BY DEF Orderly, InStep, AddAdvance, Threads, Entering, Inside
<1>2. count \in Nat /\ count < BUFFER_SIZE /\ out \in Cells /\ cells \in [Cells -> Values]
  BY <1>1, Bounds DEF RingTypeOK, Values
<1>3. \A c \in Consumers : pc[c] # "advance" /\ pc'[c] # "advance"
  BY <1>1, RingAssumption DEF Exclusive, Inside, AddAdvance, Goto, RingTypeOK
<1>4. Taken(pc) = 0 /\ Taken(pc') = 0
  BY <1>3, NoTaker
<1>5. cells[in] = val[p]
  BY <1>1 DEF Orderly, ItemsInHand
<1>6. cells' = cells /\ out' = out /\ count' = count + 1 /\ val' = val
  BY DEF AddAdvance
<1>7. out + 0 = out /\ count - 0 = count /\ (count + 1) - 0 = count + 1
  BY <1>2 DEF Cells
<1>8. Content = CellLine(cells, out, count) /\ Content' = CellLine(cells, out, count + 1)
  BY <1>4, <1>6, <1>7, ContentIsLine
<1>9. Content' = Append(Content, val[p])
  BY <1>1, <1>2, <1>5, <1>8, LineGrows
<1>10. Len(Content) < BUFFER_SIZE
  <2>1. out \in Nat /\ out + count <= BUFFER_SIZE + BUFFER_SIZE
    BY <1>2, RingAssumption DEF Cells
  <2> QED BY <1>2, <1>8, <2>1, LineIsSeq
<1> QED BY <1>6, <1>9, <1>10 DEF Fifo!Put

\* A consumer's step out of it.
LEMMA TakeStep ==
    ASSUME Orderly, NEW c \in Consumers, RemoveCopy(c)
    PROVE  Fifo!Take(c)
<1>1. /\ RingTypeOK /\ Exclusive /\ Permits
      /\ c \in Threads /\ Consumers \subseteq Threads /\ pc \in [Threads -> Step]
      /\ pc[c] = "copy" /\ pc[c] \in Entering /\ pc[c] \in Inside
  BY DEF Orderly, RemoveCopy, Threads, Entering, Inside, RingTypeOK
<1>2. /\ count \in Nat \ {0} /\ count <= BUFFER_SIZE
      /\ out \in Cells /\ cells \in [Cells -> Values]
  BY <1>1, Bounds DEF RingTypeOK, Values
<1>3. \A d \in Consumers : pc[d] # "advance" /\ (pc'[d] = "advance" <=> d = c)
  BY <1>1 DEF Exclusive, Inside, RemoveCopy, Goto
<1>4. Taken(pc) = 0 /\ Taken(pc') = 1
  BY <1>3, NoTaker, OneTaker
<1>5. cells' = cells /\ out' = out /\ count' = count /\ val' = [val EXCEPT ![c] = cells[out]]
  BY DEF RemoveCopy, ring
<1>6. out + 0 = out /\ count - 0 = count
  BY <1>2 DEF Cells
<1>7. Content = CellLine(cells, out, count) /\ Content' = CellLine(cells, out + 1, count - 1)
  BY <1>4, <1>5, <1>6, ContentIsLine
<1>8. Content # <<>> /\ Head(Content) = cells[out] /\ Content' = Tail(Content)
  BY <1>2, <1>7, LineShrinks
<1>9. Received' = [Received EXCEPT ![c] = Head(Content)]
  BY <1>1, <1>5, <1>8 DEF Received, RingTypeOK
<1> QED BY <1>8, <1>9 DEF Fifo!Take, Received

\* Out moves on over the item that was taken: nothing is seen of it.
LEMMA RemoveAdvanceStutters ==
    ASSUME Orderly, NEW c \in Consumers, RemoveAdvance(c)
    PROVE  UNCHANGED <<Content, Received>>
<1>1. /\ RingTypeOK /\ Exclusive /\ Permits
      /\ c \in Threads /\ Consumers \subseteq Threads /\ pc \in [Threads -> Step]
      /\ pc[c] = "advance" /\ pc[c] \in Entering /\ pc[c] \in Inside
  BY DEF Orderly, RemoveAdvance, Threads, Entering, Inside, RingTypeOK
<1>2. /\ count \in Nat \ {0} /\ count <= BUFFER_SIZE
      /\ out \in Cells /\ cells \in [Cells -> Values]
  BY <1>1, Bounds DEF RingTypeOK, Values
<1>3. \A d \in Consumers : (pc[d] = "advance" => d = c) /\ pc'[d] # "advance"
  BY <1>1 DEF Exclusive, Inside, RemoveAdvance, Goto
<1>4. Taken(pc) = 1 /\ Taken(pc') = 0
  BY <1>1, <1>3, NoTaker, OneTaker
<1>5. cells' = cells /\ out' = Cell(out + 1) /\ count' = count - 1 /\ val' = val
  BY DEF RemoveAdvance, Cell
<1>6. out' + 0 = out' /\ count - 1 - 0 = count - 1 /\ count - 1 \in Nat /\ count - 1 < BUFFER_SIZE
  <2>1. out + 1 \in Nat /\ out + 1 < BUFFER_SIZE + BUFFER_SIZE
    BY <1>2, RingAssumption DEF Cells
  <2>2. out' \in Nat
    BY <1>5, <2>1, CellOf DEF Cells
  <2>3. count \in Nat \ {0} /\ count <= BUFFER_SIZE /\ BUFFER_SIZE \in Nat
    BY <1>2, RingAssumption
  <2>4. count - 1 - 0 = count - 1 /\ count - 1 \in Nat /\ count - 1 < BUFFER_SIZE
    BY <2>3
  <2>5. out' + 0 = out'
    <3>1. \A x \in Nat : x + 0 = x
      OBVIOUS
    <3> QED BY <2>2, <3>1
  <2> QED BY <2>4, <2>5
<1>7. Content = CellLine(cells, out + 1, count - 1)
  BY <1>4, ContentIsLine
<1>8. Content' = CellLine(cells, Cell(out + 1), count - 1)
  BY <1>4, <1>5, <1>6, ContentIsLine
<1>9. Content' = Content
  BY <1>2, <1>6, <1>7, <1>8, LineWraps
<1> QED BY <1>5, <1>9 DEF Received

\* An item is copied in behind the last one.
LEMMA AddCopyStutters ==
    ASSUME Orderly, NEW p \in Producers, AddCopy(p)
    PROVE  UNCHANGED <<Content, Received>>
<1>1. /\ RingTypeOK /\ Exclusive /\ Permits /\ in = Cell(out + count)
      /\ p \in Threads /\ Consumers \subseteq Threads
      /\ pc[p] = "copy" /\ pc[p] \in Entering /\ pc[p] \in Inside
  BY DEF Orderly, InStep, AddCopy, Threads, Entering, Inside
<1>2. count \in Nat /\ count < BUFFER_SIZE /\ out \in Cells /\ cells \in [Cells -> Values]
  BY <1>1, Bounds DEF RingTypeOK, Values
<1>3. \A c \in Consumers : pc[c] # "advance" /\ pc'[c] # "advance"
  BY <1>1, RingAssumption DEF Exclusive, Inside, AddCopy, Goto, RingTypeOK
<1>4. Taken(pc) = 0 /\ Taken(pc') = 0
  BY <1>3, NoTaker
<1>5. /\ cells' = [cells EXCEPT ![Cell(out + count)] = val[p]]
      /\ out' = out /\ count' = count /\ val' = val
  BY <1>1 DEF AddCopy
<1>6. out + 0 = out /\ count - 0 = count
  BY <1>2 DEF Cells
<1>7. Content = CellLine(cells, out, count) /\ Content' = CellLine(cells', out, count)
  BY <1>4, <1>5, <1>6, ContentIsLine
<1>8. Content' = Content
  BY <1>2, <1>5, <1>7, LineUntouched
<1> QED BY <1>5, <1>8 DEF Received

\* Every other step leaves the cells, the indices and what was received alone.
LEMMA OthersStutter ==
    ASSUME Orderly,
           \/ \E p \in Producers : AddWait(p) \/ AddPost(p)
           \/ \E c \in Consumers : RemoveWait(c) \/ RemovePost(c)
           \/ \E t \in Threads : Lock(t) \/ Unlock(t)
           \/ UNCHANGED ringvars
    PROVE  UNCHANGED <<Content, Received>>
<1>0. /\ pc \in [Threads -> Step] /\ val \in [Threads -> Items \cup {NoItem}]
      /\ Producers \subseteq Threads /\ Consumers \subseteq Threads
  BY DEF Orderly, RingTypeOK, Threads
<1>1. UNCHANGED ring
  BY DEF AddWait, AddPost, RemoveWait, RemovePost, Lock, Unlock, ringvars
<1>2. \A c \in Consumers : pc'[c] = "advance" <=> pc[c] = "advance"
  BY <1>0 DEF AddWait, AddPost, RemoveWait, RemovePost, Lock, Unlock, ringvars, Goto
<1>3. \A c \in Consumers : val'[c] = val[c]
  BY <1>0, RingAssumption DEF AddWait, AddPost, RemoveWait, RemovePost, Lock, Unlock, ringvars
<1>4. Content' = Content
  BY <1>1, <1>2, SameTaken, ContentIsLine DEF ring
<1> QED BY <1>3, <1>4 DEF Received

\* circ_buffer_add and circ_buffer_remove, run by any number of threads on a ring of any
\* size, are the two atomic operations of a bounded FIFO: nothing is overwritten, taken
\* twice or reordered.
THEOREM RingIsQueue == RingSpec => ImplementsQueue
<1>1. RingInit => Fifo!Init
  <2> SUFFICES ASSUME RingInit PROVE Fifo!Init
    OBVIOUS
  <2>1. \A c \in Consumers : pc[c] # "advance" /\ val[c] = NoItem
    BY RingAssumption DEF RingInit, Threads
  <2>2. Taken(pc) = 0
    BY <2>1, NoTaker
  <2>3. Content = CellLine(cells, 0, 0)
    BY <2>2, ContentIsLine DEF RingInit
  <2>4. Content = <<>>
    <3>1. cells \in [Cells -> Values]
      BY DEF RingInit, Values
    <3>2. Content \in Seq(Values) /\ Len(Content) = 0
      BY <2>3, <3>1, LineIsSeq, RingAssumption
    <3> QED BY <3>2, EmptySeq
  <2> QED BY <2>1, <2>4 DEF Fifo!Init
<1>2. Orderly /\ [RingNext]_ringvars => [Fifo!Next]_<<Content, Received>>
  <2> SUFFICES ASSUME Orderly, [RingNext]_ringvars
               PROVE  Fifo!Next \/ UNCHANGED <<Content, Received>>
    BY DEF Received
  <2>1. ASSUME NEW p \in Producers, AddAdvance(p) PROVE Fifo!Next
    <3>1. val[p] \in Items
      BY <2>1 DEF Orderly, ItemsInHand, AddAdvance
    <3> QED BY <2>1, <3>1, PutStep DEF Fifo!Next
  <2>2. ASSUME NEW c \in Consumers, RemoveCopy(c) PROVE Fifo!Next
    BY <2>2, TakeStep DEF Fifo!Next
  <2> QED BY <2>1, <2>2, RemoveAdvanceStutters, AddCopyStutters, OthersStutter
          DEF RingNext, circ_buffer_add, circ_buffer_remove, RingIdle
<1> QED BY <1>1, <1>2, StaysOrderly, PTL DEF RingSpec, ImplementsQueue, Fifo!Spec, Received
=============================================================================

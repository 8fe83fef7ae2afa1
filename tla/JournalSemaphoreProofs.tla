----------------------- MODULE JournalSemaphoreProofs ------------------------
(***************************************************************************)
(* Proofs about JournalSemaphore, for every number of writes, size of the  *)
(* buffers and set of late operations, whatever pthread_create fails: when *)
(* main returns nothing is on its way, and the counting semaphores keep    *)
(* the promise of JournalSpec.                                             *)
(***************************************************************************)
EXTENDS JournalSemaphore, FiniteSetTheorems, SequenceTheorems, TLAPS

\* The operations of a stage, and of the stages up to one.
Part(s) == Range(Program[s])
UpTo(n) == UNION {Part(r) : r \in 1..n}

\* The writes are numbered and keep their order, so the numbers say where they are: the
\* worker of stage s has HandAt(s) if it has one, and its buffer begins with BufferAt(s).
Has(s) == IF wid[s] = NoId THEN 0 ELSE 1
B1 == next - Len(buffer[1])
H1 == B1 - Has(1)
B2 == H1 - Len(buffer[2])
H2 == B2 - Has(2)
B3 == H2 - Len(buffer[3])
H3 == B3 - Has(3)
BufferAt(s) == IF s = 1 THEN B1 ELSE IF s = 2 THEN B2 ELSE B3
HandAt(s) == IF s = 1 THEN H1 ELSE IF s = 2 THEN H2 ELSE H3

InLine ==
    /\ H3 >= 0
    /\ \A s \in Stages :
          /\ \A i \in DOMAIN buffer[s] : buffer[s][i] = BufferAt(s) + i - 1
          /\ wid[s] # NoId => wid[s] = HandAt(s)

\* A write has the blocks of n stages on disk, and none on its way.
Settled(id, n) == done[id] = UpTo(n) /\ inflight[id] = {}

Between ==
    \A id \in Ids :
        /\ id >= B1 => Settled(id, 0)
        /\ B2 <= id /\ id < H1 => Settled(id, 1)
        /\ B3 <= id /\ id < H2 => Settled(id, 2)
        /\ id < H3 => Settled(id, 3)

\* The worker of a stage has issued some of its operations: the semaphore has a post for
\* each block on disk of which the worker has not heard, and no other.
Midway(s) ==
    LET id == wid[s] IN
    /\ UpTo(s - 1) \subseteq done[id] /\ done[id] \subseteq UpTo(s)
    /\ inflight[id] \subseteq Part(s) \ done[id]
    /\ step[s] \in 1..Len(Program[s])
    /\ pc[s] = "issue" => \A k \in step[s]..Len(Program[s]) :
                             Program[s][k] \notin done[id] \cup inflight[id]
    /\ sem[s] + Cardinality(Part(s) \ done[id])
          = IF pc[s] = "issue" THEN Len(Program[s]) ELSE step[s]

Works(s) ==
    /\ pc[s] = "remove" <=> wid[s] = NoId
    /\ pc[s] = "add" => s # 3
    /\ pc[s] = "write_complete" => s = 3
    /\ pc[s] \in {"remove", "add", "write_complete"} => sem[s] = 0
    /\ pc[s] \in {"add", "write_complete"} => Settled(wid[s], s)
    /\ pc[s] \in {"issue", "wait"} => Midway(s)

Working == \A s \in Stages : Works(s)

\* main returns with the last write.
LastIsReported == exited => H3 = Requests

IInv == TypeOK /\ InLine /\ Between /\ Working /\ LastIsReported

-----------------------------------------------------------------------------
(* The program of the workers.                                             *)

LEMMA ProgramFacts ==
    /\ Part(1) = {"write_data", "journal_txb", "journal_bitmap", "journal_inode"}
    /\ Part(2) = {"journal_txe"}
    /\ Part(3) = {"write_bitmap", "write_inode"}
    /\ Len(Program[1]) = 4 /\ Len(Program[2]) = 1 /\ Len(Program[3]) = 2
    /\ Stages = {1, 2, 3}
    /\ \A s \in Stages : Part(s) = {Program[s][k] : k \in 1..Len(Program[s])}
<1>1. /\ DOMAIN Program[1] = 1..4 /\ DOMAIN Program[2] = 1..1 /\ DOMAIN Program[3] = 1..2
      /\ Len(Program[1]) = 4 /\ Len(Program[2]) = 1 /\ Len(Program[3]) = 2
  BY DEF Program
<1>2. Stages = {1, 2, 3}
  BY DEF Stages
<1>3. 1..4 = {1, 2, 3, 4} /\ 1..1 = {1} /\ 1..2 = {1, 2}
  OBVIOUS
<1>4. Part(1) = {"write_data", "journal_txb", "journal_bitmap", "journal_inode"}
  BY <1>1, <1>3 DEF Part, Range, Program
<1>5. Part(2) = {"journal_txe"}
  BY <1>1, <1>3 DEF Part, Range, Program
<1>6. Part(3) = {"write_bitmap", "write_inode"}
  BY <1>1, <1>3 DEF Part, Range, Program
<1>7. \A s \in Stages : Part(s) = {Program[s][k] : k \in 1..Len(Program[s])}
  BY <1>1, <1>2 DEF Part, Range
<1>8. QED
  BY <1>1, <1>2, <1>4, <1>5, <1>6, <1>7

\* What the proofs use of it: the operations of a stage are different ones, and no stage
\* issues those of another.
LEMMA PartFacts ==
    ASSUME NEW s \in Stages
    PROVE  /\ Len(Program[s]) \in 1..4
           /\ \A k \in 1..Len(Program[s]) : Program[s][k] \in Part(s)
           /\ \A k, l \in 1..Len(Program[s]) : Program[s][k] = Program[s][l] => k = l
           /\ \A r \in Stages : r # s => Part(r) \cap Part(s) = {}
           /\ IsFiniteSet(Part(s)) /\ Cardinality(Part(s)) = Len(Program[s])
           /\ Part(s) \subseteq Ops
<1>1. Len(Program[s]) \in 1..4
  BY ProgramFacts
<1>2. \A k \in 1..Len(Program[s]) : Program[s][k] \in Part(s)
  BY ProgramFacts
<1>3. \A k, l \in 1..Len(Program[s]) : Program[s][k] = Program[s][l] => k = l
  <2>1. CASE s = 1
    BY <2>1, ProgramFacts DEF Program
  <2>2. CASE s = 2
    BY <2>2, ProgramFacts DEF Program
  <2>3. CASE s = 3
    BY <2>3, ProgramFacts DEF Program
  <2>4. QED
    BY <2>1, <2>2, <2>3, ProgramFacts
<1>4. \A r \in Stages : r # s => Part(r) \cap Part(s) = {}
  BY ProgramFacts
<1>5. IsFiniteSet(Part(s)) /\ Cardinality(Part(s)) = Len(Program[s])
  <2>1. PICK n \in Nat : n = Len(Program[s])
    <3>1. Len(Program[s]) \in Nat
      BY <1>1
    <3>2. QED
      BY <3>1
  <2>2. PICK f : f = [k \in 1..n |-> Program[s][k]]
    OBVIOUS
  <2>3. f \in [1..n -> Part(s)] /\ \A k, l \in 1..n : f[k] = f[l] => k = l
    BY <1>2, <1>3, <2>1, <2>2
  <2>4. \A x \in Part(s) : \E k \in 1..n : f[k] = x
    <3>1. Part(s) = {Program[s][k] : k \in 1..n}
      BY <2>1, ProgramFacts
    <3>2. QED
      BY <2>2, <3>1
  <2>5. ExistsBijection(1..n, Part(s))
    <3>1. f \in Bijection(1..n, Part(s))
      BY <2>3, <2>4 DEF Bijection, Injection, Surjection, IsInjective
    <3>2. QED
      BY <3>1 DEF ExistsBijection
  <2>6. QED
    BY <2>1, <2>5, FS_CountingElements, FS_NatBijection
<1>6. Part(s) \subseteq Ops
  BY DEF Ops, Part
<1>7. QED
  BY <1>1, <1>2, <1>3, <1>4, <1>5, <1>6

LEMMA UpToFacts ==
    /\ UpTo(0) = {} /\ UpTo(3) = Ops
    /\ \A s \in Stages : /\ UpTo(s) = UpTo(s - 1) \cup Part(s)
                         /\ UpTo(s - 1) \cap Part(s) = {}
                         /\ UpTo(s) \subseteq Ops
<1>1. 1..0 = {} /\ 1..1 = {1} /\ 1..2 = {1, 2} /\ 1..3 = {1, 2, 3}
  OBVIOUS
<1>2. UpTo(0) = {} /\ UpTo(1) = Part(1) /\ UpTo(2) = Part(1) \cup Part(2)
      /\ UpTo(3) = Part(1) \cup Part(2) \cup Part(3)
  BY <1>1 DEF UpTo
<1>3. UpTo(3) = Ops
  BY DEF UpTo, Ops, Part, Stages
<1>4. 1 - 1 = 0 /\ 2 - 1 = 1 /\ 3 - 1 = 2
  OBVIOUS
<1>5. \A s \in Stages : UpTo(s) = UpTo(s - 1) \cup Part(s) /\ UpTo(s) \subseteq Ops
  BY <1>2, <1>3, <1>4, ProgramFacts
<1>6. \A s \in Stages : UpTo(s - 1) \cap Part(s) = {}
  BY <1>2, <1>4, ProgramFacts
<1>7. QED
  BY <1>2, <1>3, <1>5, <1>6

-----------------------------------------------------------------------------
(* The invariant.                                                          *)

\* The writes from the last one reported to the next one requested.
LEMMA Numbers ==
    ASSUME IInv
    PROVE  /\ B1 \in Int /\ H1 \in Int /\ B2 \in Int /\ H2 \in Int /\ B3 \in Int /\ H3 \in Int
           /\ 0 <= H3 /\ H3 <= B3 /\ B3 <= H2 /\ H2 <= B2 /\ B2 <= H1 /\ H1 <= B1
           /\ B1 <= next /\ next <= Requests
           /\ \A s \in Stages : /\ wid[s] # NoId => /\ wid[s] \in Ids /\ wid[s] = HandAt(s)
                                                    /\ HandAt(s) = BufferAt(s) - 1
                                /\ wid[s] = NoId => HandAt(s) = BufferAt(s)
                                /\ Len(buffer[s]) \in Nat /\ DOMAIN buffer[s] = 1..Len(buffer[s])
<1> USE DEF IInv
<1>1. Requests \in Nat /\ next \in Int /\ next <= Requests
  BY ConstantsAssumption DEF TypeOK
<1>2. \A s \in Stages : Len(buffer[s]) \in Nat /\ DOMAIN buffer[s] = 1..Len(buffer[s])
  BY DEF TypeOK
<1>3. \A s \in Stages : Has(s) \in {0, 1} /\ (wid[s] = NoId <=> Has(s) = 0)
  BY DEF Has
<1>4. 1 \in Stages /\ 2 \in Stages /\ 3 \in Stages
  BY DEF Stages
<1>5. /\ B1 \in Int /\ H1 \in Int /\ B2 \in Int /\ H2 \in Int /\ B3 \in Int /\ H3 \in Int
      /\ H3 <= B3 /\ B3 <= H2 /\ H2 <= B2 /\ B2 <= H1 /\ H1 <= B1 /\ B1 <= next
  <2>1. PICK l1 \in Nat, l2 \in Nat, l3 \in Nat :
            l1 = Len(buffer[1]) /\ l2 = Len(buffer[2]) /\ l3 = Len(buffer[3])
    BY <1>2, <1>4
  <2>2. PICK h1 \in {0, 1}, h2 \in {0, 1}, h3 \in {0, 1} :
            h1 = Has(1) /\ h2 = Has(2) /\ h3 = Has(3)
    BY <1>3, <1>4
  <2>3. PICK n \in Int : n = next
    BY <1>1
  <2>4. B1 = n - l1 /\ H1 = n - l1 - h1
    BY <2>1, <2>2, <2>3 DEF B1, H1
  <2>5. B2 = n - l1 - h1 - l2 /\ H2 = n - l1 - h1 - l2 - h2
    BY <2>1, <2>2, <2>4 DEF B2, H2
  <2>6. B3 = n - l1 - h1 - l2 - h2 - l3 /\ H3 = n - l1 - h1 - l2 - h2 - l3 - h3
    BY <2>1, <2>2, <2>5 DEF B3, H3
  <2>7. h1 \in Int /\ h1 >= 0 /\ h2 \in Int /\ h2 >= 0 /\ h3 \in Int /\ h3 >= 0
    OBVIOUS
  <2>8. QED
    BY <2>3, <2>4, <2>5, <2>6, <2>7
<1>6. \A s \in Stages : HandAt(s) = BufferAt(s) - Has(s)
  BY ProgramFacts DEF HandAt, BufferAt, H1, H2, H3
<1>7. \A s \in Stages : BufferAt(s) \in Int
  BY <1>5 DEF BufferAt
<1>8. ASSUME NEW s \in Stages
      PROVE  /\ wid[s] # NoId => /\ wid[s] \in Ids /\ wid[s] = HandAt(s)
                                 /\ HandAt(s) = BufferAt(s) - 1
             /\ wid[s] = NoId => HandAt(s) = BufferAt(s)
  BY <1>3, <1>6, <1>7 DEF TypeOK, InLine
<1>9. QED
  BY <1>1, <1>2, <1>4, <1>5, <1>8 DEF InLine

LEMMA InitHolds == Init => IInv
<1> SUFFICES ASSUME Init PROVE IInv
  OBVIOUS
<1>1. TypeOK
  <2>1. started \subseteq Stages /\ failing \subseteq MayFail
    BY DEF Init
  <2>2. <<>> \in Seq(Ids) /\ 1 \in 0..5 /\ 0 \in 0..Requests
    BY ConstantsAssumption
  <2>3. QED
    BY <2>1, <2>2 DEF Init, TypeOK
<1>2. /\ next = 0 /\ \A s \in Stages : buffer[s] = <<>> /\ wid[s] = NoId
      /\ \A id \in Ids : done[id] = {} /\ inflight[id] = {}
  BY DEF Init
<1>3. B1 = 0 /\ H1 = 0 /\ B2 = 0 /\ H2 = 0 /\ B3 = 0 /\ H3 = 0
  <2>1. /\ Has(1) = 0 /\ Has(2) = 0 /\ Has(3) = 0
        /\ Len(buffer[1]) = 0 /\ Len(buffer[2]) = 0 /\ Len(buffer[3]) = 0
    BY <1>2 DEF Has, Stages
  <2>2. QED
    BY <1>2, <2>1 DEF B1, H1, B2, H2, B3, H3
<1>4. InLine
  BY <1>2, <1>3 DEF InLine
<1>5. Between
  <2>1. \A id \in Ids : Settled(id, 0) /\ id \in Nat
    <3>1. \A id \in Ids : id \in Nat
      BY ConstantsAssumption DEF Ids
    <3>2. UpTo(0) = {}
      BY UpToFacts
    <3>3. QED
      BY <1>2, <3>1, <3>2 DEF Settled
  <2>2. QED
    BY <1>3, <2>1 DEF Between
<1>6. Working /\ LastIsReported
  BY <1>2 DEF Init, Working, Works, LastIsReported
<1>7. QED
  BY <1>1, <1>4, <1>5, <1>6 DEF IInv

\* Where a write is: it has stages behind it and rests, or a worker has it.
LEMMA Where ==
    ASSUME IInv, NEW id \in Ids
    PROVE  (\E n \in 0..3 : Settled(id, n)) \/ (\E s \in Stages : wid[s] = id)
<1>1. id \in Int
  BY ConstantsAssumption DEF Ids
<1>2. \A s \in Stages : HandAt(s) <= id /\ id < BufferAt(s) => wid[s] = id
  <2>1. ASSUME NEW s \in Stages, HandAt(s) <= id, id < BufferAt(s)
        PROVE  wid[s] = id
    <3>1. HandAt(s) \in Int /\ BufferAt(s) \in Int
      BY Numbers DEF HandAt, BufferAt
    <3>2. HandAt(s) # BufferAt(s)
      BY <1>1, <2>1, <3>1
    <3>3. wid[s] = HandAt(s) /\ HandAt(s) = BufferAt(s) - 1
      BY <3>2, Numbers
    <3>4. QED
      BY <1>1, <2>1, <3>1, <3>3
  <2>2. QED
    BY <2>1
<1>3. /\ HandAt(1) = H1 /\ HandAt(2) = H2 /\ HandAt(3) = H3
      /\ BufferAt(1) = B1 /\ BufferAt(2) = B2 /\ BufferAt(3) = B3
      /\ 1 \in Stages /\ 2 \in Stages /\ 3 \in Stages
  BY DEF HandAt, BufferAt, Stages
<1>4. CASE \E s \in Stages : HandAt(s) <= id /\ id < BufferAt(s)
  BY <1>2, <1>4
<1>5. CASE ~ \E s \in Stages : HandAt(s) <= id /\ id < BufferAt(s)
  <2>1. /\ ~ (H1 <= id /\ id < B1) /\ ~ (H2 <= id /\ id < B2) /\ ~ (H3 <= id /\ id < B3)
    BY <1>3, <1>5
  <2>2. /\ B1 \in Int /\ H1 \in Int /\ B2 \in Int /\ H2 \in Int /\ B3 \in Int /\ H3 \in Int
    BY Numbers
  <2>3. id >= B1 \/ (B2 <= id /\ id < H1) \/ (B3 <= id /\ id < H2) \/ id < H3
    BY <1>1, <2>1, <2>2
  <2>4. \E n \in {0, 1, 2, 3} : Settled(id, n)
    BY <2>3 DEF IInv, Between
  <2>5. QED
    BY <2>4
<1>6. QED
  BY <1>4, <1>5

\* A block on its way is of the write that the worker of its stage has in hand.
LEMMA InFlight ==
    ASSUME IInv, NEW id \in Ids, NEW s \in Stages, NEW op \in inflight[id], op \in Part(s)
    PROVE  wid[s] = id /\ pc[s] \in {"issue", "wait"}
<1>1. \A n : ~Settled(id, n)
  BY DEF Settled
<1>2. PICK r \in Stages : wid[r] = id
  BY <1>1, Where
<1>3. Works(r) /\ pc[r] \in {"remove", "issue", "wait", "add", "write_complete"}
  BY DEF IInv, Working, TypeOK
<1>4. id # NoId
  BY ConstantsAssumption DEF Ids, NoId
<1>5. pc[r] \in {"issue", "wait"} /\ Midway(r)
  BY <1>1, <1>2, <1>3, <1>4 DEF Works
<1>6. op \in Part(r)
  BY <1>2, <1>5 DEF Midway
<1>7. r = s
  BY <1>6, PartFacts
<1>8. QED
  BY <1>2, <1>5, <1>7

\* A worker that issues or waits has a write.
LEMMA InHand ==
    ASSUME IInv, NEW s \in Stages, pc[s] \in {"issue", "wait"}
    PROVE  /\ wid[s] \in Ids /\ Midway(s)
           /\ \A r \in Stages : r # s => wid[r] # wid[s]
<1>1. Midway(s) /\ wid[s] # NoId
  BY DEF IInv, Working, Works
<1>2. wid[s] \in Ids /\ wid[s] = HandAt(s)
  BY <1>1, Numbers
<1>3. ASSUME NEW r \in Stages, r # s, wid[r] = wid[s]
      PROVE  FALSE
  <2>1. wid[r] = HandAt(r) /\ HandAt(r) = BufferAt(r) - 1 /\ HandAt(s) = BufferAt(s) - 1
    BY <1>1, <1>3, Numbers
  <2>2. /\ B1 \in Int /\ H1 \in Int /\ B2 \in Int /\ H2 \in Int /\ B3 \in Int /\ H3 \in Int
        /\ H3 <= B3 /\ B3 <= H2 /\ H2 <= B2 /\ B2 <= H1 /\ H1 <= B1
    BY Numbers
  <2>3. HandAt(r) = HandAt(s) /\ BufferAt(r) = BufferAt(s)
    <3>1. BufferAt(r) \in Int /\ BufferAt(s) \in Int
      BY <2>2 DEF BufferAt
    <3>2. HandAt(r) = HandAt(s)
      BY <1>2, <1>3, <2>1
    <3>3. QED
      BY <2>1, <3>1, <3>2
  <2>4. HandAt(s) < BufferAt(s)
    BY <2>1, <2>2 DEF BufferAt
  <2>5. r \in {1, 2, 3} /\ s \in {1, 2, 3}
    BY ProgramFacts
  <2>6. QED
    BY <1>3, <2>2, <2>3, <2>4, <2>5 DEF HandAt, BufferAt
<1>4. QED
  BY <1>1, <1>2, <1>3

LEMMA TypeStep ==
    ASSUME IInv, [Next]_vars
    PROVE  TypeOK'
<1> USE DEF IInv
<1>0. TypeOK
  OBVIOUS
<1>1. CASE UNCHANGED vars
  BY <1>0, <1>1 DEF vars, worker, TypeOK
<1>2. CASE Request
  <2>1. next \in Ids /\ next + 1 \in 0..Requests
    BY <1>0, <1>2, ConstantsAssumption DEF Request, TypeOK, Ids
  <2>2. PICK q : q = Append(buffer[1], next)
    OBVIOUS
  <2>3. q \in Seq(Ids) /\ buffer' = [buffer EXCEPT ![1] = q]
    BY <1>0, <1>2, <2>1, <2>2, ProgramFacts DEF Request, TypeOK
  <2>4. QED
    BY <1>0, <1>2, <2>1, <2>3 DEF Request, worker, TypeOK
<1>3. ASSUME NEW s \in Stages, Remove(s)
      PROVE  TypeOK'
  <2>1. PICK q, id : q = Tail(buffer[s]) /\ id = Head(buffer[s])
    OBVIOUS
  <2>2. q \in Seq(Ids) /\ id \in Ids
    BY <1>0, <1>3, <2>1 DEF Remove, TypeOK
  <2>3. buffer' = [buffer EXCEPT ![s] = q] /\ wid' = [wid EXCEPT ![s] = id]
    BY <1>3, <2>1 DEF Remove
  <2>4. QED
    BY <1>0, <1>3, <2>2, <2>3 DEF Remove, TypeOK
<1>4. ASSUME NEW s \in Stages, IssueSync(s) \/ IssueDelayed(s) \/ IssueLost(s)
      PROVE  TypeOK'
  <2>1. /\ wid[s] \in Ids /\ step[s] \in 1..Len(Program[s])
    BY <1>4, InHand DEF IssueSync, IssueDelayed, IssueLost, Midway
  <2>2. PICK op \in Ops : op = Program[s][step[s]]
    BY <2>1, PartFacts
  <2>3. Len(Program[s]) \in Nat /\ Len(Program[s]) <= 4
    BY PartFacts
  <2>4. step[s] < Len(Program[s]) => step[s] + 1 \in 0..5
    BY <2>1, <2>3
  <2>5. Issued(s) => pc' \in [Stages -> {"remove", "issue", "wait", "add", "write_complete"}]
                     /\ step' \in [Stages -> 0..5]
    BY <1>0, <2>4 DEF Issued, TypeOK
  <2>6. UsedFirstTxe(op) => first_txe' \in BOOLEAN
    BY DEF UsedFirstTxe
  <2>7. CASE IssueSync(s)
    BY <1>0, <2>1, <2>2, <2>5, <2>7 DEF IssueSync, TypeOK
  <2>8. CASE IssueDelayed(s)
    BY <1>0, <2>1, <2>2, <2>5, <2>6, <2>8 DEF IssueDelayed, TypeOK
  <2>9. CASE IssueLost(s)
    BY <1>0, <2>1, <2>2, <2>5, <2>6, <2>9 DEF IssueLost, TypeOK
  <2>10. QED
    BY <1>4, <2>7, <2>8, <2>9
<1>5. ASSUME NEW s \in Stages, NEW id \in Ids, NEW op \in Ops, DiskComplete(s, id, op)
      PROVE  TypeOK'
  BY <1>0, <1>5 DEF DiskComplete, worker, TypeOK
<1>6. ASSUME NEW s \in Stages, Wait(s)
      PROVE  TypeOK'
  <2>1. sem[s] \in Nat /\ sem[s] > 0 /\ step[s] \in 0..5
    BY <1>0, <1>6 DEF Wait, TypeOK
  <2>2. sem[s] - 1 \in Nat /\ (step[s] > 1 => step[s] - 1 \in 0..5)
    BY <2>1
  <2>3. QED
    BY <1>0, <1>6, <2>2 DEF Wait, TypeOK
<1>7. ASSUME NEW s \in {1, 2}, Add(s)
      PROVE  TypeOK'
  <2>1. s \in Stages /\ s + 1 \in Stages
    BY ProgramFacts
  <2>2. wid[s] \in Ids
    BY <1>7, <2>1, Numbers DEF Add, Working, Works
  <2>3. PICK q : q = Append(buffer[s + 1], wid[s])
    OBVIOUS
  <2>4. q \in Seq(Ids) /\ buffer' = [buffer EXCEPT ![s + 1] = q]
    BY <1>0, <1>7, <2>1, <2>2, <2>3 DEF Add, TypeOK
  <2>5. QED
    BY <1>0, <1>7, <2>1, <2>4 DEF Add, TypeOK
<1>8. CASE WriteComplete
  BY <1>0, <1>8, ProgramFacts DEF WriteComplete, TypeOK
<1>9. QED
  BY <1>1, <1>2, <1>3, <1>4, <1>5, <1>6, <1>7, <1>8 DEF Next, Worker, Stopped

-----------------------------------------------------------------------------
(* Steps of one worker, or of the disk for it, that move no write.         *)

InPlace(s) ==
    /\ pc[s] \in {"issue", "wait"}
    /\ UNCHANGED <<buffer, wid, next, exited>>
    /\ \A r \in Stages : r # s => pc'[r] = pc[r] /\ step'[r] = step[r] /\ sem'[r] = sem[r]
    /\ \A id \in Ids : id # wid[s] => done'[id] = done[id] /\ inflight'[id] = inflight[id]

LEMMA InPlaceKeeps ==
    ASSUME IInv, NEW s \in Stages, InPlace(s), Works(s)'
    PROVE  InLine' /\ Between' /\ Working' /\ LastIsReported' /\ H3' = H3
<1> USE DEF IInv
<1>1. /\ wid[s] \in Ids /\ wid[s] # NoId
      /\ \A r \in Stages : r # s => wid[r] # wid[s]
  BY InHand, ConstantsAssumption DEF InPlace, Ids, NoId
<1>2. B1' = B1 /\ H1' = H1 /\ B2' = B2 /\ H2' = H2 /\ B3' = B3 /\ H3' = H3
  BY DEF InPlace, Has, B1, H1, B2, H2, B3, H3
<1>3. \A r \in Stages : BufferAt(r)' = BufferAt(r) /\ HandAt(r)' = HandAt(r)
  BY <1>2 DEF BufferAt, HandAt
<1>4. InLine'
  BY <1>2, <1>3 DEF InLine, InPlace
<1>5. Between'
  <2>1. wid[s] = HandAt(s) /\ HandAt(s) = BufferAt(s) - 1
    BY <1>1, Numbers
  <2>2. /\ B1 \in Int /\ H1 \in Int /\ B2 \in Int /\ H2 \in Int /\ B3 \in Int /\ H3 \in Int
        /\ H3 <= B3 /\ B3 <= H2 /\ H2 <= B2 /\ B2 <= H1 /\ H1 <= B1
    BY Numbers
  <2>3. s \in {1, 2, 3}
    BY ProgramFacts
  <2>4. ASSUME NEW id \in Ids, id = wid[s]
        PROVE  /\ ~ (id >= B1) /\ ~ (B2 <= id /\ id < H1) /\ ~ (B3 <= id /\ id < H2) /\ ~ (id < H3)
    BY <2>1, <2>2, <2>3, <2>4 DEF HandAt, BufferAt
  <2>5. ASSUME NEW id \in Ids, id # wid[s], NEW n
        PROVE  Settled(id, n)' <=> Settled(id, n)
    BY <2>5 DEF InPlace, Settled
  <2>6. QED
    BY <1>2, <2>4, <2>5 DEF Between
<1>6. ASSUME NEW r \in Stages, r # s
      PROVE  Works(r)'
  <2>1. Works(r) /\ wid[r] \in Ids \cup {NoId} /\ wid'[r] = wid[r]
    BY DEF Working, TypeOK, InPlace
  <2>2. pc'[r] = pc[r] /\ step'[r] = step[r] /\ sem'[r] = sem[r]
    BY <1>6 DEF InPlace
  <2>3. CASE wid[r] = NoId
    BY <2>1, <2>2, <2>3, ConstantsAssumption DEF Works, TypeOK
  <2>4. CASE wid[r] # NoId
    <3>1. done'[wid[r]] = done[wid[r]] /\ inflight'[wid[r]] = inflight[wid[r]]
      BY <1>1, <1>6, <2>1, <2>4 DEF InPlace
    <3>2. QED
      BY <2>1, <2>2, <3>1 DEF Works, Midway, Settled
  <2>5. QED
    BY <2>3, <2>4
<1>7. Working'
  BY <1>6 DEF Working
<1>8. LastIsReported'
  BY <1>2 DEF LastIsReported, InPlace
<1>9. QED
  BY <1>2, <1>4, <1>5, <1>7, <1>8

\* The posts that are still to come, when one block more is on disk.
LEMMA OneMore ==
    ASSUME NEW s \in Stages, NEW D, NEW op \in Part(s), op \notin D
    PROVE  /\ Cardinality(Part(s) \ (D \cup {op})) = Cardinality(Part(s) \ D) - 1
           /\ Cardinality(Part(s) \ D) \in Nat
<1>1. PICK S : S = Part(s) \ D
  OBVIOUS
<1>2. IsFiniteSet(S) /\ op \in S
  BY <1>1, PartFacts, FS_Difference
<1>3. Cardinality(S) \in Nat
  BY <1>2, FS_CardinalityType
<1>4. Cardinality(S \ {op}) = Cardinality(S) - 1
  BY <1>2, FS_RemoveElement
<1>5. Part(s) \ (D \cup {op}) = S \ {op}
  BY <1>1
<1>6. QED
  BY <1>1, <1>3, <1>4, <1>5

LEMMA IssueWorks ==
    ASSUME IInv, NEW s \in Stages,
           IssueSync(s) \/ IssueDelayed(s) \/ IssueLost(s)
    PROVE  Works(s)' /\ InPlace(s)
<1> USE DEF IInv
<1>0. pc[s] = "issue" /\ Midway(s) /\ wid[s] \in Ids /\ TypeOK
  BY InHand DEF IssueSync, IssueDelayed, IssueLost
<1>1. PICK id \in Ids : id = wid[s]
  BY <1>0
<1>2. PICK n \in Nat, m \in Nat : n = Len(Program[s]) /\ m = step[s] /\ m \in 1..n
  <2>1. Len(Program[s]) \in Nat /\ step[s] \in Nat
    BY <1>0, PartFacts DEF Midway
  <2>2. QED
    BY <1>0, <2>1 DEF Midway
<1>3. PICK op \in Part(s) : op = Program[s][m]
  BY <1>2, PartFacts
<1>4. op \notin done[id] /\ op \notin inflight[id]
  BY <1>0, <1>1, <1>2, <1>3 DEF Midway
\* the operations after this one are not issued
<1>5. \A k \in (m + 1)..n : /\ Program[s][k] # op
                            /\ Program[s][k] \notin done[id] \cup inflight[id]
  <2>1. ASSUME NEW k \in (m + 1)..n
        PROVE  k \in m..n /\ k \in 1..n /\ k # m
    BY <1>2
  <2>2. \A k \in m..n : Program[s][k] \notin done[id] \cup inflight[id]
    BY <1>0, <1>1, <1>2 DEF Midway
  <2>3. QED
    BY <1>2, <1>3, <2>1, <2>2, PartFacts
<1>6. /\ Issued(s) /\ wid' = wid /\ buffer' = buffer /\ next' = next /\ exited' = exited
      /\ (m < n => step' = [step EXCEPT ![s] = m + 1] /\ pc' = pc)
      /\ (m >= n => step' = step /\ pc' = [pc EXCEPT ![s] = "wait"])
  <2>1. Issued(s) /\ wid' = wid /\ buffer' = buffer /\ next' = next /\ exited' = exited
    BY DEF IssueSync, IssueDelayed, IssueLost
  <2>2. QED
    BY <1>2, <2>1 DEF Issued
<1>7. /\ \/ /\ sem' = [sem EXCEPT ![s] = sem[s] + 1]
            /\ done' = [done EXCEPT ![id] = done[id] \cup {op}] /\ inflight' = inflight
         \/ /\ sem' = sem /\ done' = done
            /\ inflight' = [inflight EXCEPT ![id] = inflight[id] \cup {op}]
         \/ sem' = sem /\ done' = done /\ inflight' = inflight
  BY <1>1, <1>2, <1>3 DEF IssueSync, IssueDelayed, IssueLost
<1>8. InPlace(s)
  BY <1>0, <1>1, <1>6, <1>7 DEF InPlace, TypeOK
\* what the count says after the step
<1>9. /\ pc'[s] = (IF m < n THEN "issue" ELSE "wait") /\ step'[s] = (IF m < n THEN m + 1 ELSE n)
  BY <1>0, <1>2, <1>6 DEF TypeOK
<1>10. sem'[s] + Cardinality(Part(s) \ done'[id]) = n
  <2>1. sem[s] + Cardinality(Part(s) \ done[id]) = n /\ sem[s] \in Nat
    BY <1>0, <1>1, <1>2 DEF Midway, TypeOK
  <2>2. CASE sem' = sem /\ done' = done
    BY <2>1, <2>2
  <2>3. CASE /\ sem' = [sem EXCEPT ![s] = sem[s] + 1]
             /\ done' = [done EXCEPT ![id] = done[id] \cup {op}]
    <3>1. sem'[s] = sem[s] + 1 /\ done'[id] = done[id] \cup {op}
      BY <1>0, <2>3 DEF TypeOK
    <3>2. /\ Cardinality(Part(s) \ (done[id] \cup {op})) = Cardinality(Part(s) \ done[id]) - 1
          /\ Cardinality(Part(s) \ done[id]) \in Nat
      <4>1. PICK D : D = done[id]
        OBVIOUS
      <4>2. op \notin D
        BY <1>4, <4>1
      <4>3. QED
        BY <4>1, <4>2, OneMore
    <3>3. QED
      BY <2>1, <3>1, <3>2
  <2>4. QED
    BY <1>7, <2>2, <2>3
<1>11. /\ UpTo(s - 1) \subseteq done'[id] /\ done'[id] \subseteq UpTo(s)
       /\ inflight'[id] \subseteq Part(s) \ done'[id]
       /\ done'[id] \cup inflight'[id] \subseteq done[id] \cup inflight[id] \cup {op}
  <2>1. /\ UpTo(s - 1) \subseteq done[id] /\ done[id] \subseteq UpTo(s)
        /\ inflight[id] \subseteq Part(s) \ done[id]
    BY <1>0, <1>1 DEF Midway
  <2>2. op \in UpTo(s)
    BY UpToFacts
  <2>3. /\ \/ done'[id] = done[id] \cup {op} /\ inflight'[id] = inflight[id]
           \/ done'[id] = done[id] /\ inflight'[id] = inflight[id] \cup {op}
           \/ done'[id] = done[id] /\ inflight'[id] = inflight[id]
    BY <1>0, <1>7 DEF TypeOK
  <2>4. QED
    BY <1>4, <2>1, <2>2, <2>3
<1>12. Midway(s)'
  <2>1. wid'[s] = id
    BY <1>1, <1>6
  <2>2. step'[s] \in 1..n
    BY <1>2, <1>9
  <2>3. pc'[s] = "issue" => \A k \in step'[s]..n : Program[s][k] \notin done'[id] \cup inflight'[id]
    BY <1>5, <1>9, <1>11
  <2>4. sem'[s] + Cardinality(Part(s) \ done'[id])
           = IF pc'[s] = "issue" THEN n ELSE step'[s]
    BY <1>9, <1>10
  <2>5. QED
    BY <1>2, <1>11, <2>1, <2>2, <2>3, <2>4 DEF Midway
<1>13. Works(s)'
  <2>1. pc'[s] \in {"issue", "wait"} /\ wid'[s] # NoId
    BY <1>1, <1>6, <1>9, ConstantsAssumption DEF Ids, NoId
  <2>2. QED
    BY <1>12, <2>1 DEF Works
<1>14. QED
  BY <1>8, <1>13

LEMMA DiskWorks ==
    ASSUME IInv, NEW s \in Stages, NEW id \in Ids, NEW op \in Ops, DiskComplete(s, id, op)
    PROVE  Works(s)' /\ InPlace(s) /\ wid[s] = id /\ op \in Part(s) \ done[id] /\ Midway(s)
<1> USE DEF IInv
<1>1. op \in inflight[id] /\ op \in Part(s) /\ TypeOK
  BY DEF DiskComplete, Part
<1>2. wid[s] = id /\ pc[s] \in {"issue", "wait"}
  BY <1>1, InFlight
<1>3. Midway(s)
  BY <1>2, InHand
<1>4. op \notin done[id]
  BY <1>1, <1>2, <1>3 DEF Midway
<1>5. /\ pc' = pc /\ step' = step /\ wid' = wid /\ buffer' = buffer
      /\ next' = next /\ exited' = exited
      /\ sem' = [sem EXCEPT ![s] = sem[s] + 1]
      /\ inflight' = [inflight EXCEPT ![id] = inflight[id] \ {op}]
      /\ done' = [done EXCEPT ![id] = done[id] \cup {op}]
  BY DEF DiskComplete, worker
<1>6. InPlace(s)
  BY <1>1, <1>2, <1>5 DEF InPlace, TypeOK
<1>7. /\ sem'[s] = sem[s] + 1 /\ inflight'[id] = inflight[id] \ {op}
      /\ done'[id] = done[id] \cup {op} /\ sem[s] \in Nat
  BY <1>1, <1>5 DEF TypeOK
<1>8. sem'[s] + Cardinality(Part(s) \ done'[id]) = sem[s] + Cardinality(Part(s) \ done[id])
  <2>1. PICK D : D = done[id]
    OBVIOUS
  <2>2. /\ Cardinality(Part(s) \ (D \cup {op})) = Cardinality(Part(s) \ D) - 1
        /\ Cardinality(Part(s) \ D) \in Nat
    BY <1>1, <1>4, <2>1, OneMore
  <2>3. QED
    BY <1>7, <2>1, <2>2
<1>9. /\ UpTo(s - 1) \subseteq done'[id] /\ done'[id] \subseteq UpTo(s)
      /\ inflight'[id] \subseteq Part(s) \ done'[id]
      /\ done'[id] \cup inflight'[id] = done[id] \cup inflight[id]
  <2>1. /\ UpTo(s - 1) \subseteq done[id] /\ done[id] \subseteq UpTo(s)
        /\ inflight[id] \subseteq Part(s) \ done[id]
    BY <1>2, <1>3 DEF Midway
  <2>2. op \in UpTo(s)
    BY <1>1, UpToFacts
  <2>3. QED
    BY <1>1, <1>7, <2>1, <2>2
<1>10. Midway(s)'
  <2>1. step'[s] = step[s] /\ pc'[s] = pc[s] /\ wid'[s] = id
    BY <1>2, <1>5
  <2>2. /\ step[s] \in 1..Len(Program[s])
        /\ pc[s] = "issue" => \A k \in step[s]..Len(Program[s]) :
                                 Program[s][k] \notin done[id] \cup inflight[id]
        /\ sem[s] + Cardinality(Part(s) \ done[id])
              = IF pc[s] = "issue" THEN Len(Program[s]) ELSE step[s]
    BY <1>2, <1>3 DEF Midway
  <2>3. QED
    BY <1>8, <1>9, <2>1, <2>2 DEF Midway
<1>11. Works(s)'
  <2>1. pc'[s] \in {"issue", "wait"} /\ wid'[s] # NoId
    BY <1>2, <1>5, ConstantsAssumption DEF Ids, NoId
  <2>2. QED
    BY <1>10, <2>1 DEF Works
<1>12. QED
  BY <1>1, <1>2, <1>3, <1>4, <1>6, <1>11

\* The last post a worker waits for is that of the last block of its stage.
LEMMA WaitWorks ==
    ASSUME IInv, NEW s \in Stages, Wait(s)
    PROVE  Works(s)' /\ InPlace(s)
<1> USE DEF IInv
<1>1. /\ pc[s] = "wait" /\ sem[s] \in Nat /\ sem[s] > 0 /\ TypeOK
      /\ Midway(s) /\ wid[s] \in Ids
  BY InHand DEF Wait, TypeOK
<1>2. PICK id \in Ids : id = wid[s]
  BY <1>1
<1>3. /\ wid' = wid /\ buffer' = buffer /\ next' = next /\ exited' = exited
      /\ done' = done /\ inflight' = inflight
      /\ sem' = [sem EXCEPT ![s] = sem[s] - 1]
      /\ step[s] > 1 => step' = [step EXCEPT ![s] = step[s] - 1] /\ pc' = pc
      /\ ~(step[s] > 1) => /\ pc' = [pc EXCEPT ![s] = IF s = 3 THEN "write_complete" ELSE "add"]
                           /\ step' = step
  BY DEF Wait
<1>4. InPlace(s)
  BY <1>1, <1>3 DEF InPlace, TypeOK
<1>5. PICK n \in Nat, m \in Nat, k \in Nat :
          /\ n = Len(Program[s]) /\ m = step[s] /\ m \in 1..n
          /\ k = Cardinality(Part(s) \ done[id]) /\ sem[s] + k = m
  <2>1. Len(Program[s]) \in Nat /\ step[s] \in Nat /\ step[s] \in 1..Len(Program[s])
    BY <1>1, PartFacts DEF Midway
  <2>2. IsFiniteSet(Part(s) \ done[id])
    BY PartFacts, FS_Difference
  <2>3. Cardinality(Part(s) \ done[id]) \in Nat
    BY <2>2, FS_CardinalityType
  <2>4. sem[s] + Cardinality(Part(s) \ done[id]) = step[s]
    BY <1>1, <1>2 DEF Midway
  <2>5. QED
    BY <2>1, <2>3, <2>4
<1>6. wid'[s] = id /\ wid'[s] # NoId /\ sem'[s] = sem[s] - 1
  BY <1>1, <1>2, <1>3, ConstantsAssumption DEF Ids, NoId, TypeOK
<1>7. /\ UpTo(s - 1) \subseteq done[id] /\ done[id] \subseteq UpTo(s)
      /\ inflight[id] \subseteq Part(s) \ done[id]
  BY <1>1, <1>2 DEF Midway
<1>8. CASE m > 1
  <2>1. step'[s] = m - 1 /\ pc'[s] = "wait" /\ m - 1 \in 1..n
    BY <1>1, <1>3, <1>5, <1>8 DEF TypeOK
  <2>2. sem'[s] + k = step'[s]
    BY <1>1, <1>5, <1>6, <2>1
  <2>3. Midway(s)'
    BY <1>3, <1>5, <1>6, <1>7, <2>1, <2>2 DEF Midway
  <2>4. QED
    BY <1>4, <1>6, <2>1, <2>3 DEF Works
<1>9. CASE m = 1
  <2>1. k = 0 /\ sem'[s] = 0
    BY <1>1, <1>5, <1>6, <1>9
  <2>2. Part(s) \ done[id] = {}
    BY <1>5, <2>1, PartFacts, FS_Difference, FS_EmptySet
  <2>3. done[id] = UpTo(s) /\ inflight[id] = {}
    BY <1>7, <2>2, UpToFacts
  <2>4. Settled(wid[s], s)'
    BY <1>3, <1>6, <2>3 DEF Settled
  <2>5. pc'[s] = (IF s = 3 THEN "write_complete" ELSE "add")
    BY <1>1, <1>3, <1>5, <1>9 DEF TypeOK
  <2>6. Works(s)'
    BY <1>6, <2>1, <2>4, <2>5 DEF Works
  <2>7. QED
    BY <1>4, <2>6
<1>10. QED
  BY <1>5, <1>8, <1>9

-----------------------------------------------------------------------------
(* Steps that move a write.                                                *)

\* A worker whose variables and write stay as they are.
LEMMA SameWorks ==
    ASSUME NEW s \in Stages, Works(s), wid'[s] = wid[s], pc'[s] = pc[s], step'[s] = step[s],
           sem' = sem, done' = done, inflight' = inflight
    PROVE  Works(s)'
BY DEF Works, Midway, Settled

LEMMA RequestStep ==
    ASSUME IInv, Request
    PROVE  InLine' /\ Between' /\ Working' /\ LastIsReported' /\ H3' = H3
<1> USE DEF IInv
<1>1. /\ buffer' = [buffer EXCEPT ![1] = Append(buffer[1], next)] /\ next' = next + 1
      /\ pc' = pc /\ wid' = wid /\ step' = step /\ sem' = sem
      /\ inflight' = inflight /\ done' = done /\ exited' = exited /\ ~exited
  BY DEF Request, worker
<1>2. buffer \in [Stages -> Seq(Ids)] /\ next \in Ids /\ next \in Int /\ 1 \in Stages
  BY ConstantsAssumption DEF Request, TypeOK, Ids, Stages
<1>3. PICK q \in Seq(Ids), n \in Nat : q = buffer[1] /\ n = Len(q)
  BY <1>2
<1>4. /\ buffer'[1] = Append(q, next) /\ Len(buffer'[1]) = n + 1
      /\ \A s \in Stages : s # 1 => buffer'[s] = buffer[s]
  BY <1>1, <1>2, <1>3
<1>5. \A s \in Stages : Has(s)' = Has(s)
  BY <1>1 DEF Has
<1>6. B1' = B1 /\ B1 = next - n
  BY <1>1, <1>2, <1>3, <1>4 DEF B1
<1>7. H1' = H1 /\ B2' = B2 /\ H2' = H2 /\ B3' = B3 /\ H3' = H3
  BY <1>4, <1>5, <1>6, ProgramFacts DEF H1, B2, H2, B3, H3
<1>8. \A s \in Stages : BufferAt(s)' = BufferAt(s) /\ HandAt(s)' = HandAt(s)
  BY <1>6, <1>7 DEF BufferAt, HandAt
<1>9. \A i \in DOMAIN buffer'[1] : buffer'[1][i] = BufferAt(1) + i - 1
  <2>1. ASSUME NEW i \in DOMAIN buffer'[1]
        PROVE  buffer'[1][i] = BufferAt(1) + i - 1
    <3>1. i \in 1..(n + 1) /\ BufferAt(1) = next - n
      BY <1>3, <1>4, <1>6 DEF BufferAt
    <3>2. CASE i = n + 1
      BY <1>2, <1>3, <1>4, <3>1, <3>2
    <3>3. CASE i # n + 1
      <4>1. i \in DOMAIN q /\ buffer'[1][i] = q[i]
        BY <1>3, <1>4, <3>1, <3>3
      <4>2. QED
        BY <1>2, <1>3, <4>1 DEF InLine
    <3>4. QED
      BY <3>2, <3>3
  <2>2. QED
    BY <2>1
<1>10. InLine'
  BY <1>1, <1>4, <1>7, <1>8, <1>9 DEF InLine
<1>11. Between'
  BY <1>1, <1>6, <1>7 DEF Between, Settled
<1>12. Working'
  BY <1>1, SameWorks DEF Working
<1>13. QED
  BY <1>1, <1>7, <1>10, <1>11, <1>12 DEF LastIsReported

\* The write that comes next to a worker has the blocks of the earlier stages.
LEMMA HeadIsSettled ==
    ASSUME IInv, NEW s \in Stages, buffer[s] # <<>>, wid[s] = NoId
    PROVE  /\ Head(buffer[s]) = BufferAt(s) /\ Head(buffer[s]) \in Ids
           /\ Settled(Head(buffer[s]), s - 1)
<1> USE DEF IInv
<1>1. PICK q \in Seq(Ids), n \in Nat : q = buffer[s] /\ n = Len(q)
  BY DEF TypeOK
<1>2. q # <<>> /\ n >= 1 /\ 1 \in DOMAIN q /\ Head(q) = q[1] /\ Head(q) \in Ids
  BY <1>1
<1>3. q[1] = BufferAt(s) + 1 - 1 /\ BufferAt(s) \in Int
  BY <1>1, <1>2, Numbers DEF InLine, BufferAt
<1>4. Head(q) = BufferAt(s)
  BY <1>2, <1>3
<1>5. /\ B1 \in Int /\ H1 \in Int /\ B2 \in Int /\ H2 \in Int /\ B3 \in Int
  BY Numbers
<1>6. PICK id \in Ids : id = Head(q)
  BY <1>2
<1>7. CASE s = 1
  <2>1. id >= B1
    BY <1>4, <1>5, <1>6, <1>7 DEF BufferAt
  <2>2. QED
    BY <1>1, <1>4, <1>6, <1>7, <2>1 DEF Between
<1>8. CASE s = 2
  <2>1. B2 = H1 - n
    BY <1>1, <1>8 DEF B2
  <2>2. B2 <= id /\ id < H1
    BY <1>2, <1>4, <1>5, <1>6, <1>8, <2>1 DEF BufferAt
  <2>3. QED
    BY <1>1, <1>4, <1>6, <1>8, <2>2 DEF Between
<1>9. CASE s = 3
  <2>1. B3 = H2 - n
    BY <1>1, <1>9 DEF B3
  <2>2. B3 <= id /\ id < H2
    BY <1>2, <1>4, <1>5, <1>6, <1>9, <2>1 DEF BufferAt
  <2>3. QED
    BY <1>1, <1>4, <1>6, <1>9, <2>2 DEF Between
<1>10. QED
  BY <1>7, <1>8, <1>9, ProgramFacts

LEMMA RemoveStep ==
    ASSUME IInv, NEW s \in Stages, Remove(s)
    PROVE  InLine' /\ Between' /\ Working' /\ LastIsReported' /\ H3' = H3
<1> USE DEF IInv
<1>1. PICK id \in Ids, q \in Seq(Ids), n \in Nat :
          /\ q = buffer[s] /\ n = Len(q) /\ q # <<>> /\ id = Head(q)
  BY DEF Remove, TypeOK
<1>2. /\ buffer' = [buffer EXCEPT ![s] = Tail(q)] /\ wid' = [wid EXCEPT ![s] = id]
      /\ pc' = [pc EXCEPT ![s] = "issue"] /\ step' = [step EXCEPT ![s] = 1]
      /\ sem' = sem /\ inflight' = inflight /\ done' = done /\ next' = next /\ exited' = exited
      /\ pc[s] = "remove" /\ ~exited
  BY <1>1 DEF Remove
<1>3. TypeOK /\ Works(s) /\ wid[s] = NoId /\ sem[s] = 0
  BY <1>2 DEF Working, Works
<1>4. id = BufferAt(s) /\ Settled(id, s - 1) /\ id # NoId
  BY <1>1, <1>3, HeadIsSettled, ConstantsAssumption DEF Ids, NoId
<1>5. /\ wid'[s] = id /\ buffer'[s] = Tail(q) /\ pc'[s] = "issue" /\ step'[s] = 1
      /\ \A r \in Stages : r # s => /\ wid'[r] = wid[r] /\ buffer'[r] = buffer[r]
                                    /\ pc'[r] = pc[r] /\ step'[r] = step[r]
  BY <1>2, <1>3 DEF TypeOK
<1>6. /\ n >= 1 /\ Len(buffer'[s]) = n - 1
      /\ \A i \in 1..(n - 1) : buffer'[s][i] = q[i + 1]
      /\ DOMAIN buffer'[s] = 1..(n - 1)
  BY <1>1, <1>5
<1>7. /\ Has(s) = 0 /\ Has(s)' = 1
      /\ \A r \in Stages : r # s => Has(r)' = Has(r) /\ Len(buffer'[r]) = Len(buffer[r])
  BY <1>3, <1>4, <1>5 DEF Has
<1>8. /\ B1 \in Int /\ H1 \in Int /\ B2 \in Int /\ H2 \in Int /\ B3 \in Int /\ H3 \in Int
      /\ next \in Int
  BY Numbers DEF TypeOK
<1>9. /\ BufferAt(s)' = BufferAt(s) + 1
      /\ \A r \in Stages : HandAt(r)' = HandAt(r) /\ (r # s => BufferAt(r)' = BufferAt(r))
      /\ B1 <= B1' /\ H1' = H1 /\ B2 <= B2' /\ H2' = H2 /\ B3 <= B3' /\ H3' = H3
  <2>1. CASE s = 1
    <3>1. B1' = B1 + 1 /\ H1' = H1
      <4>1. /\ Len(buffer[1]) = n /\ Len(buffer'[1]) = n - 1
            /\ Has(1) = 0 /\ Has(1)' = 1
        BY <1>1, <1>2, <1>5, <1>6, <1>7, <2>1
      <4>2. B1 = next - n /\ B1' = next - (n - 1)
        BY <1>2, <4>1 DEF B1
      <4>3. H1 = B1 - 0 /\ H1' = B1' - 1
        BY <4>1 DEF H1
      <4>4. QED
        BY <1>1, <1>8, <4>2, <4>3
    <3>2. B2' = B2 /\ H2' = H2 /\ B3' = B3 /\ H3' = H3
      BY <1>7, <2>1, <3>1, ProgramFacts DEF B2, H2, B3, H3
    <3>3. QED
      BY <1>8, <2>1, <3>1, <3>2, ProgramFacts DEF BufferAt, HandAt
  <2>2. CASE s = 2
    <3>1. B1' = B1 /\ H1' = H1
      BY <1>2, <1>7, <2>2, ProgramFacts DEF B1, H1
    <3>2. B2' = B2 + 1 /\ H2' = H2
      <4>1. /\ Len(buffer[2]) = n /\ Len(buffer'[2]) = n - 1
            /\ Has(2) = 0 /\ Has(2)' = 1
        BY <1>1, <1>5, <1>6, <1>7, <2>2
      <4>2. B2 = H1 - n /\ B2' = H1 - (n - 1)
        BY <1>2, <3>1, <4>1 DEF B2
      <4>3. H2 = B2 - 0 /\ H2' = B2' - 1
        BY <4>1 DEF H2
      <4>4. QED
        BY <1>1, <1>8, <4>2, <4>3
    <3>3. B3' = B3 /\ H3' = H3
      BY <1>7, <2>2, <3>2, ProgramFacts DEF B3, H3
    <3>4. QED
      BY <1>8, <2>2, <3>1, <3>2, <3>3, ProgramFacts DEF BufferAt, HandAt
  <2>3. CASE s = 3
    <3>1. B1' = B1 /\ H1' = H1 /\ B2' = B2 /\ H2' = H2
      BY <1>2, <1>7, <2>3, ProgramFacts DEF B1, H1, B2, H2
    <3>2. B3' = B3 + 1 /\ H3' = H3
      <4>1. /\ Len(buffer[3]) = n /\ Len(buffer'[3]) = n - 1
            /\ Has(3) = 0 /\ Has(3)' = 1
        BY <1>1, <1>5, <1>6, <1>7, <2>3
      <4>2. B3 = H2 - n /\ B3' = H2 - (n - 1)
        BY <1>2, <3>1, <4>1 DEF B3
      <4>3. H3 = B3 - 0 /\ H3' = B3' - 1
        BY <4>1 DEF H3
      <4>4. QED
        BY <1>1, <1>8, <4>2, <4>3
    <3>3. QED
      BY <1>8, <2>3, <3>1, <3>2, ProgramFacts DEF BufferAt, HandAt
  <2>4. QED
    BY <2>1, <2>2, <2>3, ProgramFacts
<1>10. InLine'
  <2>1. \A r \in Stages : BufferAt(r) \in Int
    BY <1>8 DEF BufferAt
  <2>2. \A i \in DOMAIN buffer'[s] : buffer'[s][i] = BufferAt(s)' + i - 1
    <3>1. ASSUME NEW i \in 1..(n - 1)
          PROVE  buffer'[s][i] = BufferAt(s)' + i - 1
      <4>1. i + 1 \in DOMAIN buffer[s]
        BY <1>1, <3>1
      <4>2. buffer[s][i + 1] = BufferAt(s) + (i + 1) - 1
        BY <4>1 DEF InLine
      <4>3. QED
        BY <1>1, <1>6, <1>9, <2>1, <4>2
    <3>2. QED
      BY <1>6, <3>1
  <2>3. HandAt(s) = BufferAt(s) /\ HandAt(s)' = HandAt(s) /\ wid'[s] = HandAt(s)'
    BY <1>3, <1>4, <1>5, <1>9, Numbers
  <2>4. \A r \in Stages : r # s =>
           /\ \A i \in DOMAIN buffer'[r] : buffer'[r][i] = BufferAt(r)' + i - 1
           /\ wid'[r] # NoId => wid'[r] = HandAt(r)'
    BY <1>5, <1>9 DEF InLine
  <2>5. H3' >= 0
    BY <1>9 DEF InLine
  <2>6. QED
    BY <2>2, <2>3, <2>4, <2>5 DEF InLine
<1>11. Between'
  <2>1. \A r \in Ids, k \in 0..3 : Settled(r, k)' <=> Settled(r, k)
    BY <1>2 DEF Settled
  <2>2. B1' \in Int /\ B2' \in Int /\ B3' \in Int /\ Ids \subseteq Int
    BY <1>1, <1>4, <1>8, <1>9, ProgramFacts, ConstantsAssumption DEF BufferAt, Ids
  <2>3. QED
    BY <1>8, <1>9, <2>1, <2>2 DEF Between
<1>12. Works(s)'
  <2>1. done[id] = UpTo(s - 1) /\ inflight[id] = {} /\ done'[id] = done[id] /\ inflight'[id] = {}
    BY <1>2, <1>4 DEF Settled
  <2>2. \A k \in 1..Len(Program[s]) : Program[s][k] \notin UpTo(s - 1)
    BY PartFacts, UpToFacts
  <2>3. Part(s) \ UpTo(s - 1) = Part(s) /\ UpTo(s - 1) \subseteq UpTo(s)
    BY UpToFacts
  <2>4. sem'[s] + Cardinality(Part(s) \ done'[id]) = Len(Program[s])
    <3>1. sem'[s] = 0 /\ Part(s) \ done'[id] = Part(s)
      BY <1>2, <1>3, <2>1, <2>3
    <3>2. Cardinality(Part(s)) = Len(Program[s]) /\ Len(Program[s]) \in Int
      BY PartFacts
    <3>3. Cardinality(Part(s) \ done'[id]) = Cardinality(Part(s))
      BY <3>1
    <3>4. QED
      BY <3>1, <3>2, <3>3
  <2>5. 1 \in 1..Len(Program[s])
    <3>1. PICK l \in 1..4 : l = Len(Program[s])
      BY PartFacts
    <3>2. 1 \in 1..l
      OBVIOUS
    <3>3. QED
      BY <3>1, <3>2
  <2>6. Midway(s)'
    <3>1. wid'[s] = id /\ pc'[s] = "issue" /\ step'[s] \in 1..Len(Program[s])
      BY <1>5, <2>5
    <3>2. /\ UpTo(s - 1) \subseteq done'[id] /\ done'[id] \subseteq UpTo(s)
          /\ inflight'[id] \subseteq Part(s) \ done'[id]
      BY <2>1, <2>3
    <3>3. \A k \in step'[s]..Len(Program[s]) : Program[s][k] \notin done'[id] \cup inflight'[id]
      BY <1>5, <2>1, <2>2
    <3>4. QED
      BY <2>4, <3>1, <3>2, <3>3 DEF Midway
  <2>7. QED
    BY <1>4, <1>5, <2>6 DEF Works
<1>13. Working'
  BY <1>2, <1>5, <1>12, SameWorks DEF Working
<1>14. LastIsReported'
  BY <1>2 DEF LastIsReported
<1>15. QED
  BY <1>9, <1>10, <1>11, <1>13, <1>14

LEMMA AddStep ==
    ASSUME IInv, NEW s \in {1, 2}, Add(s)
    PROVE  InLine' /\ Between' /\ Working' /\ LastIsReported' /\ H3' = H3
<1> USE DEF IInv
<1>0. s \in Stages /\ s + 1 \in Stages /\ s + 1 # s /\ TypeOK /\ Works(s) /\ pc[s] = "add"
  BY ProgramFacts DEF Add, Working
<1>1. /\ wid[s] # NoId /\ wid[s] \in Ids /\ wid[s] = HandAt(s) /\ HandAt(s) = BufferAt(s) - 1
      /\ Settled(wid[s], s) /\ sem[s] = 0
  BY <1>0, Numbers DEF Works
<1>2. PICK id \in Ids, q \in Seq(Ids), n \in Nat : id = wid[s] /\ q = buffer[s + 1] /\ n = Len(q)
  BY <1>0, <1>1 DEF TypeOK
<1>3. /\ buffer' = [buffer EXCEPT ![s + 1] = Append(q, id)] /\ wid' = [wid EXCEPT ![s] = NoId]
      /\ pc' = [pc EXCEPT ![s] = "remove"]
      /\ step' = step /\ sem' = sem /\ inflight' = inflight /\ done' = done
      /\ next' = next /\ exited' = exited /\ ~exited
  BY <1>2 DEF Add
<1>4. /\ wid'[s] = NoId /\ pc'[s] = "remove" /\ buffer'[s + 1] = Append(q, id)
      /\ \A r \in Stages : /\ r # s => wid'[r] = wid[r] /\ pc'[r] = pc[r]
                           /\ r # s + 1 => buffer'[r] = buffer[r]
  BY <1>0, <1>3 DEF TypeOK
<1>5. /\ Len(buffer'[s + 1]) = n + 1 /\ Len(buffer[s + 1]) = n
      /\ Has(s) = 1 /\ Has(s)' = 0
      /\ \A r \in Stages : /\ r # s => Has(r)' = Has(r)
                           /\ r # s + 1 => Len(buffer'[r]) = Len(buffer[r])
  BY <1>1, <1>2, <1>4 DEF Has
<1>6. /\ B1 \in Int /\ H1 \in Int /\ B2 \in Int /\ H2 \in Int /\ B3 \in Int /\ H3 \in Int
      /\ next \in Int
  BY Numbers DEF TypeOK
<1>7. /\ HandAt(s)' = HandAt(s) + 1 /\ BufferAt(s + 1) = HandAt(s) - n
      /\ \A r \in Stages : BufferAt(r)' = BufferAt(r) /\ (r # s => HandAt(r)' = HandAt(r))
      /\ B1' = B1 /\ B2' = B2 /\ B3' = B3 /\ H3' = H3
      /\ s = 1 => H1' = H1 + 1 /\ H2' = H2
      /\ s = 2 => H2' = H2 + 1 /\ H1' = H1
  <2>1. CASE s = 1
    <3>1. B1' = B1
      BY <1>3, <1>5, <2>1, ProgramFacts DEF B1
    <3>2. H1 = B1 - 1 /\ H1' = B1 - 0
      BY <1>5, <2>1, <3>1 DEF H1
    <3>3. B2 = H1 - n /\ B2' = H1' - (n + 1)
      <4>1. Len(buffer[2]) = n /\ Len(buffer'[2]) = n + 1
        BY <1>5, <2>1
      <4>2. QED
        BY <4>1 DEF B2
    <3>4. H1' = H1 + 1 /\ B2' = B2
      BY <1>2, <1>6, <3>2, <3>3
    <3>5. H2' = H2 /\ B3' = B3 /\ H3' = H3
      BY <1>5, <2>1, <3>4, ProgramFacts DEF H2, B3, H3
    <3>6. QED
      BY <2>1, <3>1, <3>3, <3>4, <3>5, ProgramFacts DEF BufferAt, HandAt
  <2>2. CASE s = 2
    <3>1. B1' = B1 /\ H1' = H1 /\ B2' = B2
      BY <1>3, <1>5, <2>2, ProgramFacts DEF B1, H1, B2
    <3>2. H2 = B2 - 1 /\ H2' = B2 - 0
      BY <1>5, <2>2, <3>1 DEF H2
    <3>3. B3 = H2 - n /\ B3' = H2' - (n + 1)
      <4>1. Len(buffer[3]) = n /\ Len(buffer'[3]) = n + 1
        BY <1>5, <2>2
      <4>2. QED
        BY <4>1 DEF B3
    <3>4. H2' = H2 + 1 /\ B3' = B3
      BY <1>2, <1>6, <3>2, <3>3
    <3>5. H3' = H3
      BY <1>5, <2>2, <3>4, ProgramFacts DEF H3
    <3>6. QED
      BY <2>2, <3>1, <3>3, <3>4, <3>5, ProgramFacts DEF BufferAt, HandAt
  <2>3. QED
    BY <2>1, <2>2
<1>8. InLine'
  <2>1. \A i \in DOMAIN buffer'[s + 1] : buffer'[s + 1][i] = BufferAt(s + 1) + i - 1
    <3>1. ASSUME NEW i \in 1..(n + 1)
          PROVE  buffer'[s + 1][i] = BufferAt(s + 1) + i - 1
      <4>1. CASE i = n + 1
        <5>1. buffer'[s + 1][i] = id
          BY <1>2, <1>4, <4>1
        <5>2. id = HandAt(s) /\ HandAt(s) \in Int
          BY <1>1, <1>2, <1>6 DEF HandAt
        <5>3. QED
          BY <1>2, <1>7, <4>1, <5>1, <5>2
      <4>2. CASE i # n + 1
        <5>1. i \in DOMAIN q /\ buffer'[s + 1][i] = q[i]
          BY <1>2, <1>4, <3>1, <4>2
        <5>2. QED
          BY <1>0, <1>2, <5>1 DEF InLine
      <4>3. QED
        BY <4>1, <4>2
    <3>2. DOMAIN buffer'[s + 1] = 1..(n + 1)
      BY <1>2, <1>4
    <3>3. QED
      BY <3>1, <3>2
  <2>2. \A r \in Stages : r # s + 1 =>
           \A i \in DOMAIN buffer'[r] : buffer'[r][i] = BufferAt(r)' + i - 1
    BY <1>4, <1>7 DEF InLine
  <2>3. \A r \in Stages : wid'[r] # NoId => wid'[r] = HandAt(r)'
    BY <1>4, <1>7 DEF InLine
  <2>4. H3' >= 0
    BY <1>7 DEF InLine
  <2>5. QED
    BY <1>0, <1>7, <2>1, <2>2, <2>3, <2>4 DEF InLine
<1>9. Between'
  <2>1. \A r \in Ids, k \in 0..3 : Settled(r, k)' <=> Settled(r, k)
    BY <1>3 DEF Settled
  <2>2. Ids \subseteq Int
    BY ConstantsAssumption DEF Ids
  <2>3. CASE s = 1
    <3>1. id = H1 /\ Settled(id, 1)
      BY <1>1, <1>2, <2>3 DEF HandAt
    <3>2. \A i \in Ids : B2 <= i /\ i < H1 + 1 => Settled(i, 1)
      BY <1>6, <2>2, <3>1 DEF Between
    <3>3. QED
      BY <1>7, <2>1, <2>3, <3>2 DEF Between
  <2>4. CASE s = 2
    <3>1. id = H2 /\ Settled(id, 2)
      BY <1>1, <1>2, <2>4 DEF HandAt
    <3>2. \A i \in Ids : B3 <= i /\ i < H2 + 1 => Settled(i, 2)
      BY <1>6, <2>2, <3>1 DEF Between
    <3>3. QED
      BY <1>7, <2>1, <2>4, <3>2 DEF Between
  <2>5. QED
    BY <2>3, <2>4
<1>10. Works(s)'
  BY <1>1, <1>3, <1>4 DEF Works
<1>11. Working'
  BY <1>3, <1>4, <1>10, SameWorks DEF Working
<1>12. QED
  BY <1>3, <1>7, <1>8, <1>9, <1>11 DEF LastIsReported

LEMMA CompleteStep ==
    ASSUME IInv, WriteComplete
    PROVE  /\ InLine' /\ Between' /\ Working' /\ LastIsReported'
           /\ H3' = H3 + 1 /\ wid[3] = H3 /\ wid[3] \in Ids /\ done[wid[3]] = Ops
<1> USE DEF IInv
<1>0. 3 \in Stages /\ TypeOK /\ Works(3) /\ pc[3] = "write_complete"
  BY ProgramFacts DEF WriteComplete, Working
<1>1. /\ wid[3] # NoId /\ wid[3] \in Ids /\ wid[3] = H3 /\ H3 = B3 - 1
      /\ Settled(wid[3], 3) /\ sem[3] = 0
  BY <1>0, Numbers DEF Works, HandAt, BufferAt
<1>2. PICK id \in Ids : id = wid[3]
  BY <1>1
<1>3. /\ buffer' = buffer /\ wid' = [wid EXCEPT ![3] = NoId]
      /\ pc' = [pc EXCEPT ![3] = "remove"]
      /\ step' = step /\ sem' = sem /\ inflight' = inflight /\ done' = done
      /\ next' = next /\ ~exited /\ (exited' => id = Requests - 1)
  BY <1>2 DEF WriteComplete
<1>4. /\ wid'[3] = NoId /\ pc'[3] = "remove"
      /\ \A r \in Stages : r # 3 => wid'[r] = wid[r] /\ pc'[r] = pc[r]
  BY <1>0, <1>3 DEF TypeOK
<1>5. Has(3)' = 0 /\ \A r \in Stages : r # 3 => Has(r)' = Has(r)
  BY <1>4 DEF Has
<1>6. B1' = B1 /\ H1' = H1 /\ B2' = B2 /\ H2' = H2 /\ B3' = B3
  BY <1>3, <1>5, ProgramFacts DEF B1, H1, B2, H2, B3
<1>7. H3 \in Int /\ B3 \in Int /\ H3 >= 0
  BY Numbers
<1>8. H3' = H3 + 1
  <2>1. H3' = B3 - 0
    BY <1>5, <1>6 DEF H3
  <2>2. QED
    BY <1>1, <1>7, <2>1
<1>9. \A r \in Stages : BufferAt(r)' = BufferAt(r) /\ (r # 3 => HandAt(r)' = HandAt(r))
  BY <1>6, ProgramFacts DEF BufferAt, HandAt
<1>10. InLine'
  <2>1. \A r \in Stages : wid'[r] # NoId => wid'[r] = HandAt(r)'
    BY <1>4, <1>9 DEF InLine
  <2>2. H3' >= 0
    BY <1>7, <1>8
  <2>3. QED
    BY <1>3, <1>9, <2>1, <2>2 DEF InLine
<1>11. Between'
  <2>1. \A r \in Ids, k \in 0..3 : Settled(r, k)' <=> Settled(r, k)
    BY <1>3 DEF Settled
  <2>2. \A i \in Ids : i \in Int
    BY ConstantsAssumption DEF Ids
  <2>3. \A i \in Ids : i < H3 + 1 => Settled(i, 3)
    BY <1>1, <1>7, <2>2 DEF Between
  <2>4. QED
    BY <1>6, <1>8, <2>1, <2>3 DEF Between
<1>12. Works(3)'
  BY <1>1, <1>3, <1>4 DEF Works
<1>13. Working'
  BY <1>3, <1>4, <1>12, SameWorks DEF Working
<1>14. LastIsReported'
  <2>1. Requests \in Int
    BY ConstantsAssumption
  <2>2. QED
    BY <1>1, <1>2, <1>3, <1>7, <1>8, <2>1 DEF LastIsReported
<1>15. done[wid[3]] = Ops
  BY <1>1, UpToFacts DEF Settled
<1>16. QED
  BY <1>1, <1>8, <1>10, <1>11, <1>13, <1>14, <1>15

-----------------------------------------------------------------------------
LEMMA StepHolds == IInv /\ [Next]_vars => IInv'
<1> SUFFICES ASSUME IInv, [Next]_vars PROVE IInv'
  OBVIOUS
<1> USE DEF IInv
<1>0. TypeOK'
  BY TypeStep
<1>1. CASE UNCHANGED vars
  <2>1. /\ B1' = B1 /\ H1' = H1 /\ B2' = B2 /\ H2' = H2 /\ B3' = B3 /\ H3' = H3
        /\ buffer' = buffer /\ wid' = wid /\ pc' = pc /\ step' = step /\ sem' = sem
        /\ inflight' = inflight /\ done' = done /\ exited' = exited
    BY <1>1 DEF vars, worker, Has, B1, H1, B2, H2, B3, H3
  <2>2. InLine'
    BY <2>1 DEF InLine, BufferAt, HandAt
  <2>3. Between'
    BY <2>1 DEF Between, Settled
  <2>4. Working'
    BY <2>1, SameWorks DEF Working
  <2>5. QED
    BY <1>0, <2>1, <2>2, <2>3, <2>4 DEF LastIsReported
<1>2. CASE Request
  BY <1>0, <1>2, RequestStep
<1>3. ASSUME NEW s \in Stages, Remove(s)
      PROVE  IInv'
  BY <1>0, <1>3, RemoveStep
<1>4. ASSUME NEW s \in Stages, IssueSync(s) \/ IssueDelayed(s) \/ IssueLost(s)
      PROVE  IInv'
  BY <1>0, <1>4, IssueWorks, InPlaceKeeps
<1>5. ASSUME NEW s \in Stages, NEW id \in Ids, NEW op \in Ops, DiskComplete(s, id, op)
      PROVE  IInv'
  BY <1>0, <1>5, DiskWorks, InPlaceKeeps
<1>6. ASSUME NEW s \in Stages, Wait(s)
      PROVE  IInv'
  BY <1>0, <1>6, WaitWorks, InPlaceKeeps
<1>7. ASSUME NEW s \in {1, 2}, Add(s)
      PROVE  IInv'
  BY <1>0, <1>7, AddStep
<1>8. CASE WriteComplete
  BY <1>0, <1>8, CompleteStep
<1>9. QED
  BY <1>1, <1>2, <1>3, <1>4, <1>5, <1>6, <1>7, <1>8 DEF Next, Worker, Stopped

\* When the last write has been reported, no stage has anything left.
LEMMA NothingLeft == IInv => NothingLostAtExit
<1> SUFFICES ASSUME IInv PROVE NothingLostAtExit
  OBVIOUS
<1>1. CASE ~exited
  BY <1>1 DEF IInv, NothingLostAtExit
<1>2. CASE exited
  <2>1. H3 = Requests /\ Requests \in Int
    BY <1>2, ConstantsAssumption DEF IInv, LastIsReported
  <2>2. /\ B1 = Requests /\ H1 = Requests /\ B2 = Requests /\ H2 = Requests
        /\ B3 = Requests /\ next = Requests
    BY <2>1, Numbers DEF IInv, TypeOK
  <2>3. ASSUME NEW s \in Stages
        PROVE  wid[s] = NoId /\ Len(buffer[s]) = 0
    <3>1. PICK n \in Nat, h \in {0, 1} : n = Len(buffer[s]) /\ h = Has(s)
      BY Numbers DEF Has
    <3>2. Requests = Requests - n /\ Requests = Requests - h
      <4>1. CASE s = 1
        BY <2>2, <3>1, <4>1 DEF B1, H1
      <4>2. CASE s = 2
        BY <2>2, <3>1, <4>2 DEF B2, H2
      <4>3. CASE s = 3
        BY <2>1, <2>2, <3>1, <4>3 DEF B3, H3
      <4>4. QED
        BY <4>1, <4>2, <4>3, ProgramFacts
    <3>3. n = 0 /\ h = 0
      <4>1. h \in Int
        OBVIOUS
      <4>2. QED
        BY <2>1, <3>2, <4>1
    <3>4. QED
      BY <3>1, <3>3 DEF Has
  <2>4. \A s \in Stages : buffer[s] = <<>>
    BY <2>3 DEF IInv, TypeOK
  <2>5. \A id \in Ids : id \in Int /\ id < H3
    BY <2>1 DEF Ids
  <2>6. \A id \in Ids : inflight[id] = {} /\ done[id] = Ops
    BY <2>5, UpToFacts DEF IInv, Between, Settled
  <2>7. QED
    BY <2>2, <2>3, <2>4, <2>6 DEF IInv, NothingLostAtExit
<1>3. QED
  BY <1>1, <1>2

LEMMA InvariantHolds == Spec => []IInv
BY InitHolds, StepHolds, PTL DEF Spec

\* main returns only when every write it requested has been reported with all of its
\* blocks on disk, and nothing is queued, in hand or on its way: in every order of the
\* threads and of late completions, and whatever thread could not be created.
THEOREM NothingIsLostAtExit == Spec => []NothingLostAtExit
BY InvariantHolds, NothingLeft, PTL

-----------------------------------------------------------------------------
(* The promise of JournalSpec.  The writes queued and not reported are     *)
(* consecutive numbers, from the last one reported to the next requested.  *)

From(a, b) == [i \in 1..(b - a) |-> a + i - 1]

Queued ==
    /\ Outstanding = From(H3, next)
    /\ Durable = [id \in Ids |-> IF H3 <= id /\ id < next THEN done[id] ELSE {}]

LEMMA FromConcat ==
    ASSUME NEW a \in Int, NEW b \in Int, NEW c \in Int, a <= b, b <= c
    PROVE  From(a, b) \o From(b, c) = From(a, c)
<1>1. PICK m \in Nat, n \in Nat : m = b - a /\ n = c - b
  OBVIOUS
<1>2. PICK p, q : p = From(a, b) /\ q = From(b, c)
  OBVIOUS
<1>3. /\ p \in Seq(Int) /\ Len(p) = m /\ \A i \in 1..m : p[i] = a + i - 1
      /\ q \in Seq(Int) /\ Len(q) = n /\ \A i \in 1..n : q[i] = b + i - 1
  BY <1>1, <1>2 DEF From
<1>4. PICK z : z = p \o q
  OBVIOUS
<1>5. /\ z \in Seq(Int) /\ Len(z) = m + n
      /\ \A i \in 1..(m + n) : z[i] = IF i <= m THEN p[i] ELSE q[i - m]
  <2>1. p \in Seq(Int) /\ q \in Seq(Int) /\ Len(p) = m /\ Len(q) = n
    BY <1>3
  <2>2. /\ p \o q \in Seq(Int) /\ Len(p \o q) = m + n
        /\ \A i \in 1..(m + n) : (p \o q)[i] = IF i <= m THEN p[i] ELSE q[i - m]
    BY <2>1, ConcatProperties
  <2>3. QED
    BY <1>4, <2>2
<1>6. \A i \in 1..(m + n) : z[i] = a + i - 1
  <2>1. ASSUME NEW i \in 1..(m + n)
        PROVE  z[i] = a + i - 1
    <3>1. CASE i <= m
      BY <1>1, <1>3, <1>5, <3>1
    <3>2. CASE ~(i <= m)
      <4>1. i - m \in 1..n
        BY <1>1, <3>2
      <4>2. z[i] = b + (i - m) - 1
        BY <1>3, <1>5, <3>2, <4>1
      <4>3. QED
        BY <1>1, <4>2
    <3>3. QED
      BY <3>1, <3>2
  <2>2. QED
    BY <2>1
<1>7. z = [i \in 1..(m + n) |-> a + i - 1]
  BY <1>1, <1>5, <1>6
<1>8. m + n = c - a
  BY <1>1
<1>9. QED
  BY <1>2, <1>4, <1>7, <1>8 DEF From

LEMMA QueuedHolds == IInv => Queued
<1> SUFFICES ASSUME IInv PROVE Queued
  OBVIOUS
<1> USE DEF IInv
<1>1. PICK b1 \in Int, h1 \in Int, b2 \in Int, h2 \in Int, b3 \in Int, h3 \in Int, n \in Int :
          /\ b1 = B1 /\ h1 = H1 /\ b2 = B2 /\ h2 = H2 /\ b3 = B3 /\ h3 = H3 /\ n = next
          /\ 0 <= h3 /\ h3 <= b3 /\ b3 <= h2 /\ h2 <= b2 /\ b2 <= h1 /\ h1 <= b1 /\ b1 <= n
          /\ n <= Requests
  <2>1. /\ B1 \in Int /\ H1 \in Int /\ B2 \in Int /\ H2 \in Int /\ B3 \in Int /\ H3 \in Int
        /\ 0 <= H3 /\ H3 <= B3 /\ B3 <= H2 /\ H2 <= B2 /\ B2 <= H1 /\ H1 <= B1
        /\ B1 <= next /\ next <= Requests
    BY Numbers
  <2>2. next \in Int
    BY DEF TypeOK
  <2>3. QED
    BY <2>1, <2>2
<1>2. \A s \in Stages : Hand(s) = From(HandAt(s), BufferAt(s))
  <2>1. ASSUME NEW s \in Stages
        PROVE  Hand(s) = From(HandAt(s), BufferAt(s))
    <3>1. HandAt(s) \in Int /\ BufferAt(s) \in Int
      BY <1>1 DEF HandAt, BufferAt
    <3>2. CASE wid[s] = NoId
      <4>1. BufferAt(s) - HandAt(s) = 0
        BY <3>1, <3>2, Numbers
      <4>2. QED
        BY <3>2, <4>1 DEF Hand, From
    <3>3. CASE wid[s] # NoId
      <4>1. BufferAt(s) - HandAt(s) = 1 /\ wid[s] = HandAt(s)
        BY <3>1, <3>3, Numbers
      <4>2. PICK x \in Int : x = HandAt(s)
        BY <3>1
      <4>3. <<x>> = [i \in 1..1 |-> x + i - 1]
        OBVIOUS
      <4>4. QED
        BY <3>3, <4>1, <4>2, <4>3 DEF Hand, From
    <3>4. QED
      BY <3>2, <3>3
  <2>2. QED
    BY <2>1
<1>3. ASSUME NEW s \in Stages, NEW c \in Int, BufferAt(s) = c - Len(buffer[s])
      PROVE  buffer[s] = From(BufferAt(s), c)
  <2>1. PICK q \in Seq(Ids), l \in Nat, b \in Int : q = buffer[s] /\ l = Len(q) /\ b = BufferAt(s)
    <3>1. buffer[s] \in Seq(Ids) /\ BufferAt(s) \in Int
      BY <1>1 DEF TypeOK, BufferAt
    <3>2. Len(buffer[s]) \in Nat
      BY <3>1
    <3>3. QED
      BY <3>1, <3>2
  <2>2. c - b = l
    BY <1>3, <2>1
  <2>3. \A i \in 1..l : q[i] = b + i - 1
    BY <2>1 DEF InLine
  <2>4. q = [i \in 1..l |-> b + i - 1]
    BY <2>1, <2>3
  <2>5. QED
    BY <2>1, <2>2, <2>4 DEF From
<1>4. Hand(1) = From(h1, b1) /\ Hand(2) = From(h2, b2) /\ Hand(3) = From(h3, b3)
  BY <1>1, <1>2, ProgramFacts DEF HandAt, BufferAt
<1>5. buffer[1] = From(b1, n) /\ buffer[2] = From(b2, h1) /\ buffer[3] = From(b3, h2)
  <2>1. b1 = n - Len(buffer[1]) /\ b2 = h1 - Len(buffer[2]) /\ b3 = h2 - Len(buffer[3])
    BY <1>1 DEF B1, B2, B3
  <2>2. BufferAt(1) = b1 /\ BufferAt(2) = b2 /\ BufferAt(3) = b3
    BY <1>1 DEF BufferAt
  <2>3. QED
    BY <1>3, <2>1, <2>2, ProgramFacts
<1>6. Outstanding = From(h3, n)
  <2>1. h3 <= b3 /\ b3 <= h2 /\ h2 <= b2 /\ b2 <= h1 /\ h1 <= b1 /\ b1 <= n
    BY <1>1
  <2>2. h3 <= h2 /\ h3 <= b2 /\ h3 <= h1 /\ h3 <= b1
    BY <2>1
  <2>3. From(h3, b3) \o From(b3, h2) = From(h3, h2)
    BY <2>1, FromConcat
  <2>4. From(h3, h2) \o From(h2, b2) = From(h3, b2)
    BY <2>1, <2>2, FromConcat
  <2>5. From(h3, b2) \o From(b2, h1) = From(h3, h1)
    BY <2>1, <2>2, FromConcat
  <2>6. From(h3, h1) \o From(h1, b1) = From(h3, b1)
    BY <2>1, <2>2, FromConcat
  <2>7. From(h3, b1) \o From(b1, n) = From(h3, n)
    BY <2>1, <2>2, FromConcat
  <2>8. Outstanding = ((((From(h3, b3) \o From(b3, h2)) \o From(h2, b2)) \o From(b2, h1))
                          \o From(h1, b1)) \o From(b1, n)
    BY <1>4, <1>5 DEF Outstanding
  <2>9. QED
    BY <2>3, <2>4, <2>5, <2>6, <2>7, <2>8
<1>7. ASSUME NEW id \in Ids
      PROVE  id \in Range(Outstanding) <=> h3 <= id /\ id < n
  <2>1. id \in Int
    BY ConstantsAssumption DEF Ids
  <2>2. DOMAIN Outstanding = 1..(n - h3) /\ \A i \in 1..(n - h3) : Outstanding[i] = h3 + i - 1
    BY <1>6 DEF From
  <2>3. ASSUME h3 <= id, id < n
        PROVE  id \in Range(Outstanding)
    <3>1. id - h3 + 1 \in 1..(n - h3) /\ h3 + (id - h3 + 1) - 1 = id
      BY <1>1, <2>1, <2>3
    <3>2. QED
      BY <2>2, <3>1 DEF Range
  <2>4. ASSUME id \in Range(Outstanding)
        PROVE  h3 <= id /\ id < n
    <3>1. PICK i \in 1..(n - h3) : id = h3 + i - 1
      BY <2>2, <2>4 DEF Range
    <3>2. QED
      BY <1>1, <3>1
  <2>5. QED
    BY <2>3, <2>4
<1>8. QED
  BY <1>1, <1>6, <1>7 DEF Queued, Durable

\* The steps of JournalSpec, said of the numbers.
LEMMA SubmitNext ==
    ASSUME TypeOK, Queued, Queued', H3 \in Nat, H3 <= next, next \in Ids,
           next' = next + 1, H3' = H3, done' = done, done[next] = {}
    PROVE  Promise!Submit(next)
<1>1. PICK h \in Nat, n \in Ids : h = H3 /\ n = next /\ n \in Nat /\ h <= n
  BY ConstantsAssumption DEF Ids
<1>2. Outstanding = From(h, n) /\ Outstanding' = From(h, n + 1)
  BY <1>1 DEF Queued
<1>3. ~Promise!IsOutstanding(n)
  BY <1>1, <1>2 DEF Promise!IsOutstanding, From
<1>4. Outstanding' = Append(Outstanding, n)
  <2>1. PICK l \in Nat : l = n - h
    BY <1>1
  <2>2. PICK q : q = [i \in 1..l |-> h + i - 1]
    OBVIOUS
  <2>3. q \in Seq(Int) /\ Len(q) = l
    BY <1>1, <2>2
  <2>4. Append(q, n) = [i \in 1..(l + 1) |-> h + i - 1]
    <3>1. /\ Append(q, n) \in Seq(Int) /\ Len(Append(q, n)) = l + 1
          /\ \A i \in 1..l : Append(q, n)[i] = q[i]
          /\ Append(q, n)[l + 1] = n
      BY <1>1, <2>3, AppendProperties
    <3>2. \A i \in 1..(l + 1) : Append(q, n)[i] = h + i - 1
      <4>1. ASSUME NEW i \in 1..(l + 1)
            PROVE  Append(q, n)[i] = h + i - 1
        <5>1. CASE i = l + 1
          BY <1>1, <2>1, <3>1, <5>1
        <5>2. CASE i # l + 1
          BY <2>1, <2>2, <3>1, <5>2
        <5>3. QED
          BY <5>1, <5>2
      <4>2. QED
        BY <4>1
    <3>3. PICK z : z = Append(q, n)
      OBVIOUS
    <3>4. z \in Seq(Int) /\ Len(z) = l + 1 /\ \A i \in 1..(l + 1) : z[i] = h + i - 1
      BY <3>1, <3>2, <3>3
    <3>5. z = [i \in 1..(l + 1) |-> h + i - 1]
      BY <3>4
    <3>6. QED
      BY <3>3, <3>5
  <2>5. n + 1 - h = l + 1 /\ n - h = l
    BY <1>1, <2>1
  <2>6. From(h, n) = q /\ From(h, n + 1) = [i \in 1..(l + 1) |-> h + i - 1]
    <3>1. From(h, n) = [i \in 1..l |-> h + i - 1]
      BY <2>5, Zenon DEF From
    <3>2. From(h, n + 1) = [i \in 1..(l + 1) |-> h + i - 1]
      <4>1. PICK m \in Nat, k \in Nat : m = n + 1 /\ k = l + 1 /\ m - h = k
        BY <1>1, <2>1
      <4>2. From(h, m) = [i \in 1..k |-> h + i - 1]
        BY <4>1, Zenon DEF From
      <4>3. QED
        BY <4>1, <4>2
    <3>3. QED
      BY <2>2, <3>1, <3>2
  <2>7. QED
    BY <1>2, <2>4, <2>6
<1>5. Durable' = Durable
  <2>1. Durable' = [id \in Ids |-> IF h <= id /\ id < n + 1 THEN done[id] ELSE {}]
    BY <1>1 DEF Queued
  <2>2. Durable = [id \in Ids |-> IF h <= id /\ id < n THEN done[id] ELSE {}]
    BY <1>1 DEF Queued
  <2>3. \A id \in Ids : id \in Int /\ (id < n + 1 <=> id < n \/ id = n)
    BY <1>1, ConstantsAssumption DEF Ids
  <2>4. done[n] = {}
    BY <1>1
  <2>5. QED
    BY <2>1, <2>2, <2>3, <2>4
<1>6. QED
  BY <1>1, <1>3, <1>4, <1>5 DEF Promise!Submit

LEMMA StageOpsFacts ==
    /\ \A s \in Stages : Promise!StageOps[s] = Part(s)
    /\ \A s \in Stages : Promise!Before(s) = UpTo(s - 1)
    /\ Promise!Ops = Ops
<1>1. \A s \in 1..3 : Promise!StageOps[s] = Part(s)
  BY ProgramFacts DEF Promise!StageOps
<1>2. \A s \in Stages : Promise!Before(s) = UpTo(s - 1)
  <2>1. \A s \in Stages : 1..(s - 1) \subseteq 1..3
    BY DEF Stages
  <2>2. QED
    BY <1>1, <2>1 DEF Promise!Before, UpTo
<1>3. Promise!Ops = Ops
  <2>1. Promise!Ops = Part(1) \cup Part(2) \cup Part(3)
    BY <1>1 DEF Promise!Ops
  <2>2. Ops = Part(1) \cup Part(2) \cup Part(3)
    BY ProgramFacts DEF Ops, Part
  <2>3. QED
    BY <2>1, <2>2
<1>4. QED
  BY <1>1, <1>2, <1>3 DEF Stages

LEMMA PersistOne ==
    ASSUME TypeOK, Queued, Queued', H3 \in Nat, next' = next, H3' = H3,
           NEW id \in Ids, H3 <= id, id < next, NEW s \in Stages, NEW op \in Part(s) \ done[id],
           UpTo(s - 1) \subseteq done[id],
           done' = [done EXCEPT ![id] = done[id] \cup {op}]
    PROVE  \E r \in 1..3 : \E o \in Promise!StageOps[r] : Promise!Persist(id, r, o)
<1>1. PICK h \in Nat, n \in Nat : h = H3 /\ n = next
  BY DEF TypeOK
<1>2. id \in Int /\ h <= id /\ id < n
  BY <1>1, ConstantsAssumption DEF Ids
<1>3. Outstanding = From(h, n) /\ Outstanding' = Outstanding
  BY <1>1 DEF Queued
<1>4. Promise!IsOutstanding(id)
  <2>1. id - h + 1 \in 1..(n - h) /\ h + (id - h + 1) - 1 = id
    BY <1>1, <1>2
  <2>2. QED
    BY <1>3, <2>1 DEF Promise!IsOutstanding, From
<1>5. Durable = [i \in Ids |-> IF h <= i /\ i < n THEN done[i] ELSE {}]
  BY <1>1 DEF Queued
<1>6. Durable' = [i \in Ids |-> IF h <= i /\ i < n THEN done'[i] ELSE {}]
  BY <1>1 DEF Queued
<1>7. Durable[id] = done[id]
  BY <1>2, <1>5
<1>8. Durable' = [Durable EXCEPT ![id] = done[id] \cup {op}]
  BY <1>2, <1>5, <1>6 DEF TypeOK
<1>9. op \in Promise!StageOps[s] /\ Promise!Before(s) \subseteq Durable[id]
  BY <1>7, StageOpsFacts
<1>10. Promise!Persist(id, s, op)
  BY <1>3, <1>4, <1>7, <1>8, <1>9 DEF Promise!Persist
<1>11. QED
  BY <1>9, <1>10 DEF Stages

LEMMA CompleteOldest ==
    ASSUME TypeOK, Queued, Queued', H3 \in Nat, next' = next, H3' = H3 + 1,
           H3 \in Ids, H3 < next, done' = done, done[H3] = Ops
    PROVE  Promise!Complete(H3)
<1>1. PICK h \in Ids, n \in Nat : h = H3 /\ n = next /\ h \in Nat /\ h < n
  BY DEF TypeOK
<1>2. Outstanding = From(h, n) /\ Outstanding' = From(h + 1, n)
  BY <1>1 DEF Queued
<1>3. PICK l \in Nat : l = n - h
  BY <1>1
<1>4. PICK q : q = From(h, n)
  OBVIOUS
<1>5. /\ q \in Seq(Int) /\ Len(q) = l /\ l >= 1 /\ \A i \in 1..l : q[i] = h + i - 1
  BY <1>1, <1>3, <1>4 DEF From
<1>6. q # <<>> /\ Head(q) = h
  BY <1>1, <1>5
<1>7. Tail(q) = From(h + 1, n)
  <2>1. PICK z : z = Tail(q)
    OBVIOUS
  <2>2. z \in Seq(Int) /\ Len(z) = l - 1 /\ \A i \in 1..(l - 1) : z[i] = q[i + 1]
    BY <1>5, <1>6, <2>1
  <2>3. \A i \in 1..(l - 1) : z[i] = h + 1 + i - 1
    <3>1. ASSUME NEW i \in 1..(l - 1)
          PROVE  z[i] = h + 1 + i - 1
      <4>1. i + 1 \in 1..l /\ h + (i + 1) - 1 = h + 1 + i - 1
        BY <1>1, <1>3
      <4>2. QED
        BY <1>5, <2>2, <4>1
    <3>2. QED
      BY <3>1
  <2>4. n - (h + 1) = l - 1
    BY <1>1, <1>3
  <2>5. z = [i \in 1..(l - 1) |-> h + 1 + i - 1]
    BY <1>5, <2>2, <2>3
  <2>6. QED
    BY <2>1, <2>4, <2>5 DEF From
<1>8. Durable = [i \in Ids |-> IF h <= i /\ i < n THEN done[i] ELSE {}]
  BY <1>1 DEF Queued
<1>9. Durable' = [i \in Ids |-> IF h + 1 <= i /\ i < n THEN done[i] ELSE {}]
  BY <1>1 DEF Queued
<1>10. \A i \in Ids : i \in Int /\ (h + 1 <= i <=> h <= i /\ i # h)
  BY <1>1, ConstantsAssumption DEF Ids
<1>11. Durable' = [Durable EXCEPT ![h] = {}]
  BY <1>1, <1>8, <1>9, <1>10
<1>12. Durable[h] = Promise!Ops
  BY <1>1, <1>8, StageOpsFacts
<1>13. QED
  BY <1>1, <1>2, <1>4, <1>6, <1>7, <1>11, <1>12 DEF Promise!Complete

LEMMA NothingChanges ==
    ASSUME Queued, Queued', H3' = H3, next' = next, done' = done
    PROVE  UNCHANGED Promise!svars
BY DEF Queued, Promise!svars

LEMMA PromiseInit == Init /\ IInv /\ Queued => Promise!Init
<1> SUFFICES ASSUME Init, IInv, Queued PROVE Promise!Init
  OBVIOUS
<1>1. \A s \in Stages : buffer[s] = <<>> /\ wid[s] = NoId
  BY DEF Init
<1>2. \A s \in Stages : Hand(s) = <<>>
  BY <1>1 DEF Hand
<1>3. Outstanding = <<>>
  <2>1. Outstanding = <<>> \o <<>> \o <<>> \o <<>> \o <<>> \o <<>>
    BY <1>1, <1>2, ProgramFacts DEF Outstanding
  <2>2. <<>> \o <<>> = <<>>
    OBVIOUS
  <2>3. QED
    BY <2>1, <2>2
<1>4. \A id \in Ids : done[id] = {}
  BY DEF Init
<1>5. Durable = [id \in Ids |-> {}]
  BY <1>4 DEF Durable
<1>6. QED
  BY <1>3, <1>5 DEF Promise!Init

LEMMA PromiseStep ==
    IInv /\ Queued /\ Queued' /\ [Next]_vars => [Promise!Next]_Promise!svars
<1> SUFFICES ASSUME IInv, Queued, Queued', [Next]_vars
             PROVE  Promise!Next \/ UNCHANGED Promise!svars
  BY DEF Promise!svars
<1> USE DEF IInv
<1>0. TypeOK /\ H3 \in Nat /\ H3 <= next /\ next \in Int
  <2>1. H3 \in Int /\ next \in Int /\ H3 >= 0
    BY Numbers DEF TypeOK
  <2>2. /\ B1 \in Int /\ H1 \in Int /\ B2 \in Int /\ H2 \in Int /\ B3 \in Int
        /\ H3 <= B3 /\ B3 <= H2 /\ H2 <= B2 /\ B2 <= H1 /\ H1 <= B1 /\ B1 <= next
    BY Numbers
  <2>3. QED
    BY <2>1, <2>2
\* the write in hand is one of those not reported
<1>1. \A s \in Stages : wid[s] # NoId => wid[s] \in Ids /\ H3 <= wid[s] /\ wid[s] < next
  <2>1. ASSUME NEW s \in Stages, wid[s] # NoId
        PROVE  wid[s] \in Ids /\ H3 <= wid[s] /\ wid[s] < next
    <3>1. wid[s] \in Ids /\ wid[s] = HandAt(s) /\ HandAt(s) = BufferAt(s) - 1
      BY <2>1, Numbers
    <3>2. /\ B1 \in Int /\ H1 \in Int /\ B2 \in Int /\ H2 \in Int /\ B3 \in Int /\ H3 \in Int
          /\ H3 <= B3 /\ B3 <= H2 /\ H2 <= B2 /\ B2 <= H1 /\ H1 <= B1 /\ B1 <= next
      BY Numbers
    <3>3. H3 <= HandAt(s) /\ BufferAt(s) <= next /\ BufferAt(s) \in Int
      BY <1>0, <3>2 DEF HandAt, BufferAt
    <3>4. QED
      BY <1>0, <3>1, <3>3
  <2>2. QED
    BY <2>1
<1>2. CASE UNCHANGED vars
  <2>1. H3' = H3 /\ next' = next /\ done' = done
    BY <1>2 DEF vars, worker, Has, B1, H1, B2, H2, B3, H3
  <2>2. QED
    BY <2>1, NothingChanges
<1>3. CASE Request
  <2>1. next \in Ids /\ next' = next + 1 /\ H3' = H3 /\ done' = done
    BY <1>0, <1>3, RequestStep, ConstantsAssumption DEF Request, Ids
  <2>2. done[next] = {}
    <3>1. next >= B1
      BY Numbers, <1>0
    <3>2. QED
      BY <2>1, <3>1, UpToFacts DEF Between, Settled
  <2>3. Promise!Submit(next)
    BY <1>0, <2>1, <2>2, SubmitNext
  <2>4. QED
    BY <2>1, <2>3 DEF Promise!Next
<1>4. ASSUME NEW s \in Stages, Remove(s) \/ Wait(s)
      PROVE  UNCHANGED Promise!svars
  <2>1. H3' = H3
    BY <1>4, RemoveStep, WaitWorks, InPlaceKeeps
  <2>2. next' = next /\ done' = done
    BY <1>4 DEF Remove, Wait
  <2>3. QED
    BY <2>1, <2>2, NothingChanges
<1>5. ASSUME NEW s \in Stages, NEW id \in Ids, NEW op \in Part(s) \ done[id], wid[s] = id,
             Midway(s), InPlace(s), Works(s)', done' = [done EXCEPT ![id] = done[id] \cup {op}]
      PROVE  Promise!Next
  <2>1. H3' = H3 /\ next' = next
    BY <1>5, InPlaceKeeps DEF InPlace
  <2>2. H3 <= id /\ id < next
    BY <1>1, <1>5, ConstantsAssumption DEF Ids, NoId
  <2>3. UpTo(s - 1) \subseteq done[id]
    BY <1>5 DEF Midway
  <2>4. \E r \in 1..3 : \E o \in Promise!StageOps[r] : Promise!Persist(id, r, o)
    BY <1>0, <1>5, <2>1, <2>2, <2>3, PersistOne
  <2>5. QED
    BY <2>4 DEF Promise!Next
<1>6. ASSUME NEW s \in Stages, IssueSync(s)
      PROVE  Promise!Next
  <2>1. /\ Works(s)' /\ InPlace(s) /\ Midway(s) /\ wid[s] \in Ids /\ pc[s] = "issue"
    BY <1>6, IssueWorks, InHand DEF IssueSync
  <2>2. PICK id \in Ids : id = wid[s]
    BY <2>1
  <2>3. step[s] \in 1..Len(Program[s]) /\ Len(Program[s]) \in Nat
    BY <2>1, PartFacts DEF Midway
  <2>4. PICK op \in Part(s) : op = Program[s][step[s]]
    BY <2>3, PartFacts
  <2>5. op \notin done[id]
    <3>1. step[s] \in step[s]..Len(Program[s])
      BY <2>3
    <3>2. QED
      BY <2>1, <2>2, <2>4, <3>1 DEF Midway
  <2>6. done' = [done EXCEPT ![id] = done[id] \cup {op}]
    BY <1>6, <2>2, <2>4 DEF IssueSync
  <2>7. QED
    BY <1>5, <2>1, <2>2, <2>5, <2>6
<1>7. ASSUME NEW s \in Stages, IssueDelayed(s) \/ IssueLost(s)
      PROVE  UNCHANGED Promise!svars
  <2>1. H3' = H3
    BY <1>7, IssueWorks, InPlaceKeeps
  <2>2. next' = next /\ done' = done
    BY <1>7 DEF IssueDelayed, IssueLost
  <2>3. QED
    BY <2>1, <2>2, NothingChanges
<1>8. ASSUME NEW s \in Stages, NEW id \in Ids, NEW op \in Ops, DiskComplete(s, id, op)
      PROVE  Promise!Next
  <2>1. Works(s)' /\ InPlace(s) /\ wid[s] = id /\ op \in Part(s) \ done[id] /\ Midway(s)
    BY <1>8, DiskWorks
  <2>2. done' = [done EXCEPT ![id] = done[id] \cup {op}]
    BY <1>8 DEF DiskComplete
  <2>3. QED
    BY <1>5, <2>1, <2>2
<1>9. ASSUME NEW s \in {1, 2}, Add(s)
      PROVE  UNCHANGED Promise!svars
  <2>1. H3' = H3
    BY <1>9, AddStep
  <2>2. next' = next /\ done' = done
    BY <1>9 DEF Add
  <2>3. QED
    BY <2>1, <2>2, NothingChanges
<1>10. CASE WriteComplete
  <2>1. H3' = H3 + 1 /\ wid[3] = H3 /\ H3 \in Ids /\ done[H3] = Ops
    BY <1>10, CompleteStep
  <2>2. next' = next /\ done' = done
    BY <1>10 DEF WriteComplete
  <2>3. H3 < next
    BY <1>0, <1>1, <2>1, ProgramFacts, ConstantsAssumption DEF NoId
  <2>4. Promise!Complete(H3)
    BY <1>0, <2>1, <2>2, <2>3, CompleteOldest
  <2>5. QED
    BY <2>1, <2>4 DEF Promise!Next
<1>11. QED
  BY <1>2, <1>3, <1>4, <1>6, <1>7, <1>8, <1>9, <1>10 DEF Next, Worker, Stopped

\* The counting semaphores keep the promise of the journaling layer: writes are reported
\* in the order in which they were requested, each when all of its blocks are on disk,
\* and the blocks of one write reach the disk in the order of the three stages.
THEOREM SemaphoresKeepThePromise == Spec => ImplementsPromise
<1>1. Spec => []IInv
  BY InvariantHolds
<1>2. Init /\ IInv => Promise!Init
  BY PromiseInit, QueuedHolds
<1>3. QED
  BY <1>1, <1>2, QueuedHolds, PromiseStep, PTL DEF Spec, ImplementsPromise, Promise!Spec
=============================================================================

----------------------------- MODULE LogProofs -------------------------------
(***************************************************************************)
(* Proofs about Log, for every number of processes and blocks, every size  *)
(* of the log and every moment at which the machine may crash: its         *)
(* invariants, and that it implements AtomicDisk.                          *)
(***************************************************************************)
EXTENDS Log, FiniteSetTheorems, SequenceTheorems, TLAPS

Stages == {"write_log", "write_head", "install", "erase", "end_commit"}

\* The processes between begin_op and end_op.
Open == {p \in Procs : pc[p] \in {"op", "modified"}}

\* Until initlog has returned nobody uses the log.
Quiet ==
    boot # "up" =>
        /\ outstanding = 0 /\ ~committing
        /\ \A p \in Procs : /\ pc[p] = "user" /\ hand[p] = NoBlock /\ wrote[p] = {}
                            /\ p # FirstProc => tail[p] = 0
        /\ \A b \in Blocks : pins[b] = 0 /\ owner[b] = Nobody
        /\ boot # "install" => lh = <<>> /\ tail[FirstProc] = 0
        /\ boot = "install" => lh = header /\ tail[FirstProc] <= Len(lh)

OneCommitter ==
    /\ committing => outstanding = 0
    /\ committing => \E p \in Procs : pc[p] \in Stages
    /\ \A p \in Procs : pc[p] \in Stages => committing
    /\ \A p, q \in Procs : pc[p] \in Stages /\ pc[q] \in Stages => p = q

\* What is in log.lh and in the header on the disk at each stage of a commit.
Entries ==
    /\ \A i, j \in DOMAIN lh : lh[i] = lh[j] => i = j
    /\ \A i, j \in DOMAIN header : header[i] = header[j] => i = j
    /\ boot = "up" /\ ~committing /\ outstanding = 0 => lh = <<>>
    /\ boot = "up" /\ (\A p \in Procs : pc[p] \notin {"install", "erase"}) => header = <<>>
    /\ \A p \in Procs :
        /\ pc[p] \in {"erase", "end_commit"} => lh = <<>>
        /\ pc[p] = "write_head" => lh # <<>>
        /\ pc[p] \in {"write_log", "install"} => tail[p] < Len(lh)
        /\ boot = "up" /\ pc[p] \notin {"write_log", "install"} => tail[p] = 0
        /\ pc[p] = "install" => header = lh

Locks ==
    /\ \A p \in Procs : pc[p] = "modified" => hand[p] \in Blocks /\ owner[hand[p]] = p
    /\ \A b \in Blocks : owner[b] # Nobody => pc[owner[b]] = "modified" /\ hand[owner[b]] = b

Sleepers ==
    /\ outstanding = Cardinality(Open)
    /\ SleeperHasWaker

\* A block is pinned once for its entry, until the entry is installed.
InLog(b) ==
    \E i \in DOMAIN lh : lh[i] = b /\ \A p \in Procs : pc[p] = "install" => tail[p] < i

PinsAreEntries == boot = "up" => \A b \in Blocks : pins[b] = IF InLog(b) THEN 1 ELSE 0

\* What a pin protects.
Cached ==
    \A b \in Blocks :
        IF owner[b] = Nobody /\ pins[b] = 0
          THEN cache[b] \in {NotCached, home[b]}
          ELSE cache[b] # NotCached

\* How far the log blocks and the home blocks have got at each stage.
Copies ==
    /\ \A p \in Procs :
        /\ pc[p] = "write_log" => \A i \in DOMAIN lh : i <= tail[p] => logdata[i] = cache[lh[i]]
        /\ pc[p] = "write_head" => \A i \in DOMAIN lh : logdata[i] = cache[lh[i]]
        /\ pc[p] = "install" =>
              \A i \in DOMAIN lh : logdata[i] = IF i <= tail[p] THEN home[lh[i]] ELSE cache[lh[i]]
        /\ pc[p] = "erase" => \A i \in DOMAIN header : logdata[i] = home[header[i]]
    /\ boot = "install" =>
          \A i \in DOMAIN header : i <= tail[FirstProc] => logdata[i] = home[header[i]]
    /\ boot = "erase" => \A i \in DOMAIN header : logdata[i] = home[header[i]]

Inductive ==
    /\ TypeOK /\ Quiet /\ OneCommitter /\ Entries /\ Locks /\ Sleepers
    /\ PinsAreEntries /\ Cached /\ Copies

\* What each call may still add to the log.
Logged(p) == {b \in wrote[p] : InSeq(b, lh)}
Owed == {r \in Open \X (1..MaxOpBlocks) : Cardinality(Logged(r[1])) < r[2]}

CallsAreSmall ==
    \A p \in Procs :
        /\ IsFiniteSet(wrote[p]) /\ Cardinality(wrote[p]) <= OpBlocks
        /\ pc[p] = "modified" => hand[p] \in wrote[p]

Reserved == CallsAreSmall /\ Len(lh) + Cardinality(Owed) <= LogBlocks

-----------------------------------------------------------------------------
LEMMA NoEntries == <<>> \in Seq(Blocks) /\ Len(<<>>) = 0 /\ 0 \in 0..LogBlocks
BY EmptySeq, LogAssumption

LEMMA FirstProcIsThere == FirstProc \in Procs
BY LogAssumption DEF FirstProc

LEMMA OpenIsFinite ==
    /\ IsFiniteSet(Open) /\ Cardinality(Open) \in Nat
    /\ Cardinality(Open) = 0 => Open = {}
<1>1. IsFiniteSet(Open)
  BY LogAssumption, FS_Subset DEF Open
<1> QED BY <1>1, FS_CardinalityType, FS_EmptySet

\* Who commits is alone: nobody is between begin_op and end_op or holds a buffer.
LEMMA CommitAlone ==
    ASSUME Inductive, NEW p \in Procs, pc[p] \in Stages
    PROVE  /\ boot = "up" /\ committing /\ outstanding = 0 /\ Open = {}
           /\ \A q \in Procs : q # p => pc[q] \in {"user", "begin", "sleep"}
           /\ \A b \in Blocks : owner[b] = Nobody
<1>1. boot = "up" /\ committing /\ outstanding = 0
  BY DEF Inductive, Quiet, OneCommitter, Stages
<1>2. Open = {}
  BY <1>1, OpenIsFinite DEF Inductive, Sleepers
<1>3. \A q \in Procs : q # p => pc[q] \in {"user", "begin", "sleep"}
  BY <1>2 DEF Open, Inductive, OneCommitter, Stages, TypeOK
<1>4. \A b \in Blocks : owner[b] = Nobody
  BY <1>2 DEF Open, Inductive, Locks, TypeOK
<1> QED BY <1>1, <1>2, <1>3, <1>4

LEMMA EntryIsBlock ==
    ASSUME TypeOK, NEW i \in DOMAIN lh
    PROVE  lh[i] \in Blocks /\ i \in 1..LogBlocks /\ i \in 1..Len(lh)
BY LogAssumption DEF TypeOK

-----------------------------------------------------------------------------
(* initlog.                                                                *)

LEMMA InductiveInit == Init => Inductive
<1> SUFFICES ASSUME Init PROVE Inductive
  OBVIOUS
<1> USE LogAssumption, FirstProcIsThere DEF Init, Off
<1>1. TypeOK
  <2>1. /\ header \in Seq(Blocks) /\ Len(header) <= LogBlocks
        /\ lh \in Seq(Blocks) /\ Len(lh) <= LogBlocks
        /\ tail \in [Procs -> 0..LogBlocks]
    BY NoEntries
  <2>2. /\ home \in [Blocks -> Values] /\ logdata \in [1..LogBlocks -> Values]
        /\ outstanding \in Nat /\ committing \in BOOLEAN
        /\ cache \in [Blocks -> Values \cup {NotCached}]
    OBVIOUS
  <2>3. /\ pins \in [Blocks -> Nat] /\ owner \in [Blocks -> Procs \cup {Nobody}]
        /\ hand \in [Procs -> Blocks \cup {NoBlock}] /\ wrote \in [Procs -> SUBSET Blocks]
    OBVIOUS
  <2> QED BY <2>1, <2>2, <2>3 DEF TypeOK
<1>2. Quiet /\ OneCommitter /\ Locks
  BY DEF Quiet, OneCommitter, Locks, Stages
<1>3. Entries /\ PinsAreEntries /\ Copies
  BY DEF Entries, PinsAreEntries, Copies
<1>4. Cached
  BY DEF Cached
<1>5. Open = {}
  BY DEF Open
<1>6. Sleepers
  BY <1>5, FS_EmptySet DEF Sleepers, SleeperHasWaker
<1> QED BY <1>1, <1>2, <1>3, <1>4, <1>6 DEF Inductive

LEMMA CrashStep == Inductive /\ Crash => Inductive'
<1> SUFFICES ASSUME Inductive, Crash PROVE Inductive'
  OBVIOUS
<1> USE LogAssumption, FirstProcIsThere DEF Crash, Off, disk
<1>1. TypeOK'
  <2>1. lh' \in Seq(Blocks) /\ Len(lh') <= LogBlocks /\ tail' \in [Procs -> 0..LogBlocks]
    BY NoEntries
  <2>2. /\ home' \in [Blocks -> Values] /\ logdata' \in [1..LogBlocks -> Values]
        /\ header' \in Seq(Blocks) /\ Len(header') <= LogBlocks
        /\ outstanding' \in Nat /\ committing' \in BOOLEAN
        /\ cache' \in [Blocks -> Values \cup {NotCached}]
    BY DEF Inductive, TypeOK
  <2>3. /\ pins' \in [Blocks -> Nat] /\ owner' \in [Blocks -> Procs \cup {Nobody}]
        /\ hand' \in [Procs -> Blocks \cup {NoBlock}] /\ wrote' \in [Procs -> SUBSET Blocks]
    OBVIOUS
  <2> QED BY <2>1, <2>2, <2>3 DEF TypeOK
<1>2. Quiet' /\ OneCommitter' /\ Locks'
  BY DEF Quiet, OneCommitter, Locks, Stages
<1>3. Entries' /\ PinsAreEntries' /\ Copies'
  BY DEF Inductive, TypeOK, Entries, PinsAreEntries, Copies
<1>4. Cached'
  BY DEF Cached
<1>5. Open' = {}
  BY DEF Open
<1>6. Sleepers'
  BY <1>5, FS_EmptySet DEF Sleepers, SleeperHasWaker
<1> QED BY <1>1, <1>2, <1>3, <1>4, <1>6 DEF Inductive

LEMMA BootStep == Inductive /\ (ReadHead \/ RecoverInstall \/ RecoverErase) => Inductive'
<1> SUFFICES ASSUME Inductive, ReadHead \/ RecoverInstall \/ RecoverErase PROVE Inductive'
  OBVIOUS
<1> USE LogAssumption, FirstProcIsThere DEF disk, log, bcache, procs
<1> DEFINE i == tail[FirstProc] + 1
<1>1. /\ boot \in {"read_head", "install", "erase"}
      /\ UNCHANGED <<logdata, outstanding, committing, pins, owner, pc, hand, wrote>>
  BY DEF ReadHead, RecoverInstall, RecoverErase
<1>2. /\ \A p \in Procs : pc[p] = "user" /\ hand[p] = NoBlock /\ wrote[p] = {}
      /\ \A p \in Procs : p # FirstProc => tail[p] = 0
      /\ \A b \in Blocks : pins[b] = 0 /\ owner[b] = Nobody
      /\ ~committing /\ outstanding = 0
  BY <1>1 DEF Inductive, Quiet
<1>3. tail[FirstProc] \in 0..LogBlocks /\ i \in Nat /\ Len(lh) \in Nat /\ Len(lh) <= LogBlocks
  BY DEF Inductive, TypeOK
<1>4. boot = "install" /\ i <= Len(lh) => /\ i \in DOMAIN lh /\ lh[i] \in Blocks
                                          /\ logdata[i] \in Values
  BY <1>3 DEF Inductive, TypeOK
<1>5. TypeOK'
  <2> USE <1>1, <1>3 DEF Inductive, TypeOK
  <2>1. CASE RecoverInstall /\ i <= Len(lh)
    <3>1. i \in 0..LogBlocks
      BY <2>1
    <3>2. home' \in [Blocks -> Values] /\ cache' \in [Blocks -> Values \cup {NotCached}]
      BY <2>1, <1>4 DEF RecoverInstall
    <3>3. tail' \in [Procs -> 0..LogBlocks]
      BY <2>1, <3>1 DEF RecoverInstall
    <3> QED BY <2>1, <3>2, <3>3 DEF RecoverInstall
  <2>2. CASE RecoverInstall /\ ~(i <= Len(lh))
    <3>1. lh' \in Seq(Blocks) /\ Len(lh') <= LogBlocks
      BY <2>2, NoEntries DEF RecoverInstall
    <3>2. tail' \in [Procs -> 0..LogBlocks] /\ boot' = "erase"
      BY <2>2 DEF RecoverInstall
    <3> QED BY <2>2, <3>1, <3>2 DEF RecoverInstall
  <2>3. CASE ReadHead
    BY <2>3 DEF ReadHead
  <2>4. CASE RecoverErase
    BY <2>4 DEF RecoverErase
  <2> QED BY <2>1, <2>2, <2>3, <2>4
<1>6. Quiet'
  BY <1>1, <1>2, <1>3 DEF Inductive, TypeOK, Quiet, ReadHead, RecoverInstall, RecoverErase
<1>7. OneCommitter' /\ Locks'
  BY <1>1, <1>2 DEF Inductive, OneCommitter, Locks, Stages
<1>8. Entries'
  <2>1. CASE RecoverInstall
    BY <2>1, <1>1, <1>2 DEF Inductive, Entries, RecoverInstall
  <2>2. CASE ReadHead \/ RecoverErase
    BY <2>2, <1>1, <1>2 DEF Inductive, Entries, Quiet, ReadHead, RecoverErase
  <2> QED BY <2>1, <2>2
<1>9. Open' = Open /\ Sleepers'
  BY <1>1, <1>2 DEF Inductive, Sleepers, Open, SleeperHasWaker
<1>10. PinsAreEntries'
  BY <1>1, <1>2 DEF Inductive, Quiet, PinsAreEntries, InLog, ReadHead, RecoverInstall,
     RecoverErase
<1>11. Cached'
  <2>1. CASE RecoverInstall /\ i <= Len(lh)
    BY <2>1, <1>1, <1>2, <1>4 DEF Inductive, TypeOK, Cached, RecoverInstall
  <2>2. CASE UNCHANGED <<home, cache>>
    BY <2>2, <1>1 DEF Inductive, Cached
  <2> QED BY <2>1, <2>2 DEF ReadHead, RecoverInstall, RecoverErase
<1>12. Copies'
  <2>1. CASE ReadHead
    BY <2>1, <1>1, <1>2 DEF Inductive, TypeOK, Copies, Quiet, ReadHead
  <2>2. CASE RecoverInstall /\ i <= Len(lh)
    <3>1. \A j \in DOMAIN header : j <= i => logdata[j] = home'[header[j]]
      BY <2>2, <1>1, <1>3, <1>4 DEF Inductive, TypeOK, Copies, Quiet, Entries, RecoverInstall
    <3> QED BY <2>2, <3>1, <1>1, <1>2, <1>3 DEF Inductive, TypeOK, Copies, RecoverInstall
  <2>3. CASE RecoverInstall /\ ~(i <= Len(lh))
    BY <2>3, <1>1, <1>2, <1>3 DEF Inductive, TypeOK, Copies, Quiet, RecoverInstall
  <2>4. CASE RecoverErase
    BY <2>4, <1>1, <1>2 DEF Inductive, Copies, RecoverErase
  <2> QED BY <2>1, <2>2, <2>3, <2>4
<1> QED BY <1>5, <1>6, <1>7, <1>8, <1>9, <1>10, <1>11, <1>12 DEF Inductive

-----------------------------------------------------------------------------
(* An FS system call.                                                      *)

LEMMA CallStep == ASSUME Inductive, NEW p \in Procs, Call(p) PROVE Inductive'
<1> USE LogAssumption DEF Call, disk, log, bcache
<1>1. Open' = Open
  BY DEF Inductive, TypeOK, Open
<1>2. TypeOK' /\ Quiet' /\ OneCommitter'
  BY DEF Inductive, TypeOK, Quiet, OneCommitter, Stages
<1>3. Entries' /\ Copies'
  BY DEF Inductive, TypeOK, Entries, Copies
<1>4. Locks' /\ Sleepers' /\ Cached'
  BY <1>1 DEF Inductive, TypeOK, Locks, Sleepers, SleeperHasWaker, Cached
<1>5. PinsAreEntries'
  BY DEF Inductive, TypeOK, PinsAreEntries, InLog
<1> QED BY <1>2, <1>3, <1>4, <1>5 DEF Inductive

LEMMA BeginStep ==
    ASSUME Inductive, NEW p \in Procs, BeginOp(p) \/ BeginSleep(p)
    PROVE  Inductive'
<1> USE LogAssumption DEF disk, log, bcache
<1>1. PICK s \in {"op", "sleep"} :
      /\ pc[p] = "begin" /\ boot = "up"
      /\ pc' = [pc EXCEPT ![p] = s]
      /\ UNCHANGED <<home, logdata, header, committing, lh, cache, pins, owner, hand, wrote,
                     tail, boot>>
  BY DEF BeginOp, BeginSleep, Inductive, TypeOK, Quiet
<1>2. /\ outstanding' \in Nat /\ outstanding' >= outstanding
      /\ outstanding' = outstanding \/ ~committing
  BY DEF BeginOp, BeginSleep, Inductive, TypeOK, Stages
<1>3. TypeOK' /\ Quiet'
  BY <1>1, <1>2 DEF Inductive, TypeOK, Quiet
<1>4. OneCommitter'
  BY <1>1, <1>2 DEF Inductive, TypeOK, OneCommitter, Stages
<1>7. Locks' /\ Cached'
  BY <1>1 DEF Inductive, TypeOK, Locks, Cached
<1>8. Entries'
  <2>1. boot = "up" /\ ~committing /\ outstanding' = 0 => lh = <<>>
    <3>1. outstanding' = 0 => outstanding = 0
      BY <1>2 DEF Inductive, TypeOK
    <3> QED BY <3>1 DEF Inductive, Entries
  <2>2. pc'[p] \in {"op", "sleep"} /\ \A q \in Procs : q # p => pc'[q] = pc[q]
    BY <1>1 DEF Inductive, TypeOK
  <2> QED BY <1>1, <2>1, <2>2 DEF Inductive, Entries
<1>9. Copies'
  BY <1>1 DEF Inductive, TypeOK, Copies
<1>5. PinsAreEntries'
  BY <1>1 DEF Inductive, TypeOK, PinsAreEntries, InLog
<1>6. Sleepers'
  <2>1. CASE BeginOp(p)
    <3>1. Open' = Open \cup {p} /\ p \notin Open
      BY <2>1, <1>1 DEF Open, BeginOp, Inductive, TypeOK
    <3>2. Cardinality(Open') = Cardinality(Open) + 1
      BY <3>1, OpenIsFinite, FS_AddElement
    <3> QED BY <2>1, <3>2, <1>1, OpenIsFinite DEF Inductive, TypeOK, Sleepers, SleeperHasWaker, BeginOp
  <2>2. CASE BeginSleep(p)
    <3>1. Open' = Open
      BY <2>2, <1>1 DEF Open, BeginSleep, Inductive, TypeOK
    <3>2. outstanding > 0 \/ committing
      <4> SUFFICES ASSUME ~committing, outstanding = 0 PROVE FALSE
        BY DEF Inductive, TypeOK
      <4>1. lh = <<>>
        BY <1>1 DEF Inductive, Entries
      <4>2. Len(lh) + (outstanding + 1) * MaxOpBlocks <= LogBlocks
        BY <4>1, NoEntries
      <4> QED BY <2>2, <4>2 DEF BeginSleep, HasRoom
    <3> QED BY <2>2, <3>1, <3>2 DEF Inductive, TypeOK, Sleepers, SleeperHasWaker, BeginSleep
  <2> QED BY <2>1, <2>2
<1> QED BY <1>3, <1>4, <1>5, <1>6, <1>7, <1>8, <1>9 DEF Inductive

LEMMA ModifyStep ==
    ASSUME Inductive, NEW p \in Procs, NEW b \in Blocks, NEW v \in Values, Modify(p, b, v)
    PROVE  Inductive'
<1> USE LogAssumption DEF Modify, disk, log
<1>1. boot = "up" /\ ~committing /\ \A q \in Procs : pc[q] \notin Stages
  <2>1. p \in Open
    BY DEF Open
  <2>2. boot = "up" /\ \A q \in Procs : pc[q] \notin Stages
    BY <2>1, CommitAlone DEF Inductive, Quiet
  <2> QED BY <2>2 DEF Inductive, OneCommitter
<1>2. Open' = Open
  BY DEF Inductive, TypeOK, Open
<1>3. TypeOK' /\ Quiet' /\ OneCommitter'
  BY <1>1 DEF Inductive, TypeOK, Quiet, OneCommitter, Stages
<1>4. Entries' /\ Copies'
  BY <1>1 DEF Inductive, TypeOK, Entries, Copies, Stages
<1>5. Locks'
  BY DEF Inductive, TypeOK, Locks
<1>6. Sleepers' /\ PinsAreEntries'
  BY <1>2 DEF Inductive, TypeOK, Sleepers, SleeperHasWaker, PinsAreEntries, InLog
<1>7. Cached'
  BY DEF Inductive, TypeOK, Cached
<1> QED BY <1>3, <1>4, <1>5, <1>6, <1>7 DEF Inductive

LEMMA LogWriteStep == ASSUME Inductive, NEW p \in Procs, LogWrite(p) PROVE Inductive'
<1> USE LogAssumption DEF LogWrite, disk
<1> DEFINE b == hand[p]
<1>1. boot = "up" /\ ~committing /\ outstanding # 0 /\ \A q \in Procs : pc[q] \notin Stages
  <2>1. p \in Open
    BY DEF Open
  <2>2. boot = "up" /\ \A q \in Procs : pc[q] \notin Stages
    BY <2>1, CommitAlone DEF Inductive, Quiet
  <2>3. outstanding # 0
    BY <2>1, OpenIsFinite DEF Inductive, Sleepers
  <2> QED BY <2>2, <2>3 DEF Inductive, OneCommitter
<1>2. b \in Blocks /\ owner[b] = p
  BY DEF Inductive, Locks
<1>3. Open' = Open
  BY DEF Inductive, TypeOK, Open
<1>4. /\ pc' = [pc EXCEPT ![p] = "op"]
      /\ hand' = [hand EXCEPT ![p] = NoBlock]
      /\ owner' = [owner EXCEPT ![b] = Nobody]
      /\ UNCHANGED <<disk, outstanding, committing, cache, wrote, tail, boot>>
  OBVIOUS
<1>5. OneCommitter' /\ Locks' /\ Sleepers' /\ Copies'
  <2>1. Copies'
    BY <1>1, <1>4 DEF Inductive, TypeOK, Copies, Stages
  <2> HIDE DEF LogWrite
  <2>2. OneCommitter' /\ Sleepers'
    BY <1>1, <1>3, <1>4 DEF Inductive, TypeOK, OneCommitter, Stages, Sleepers, SleeperHasWaker
  <2>3. Locks'
    BY <1>2, <1>4 DEF Inductive, TypeOK, Locks
  <2> QED BY <2>1, <2>2, <2>3
<1>6. Quiet'
  BY <1>1 DEF Quiet
<1>7. CASE InSeq(b, lh)
  <2>1. UNCHANGED <<lh, pins>>
    BY <1>7
  <2>2. InLog(b) /\ pins[b] = 1
    BY <1>1, <1>2, <1>7 DEF Inductive, PinsAreEntries, InLog, InSeq, Stages
  <2> HIDE DEF LogWrite
  <2>3. TypeOK'
    BY <2>1, <1>2, <1>4 DEF Inductive, TypeOK
  <2>4. Entries'
    BY <2>1, <1>1, <1>4 DEF Inductive, TypeOK, Entries, Stages
  <2>5. PinsAreEntries'
    BY <2>1, <1>4, <1>1 DEF Inductive, TypeOK, PinsAreEntries, InLog, Stages
  <2>6. Cached'
    BY <2>1, <2>2, <1>2, <1>4 DEF Inductive, TypeOK, Cached
  <2> QED BY <1>5, <1>6, <2>3, <2>4, <2>5, <2>6 DEF Inductive
<1>8. CASE ~InSeq(b, lh)
  <2>1. lh' = Append(lh, b) /\ pins' = [pins EXCEPT ![b] = @ + 1] /\ Len(lh) < LogBlocks
    BY <1>8 DEF LogWritePanics, Inductive, TypeOK
  <2>2. /\ lh' \in Seq(Blocks) /\ Len(lh') = Len(lh) + 1
        /\ DOMAIN lh = 1..Len(lh) /\ DOMAIN lh' = 1..(Len(lh) + 1) /\ Len(lh) \in Nat
        /\ \A i \in DOMAIN lh : lh'[i] = lh[i]
        /\ lh'[Len(lh) + 1] = b
    BY <2>1, <1>2 DEF Inductive, TypeOK
  <2>3. ~InLog(b) /\ pins[b] = 0
    BY <1>1, <1>2, <1>8 DEF Inductive, PinsAreEntries, InLog, InSeq
  <2> HIDE DEF LogWrite
  <2>4. TypeOK'
    BY <2>1, <2>2, <1>2, <1>4 DEF Inductive, TypeOK
  <2>5. Entries'
    <3>1. \A i, j \in DOMAIN lh' : lh'[i] = lh'[j] => i = j
      BY <2>2, <1>8 DEF Inductive, Entries, InSeq
    <3> QED BY <3>1, <1>1, <1>4 DEF Inductive, TypeOK, Entries, Stages
  <2>6. PinsAreEntries'
    <3>1. \A q \in Procs : pc'[q] # "install" /\ pc[q] # "install"
      BY <1>1, <1>4 DEF Inductive, TypeOK, Stages
    <3>2. \A a \in Blocks : InLog(a) <=> \E i \in DOMAIN lh : lh[i] = a
      BY <3>1 DEF InLog
    <3>3. \A a \in Blocks : InLog(a)' <=> \E i \in DOMAIN lh' : lh'[i] = a
      BY <3>1 DEF InLog
    <3>4. \A a \in Blocks : InLog(a)' <=> a = b \/ InLog(a)
      BY <3>2, <3>3, <2>2
    <3> QED BY <3>4, <2>1, <2>3, <1>1, <1>2 DEF Inductive, TypeOK, PinsAreEntries
  <2>7. Cached'
    BY <2>1, <2>3, <1>2, <1>4 DEF Inductive, TypeOK, Cached
  <2> QED BY <1>5, <1>6, <2>4, <2>5, <2>6, <2>7 DEF Inductive
<1> QED BY <1>7, <1>8

\* The last call to end begins the commit.
LEMMA EndOpStep == ASSUME Inductive, NEW p \in Procs, EndOp(p) PROVE Inductive'
<1> USE LogAssumption DEF disk, bcache
<1>1. /\ pc[p] = "op" /\ ~committing /\ outstanding' = outstanding - 1
      /\ wrote' = [wrote EXCEPT ![p] = {}]
      /\ UNCHANGED <<home, logdata, header, lh, cache, pins, owner, hand, tail, boot>>
  BY DEF EndOp
<1>2. boot = "up" /\ \A q \in Procs : pc[q] \notin Stages
  BY <1>1 DEF Inductive, Quiet, OneCommitter
<1>3. Open' = Open \ {p} /\ p \in Open
  BY <1>1 DEF EndOp, Wakeup, Open, Inductive, TypeOK
<1>4. outstanding' = Cardinality(Open') /\ outstanding' \in Nat
  BY <1>1, <1>3, OpenIsFinite, FS_RemoveElement, FS_CardinalityType DEF Inductive, Sleepers
<1>5. /\ pc' \in [Procs -> {"user", "begin", "sleep", "op", "modified", "write_log",
                            "write_head", "install", "erase", "end_commit"}]
      /\ \A q \in Procs : q # p => \/ pc'[q] = pc[q]
                                   \/ pc[q] = "sleep" /\ pc'[q] = "begin"
      /\ committing' \in BOOLEAN
      /\ \/ /\ outstanding' = 0 /\ committing'
            /\ pc'[p] = IF lh = <<>> THEN "end_commit" ELSE "write_log"
         \/ /\ outstanding' # 0 /\ ~committing' /\ pc'[p] = "user"
            /\ \A q \in Procs : pc'[q] # "sleep"
  <2>1. CASE outstanding' = 0
    BY <2>1, <1>1 DEF EndOp, Inductive, TypeOK
  <2>2. CASE outstanding' # 0
    BY <2>2, <1>1 DEF EndOp, Wakeup, Inductive, TypeOK
  <2> QED BY <2>1, <2>2
<1>6. TypeOK' /\ Quiet'
  BY <1>1, <1>2, <1>4, <1>5 DEF Inductive, TypeOK, Quiet
<1>7. OneCommitter'
  BY <1>1, <1>2, <1>5 DEF OneCommitter, Stages
<1>8. Locks' /\ Cached'
  <2>1. \A q \in Procs : pc'[q] = "modified" <=> pc[q] = "modified"
    BY <1>1, <1>5
  <2>2. \A b \in Blocks : owner[b] # Nobody => owner[b] \in Procs
    BY DEF Inductive, TypeOK
  <2> QED BY <1>1, <2>1, <2>2 DEF Inductive, Locks, Cached
<1>9. Sleepers'
  BY <1>4, <1>5 DEF Sleepers, SleeperHasWaker
<1>10. Entries'
  <2>1. tail[p] = 0 /\ header = <<>>
    BY <1>1, <1>2 DEF Inductive, Entries, Stages
  <2>2. lh # <<>> => Len(lh) > 0
    BY DEF Inductive, TypeOK
  <2> QED BY <1>1, <1>2, <1>5, <2>1, <2>2 DEF Inductive, Entries, Stages
<1>11. PinsAreEntries'
  <2>1. \A q \in Procs : pc[q] # "install" /\ pc'[q] # "install"
    BY <1>2, <1>5 DEF Stages
  <2>2. \A b \in Blocks : InLog(b)' = InLog(b)
    BY <2>1, <1>1 DEF InLog
  <2> QED BY <2>2, <1>1 DEF Inductive, PinsAreEntries
<1>12. Copies'
  <2>1. \A q \in Procs : pc'[q] \in Stages => q = p /\ pc'[p] \in {"end_commit", "write_log"}
    BY <1>2, <1>5 DEF Stages
  <2>2. tail[p] = 0 /\ DOMAIN lh = 1..Len(lh) /\ Len(lh) \in Nat
    BY <1>1, <1>2 DEF Inductive, TypeOK, Entries
  <2> QED BY <2>1, <2>2, <1>1, <1>2 DEF Copies, Stages
<1> QED BY <1>6, <1>7, <1>8, <1>9, <1>10, <1>11, <1>12 DEF Inductive

-----------------------------------------------------------------------------
(* commit.                                                                 *)

\* A step of the committer that leaves it in the commit changes nothing for the others.
LEMMA StageMoves ==
    ASSUME Inductive, NEW p \in Procs, pc[p] \in Stages, NEW s \in Stages,
           pc' = [pc EXCEPT ![p] = s],
           UNCHANGED <<outstanding, committing, owner, hand, wrote, boot>>
    PROVE  /\ Quiet' /\ OneCommitter' /\ Locks' /\ Sleepers'
           /\ \A q \in Procs : q # p => pc'[q] \in {"user", "begin", "sleep"}
           /\ pc'[p] = s
           /\ pc' \in [Procs -> {"user", "begin", "sleep", "op", "modified", "write_log",
                                 "write_head", "install", "erase", "end_commit"}]
<1>1. /\ boot = "up" /\ committing /\ outstanding = 0 /\ Open = {}
      /\ \A q \in Procs : q # p => pc[q] \in {"user", "begin", "sleep"}
      /\ \A b \in Blocks : owner[b] = Nobody
  BY CommitAlone
<1>2. /\ \A q \in Procs : pc'[q] = IF q = p THEN s ELSE pc[q]
      /\ pc' \in [Procs -> {"user", "begin", "sleep", "op", "modified", "write_log",
                            "write_head", "install", "erase", "end_commit"}]
  BY DEF Inductive, TypeOK, Stages
<1>3. Open' = {}
  BY <1>1, <1>2 DEF Open, Stages
<1>4. Quiet' /\ OneCommitter' /\ Locks'
  BY <1>1, <1>2 DEF Quiet, OneCommitter, Locks, Stages
<1>5. Sleepers'
  BY <1>1, <1>3, FS_EmptySet DEF Inductive, Sleepers, SleeperHasWaker
<1> QED BY <1>1, <1>2, <1>4, <1>5

LEMMA WriteLogStep ==
    ASSUME Inductive, NEW p \in Procs, WriteLog(p)
    PROVE  Inductive' /\ UNCHANGED <<home, header, cache, pins, owner, boot>>
<1> USE LogAssumption DEF log, bcache
<1> DEFINE k == tail[p] + 1
           b == lh[k]
<1>1. pc[p] = "write_log" /\ pc[p] \in Stages
  BY DEF WriteLog, Stages
<1>2. /\ boot = "up" /\ committing
      /\ \A q \in Procs : q # p => pc[q] \in {"user", "begin", "sleep"}
  BY <1>1, CommitAlone
<1>3. /\ tail[p] \in Nat /\ k \in DOMAIN lh /\ k \in 1..LogBlocks /\ b \in Blocks
      /\ DOMAIN lh = 1..Len(lh) /\ Len(lh) \in Nat /\ Len(lh) <= LogBlocks
  BY <1>1 DEF Inductive, TypeOK, Entries
<1>4. InLog(b) /\ pins[b] = 1
  BY <1>1, <1>2, <1>3 DEF InLog, Inductive, PinsAreEntries
<1>5. cache[b] # NotCached /\ cache[b] \in Values
  BY <1>3, <1>4 DEF Inductive, Cached, TypeOK
<1>6. /\ logdata' = [logdata EXCEPT ![k] = cache[b]]
      /\ UNCHANGED <<home, header, outstanding, committing, lh, cache, pins, owner, hand,
                     wrote, boot>>
  BY <1>5 DEF WriteLog
<1>7. PICK s \in {"write_log", "write_head"} :
      /\ pc' = [pc EXCEPT ![p] = s]
      /\ s = "write_log" => k < Len(lh) /\ tail' = [tail EXCEPT ![p] = k]
      /\ s = "write_head" => k >= Len(lh) /\ tail' = [tail EXCEPT ![p] = 0]
  <2>1. CASE k < Len(lh)
    <3>1. pc' = [pc EXCEPT ![p] = "write_log"] /\ tail' = [tail EXCEPT ![p] = k]
      BY <2>1, <1>1 DEF WriteLog, Inductive, TypeOK
    <3> QED BY <2>1, <3>1
  <2>2. CASE ~(k < Len(lh))
    <3>1. pc' = [pc EXCEPT ![p] = "write_head"] /\ tail' = [tail EXCEPT ![p] = 0]
      BY <2>2 DEF WriteLog
    <3> QED BY <2>2, <3>1, <1>3
  <2> QED BY <2>1, <2>2
<1>8. /\ Quiet' /\ OneCommitter' /\ Locks' /\ Sleepers'
      /\ \A q \in Procs : q # p => pc'[q] \in {"user", "begin", "sleep"}
      /\ pc'[p] = s
      /\ pc' \in [Procs -> {"user", "begin", "sleep", "op", "modified", "write_log",
                            "write_head", "install", "erase", "end_commit"}]
  <2>1. s \in Stages
    BY DEF Stages
  <2> QED BY <1>1, <1>6, <1>7, <2>1, StageMoves
<1>9. tail' \in [Procs -> 0..LogBlocks] /\ \A q \in Procs : q # p => tail'[q] = tail[q]
  <2>1. PICK n \in 0..LogBlocks : tail' = [tail EXCEPT ![p] = n]
    BY <1>3, <1>7
  <2> QED BY <2>1 DEF Inductive, TypeOK
<1>10. TypeOK'
  BY <1>3, <1>5, <1>6, <1>8, <1>9 DEF Inductive, TypeOK
<1>11. Entries'
  <2>1. /\ s = "write_log" => tail'[p] = k
        /\ s = "write_head" => tail'[p] = 0
    BY <1>7 DEF Inductive, TypeOK
  <2>2. lh # <<>> /\ header = <<>>
    BY <1>1, <1>2, <1>3 DEF Inductive, Entries
  <2> QED BY <1>1, <1>2, <1>6, <1>7, <1>8, <1>9, <2>1, <2>2 DEF Inductive, Entries
<1>12. PinsAreEntries'
  <2>1. \A q \in Procs : pc[q] # "install" /\ pc'[q] # "install"
    BY <1>1, <1>2, <1>8
  <2>2. \A a \in Blocks : InLog(a)' = InLog(a)
    BY <2>1, <1>6 DEF InLog
  <2> QED BY <2>2, <1>6 DEF Inductive, PinsAreEntries
<1>13. Cached'
  BY <1>6 DEF Inductive, Cached
<1>14. Copies'
  <2>1. \A i \in DOMAIN lh : i <= k => logdata'[i] = cache[lh[i]]
    <3>1. \A i \in DOMAIN lh : /\ i \in 1..LogBlocks /\ (i <= k <=> i <= tail[p] \/ i = k)
                              /\ i <= tail[p] => i # k
      BY <1>3
    <3>2. \A i \in 1..LogBlocks : logdata'[i] = IF i = k THEN cache[b] ELSE logdata[i]
      BY <1>6 DEF Inductive, TypeOK
    <3>3. \A i \in DOMAIN lh : i <= tail[p] => logdata[i] = cache[lh[i]]
      BY <1>1 DEF Inductive, Copies
    <3> SUFFICES ASSUME NEW i \in DOMAIN lh, i <= k PROVE logdata'[i] = cache[lh[i]]
      OBVIOUS
    <3>4. CASE i = k
      <4>1. logdata'[k] = cache[lh[k]]
        BY <1>3, <3>2
      <4> QED BY <4>1, <3>4
    <3>5. CASE i # k
      <4>1. i <= tail[p] /\ logdata'[i] = logdata[i]
        BY <1>3, <3>1, <3>2, <3>5
      <4> QED BY <4>1, <3>3
    <3> QED BY <3>4, <3>5
  <2>2. s = "write_log" => tail'[p] = k
    BY <1>7 DEF Inductive, TypeOK
  <2>3. s = "write_head" => \A i \in DOMAIN lh : i <= k
    BY <1>3, <1>7
  <2> QED BY <1>2, <1>6, <1>8, <2>1, <2>2, <2>3 DEF Copies
<1> QED BY <1>6, <1>8, <1>10, <1>11, <1>12, <1>13, <1>14 DEF Inductive

\* The header on the disk names the blocks that the log blocks hold.
LEMMA WriteHeadStep == ASSUME Inductive, NEW p \in Procs, WriteHead(p) PROVE Inductive'
<1> USE LogAssumption DEF log, bcache
<1>1. /\ pc[p] = "write_head" /\ pc[p] \in Stages /\ header' = lh
      /\ pc' = [pc EXCEPT ![p] = "install"]
      /\ UNCHANGED <<home, logdata, outstanding, committing, lh, cache, pins, owner, hand,
                     wrote, tail, boot>>
  BY DEF WriteHead, Stages
<1>2. boot = "up" /\ \A q \in Procs : q # p => pc[q] \in {"user", "begin", "sleep"}
  BY <1>1, CommitAlone
<1>3. /\ Quiet' /\ OneCommitter' /\ Locks' /\ Sleepers'
      /\ \A q \in Procs : q # p => pc'[q] \in {"user", "begin", "sleep"}
      /\ pc'[p] = "install"
      /\ pc' \in [Procs -> {"user", "begin", "sleep", "op", "modified", "write_log",
                            "write_head", "install", "erase", "end_commit"}]
  <2>1. "install" \in Stages
    BY DEF Stages
  <2> QED BY <1>1, <2>1, StageMoves
<1>4. TypeOK'
  BY <1>1, <1>3 DEF Inductive, TypeOK
<1>5. tail[p] = 0 /\ lh # <<>> /\ Len(lh) \in Nat /\ Len(lh) > 0 /\ DOMAIN lh = 1..Len(lh)
  BY <1>1, <1>2 DEF Inductive, TypeOK, Entries
<1>6. Entries'
  BY <1>1, <1>2, <1>3, <1>5 DEF Inductive, Entries
<1>7. PinsAreEntries'
  <2>1. \A a \in Blocks : InLog(a)' <=> \E i \in DOMAIN lh : lh[i] = a
    BY <1>1, <1>3, <1>5 DEF InLog
  <2>2. \A a \in Blocks : InLog(a) <=> \E i \in DOMAIN lh : lh[i] = a
    BY <1>1, <1>2 DEF InLog
  <2> QED BY <2>1, <2>2, <1>1 DEF Inductive, PinsAreEntries
<1>8. Cached'
  BY <1>1 DEF Inductive, Cached
<1>9. Copies'
  <2>1. \A i \in DOMAIN lh : logdata[i] = cache[lh[i]] /\ ~(i <= tail[p])
    BY <1>1, <1>5 DEF Inductive, Copies
  <2> QED BY <1>1, <1>2, <1>3, <2>1 DEF Copies
<1> QED BY <1>3, <1>4, <1>6, <1>7, <1>8, <1>9 DEF Inductive

\* One block is home, and its buffer need not be kept any longer.
LEMMA InstallStep ==
    ASSUME Inductive, NEW p \in Procs, Install(p)
    PROVE  /\ Inductive'
           /\ UNCHANGED <<logdata, header, boot>>
           /\ header = lh /\ boot = "up"
           /\ \E i \in DOMAIN lh : /\ cache[lh[i]] = logdata[i] /\ lh[i] \in Blocks
                                   /\ cache[lh[i]] # NotCached
                                   /\ home' = [home EXCEPT ![lh[i]] = logdata[i]]
                                   /\ cache' = cache
<1> USE LogAssumption
<1> DEFINE k == tail[p] + 1
           b == lh[k]
<1>1. pc[p] = "install" /\ pc[p] \in Stages
  BY DEF Install, Stages
<1>2. /\ boot = "up" /\ committing /\ outstanding = 0
      /\ \A q \in Procs : q # p => pc[q] \in {"user", "begin", "sleep"}
      /\ \A a \in Blocks : owner[a] = Nobody
  BY <1>1, CommitAlone
<1>3. /\ tail[p] \in Nat /\ k \in DOMAIN lh /\ k \in 1..LogBlocks /\ b \in Blocks
      /\ DOMAIN lh = 1..Len(lh) /\ Len(lh) \in Nat /\ Len(lh) <= LogBlocks
      /\ header = lh
  BY <1>1 DEF Inductive, TypeOK, Entries
<1>4. \A a \in Blocks : InLog(a) <=> \E i \in DOMAIN lh : lh[i] = a /\ tail[p] < i
  BY <1>1, <1>2 DEF InLog
<1>5. pins[b] = 1 /\ cache[b] # NotCached
  BY <1>2, <1>3, <1>4 DEF Inductive, PinsAreEntries, Cached
<1>6. \A i \in DOMAIN lh : logdata[i] = IF i <= tail[p] THEN home[lh[i]] ELSE cache[lh[i]]
  BY <1>1 DEF Inductive, Copies
<1>7. cache[b] = logdata[k] /\ logdata[k] \in Values
  BY <1>3, <1>6 DEF Inductive, TypeOK
<1>8. /\ home' = [home EXCEPT ![b] = logdata[k]]
      /\ cache' = [cache EXCEPT ![b] = logdata[k]]
      /\ pins' = [pins EXCEPT ![b] = @ - 1]
      /\ UNCHANGED <<logdata, header, outstanding, committing, owner, hand, wrote, boot>>
  BY DEF Install
<1>9. cache' = cache
  BY <1>3, <1>7, <1>8 DEF Inductive, TypeOK
<1>10. PICK s \in {"install", "erase"} :
      /\ pc' = [pc EXCEPT ![p] = s]
      /\ s = "install" => k < Len(lh) /\ tail' = [tail EXCEPT ![p] = k] /\ lh' = lh
      /\ s = "erase" => k >= Len(lh) /\ tail' = [tail EXCEPT ![p] = 0] /\ lh' = <<>>
  <2>1. CASE k < Len(lh)
    <3>1. pc' = [pc EXCEPT ![p] = "install"] /\ tail' = [tail EXCEPT ![p] = k] /\ lh' = lh
      BY <2>1, <1>1 DEF Install, Inductive, TypeOK
    <3> QED BY <2>1, <3>1
  <2>2. CASE ~(k < Len(lh))
    <3>1. pc' = [pc EXCEPT ![p] = "erase"] /\ tail' = [tail EXCEPT ![p] = 0] /\ lh' = <<>>
      BY <2>2 DEF Install
    <3> QED BY <2>2, <3>1, <1>3
  <2> QED BY <2>1, <2>2
<1>11. /\ Quiet' /\ OneCommitter' /\ Locks' /\ Sleepers'
       /\ \A q \in Procs : q # p => pc'[q] \in {"user", "begin", "sleep"}
       /\ pc'[p] = s
       /\ pc' \in [Procs -> {"user", "begin", "sleep", "op", "modified", "write_log",
                             "write_head", "install", "erase", "end_commit"}]
  <2>1. s \in Stages
    BY DEF Stages
  <2> QED BY <1>1, <1>8, <1>10, <2>1, StageMoves
<1>12. /\ tail' \in [Procs -> 0..LogBlocks] /\ \A q \in Procs : q # p => tail'[q] = tail[q]
       /\ tail'[p] = IF s = "install" THEN k ELSE 0
  <2>1. PICK n \in 0..LogBlocks : tail' = [tail EXCEPT ![p] = n]
    BY <1>3, <1>10
  <2>2. \A q \in Procs : q # p => tail'[q] = tail[q]
    BY <2>1 DEF Inductive, TypeOK
  <2>3. tail'[p] = IF s = "install" THEN k ELSE 0
    BY <1>10 DEF Inductive, TypeOK
  <2> QED BY <2>1, <2>2, <2>3 DEF Inductive, TypeOK
<1>13. lh' \in Seq(Blocks) /\ Len(lh') <= LogBlocks
  <2>1. CASE lh' = lh
    BY <2>1 DEF Inductive, TypeOK
  <2>2. CASE lh' = <<>>
    BY <2>2, NoEntries
  <2> QED BY <2>1, <2>2, <1>10
<1>14. TypeOK'
  <2>1. home' \in [Blocks -> Values] /\ pins' \in [Blocks -> Nat]
    BY <1>3, <1>5, <1>7, <1>8 DEF Inductive, TypeOK
  <2> QED BY <2>1, <1>8, <1>9, <1>11, <1>12, <1>13 DEF Inductive, TypeOK
<1>15. Entries'
  <2>1. \A i, j \in DOMAIN lh' : lh'[i] = lh'[j] => i = j
    BY <1>10 DEF Inductive, Entries
  <2>2. \A q \in Procs : pc'[q] \in {"erase", "end_commit"} => lh' = <<>>
    BY <1>10, <1>11
  <2>3. \A q \in Procs : pc'[q] = "install" => tail'[q] < Len(lh') /\ header' = lh'
    BY <1>3, <1>8, <1>10, <1>11, <1>12
  <2>4. \A q \in Procs : pc'[q] \notin {"write_log", "install"} => tail'[q] = 0
    BY <1>2, <1>11, <1>12 DEF Inductive, Entries
  <2>5. \A q \in Procs : pc'[q] \notin {"write_log", "write_head"}
    BY <1>11
  <2>6. committing' /\ \E q \in Procs : pc'[q] \in {"install", "erase"}
    BY <1>2, <1>8, <1>11
  <2>7. \A i, j \in DOMAIN header' : header'[i] = header'[j] => i = j
    BY <1>8 DEF Inductive, Entries
  <2> QED BY <2>1, <2>2, <2>3, <2>4, <2>5, <2>6, <2>7 DEF Entries
<1>16. PinsAreEntries'
  <2>1. \A i \in DOMAIN lh : lh[i] = b => i = k
    BY <1>3 DEF Inductive, Entries
  <2>2. \A a \in Blocks : InLog(a)' <=> a # b /\ InLog(a)
    <3>1. CASE s = "install"
      <4>1. \A a \in Blocks : InLog(a)' <=> \E i \in DOMAIN lh : lh[i] = a /\ k < i
        BY <3>1, <1>10, <1>11, <1>12 DEF InLog
      <4>2. \A i \in DOMAIN lh : k < i <=> tail[p] < i /\ i # k
        BY <1>3
      <4> QED BY <4>1, <4>2, <1>4, <2>1
    <3>2. CASE s = "erase"
      <4>1. \A a \in Blocks : ~InLog(a)'
        BY <3>2, <1>10 DEF InLog
      <4>2. \A i \in DOMAIN lh : tail[p] < i => i = k
        BY <3>2, <1>3, <1>10
      <4> QED BY <4>1, <4>2, <1>4
    <3> QED BY <3>1, <3>2
  <2>3. \A a \in Blocks : pins'[a] = IF a = b THEN 0 ELSE pins[a]
    BY <1>3, <1>5, <1>8 DEF Inductive, TypeOK
  <2> QED BY <2>2, <2>3, <1>2, <1>5, <1>8 DEF Inductive, PinsAreEntries
<1>17. Cached'
  BY <1>2, <1>3, <1>5, <1>7, <1>8, <1>9 DEF Inductive, TypeOK, Cached
<1>18. Copies'
  <2>1. \A i \in DOMAIN lh : logdata[i] = IF i <= k THEN home'[lh[i]] ELSE cache[lh[i]]
    <3>1. \A i \in DOMAIN lh : /\ lh[i] \in Blocks /\ (i <= k <=> i <= tail[p] \/ i = k)
                               /\ i # k => lh[i] # b
      BY <1>3, EntryIsBlock DEF Inductive, Entries
    <3>2. \A a \in Blocks : home'[a] = IF a = b THEN logdata[k] ELSE home[a]
      BY <1>8 DEF Inductive, TypeOK
    <3> SUFFICES ASSUME NEW i \in DOMAIN lh
                 PROVE  logdata[i] = IF i <= k THEN home'[lh[i]] ELSE cache[lh[i]]
      OBVIOUS
    <3>3. CASE i = k
      BY <1>3, <3>2, <3>3
    <3>4. CASE i # k
      <4>1. home'[lh[i]] = home[lh[i]] /\ (i <= k <=> i <= tail[p])
        BY <3>1, <3>2, <3>4
      <4>2. CASE i <= k
        BY <4>1, <4>2, <1>6
      <4>3. CASE ~(i <= k)
        BY <4>1, <4>3, <1>6
      <4> QED BY <4>2, <4>3
    <3> QED BY <3>3, <3>4
  <2>2. s = "erase" => \A i \in DOMAIN lh : i <= k
    BY <1>3, <1>10
  <2>3. s = "install" => \A i \in DOMAIN lh' :
            logdata'[i] = IF i <= tail'[p] THEN home'[lh'[i]] ELSE cache'[lh'[i]]
    BY <1>8, <1>9, <1>10, <1>12, <2>1
  <2>4. s = "erase" => \A i \in DOMAIN header' : logdata'[i] = home'[header'[i]]
    BY <1>3, <1>8, <2>1, <2>2
  <2> QED BY <1>2, <1>8, <1>11, <2>3, <2>4 DEF Copies
<1>19. Inductive'
  BY <1>11, <1>14, <1>15, <1>16, <1>17, <1>18 DEF Inductive
<1> QED BY <1>2, <1>3, <1>5, <1>7, <1>8, <1>9, <1>19

\* All is home: the log may forget it.
LEMMA EraseStep == ASSUME Inductive, NEW p \in Procs, Erase(p) PROVE Inductive'
<1> USE LogAssumption DEF log, bcache
<1>1. /\ pc[p] = "erase" /\ pc[p] \in Stages /\ header' = lh
      /\ pc' = [pc EXCEPT ![p] = "end_commit"]
      /\ UNCHANGED <<home, logdata, outstanding, committing, lh, cache, pins, owner, hand,
                     wrote, tail, boot>>
  BY DEF Erase, Stages
<1>2. boot = "up" /\ \A q \in Procs : q # p => pc[q] \in {"user", "begin", "sleep"}
  BY <1>1, CommitAlone
<1>3. /\ Quiet' /\ OneCommitter' /\ Locks' /\ Sleepers'
      /\ \A q \in Procs : q # p => pc'[q] \in {"user", "begin", "sleep"}
      /\ pc'[p] = "end_commit"
      /\ pc' \in [Procs -> {"user", "begin", "sleep", "op", "modified", "write_log",
                            "write_head", "install", "erase", "end_commit"}]
  <2>1. "end_commit" \in Stages
    BY DEF Stages
  <2> QED BY <1>1, <2>1, StageMoves
<1>4. TypeOK'
  BY <1>1, <1>3 DEF Inductive, TypeOK
<1>5. tail[p] = 0 /\ lh = <<>>
  BY <1>1, <1>2 DEF Inductive, Entries
<1>6. Entries'
  BY <1>1, <1>2, <1>3, <1>5 DEF Inductive, Entries
<1>7. PinsAreEntries'
  <2>1. \A a \in Blocks : InLog(a)' = InLog(a)
    BY <1>1, <1>2, <1>3 DEF InLog
  <2> QED BY <2>1, <1>1 DEF Inductive, PinsAreEntries
<1>8. Cached'
  BY <1>1 DEF Inductive, Cached
<1>9. Copies'
  BY <1>1, <1>2, <1>3 DEF Copies
<1> QED BY <1>3, <1>4, <1>6, <1>7, <1>8, <1>9 DEF Inductive

LEMMA EndCommitStep ==
    ASSUME Inductive, NEW p \in Procs, EndCommit(p)
    PROVE  Inductive'
<1> USE LogAssumption DEF disk, bcache
<1>1. /\ pc[p] = "end_commit" /\ pc[p] \in Stages /\ committing' = FALSE
      /\ UNCHANGED <<home, logdata, header, outstanding, lh, cache, pins, owner, hand, wrote,
                     tail, boot>>
  BY DEF EndCommit, Stages
<1>2. /\ boot = "up" /\ outstanding = 0 /\ Open = {}
      /\ \A q \in Procs : q # p => pc[q] \in {"user", "begin", "sleep"}
      /\ \A b \in Blocks : owner[b] = Nobody
  BY <1>1, CommitAlone
<1>3. /\ pc' \in [Procs -> {"user", "begin", "sleep", "op", "modified", "write_log",
                            "write_head", "install", "erase", "end_commit"}]
      /\ \A q \in Procs : pc'[q] \in {"user", "begin"}
  BY <1>1, <1>2 DEF EndCommit, Wakeup, Inductive, TypeOK
<1>4. TypeOK' /\ Quiet' /\ OneCommitter' /\ Locks'
  BY <1>1, <1>2, <1>3 DEF Inductive, TypeOK, Quiet, OneCommitter, Locks, Stages
<1>5. Sleepers'
  <2>1. Open' = {}
    BY <1>3 DEF Open
  <2> QED BY <2>1, <1>1, <1>2, <1>3, FS_EmptySet DEF Sleepers, SleeperHasWaker
<1>6. lh = <<>> /\ header = <<>>
  BY <1>1, <1>2 DEF Inductive, Entries
<1>7. \A q \in Procs : tail[q] = 0
  BY <1>1, <1>2 DEF Inductive, Entries
<1>8. Entries'
  BY <1>1, <1>3, <1>6, <1>7 DEF Inductive, Entries
<1>9. PinsAreEntries'
  <2>1. \A a \in Blocks : ~InLog(a) /\ ~InLog(a)'
    BY <1>1, <1>6 DEF InLog
  <2> QED BY <2>1, <1>1 DEF Inductive, PinsAreEntries
<1>10. Cached' /\ Copies'
  BY <1>1, <1>2, <1>3 DEF Inductive, Cached, Copies
<1> QED BY <1>4, <1>5, <1>8, <1>9, <1>10 DEF Inductive

-----------------------------------------------------------------------------
(* The buffer cache.                                                       *)

LEMMA CacheStep ==
    ASSUME Inductive, NEW b \in Blocks, Read(b) \/ Recycle(b)
    PROVE  /\ Inductive'
           /\ cache' = [cache EXCEPT ![b] = cache'[b]]
           /\ cache[b] \in {NotCached, home[b]} /\ cache'[b] \in {NotCached, home[b]}
<1> USE LogAssumption DEF disk, log, procs
<1>1. PICK v \in {NotCached, home[b]} : cache' = [cache EXCEPT ![b] = v]
  BY DEF Read, Recycle
<1>2. UNCHANGED <<disk, log, pins, owner, procs, boot>>
  BY DEF Read, Recycle
<1>3. cache[b] \in {NotCached, home[b]} /\ pins[b] = 0 /\ owner[b] = Nobody
  BY DEF Read, Recycle, Inductive, Cached
<1>4. home[b] \in Values
  BY DEF Inductive, TypeOK
<1>5. \A a \in Blocks : cache'[a] = IF a = b THEN v ELSE cache[a]
  BY <1>1 DEF Inductive, TypeOK
<1>6. TypeOK'
  BY <1>1, <1>2, <1>4 DEF Inductive, TypeOK
<1>7. Quiet' /\ OneCommitter' /\ Entries' /\ Locks'
  BY <1>2 DEF Inductive, Quiet, OneCommitter, Entries, Locks
<1>8. Open' = Open /\ Sleepers'
  BY <1>2 DEF Inductive, Open, Sleepers, SleeperHasWaker
<1>9. PinsAreEntries'
  BY <1>2 DEF Inductive, PinsAreEntries, InLog
<1>10. Cached'
  BY <1>2, <1>3, <1>5 DEF Inductive, Cached
<1>11. Copies'
  <2>1. SUFFICES ASSUME NEW p \in Procs, pc[p] \in {"write_log", "write_head", "install"},
                        NEW i \in DOMAIN lh, pc[p] = "install" => tail[p] < i
                 PROVE  cache'[lh[i]] = cache[lh[i]]
    BY <1>2 DEF Inductive, Copies, TypeOK
  <2>2. boot = "up" /\ \A q \in Procs : q # p => pc[q] # "install"
    BY <2>1, CommitAlone DEF Stages
  <2>3. lh[i] \in Blocks /\ InLog(lh[i])
    BY <2>1, <2>2, EntryIsBlock DEF InLog, Inductive
  <2>4. pins[lh[i]] = 1
    BY <2>2, <2>3 DEF Inductive, PinsAreEntries
  <2> QED BY <2>3, <2>4, <1>3, <1>5
<1> QED BY <1>1, <1>3, <1>5, <1>6, <1>7, <1>8, <1>9, <1>10, <1>11 DEF Inductive

-----------------------------------------------------------------------------
LEMMA InductiveStep == Inductive /\ [Next]_vars => Inductive'
<1> SUFFICES ASSUME Inductive, [Next]_vars PROVE Inductive'
  OBVIOUS
<1>1. CASE UNCHANGED vars
  BY <1>1 DEF vars, disk, log, bcache, procs, Inductive, TypeOK, Quiet, OneCommitter, Entries,
     Locks, Sleepers, SleeperHasWaker, Open, PinsAreEntries, InLog, Cached, Copies
<1>2. CASE Crash
  BY <1>2, CrashStep
<1>3. CASE ReadHead \/ RecoverInstall \/ RecoverErase
  BY <1>3, BootStep
<1>4. CASE \E p \in Procs : Kernel(p) \/ Call(p)
  BY <1>4, CallStep, BeginStep, LogWriteStep, EndOpStep, WriteLogStep, WriteHeadStep,
     InstallStep, EraseStep, EndCommitStep DEF Kernel
<1>5. CASE \E p \in Procs : \E b \in Blocks : \E v \in Values : Modify(p, b, v)
  BY <1>5, ModifyStep
<1>6. CASE \E b \in Blocks : Read(b) \/ Recycle(b)
  BY <1>6, CacheStep
<1> QED BY <1>1, <1>2, <1>3, <1>4, <1>5, <1>6 DEF Next

LEMMA AlwaysInductive == Spec => []Inductive
BY InductiveInit, InductiveStep, PTL DEF Spec

\* The values of struct log, the cache and the processes stay in range: a pin is given back
\* only where one was taken (kernel/log.c:80), and no index leaves the log.
THEOREM TypeCorrect == Spec => []TypeOK
BY AlwaysInductive, PTL DEF Inductive

\* After the last end_op has returned, what the calls wrote is at home on the disk and the
\* log is empty (kernel/log.c:194), wherever the machine crashed before.
THEOREM CallsAreDurable == Spec => EndOpIsDurable
<1> DEFINE A == \A p \in Procs : pc[p] = "end_commit" /\ pc'[p] = "user" /\ boot' = "up" =>
                    home = Logical /\ header = <<>>
<1>1. Inductive => A
  <2> SUFFICES ASSUME Inductive, NEW p \in Procs, pc[p] = "end_commit"
               PROVE  home = Logical /\ header = <<>>
    OBVIOUS
  <2>1. /\ boot = "up" /\ \A q \in Procs : q # p => pc[q] \in {"user", "begin", "sleep"}
        /\ \A b \in Blocks : owner[b] = Nobody
    BY CommitAlone DEF Stages
  <2>2. lh = <<>> /\ header = <<>>
    BY <2>1 DEF Inductive, Entries
  <2>3. \A b \in Blocks : pins[b] = 0
    BY <2>1, <2>2 DEF Inductive, PinsAreEntries, InLog
  <2>4. \A b \in Blocks : Logical[b] = home[b]
    BY <2>1, <2>3 DEF Inductive, Cached, Logical
  <2> QED BY <2>2, <2>4 DEF Inductive, TypeOK, Logical
<1>2. Inductive => [A]_vars
  BY <1>1
<1> QED BY AlwaysInductive, <1>2, PTL DEF EndOpIsDurable

-----------------------------------------------------------------------------
(* The reservation.                                                        *)

LEMMA LoggedIsFinite ==
    ASSUME CallsAreSmall, NEW p \in Procs
    PROVE  /\ IsFiniteSet(Logged(p)) /\ Cardinality(Logged(p)) \in Nat
           /\ Cardinality(Logged(p)) <= OpBlocks
           /\ Cardinality(Logged(p)) = Cardinality(wrote[p]) => Logged(p) = wrote[p]
           /\ Cardinality(wrote[p]) \in Nat
<1>1. IsFiniteSet(wrote[p]) /\ Cardinality(wrote[p]) <= OpBlocks
  BY DEF CallsAreSmall
<1>2. Logged(p) \in SUBSET wrote[p]
  BY DEF Logged
<1>3. IsFiniteSet(Logged(p)) /\ Cardinality(Logged(p)) <= Cardinality(wrote[p])
      /\ (Cardinality(wrote[p]) = Cardinality(Logged(p)) => wrote[p] = Logged(p))
  BY <1>1, <1>2, FS_Subset
<1>4. Cardinality(Logged(p)) \in Nat /\ Cardinality(wrote[p]) \in Nat
  BY <1>1, <1>3, FS_CardinalityType
<1> QED BY <1>1, <1>3, <1>4, LogAssumption

LEMMA OwedIsFinite ==
    ASSUME NEW O \in SUBSET Procs, NEW D \in SUBSET (O \X (1..MaxOpBlocks))
    PROVE  /\ IsFiniteSet(O) /\ Cardinality(O) \in Nat
           /\ IsFiniteSet(D) /\ Cardinality(D) \in Nat
           /\ Cardinality(D) <= Cardinality(O) * MaxOpBlocks
           /\ O = {} => Cardinality(D) = 0
<1>1. IsFiniteSet(O) /\ Cardinality(O) \in Nat
  BY LogAssumption, FS_Subset, FS_CardinalityType
<1>2. IsFiniteSet(1..MaxOpBlocks) /\ Cardinality(1..MaxOpBlocks) = MaxOpBlocks
  BY LogAssumption, FS_Interval
<1>3. /\ IsFiniteSet(O \X (1..MaxOpBlocks))
      /\ Cardinality(O \X (1..MaxOpBlocks)) = Cardinality(O) * MaxOpBlocks
  BY <1>1, <1>2, FS_Product
<1>4. IsFiniteSet(D) /\ Cardinality(D) <= Cardinality(O) * MaxOpBlocks
  BY <1>3, FS_Subset
<1>5. O = {} => D = {}
  OBVIOUS
<1> QED BY <1>1, <1>4, <1>5, FS_CardinalityType, FS_EmptySet

LEMMA OwedTypes ==
    /\ Open \in SUBSET Procs /\ Open' \in SUBSET Procs
    /\ Owed \in SUBSET (Open \X (1..MaxOpBlocks)) /\ Owed' \in SUBSET (Open' \X (1..MaxOpBlocks))
BY DEF Open, Owed

\* The calls owe less when they log, modify and end.
LEMMA OwedShrinks ==
    ASSUME Open' \subseteq Open,
           \A p \in Open' : /\ Cardinality(Logged(p)) \in Nat /\ Cardinality(Logged(p)') \in Nat
                            /\ Cardinality(Logged(p)) <= Cardinality(Logged(p)')
    PROVE  Owed' \subseteq Owed /\ Cardinality(Owed') <= Cardinality(Owed)
<1>1. Owed' \subseteq Owed
  <2> SUFFICES ASSUME NEW r \in Owed' PROVE r \in Owed
    OBVIOUS
  <2>1. /\ r \in Open' \X (1..MaxOpBlocks) /\ r[1] \in Open' /\ r[2] \in 1..MaxOpBlocks
        /\ Cardinality(Logged(r[1])') < r[2]
    BY DEF Owed
  <2>2. Cardinality(Logged(r[1])) < r[2]
    BY <2>1
  <2> QED BY <2>1, <2>2 DEF Owed
<1> QED BY <1>1, OwedIsFinite, OwedTypes, FS_Subset

LEMMA SmallStep ==
    ASSUME Inductive, Inductive', Next, CallsAreSmall
    PROVE  CallsAreSmall'
<1>1. CASE Crash
  BY <1>1, FS_EmptySet, LogAssumption DEF Crash, Off, CallsAreSmall
<1>2. ASSUME NEW p \in Procs, NEW b \in Blocks, NEW v \in Values, Modify(p, b, v)
      PROVE  CallsAreSmall'
  <2>1. /\ pc' = [pc EXCEPT ![p] = "modified"] /\ hand' = [hand EXCEPT ![p] = b]
        /\ wrote' = [wrote EXCEPT ![p] = @ \cup {b}]
        /\ Cardinality(wrote[p] \cup {b}) <= OpBlocks
    BY <1>2 DEF Modify
  <2>2. IsFiniteSet(wrote[p] \cup {b})
    BY FS_AddElement DEF CallsAreSmall
  <2> QED BY <2>1, <2>2 DEF CallsAreSmall, Inductive, TypeOK
<1>3. ASSUME NEW p \in Procs, EndOp(p)
      PROVE  CallsAreSmall'
  <2>1. /\ wrote' = [wrote EXCEPT ![p] = {}] /\ hand' = hand
        /\ \A q \in Procs : pc'[q] = "modified" => pc[q] = "modified" /\ q # p
    BY <1>3 DEF EndOp, Wakeup, Inductive, TypeOK
  <2> QED BY <2>1, FS_EmptySet, LogAssumption DEF CallsAreSmall, Inductive, TypeOK
<1>4. ASSUME UNCHANGED <<wrote, hand>>,
             \A q \in Procs : pc'[q] = "modified" => pc[q] = "modified"
      PROVE  CallsAreSmall'
  BY <1>4 DEF CallsAreSmall
<1>5. ASSUME NEW p \in Procs, LogWrite(p)
      PROVE  CallsAreSmall'
  BY <1>5 DEF LogWrite, CallsAreSmall, Inductive, TypeOK
<1>6. ASSUME NEW p \in Procs,
             \/ Call(p) \/ BeginOp(p) \/ BeginSleep(p)
             \/ WriteLog(p) \/ WriteHead(p) \/ Install(p) \/ Erase(p) \/ EndCommit(p)
      PROVE  CallsAreSmall'
  <2>1. UNCHANGED <<wrote, hand>> /\ \A q \in Procs : pc'[q] = "modified" => pc[q] = "modified"
    <3>1. UNCHANGED <<wrote, hand>>
      BY <1>6 DEF Call, BeginOp, BeginSleep, WriteLog, WriteHead, Install, Erase, EndCommit, bcache
    <3>2. CASE EndCommit(p)
      BY <3>2 DEF EndCommit, Wakeup, Inductive, TypeOK
    <3>3. CASE ~EndCommit(p)
      <4>1. CASE Call(p) \/ BeginOp(p) \/ BeginSleep(p)
        BY <4>1 DEF Call, BeginOp, BeginSleep, Inductive, TypeOK
      <4>2. CASE WriteLog(p)
        BY <4>2 DEF WriteLog, Inductive, TypeOK
      <4>3. CASE Install(p)
        BY <4>3 DEF Install, Inductive, TypeOK
      <4>4. CASE WriteHead(p) \/ Erase(p)
        BY <4>4 DEF WriteHead, Erase, Inductive, TypeOK
      <4> QED BY <1>6, <3>1, <3>3, <4>1, <4>2, <4>3, <4>4
    <3> QED BY <3>1, <3>2, <3>3
  <2> QED BY <2>1, <1>4
<1>7. CASE ReadHead \/ RecoverInstall \/ RecoverErase \/ \E b \in Blocks : Read(b) \/ Recycle(b)
  BY <1>7, <1>4 DEF ReadHead, RecoverInstall, RecoverErase, Read, Recycle, procs
<1> QED BY <1>1, <1>2, <1>3, <1>5, <1>6, <1>7 DEF Next, Kernel

LEMMA ReservedStep ==
    ASSUME Inductive, Inductive', [Next]_vars, Reserved
    PROVE  Reserved'
<1>1. CASE UNCHANGED vars
  BY <1>1 DEF vars, procs, log, Reserved, CallsAreSmall, Owed, Open, Logged
<1> SUFFICES ASSUME Next PROVE Reserved'
  BY <1>1
<1>2. CallsAreSmall' /\ CallsAreSmall
  BY SmallStep DEF Reserved
<1>3. /\ Len(lh) \in Nat /\ Len(lh') \in Nat /\ Len(lh') <= LogBlocks /\ LogBlocks \in Nat
      /\ Cardinality(Owed) \in Nat /\ Cardinality(Owed') \in Nat
      /\ Len(lh) + Cardinality(Owed) <= LogBlocks
      /\ IsFiniteSet(Owed) /\ IsFiniteSet(Owed')
  BY OwedIsFinite, OwedTypes, LogAssumption DEF Inductive, TypeOK, Reserved
<1> SUFFICES Len(lh') + Cardinality(Owed') <= LogBlocks
  BY <1>2 DEF Reserved
<1>4. CASE Open' = {}
  BY <1>3, <1>4, OwedIsFinite, OwedTypes
<1>5. ASSUME UNCHANGED lh, Open' \subseteq Open,
             \A p \in Open' : wrote[p] \subseteq wrote'[p]
      PROVE  Len(lh') + Cardinality(Owed') <= LogBlocks
  <2>1. ASSUME NEW p \in Open'
        PROVE  /\ Cardinality(Logged(p)) \in Nat /\ Cardinality(Logged(p)') \in Nat
               /\ Cardinality(Logged(p)) <= Cardinality(Logged(p)')
    <3>1. p \in Procs /\ Logged(p) \subseteq Logged(p)'
      BY <1>5, <2>1, OwedTypes DEF Logged
    <3>2. IsFiniteSet(wrote'[p]) /\ Logged(p)' \in SUBSET wrote'[p]
      BY <1>2, <3>1 DEF CallsAreSmall, Logged
    <3>3. IsFiniteSet(Logged(p)')
      BY <3>2, FS_Subset
    <3> QED BY <3>1, <3>3, FS_Subset, FS_CardinalityType
  <2>2. Cardinality(Owed') <= Cardinality(Owed)
    BY <1>5, <2>1, OwedShrinks
  <2> QED BY <2>2, <1>3, <1>5
<1>6. ASSUME NEW p \in Procs, BeginOp(p)
      PROVE  Len(lh') + Cardinality(Owed') <= LogBlocks
  <2>1. /\ outstanding' = outstanding + 1 /\ lh' = lh
        /\ Len(lh) + (outstanding + 1) * MaxOpBlocks <= LogBlocks
    BY <1>6 DEF BeginOp, HasRoom
  <2>2. outstanding' = Cardinality(Open')
    BY DEF Inductive, Sleepers
  <2>3. Cardinality(Owed') <= (outstanding + 1) * MaxOpBlocks
    BY <2>1, <2>2, OwedIsFinite, OwedTypes
  <2>4. (outstanding + 1) * MaxOpBlocks \in Nat
    BY LogAssumption DEF Inductive, TypeOK
  <2> HIDE DEF Owed
  <2> QED BY <2>1, <2>3, <2>4, <1>3
<1>7. ASSUME NEW p \in Procs, LogWrite(p), ~InSeq(hand[p], lh)
      PROVE  Len(lh') + Cardinality(Owed') <= LogBlocks
  <2> DEFINE b == hand[p]
             n == Cardinality(Logged(p)) + 1
  <2>1. /\ b \in wrote[p] /\ p \in Open
    BY <1>2, <1>7 DEF LogWrite, CallsAreSmall, Open
  <2>2. Logged(p) # wrote[p] /\ b \notin Logged(p)
    BY <1>7, <2>1 DEF Logged
  <2>3. n \in 1..MaxOpBlocks
    <3>1. Cardinality(Logged(p)) <= Cardinality(wrote[p])
      BY <1>2, FS_Subset DEF CallsAreSmall, Logged
    <3>2. Cardinality(wrote[p]) <= OpBlocks
      BY <1>2 DEF CallsAreSmall
    <3> QED BY <1>2, <2>2, <3>1, <3>2, LoggedIsFinite, LogAssumption
  <2>4. /\ lh' = Append(lh, b) /\ wrote' = wrote /\ Open' = Open /\ b \in Blocks
    BY <1>7 DEF LogWrite, Open, Inductive, TypeOK, Locks
  <2>5. /\ Len(lh') = Len(lh) + 1 /\ DOMAIN lh = 1..Len(lh) /\ DOMAIN lh' = 1..(Len(lh) + 1)
        /\ \A i \in DOMAIN lh : lh'[i] = lh[i]
        /\ lh'[Len(lh) + 1] = b
    BY <2>4 DEF Inductive, TypeOK
  <2>6. \A a : InSeq(a, lh)' <=> a = b \/ InSeq(a, lh)
    BY <2>5, <1>3 DEF InSeq
  <2>7. \A q \in Procs : /\ Logged(q) \subseteq Logged(q)' /\ Logged(q)' \in SUBSET wrote[q]
                         /\ b \in wrote[q] => Logged(q)' = Logged(q) \cup {b}
    BY <2>4, <2>6 DEF Logged
  <2>8. \A q \in Open' : /\ Cardinality(Logged(q)) \in Nat /\ Cardinality(Logged(q)') \in Nat
                         /\ Cardinality(Logged(q)) <= Cardinality(Logged(q)')
    <3> SUFFICES ASSUME NEW q \in Open'
                 PROVE  /\ Cardinality(Logged(q)) \in Nat /\ Cardinality(Logged(q)') \in Nat
                        /\ Cardinality(Logged(q)) <= Cardinality(Logged(q)')
      OBVIOUS
    <3>1. q \in Procs /\ IsFiniteSet(wrote[q])
      BY <1>2, OwedTypes DEF CallsAreSmall
    <3>2. IsFiniteSet(Logged(q)')
      BY <2>7, <3>1, FS_Subset
    <3> QED BY <2>7, <3>1, <3>2, FS_Subset, FS_CardinalityType
  <2>9. Owed' \subseteq Owed
    BY <2>4, <2>8, OwedShrinks
  <2>10. Cardinality(Logged(p)') = n
    BY <1>2, <2>1, <2>2, <2>7, LoggedIsFinite, FS_AddElement
  <2>11. <<p, n>> \in Owed /\ <<p, n>> \notin Owed'
    <3>1. n - 1 \in Nat /\ Cardinality(Logged(p)) < n
      BY <1>2, LoggedIsFinite
    <3>2. <<p, n>> \in Owed
      BY <2>1, <2>3, <3>1 DEF Owed
    <3>3. ~(Cardinality(Logged(p)') < n)
      BY <2>3, <2>10
    <3> QED BY <3>2, <3>3 DEF Owed
  <2>12. Owed' \in SUBSET (Owed \ {<<p, n>>})
    BY <2>9, <2>11
  <2>13. IsFiniteSet(Owed \ {<<p, n>>}) /\ Cardinality(Owed \ {<<p, n>>}) = Cardinality(Owed) - 1
    <3>1. PICK S, x : S = Owed /\ x = <<p, n>>
      OBVIOUS
    <3>2. IsFiniteSet(S) /\ x \in S
      BY <1>3, <2>11, <3>1
    <3>3. IsFiniteSet(S \ {x}) /\ Cardinality(S \ {x}) = Cardinality(S) - 1
      BY <3>2, FS_RemoveElement
    <3>4. QED
      BY <3>1, <3>3
  <2>14. Cardinality(Owed') <= Cardinality(Owed) - 1
    BY <2>12, <2>13, FS_Subset
  <2> QED BY <2>5, <2>14, <1>3
<1>8. ASSUME NEW p \in Procs,
             WriteLog(p) \/ WriteHead(p) \/ Install(p) \/ Erase(p) \/ EndCommit(p)
      PROVE  Open' = {}
  <2>1. pc[p] \in Stages
    BY <1>8 DEF WriteLog, WriteHead, Install, Erase, EndCommit, Stages
  <2>2. outstanding = 0 /\ outstanding' = outstanding
    BY <1>8, <2>1, CommitAlone
       DEF WriteLog, WriteHead, Install, Erase, EndCommit, log
  <2>3. Cardinality(Open') = 0
    BY <2>2 DEF Inductive, Sleepers
  <2> QED BY <2>3, OwedIsFinite, OwedTypes, FS_EmptySet
<1>9. ASSUME NEW p \in Procs, EndOp(p) \/ Call(p) \/ BeginSleep(p)
      PROVE  Len(lh') + Cardinality(Owed') <= LogBlocks
  <2>1. UNCHANGED lh /\ Open' \subseteq Open /\ \A q \in Open' : wrote'[q] = wrote[q]
    <3>1. CASE EndOp(p)
      BY <3>1 DEF EndOp, Wakeup, Open, Inductive, TypeOK
    <3>2. CASE Call(p) \/ BeginSleep(p)
      BY <3>2 DEF Call, BeginSleep, Open, log, Inductive, TypeOK
    <3> QED BY <1>9, <3>1, <3>2
  <2> QED BY <2>1, <1>5
<1>10. ASSUME NEW p \in Procs, LogWrite(p), InSeq(hand[p], lh)
       PROVE  Len(lh') + Cardinality(Owed') <= LogBlocks
  <2>1. UNCHANGED lh /\ Open' \subseteq Open /\ wrote' = wrote
    BY <1>10 DEF LogWrite, Open, Inductive, TypeOK
  <2> QED BY <2>1, <1>5
<1>11. ASSUME NEW p \in Procs, NEW b \in Blocks, NEW v \in Values, Modify(p, b, v)
       PROVE  Len(lh') + Cardinality(Owed') <= LogBlocks
  <2>1. UNCHANGED lh /\ Open' \subseteq Open /\ \A q \in Open' : wrote[q] \subseteq wrote'[q]
    BY <1>11 DEF Modify, Open, log, Inductive, TypeOK
  <2> QED BY <2>1, <1>5
<1>12. ASSUME NEW b \in Blocks, Read(b) \/ Recycle(b)
       PROVE  Len(lh') + Cardinality(Owed') <= LogBlocks
  <2>1. UNCHANGED lh /\ Open' \subseteq Open /\ wrote' = wrote
    BY <1>12 DEF Read, Recycle, Open, log, procs
  <2> QED BY <2>1, <1>5
<1>13. CASE ReadHead \/ RecoverInstall \/ RecoverErase \/ Crash
  <2>1. \A p \in Procs : pc'[p] = "user"
    BY <1>13 DEF ReadHead, RecoverInstall, RecoverErase, Crash, Off, procs, Inductive, Quiet
  <2> QED BY <2>1, <1>4 DEF Open
<1> QED BY <1>4, <1>6, <1>7, <1>8, <1>9, <1>10, <1>11, <1>12, <1>13 DEF Next, Kernel

LEMMA AlwaysReserved == Spec => []Reserved
<1>1. Init => Reserved
  <2> SUFFICES ASSUME Init PROVE Reserved
    OBVIOUS
  <2>1. \A p \in Procs : wrote[p] = {} /\ pc[p] = "user"
    BY DEF Init, Off
  <2>2. Open = {} /\ Len(lh) = 0
    BY <2>1, NoEntries DEF Open, Init, Off
  <2>3. Cardinality(Owed) = 0
    BY <2>2, OwedIsFinite, OwedTypes
  <2>4. CallsAreSmall
    BY <2>1, FS_EmptySet, LogAssumption DEF CallsAreSmall
  <2> QED BY <2>2, <2>3, <2>4, LogAssumption DEF Reserved
<1>2. Inductive /\ Inductive' /\ Reserved /\ [Next]_vars => Reserved'
  BY ReservedStep
<1> QED BY <1>1, <1>2, AlwaysInductive, PTL DEF Spec

\* Calls that write fewer blocks than begin_op reserves fit into the log, however many run
\* at once (kernel/log.c:134): log_write and end_op reach none of their panics
\* (lines 155, 222, 224), commits run alone, a buffer with a change that is not home is
\* pinned once, and a process in begin_op has somebody to wake it.  With OpBlocks equal to
\* MaxOpBlocks a call that changes a block again when the log is full panics.
THEOREM CallsFitIntoTheLog == OpBlocks < MaxOpBlocks => (Spec => []LogConsistent)
<1> SUFFICES ASSUME OpBlocks < MaxOpBlocks PROVE Spec => []LogConsistent
  OBVIOUS
<1>1. Inductive /\ Reserved => LogConsistent
  <2> SUFFICES ASSUME Inductive, Reserved PROVE LogConsistent
    OBVIOUS
  <2>1. LogWriteNeverPanics
    <3> SUFFICES ASSUME NEW p \in Procs, pc[p] = "modified"
                 PROVE  Len(lh) < LogBlocks /\ outstanding >= 1
      BY LogAssumption DEF LogWriteNeverPanics, LogWritePanics, Inductive, TypeOK
    <3>1. p \in Open
      BY DEF Open
    <3>2. outstanding >= 1
      BY <3>1, OpenIsFinite DEF Inductive, Sleepers
    <3>3. Cardinality(Logged(p)) < MaxOpBlocks
      BY LoggedIsFinite, LogAssumption DEF Reserved
    <3>4. <<p, MaxOpBlocks>> \in Owed
      BY <3>1, <3>3, LogAssumption DEF Owed
    <3>5. Cardinality(Owed) \in Nat \ {0}
      BY <3>4, OwedIsFinite, OwedTypes, FS_EmptySet
    <3> QED BY <3>2, <3>5, LogAssumption DEF Reserved, Inductive, TypeOK
  <2>2. CommitExcludesCalls
    <3> DEFINE C == {p \in Procs : pc[p] \in {"write_log", "write_head", "install",
                                               "erase", "end_commit"}}
    <3>1. C = {p \in Procs : pc[p] \in Stages}
      BY DEF Stages
    <3>2. committing => \E p : C = {p}
      BY <3>1 DEF Inductive, OneCommitter
    <3>3. ~committing => C = {}
      BY <3>1 DEF Inductive, OneCommitter
    <3>4. Cardinality(C) = IF committing THEN 1 ELSE 0
      BY <3>2, <3>3, FS_Singleton, FS_EmptySet
    <3> QED BY <3>4 DEF CommitExcludesCalls, Inductive, Sleepers, Open, OneCommitter
  <2>3. DirtyIsPinned
    BY DEF DirtyIsPinned, Inductive, PinsAreEntries, InLog, Cached
  <2> QED BY <2>1, <2>2, <2>3 DEF LogConsistent, Inductive, Sleepers
<1> QED BY <1>1, AlwaysInductive, AlwaysReserved, PTL

-----------------------------------------------------------------------------
(* Log implements AtomicDisk: each step of the code is a step of the       *)
(* promise or changes nothing that the promise speaks of.                  *)

\* What the file system sees, as ImplementsAtomicDisk defines it.
Mem == IF boot = "up" THEN Logical ELSE Recovered

Kept == UNCHANGED <<Mem, Recovered, Open>>

LEMMA PromiseVars ==
    /\ Promise!Init <=> /\ Mem = [b \in Blocks |-> Zero] /\ Recovered = Mem /\ Open = {}
    /\ \A p \in Procs :
        /\ p \notin Open /\ Open' = Open \cup {p} /\ UNCHANGED <<Mem, Recovered>>
              => Promise!Begin(p)
        /\ p \in Open /\ Open' = Open \ {p} /\ UNCHANGED <<Mem, Recovered>>
              => Promise!End(p)
        /\ \A b \in Blocks : \A v \in Values :
              p \in Open /\ Mem' = [Mem EXCEPT ![b] = v] /\ UNCHANGED <<Recovered, Open>>
                  => Promise!Write(p, b, v)
    /\ Open = {} /\ Recovered' = Mem /\ UNCHANGED <<Mem, Open>> => Promise!Commit
    /\ Mem' = Recovered /\ Open' = {} /\ UNCHANGED Recovered => Promise!Crash
<1> USE DEF Mem, Open
<1> QED BY DEF Promise!Init, Promise!Begin, Promise!End, Promise!Write, Promise!Commit, Promise!Crash

ReadBack(H, D, M) ==
    [b \in Blocks |-> IF InSeq(b, H) THEN D[CHOOSE i \in DOMAIN H : H[i] = b] ELSE M[b]]

\* A block of the header is read from the log, another one at home.
LEMMA RecoverFacts ==
    ASSUME NEW H, NEW D, NEW M, \A i, j \in DOMAIN H : H[i] = H[j] => i = j
    PROVE  /\ \A i \in DOMAIN H : H[i] \in Blocks => ReadBack(H, D, M)[H[i]] = D[i]
           /\ \A b \in Blocks : ~InSeq(b, H) => ReadBack(H, D, M)[b] = M[b]
           /\ ReadBack(H, D, M) = [b \in Blocks |-> ReadBack(H, D, M)[b]]
<1>1. ASSUME NEW i \in DOMAIN H, H[i] \in Blocks
      PROVE  ReadBack(H, D, M)[H[i]] = D[i]
  <2>1. InSeq(H[i], H)
    BY DEF InSeq
  <2>2. (CHOOSE j \in DOMAIN H : H[j] = H[i]) = i
    OBVIOUS
  <2> QED BY <1>1, <2>1, <2>2 DEF ReadBack
<1> QED BY <1>1 DEF ReadBack

LEMMA RecoveredIs ==
    ASSUME Inductive
    PROVE  /\ \A i \in DOMAIN header : header[i] \in Blocks /\ Recovered[header[i]] = logdata[i]
           /\ \A b \in Blocks : ~InSeq(b, header) => Recovered[b] = home[b]
           /\ Recovered = [b \in Blocks |-> Recovered[b]]
<1>1. \A i \in DOMAIN header : header[i] \in Blocks
  BY DEF Inductive, TypeOK
<1>2. \A i, j \in DOMAIN header : header[i] = header[j] => i = j
  BY DEF Inductive, Entries
<1>3. Recovered = ReadBack(header, logdata, home)
  BY DEF Recovered, ReadBack
<1>4. /\ \A i \in DOMAIN header : header[i] \in Blocks => Recovered[header[i]] = logdata[i]
      /\ \A b \in Blocks : ~InSeq(b, header) => Recovered[b] = home[b]
      /\ Recovered = [b \in Blocks |-> Recovered[b]]
  BY <1>2, <1>3, RecoverFacts
<1> QED BY <1>1, <1>4

\* Where all blocks of the header are home the log makes no difference.
LEMMA RecoveredIsHome ==
    ASSUME Inductive, \A i \in DOMAIN header : logdata[i] = home[header[i]]
    PROVE  Recovered = home
<1>1. \A b \in Blocks : Recovered[b] = home[b]
  BY RecoveredIs DEF InSeq
<1>2. home = [b \in Blocks |-> home[b]] /\ Recovered = [b \in Blocks |-> Recovered[b]]
  BY RecoveredIs DEF Inductive, TypeOK
<1> QED BY <1>1, <1>2

LEMMA KeptDisk ==
    /\ UNCHANGED disk => Recovered' = Recovered
    /\ UNCHANGED <<home, cache>> => Logical' = Logical
BY DEF disk, Recovered, InSeq, Logical

-----------------------------------------------------------------------------
LEMMA CallKeeps ==
    ASSUME Inductive, NEW p \in Procs, Call(p) \/ BeginSleep(p) \/ LogWrite(p) \/ EndCommit(p)
    PROVE  Kept
<1>1. UNCHANGED <<disk, cache, boot>> /\ UNCHANGED <<home, cache>>
  BY DEF Call, BeginSleep, LogWrite, EndCommit, bcache, disk
<1>2. Open' = Open
  <2>1. CASE EndCommit(p)
    BY <2>1 DEF EndCommit, Wakeup, Open, Inductive, TypeOK
  <2>2. CASE LogWrite(p)
    BY <2>2 DEF LogWrite, Open, Inductive, TypeOK
  <2>3. CASE Call(p) \/ BeginSleep(p)
    BY <2>3 DEF Call, BeginSleep, Open, Inductive, TypeOK
  <2> QED BY <2>1, <2>2, <2>3
<1> QED BY <1>1, <1>2, KeptDisk DEF Kept, Mem

LEMMA BeginRefines ==
    ASSUME Inductive, NEW p \in Procs, BeginOp(p)
    PROVE  Promise!Begin(p)
<1>1. UNCHANGED <<disk, cache, boot>> /\ UNCHANGED <<home, cache>>
  BY DEF BeginOp, bcache, disk
<1>2. p \notin Open /\ Open' = Open \cup {p}
  BY DEF BeginOp, Open, Inductive, TypeOK
<1>3. UNCHANGED <<Mem, Recovered>>
  BY <1>1, KeptDisk DEF Mem
<1> QED BY <1>2, <1>3, PromiseVars

LEMMA EndRefines ==
    ASSUME Inductive, NEW p \in Procs, EndOp(p)
    PROVE  Promise!End(p)
<1>1. UNCHANGED <<disk, cache, boot>> /\ UNCHANGED <<home, cache>>
  BY DEF EndOp, bcache, disk
<1>2. p \in Open /\ Open' = Open \ {p}
  BY DEF EndOp, Wakeup, Open, Inductive, TypeOK
<1>3. UNCHANGED <<Mem, Recovered>>
  BY <1>1, KeptDisk DEF Mem
<1> QED BY <1>2, <1>3, PromiseVars

LEMMA ModifyRefines ==
    ASSUME Inductive, NEW p \in Procs, NEW b \in Blocks, NEW v \in Values, Modify(p, b, v)
    PROVE  Promise!Write(p, b, v)
<1>1. p \in Open /\ Open' = Open
  BY DEF Modify, Open, Inductive, TypeOK
<1>2. boot = "up" /\ boot' = "up" /\ UNCHANGED disk /\ cache' = [cache EXCEPT ![b] = v]
  BY <1>1 DEF Modify, Inductive, Quiet, Open
<1>3. \A a \in Blocks : cache'[a] = IF a = b THEN v ELSE cache[a]
  BY <1>2 DEF Inductive, TypeOK
<1>4. v # NotCached
  BY LogAssumption
<1>5. Logical' = [Logical EXCEPT ![b] = v]
  BY <1>2, <1>3, <1>4 DEF Logical, disk
<1>6. Mem' = [Mem EXCEPT ![b] = v]
  BY <1>2, <1>5 DEF Mem
<1>7. UNCHANGED Recovered
  BY <1>2, KeptDisk
<1> QED BY <1>1, <1>6, <1>7, PromiseVars

\* The log blocks are not read before the header names them.
LEMMA WriteLogKeeps ==
    ASSUME Inductive, Inductive', NEW p \in Procs, WriteLog(p)
    PROVE  Kept
<1>1. UNCHANGED <<home, header, cache, pins, owner, boot>>
  BY WriteLogStep
<1>2. /\ pc[p] = "write_log" /\ boot = "up" /\ Open = {}
      /\ \A q \in Procs : q # p => pc[q] \in {"user", "begin", "sleep"}
  BY CommitAlone DEF WriteLog, Stages
<1>3. header = <<>>
  BY <1>2 DEF Inductive, Entries
<1>4. Recovered = home /\ Recovered' = home'
  <2>1. \A b \in Blocks : ~InSeq(b, header) /\ ~InSeq(b, header')
    BY <1>1, <1>3 DEF InSeq
  <2> QED BY <2>1, <1>1 DEF Recovered, Inductive, TypeOK
<1>5. Open' = Open
  BY <1>2 DEF WriteLog, Open, Inductive, TypeOK
<1> QED BY <1>1, <1>4, <1>5, KeptDisk DEF Kept, Mem

\* The one write that commits.
LEMMA WriteHeadRefines ==
    ASSUME Inductive, Inductive', NEW p \in Procs, WriteHead(p)
    PROVE  Promise!Commit
<1>1. /\ pc[p] = "write_head" /\ boot = "up" /\ Open = {}
      /\ \A q \in Procs : q # p => pc[q] \in {"user", "begin", "sleep"}
      /\ \A b \in Blocks : owner[b] = Nobody
  BY CommitAlone DEF WriteHead, Stages
<1>2. header' = lh /\ UNCHANGED <<home, logdata, cache, boot, lh, pins>>
  BY DEF WriteHead, log, bcache
<1>3. Open' = Open
  BY <1>1 DEF WriteHead, Open, Inductive, TypeOK
<1>4. \A i \in DOMAIN lh : lh[i] \in Blocks /\ logdata[i] = cache[lh[i]]
  BY <1>1, EntryIsBlock DEF Inductive, Copies
<1>5. \A b \in Blocks : InLog(b) <=> InSeq(b, lh)
  BY <1>1 DEF InLog, InSeq
<1>6. \A b \in Blocks : /\ InSeq(b, lh) => cache[b] # NotCached
                        /\ ~InSeq(b, lh) => cache[b] \in {NotCached, home[b]}
  BY <1>1, <1>5 DEF Inductive, PinsAreEntries, Cached
<1>7. /\ \A i \in DOMAIN lh : Recovered'[lh[i]] = logdata[i]
      /\ \A b \in Blocks : ~InSeq(b, lh) => Recovered'[b] = home[b]
      /\ Recovered' = [b \in Blocks |-> Recovered'[b]]
  <2>1. Recovered' = ReadBack(lh, logdata, home)
    BY <1>2 DEF Recovered, ReadBack, InSeq
  <2>2. \A i, j \in DOMAIN lh : lh[i] = lh[j] => i = j
    BY DEF Inductive, Entries
  <2> QED BY <2>1, <2>2, <1>4, RecoverFacts
<1>8. \A b \in Blocks : Recovered'[b] = Logical[b]
  BY <1>4, <1>6, <1>7 DEF InSeq, Logical
<1>9. Logical = [b \in Blocks |-> Logical[b]]
  BY DEF Logical
<1>10. Recovered' = Mem
  BY <1>1, <1>7, <1>8, <1>9 DEF Mem
<1>11. Mem' = Mem
  BY <1>1, <1>2, KeptDisk DEF Mem
<1> QED BY <1>1, <1>3, <1>10, <1>11, PromiseVars

\* A block that goes home is the one that the cache and the log hold.
LEMMA InstallKeeps ==
    ASSUME Inductive, Inductive', NEW p \in Procs, Install(p)
    PROVE  Kept
<1>1. PICK i \in DOMAIN lh : /\ cache[lh[i]] = logdata[i] /\ lh[i] \in Blocks
                             /\ cache[lh[i]] # NotCached
                             /\ home' = [home EXCEPT ![lh[i]] = logdata[i]]
                             /\ cache' = cache
  BY InstallStep
<1>2. UNCHANGED <<logdata, header, boot>> /\ header = lh /\ boot = "up"
  BY InstallStep
<1>3. \A b \in Blocks : home'[b] = IF b = lh[i] THEN logdata[i] ELSE home[b]
  BY <1>1 DEF Inductive, TypeOK
<1>4. Logical' = Logical
  BY <1>1, <1>3 DEF Logical
<1>5. \A b \in Blocks : InSeq(b, header)' = InSeq(b, header) /\ (b = lh[i] => InSeq(b, header))
  BY <1>1, <1>2 DEF InSeq
<1>6. Recovered' = Recovered
  BY <1>2, <1>3, <1>5 DEF Recovered
<1>7. Open = {} /\ pc[p] = "install"
  BY CommitAlone DEF Install, Stages
<1>8. Open' = Open
  BY <1>7 DEF Install, Open, Inductive, TypeOK
<1> QED BY <1>2, <1>4, <1>6, <1>8 DEF Kept, Mem

LEMMA EraseKeeps ==
    ASSUME Inductive, Inductive', NEW p \in Procs, Erase(p)
    PROVE  Kept
<1>1. /\ pc[p] = "erase" /\ boot = "up" /\ Open = {}
  BY CommitAlone DEF Erase, Stages
<1>2. lh = <<>> /\ header' = <<>> /\ UNCHANGED <<home, logdata, cache, boot>>
  BY <1>1 DEF Erase, log, bcache, Inductive, Entries
<1>3. Recovered = home
  BY <1>1, RecoveredIsHome DEF Inductive, Copies
<1>4. Recovered' = home'
  <2>1. \A b \in Blocks : ~InSeq(b, header')
    BY <1>2 DEF InSeq
  <2> QED BY <2>1 DEF Recovered, Inductive, TypeOK
<1>5. Open' = Open
  BY <1>1 DEF Erase, Open, Inductive, TypeOK
<1> QED BY <1>2, <1>3, <1>4, <1>5, KeptDisk DEF Kept, Mem

\* bread and the recycling of buffers are not seen.
LEMMA CacheKeeps ==
    ASSUME Inductive, NEW b \in Blocks, Read(b) \/ Recycle(b)
    PROVE  Kept
<1>1. UNCHANGED <<disk, procs, boot>>
  BY DEF Read, Recycle
<1>2. /\ cache' = [cache EXCEPT ![b] = cache'[b]]
      /\ cache[b] \in {NotCached, home[b]} /\ cache'[b] \in {NotCached, home[b]}
  BY CacheStep
<1>3. \A a \in Blocks : a # b => cache'[a] = cache[a]
  BY <1>2 DEF Inductive, TypeOK
<1>4. Logical' = Logical
  BY <1>1, <1>2, <1>3 DEF Logical, disk
<1>5. Open' = Open
  BY <1>1 DEF procs, Open
<1> QED BY <1>1, <1>4, <1>5, KeptDisk DEF Kept, Mem

\* Recovery leaves what it finds committed.
LEMMA BootKeeps ==
    ASSUME Inductive, Inductive', ReadHead \/ RecoverInstall \/ RecoverErase
    PROVE  Kept
<1>1. boot # "up" /\ UNCHANGED <<logdata, pc>>
  BY DEF ReadHead, RecoverInstall, RecoverErase, disk, procs
<1>2. Open' = Open
  BY <1>1 DEF Open
<1>3. CASE ReadHead
  BY <1>1, <1>2, <1>3, KeptDisk DEF ReadHead, Kept, Mem
<1>4. CASE RecoverInstall
  <2>1. boot' # "up" /\ UNCHANGED header
    BY <1>4 DEF RecoverInstall
  <2>2. Recovered' = Recovered
    <3>1. CASE UNCHANGED home
      BY <3>1, <2>1, <1>1, KeptDisk DEF disk
    <3>2. CASE ~UNCHANGED home
      <4> DEFINE i == tail[FirstProc] + 1
      <4>1. /\ i <= Len(lh) /\ home' = [home EXCEPT ![lh[i]] = logdata[i]] /\ lh = header
        BY <3>2, <1>4 DEF RecoverInstall, Inductive, Quiet
      <4>2. i \in DOMAIN lh /\ lh[i] \in Blocks
        BY <4>1, FirstProcIsThere DEF Inductive, TypeOK
      <4>3. \A b \in Blocks : home'[b] = IF b = lh[i] THEN logdata[i] ELSE home[b]
        BY <4>1 DEF Inductive, TypeOK
      <4>4. \A b \in Blocks : InSeq(b, header)' = InSeq(b, header) /\ (b = lh[i] => InSeq(b, header))
        BY <4>1, <4>2, <2>1 DEF InSeq
      <4> QED BY <4>3, <4>4, <2>1, <1>1 DEF Recovered
    <3> QED BY <3>1, <3>2
  <2> QED BY <2>1, <2>2, <1>1, <1>2 DEF Kept, Mem
<1>5. CASE RecoverErase
  <2>1. /\ boot = "erase" /\ boot' = "up" /\ lh = <<>> /\ header' = <<>>
        /\ UNCHANGED <<home, cache>>
    BY <1>5 DEF RecoverErase, Inductive, Quiet, bcache
  <2>2. Recovered = home
    BY <2>1, RecoveredIsHome DEF Inductive, Copies
  <2>3. Recovered' = home'
    <3>1. \A b \in Blocks : ~InSeq(b, header')
      BY <2>1 DEF InSeq
    <3> QED BY <3>1 DEF Recovered, Inductive, TypeOK
  <2>4. Logical' = home'
    <3>1. \A b \in Blocks : cache'[b] \in {NotCached, home[b]}
      BY <1>1, <2>1 DEF Inductive, Quiet, Cached
    <3> QED BY <3>1, <2>1 DEF Logical, Inductive, TypeOK
  <2> QED BY <2>1, <2>2, <2>3, <2>4, <1>1, <1>2 DEF Kept, Mem
<1> QED BY <1>3, <1>4, <1>5

LEMMA CrashRefines == ASSUME Inductive, Crash PROVE Promise!Crash
<1>1. UNCHANGED disk /\ boot' # "up" /\ Open' = {}
  BY DEF Crash, Off, Open
<1>2. UNCHANGED Recovered
  BY <1>1, KeptDisk
<1> QED BY <1>1, <1>2, PromiseVars DEF Mem

-----------------------------------------------------------------------------
LEMMA InitRefines == Init => Promise!Init
<1> SUFFICES ASSUME Init PROVE Promise!Init
  OBVIOUS
<1>1. boot # "up" /\ Open = {} /\ header = <<>> /\ home = [b \in Blocks |-> Zero]
  BY DEF Init, Off, Open
<1>2. Recovered = home
  BY <1>1 DEF Recovered, InSeq
<1> QED BY <1>1, <1>2, PromiseVars DEF Mem

LEMMA StepRefines ==
    Inductive /\ Inductive' /\ [Next]_vars => Promise!Next \/ Kept
<1> SUFFICES ASSUME Inductive, Inductive', [Next]_vars PROVE Promise!Next \/ Kept
  OBVIOUS
<1>1. CASE UNCHANGED vars
  BY <1>1, KeptDisk DEF vars, disk, bcache, procs, Kept, Mem, Open
<1>2. CASE Crash
  BY <1>2, CrashRefines DEF Promise!Next
<1>3. CASE ReadHead \/ RecoverInstall \/ RecoverErase
  BY <1>3, BootKeeps
<1>4. ASSUME NEW p \in Procs, Kernel(p) \/ Call(p)
      PROVE  Promise!Next \/ Kept
  BY <1>4, CallKeeps, BeginRefines, EndRefines, WriteLogKeeps, WriteHeadRefines, InstallKeeps,
     EraseKeeps DEF Kernel, Promise!Next
<1>5. ASSUME NEW p \in Procs, NEW b \in Blocks, NEW v \in Values, Modify(p, b, v)
      PROVE  Promise!Next
  BY <1>5, ModifyRefines DEF Promise!Next
<1>6. CASE \E b \in Blocks : Read(b) \/ Recycle(b)
  BY <1>6, CacheKeeps
<1> QED BY <1>1, <1>2, <1>3, <1>4, <1>5, <1>6 DEF Next

\* FS system calls are atomic with respect to crashes (kernel/log.c:10): the header write
\* commits what all calls before it did, a crash leaves what was committed last, and
\* nothing else that the log, the cache and recovery do is seen.
THEOREM CallsAreAtomic == Spec => ImplementsAtomicDisk
<1>1. Inductive /\ Inductive' /\ [Next]_vars
        => [Promise!Next]_<<Mem, Recovered, Open>>
  BY StepRefines DEF Kept
<1>2. Promise!Spec <=> Promise!Init /\ [][Promise!Next]_<<Mem, Recovered, Open>>
  BY DEF Promise!Spec, Mem, Open
<1> QED BY <1>1, <1>2, InitRefines, AlwaysInductive, PTL DEF Spec, ImplementsAtomicDisk
=============================================================================

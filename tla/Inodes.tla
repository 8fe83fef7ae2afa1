------------------------------- MODULE Inodes --------------------------------
(***************************************************************************)
(* Inodes, directories and path names of xv6 (kernel/fs.c) under the       *)
(* system calls that change them (kernel/sysfile.c): open, create, mkdir,  *)
(* link, unlink, chdir and close, by processes that run together, with     *)
(* crashes.                                                                *)
(*                                                                         *)
(* Grain: one action per critical section under itable.lock, and one from  *)
(* the ilock of an inode to its iunlock unless another inode is locked or  *)
(* put in between.  The contents of files, the blocks and the log are left *)
(* out: a call is in one transaction, which the log keeps together.        *)
(***************************************************************************)
EXTENDS Integers, Sequences, FiniteSets

CONSTANTS
    Procs, Nobody,
    NINODE,         \* in-memory inodes
    Inums, Root,    \* the inodes of the disk, and ROOTINO among them
    Names, DotDot,  \* names of directory entries; DotDot is ".."
    Workloads       \* calls: what each process may call; left: how many calls it makes;
                    \* crashes; full: how often the disk has no block for an entry

NoInum == 0

\* new is the second path of link; inum is where ialloc is on the disk, at first nowhere.
Calls == [op : {"open", "create", "mkdir", "link", "unlink", "chdir", "close"},
          absolute : BOOLEAN, path : Seq(Names), new : Seq(Names), inum : Inums \cup {NoInum}]

ASSUME InodesAssumption ==
    /\ IsFiniteSet(Procs) /\ Nobody \notin Procs
    /\ NINODE \in Nat \ {0} /\ Inums \subseteq Nat \ {0} /\ IsFiniteSet(Inums) /\ Root \in Inums
    /\ IsFiniteSet(Names) /\ DotDot \in Names
    /\ Workloads \subseteq [calls : [Procs -> SUBSET {c \in Calls : c.inum = NoInum}],
                            left : [Procs -> Nat], crashes : Nat, full : Nat]

Slots == 1..NINODE
NoSlot == 0

VARIABLES
    dinode,   \* the inodes on the disk, with their directory entries
    inode,    \* itable.inode
    lock,     \* the holder of ip->lock
    cwd,      \* p->cwd
    file,     \* the inode of the file that a process has open
    pc, call, \* the next step of a process, and its call
    ip, dp,   \* its inode pointers,
    path,     \* and what is left of the path
    puts,     \* the inodes that it has to iput before it goes on
    freeing,  \* how far iput is in freeing an inode
    load      \* what is left of the workload

disk == <<dinode>>
memory == <<inode, lock>>
local == <<pc, call, ip, dp, path>>
vars == <<disk, memory, local, cwd, file, puts, freeing, load>>

Types == {"FREE", "DIR", "FILE"}
Empty == [n \in Names |-> NoInum]
Slot(s) == s \in Slots \cup {NoSlot}

TypeOK ==
    /\ dinode \in [Inums -> [type : Types, nlink : Nat, entries : [Names -> Inums \cup {NoInum}]]]
    /\ inode \in [Slots -> [ref : Nat, inum : Inums \cup {NoInum}, valid : BOOLEAN,
                            type : Types, nlink : Nat]]
    /\ lock \in [Slots -> Procs \cup {Nobody}]
    /\ \A p \in Procs : /\ Slot(cwd[p]) /\ Slot(file[p]) /\ Slot(ip[p]) /\ Slot(dp[p])
                        /\ path[p] \in Seq(Names) /\ puts[p] \in Seq(Slots)
                        /\ freeing[p] \in {"no", "trunc", "unlock", "drop"}

\* userinit and kfork: the working directory of every process is "/".
FreeInode == [type |-> "FREE", nlink |-> 0, entries |-> Empty]
NoInode == [ref |-> 0, inum |-> NoInum, valid |-> FALSE, type |-> "FREE", nlink |-> 0]

Booted ==
    /\ inode' = [s \in Slots |-> IF s = 1 THEN [NoInode EXCEPT !.ref = Cardinality(Procs), !.inum = Root]
                                 ELSE NoInode]
    /\ cwd' = [p \in Procs |-> 1]
    /\ file' = [p \in Procs |-> NoSlot]
    /\ UNCHANGED <<lock, local, puts, freeing>>

Init ==
    \E w \in Workloads :
        /\ load = w
        /\ dinode = [i \in Inums |->
                        IF i = Root THEN [type |-> "DIR", nlink |-> 1,
                                          entries |-> [Empty EXCEPT ![DotDot] = Root]]
                        ELSE FreeInode]
        /\ inode = [s \in Slots |->
                        IF s = 1 THEN [NoInode EXCEPT !.ref = Cardinality(Procs), !.inum = Root]
                        ELSE NoInode]
        /\ lock = [s \in Slots |-> Nobody]
        /\ cwd = [p \in Procs |-> 1]
        /\ file = [p \in Procs |-> NoSlot]
        /\ pc = [p \in Procs |-> "user"]
        /\ call = [p \in Procs |-> [op |-> "none"]]
        /\ ip = [p \in Procs |-> NoSlot]
        /\ dp = ip
        /\ path = [p \in Procs |-> <<>>]
        /\ puts = path
        /\ freeing = [p \in Procs |-> "no"]

-----------------------------------------------------------------------------
(* The table.                                                              *)

Cached(i) == {s \in Slots : inode[s].ref > 0 /\ inode[s].inum = i}
Unused == {s \in Slots : inode[s].ref = 0}
Least(S) == CHOOSE s \in S : \A t \in S : s <= t

\* iget: the slot it returns, and what it makes of a table.
SlotOf(i) == Least(IF Cached(i) # {} THEN Cached(i) ELSE Unused)
CanGet(i) == Cached(i) \cup Unused # {}      \* else "iget: no inodes"
Iget(table, i) ==
    IF Cached(i) # {} THEN [table EXCEPT ![SlotOf(i)].ref = @ + 1]
    ELSE [table EXCEPT ![SlotOf(i)] = [@ EXCEPT !.ref = 1, !.inum = i, !.valid = FALSE]]

\* ilock finds the inode unlocked, and reads it if it must.
Disk(s) == dinode[inode[s].inum]
NoType(s) == ~inode[s].valid /\ Disk(s).type = "FREE"    \* "ilock: no type"
MayLock(s) == lock[s] = Nobody /\ ~NoType(s)
Filled(s) ==
    IF inode[s].valid THEN inode[s]
    ELSE [inode[s] EXCEPT !.valid = TRUE, !.type = Disk(s).type, !.nlink = Disk(s).nlink]
Read(s) == [inode EXCEPT ![s] = Filled(s)]

\* A change of nlink and iupdate.
Relink(table, s, d) == [table EXCEPT ![s].nlink = @ + d]
Updated(s, d) == [dinode EXCEPT ![inode[s].inum].nlink = Filled(s).nlink + d,
                                ![inode[s].inum].type = Filled(s).type]

-----------------------------------------------------------------------------
(* iput.                                                                   *)

\* An iput that does not look whether other references are left.
LastPutShared(s) == inode[s].valid /\ inode[s].nlink = 0

LastPut(s) == inode[s].ref = 1 /\ inode[s].valid /\ inode[s].nlink = 0

IputDrop(p) ==
    LET s == Head(puts[p]) IN
    /\ puts[p] # <<>> /\ freeing[p] = "no" /\ ~LastPut(s)
    /\ inode' = [inode EXCEPT ![s].ref = @ - 1]
    /\ puts' = [puts EXCEPT ![p] = Tail(@)]
    /\ UNCHANGED <<disk, lock, local, cwd, file, freeing, load>>

IputLast(p) ==
    LET s == Head(puts[p]) IN
    /\ puts[p] # <<>> /\ freeing[p] = "no" /\ LastPut(s)
    /\ lock[s] = Nobody
    /\ lock' = [lock EXCEPT ![s] = p]
    /\ freeing' = [freeing EXCEPT ![p] = "trunc"]
    /\ UNCHANGED <<disk, inode, local, cwd, file, puts, load>>

\* itrunc, and type 0 on the disk
IputTrunc(p) ==
    LET s == Head(puts[p]) IN
    /\ freeing[p] = "trunc"
    /\ inode' = [inode EXCEPT ![s].type = "FREE"]
    /\ dinode' = [dinode EXCEPT ![inode[s].inum] = FreeInode]
    /\ freeing' = [freeing EXCEPT ![p] = "unlock"]
    /\ UNCHANGED <<lock, local, cwd, file, puts, load>>

\* An iput that leaves the freed inode valid in the table.
IputUnlockValid(p) ==
    LET s == Head(puts[p]) IN
    /\ freeing[p] = "unlock"
    /\ lock' = [lock EXCEPT ![s] = Nobody]
    /\ freeing' = [freeing EXCEPT ![p] = "drop"]
    /\ UNCHANGED <<disk, inode, local, cwd, file, puts, load>>

IputUnlock(p) ==
    LET s == Head(puts[p]) IN
    /\ freeing[p] = "unlock"
    /\ inode' = [inode EXCEPT ![s].valid = FALSE]
    /\ lock' = [lock EXCEPT ![s] = Nobody]
    /\ freeing' = [freeing EXCEPT ![p] = "drop"]
    /\ UNCHANGED <<disk, local, cwd, file, puts, load>>

IputEnd(p) ==
    LET s == Head(puts[p]) IN
    /\ freeing[p] = "drop"
    /\ inode' = [inode EXCEPT ![s].ref = @ - 1]
    /\ freeing' = [freeing EXCEPT ![p] = "no"]
    /\ puts' = [puts EXCEPT ![p] = Tail(@)]
    /\ UNCHANGED <<disk, lock, local, cwd, file, load>>

Iput(p) == IputDrop(p) \/ IputLast(p) \/ IputTrunc(p) \/ IputUnlock(p) \/ IputEnd(p)

-----------------------------------------------------------------------------
(* Steps of a call.  Its pointers are references until they are put.       *)

Ready(p, step) == pc[p] = step /\ puts[p] = <<>>

Goto(p, step) == pc' = [pc EXCEPT ![p] = step]
Put(p, slots) == puts' = [puts EXCEPT ![p] = slots]

\* The pointers of the process from here on.
Points(p, i, d) ==
    /\ ip' = [ip EXCEPT ![p] = i]
    /\ dp' = [dp EXCEPT ![p] = d]

Return(p, slots) ==
    /\ Goto(p, "user") /\ Points(p, NoSlot, NoSlot) /\ Put(p, slots)
    /\ path' = [path EXCEPT ![p] = <<>>]
    /\ UNCHANGED call

\* The calls that look for the parent of the last name.
OfParent(p) == call[p].op \in {"create", "mkdir", "unlink"} \/ pc[p] = "walknew"

\* namex starts at the root or at the working directory.
From(c, p) == IF c.absolute THEN Root ELSE inode[cwd[p]].inum

Start(p, c) ==
    /\ Ready(p, "user") /\ load.left[p] > 0 /\ c.op # "close"
    /\ CanGet(From(c, p))
    /\ inode' = Iget(inode, From(c, p))
    /\ Points(p, NoSlot, SlotOf(From(c, p)))
    /\ Goto(p, "walk")
    /\ call' = [call EXCEPT ![p] = c]
    /\ path' = [path EXCEPT ![p] = c.path]
    /\ load' = [load EXCEPT !.left[p] = @ - 1]
    /\ UNCHANGED <<disk, lock, cwd, file, puts, freeing>>

\* What the call goes on with: in dp the parent, or in ip the inode, of the path.
AfterWalk(p) ==
    IF pc[p] = "walknew" THEN "linknew" ELSE call[p].op

\* sys_link cannot give the inode its new name.
FailTo(p) == IF pc[p] = "walknew" THEN "unlinkold" ELSE "user"

\* An iteration of namex: ilock, dirlookup with its iget, iunlockput.
Walk(p) ==
    LET d == dp[p]
        next == Disk(d).entries[Head(path[p])]
    IN
    /\ Ready(p, "walk") \/ Ready(p, "walknew")
    /\ path[p] # <<>> /\ MayLock(d)
    /\ \/ /\ Filled(d).type # "DIR" \/ (next = NoInum /\ ~(OfParent(p) /\ Len(path[p]) = 1))
          /\ inode' = Read(d)
          /\ Goto(p, FailTo(p)) /\ Points(p, ip[p], NoSlot) /\ Put(p, <<d>>)
          /\ path' = [path EXCEPT ![p] = <<>>]
       \/ /\ Filled(d).type = "DIR" /\ OfParent(p) /\ Len(path[p]) = 1
          /\ inode' = Read(d)
          /\ Goto(p, AfterWalk(p))
          /\ UNCHANGED <<ip, dp, path, puts>>
       \/ /\ Filled(d).type = "DIR" /\ ~(OfParent(p) /\ Len(path[p]) = 1)
          /\ next # NoInum /\ CanGet(next)
          /\ inode' = Iget(Read(d), next)
          /\ Points(p, ip[p], SlotOf(next)) /\ Put(p, <<d>>)
          /\ path' = [path EXCEPT ![p] = Tail(@)]
          /\ UNCHANGED pc
    /\ UNCHANGED <<disk, lock, call, cwd, file, freeing, load>>

\* namei has its inode; nameiparent found no last name.
WalkEnd(p) ==
    /\ Ready(p, "walk") \/ Ready(p, "walknew")
    /\ path[p] = <<>>
    /\ \/ /\ ~OfParent(p)
          /\ Points(p, dp[p], NoSlot)
          /\ Goto(p, AfterWalk(p))
          /\ UNCHANGED puts
       \/ /\ OfParent(p)
          /\ Goto(p, FailTo(p)) /\ Points(p, ip[p], NoSlot) /\ Put(p, <<dp[p]>>)
    /\ UNCHANGED <<disk, memory, call, path, cwd, file, freeing, load>>

Name(p) == path[p][1]
Entry(p) == Disk(dp[p]).entries[Name(p)]

\* The rest of sys_open, from ilock on: a descriptor, or iunlockput.
Open(p) ==
    /\ Ready(p, "open") /\ MayLock(ip[p])
    /\ inode' = Read(ip[p])
    /\ \/ /\ file[p] = NoSlot
          /\ file' = [file EXCEPT ![p] = ip[p]]
          /\ Return(p, <<>>)
       \/ /\ file[p] # NoSlot
          /\ Return(p, <<ip[p]>>)
          /\ UNCHANGED file
    /\ UNCHANGED <<disk, lock, cwd, freeing, load>>

Chdir(p) ==
    /\ Ready(p, "chdir") /\ MayLock(ip[p])
    /\ inode' = Read(ip[p])
    /\ IF Filled(ip[p]).type = "DIR"
         THEN cwd' = [cwd EXCEPT ![p] = ip[p]] /\ Return(p, <<cwd[p]>>)
         ELSE UNCHANGED cwd /\ Return(p, <<ip[p]>>)
    /\ UNCHANGED <<disk, lock, file, freeing, load>>

Close(p) ==
    /\ Ready(p, "user") /\ load.left[p] > 0 /\ file[p] # NoSlot
    /\ \E c \in load.calls[p] : c.op = "close"
    /\ load' = [load EXCEPT !.left[p] = @ - 1]
    /\ file' = [file EXCEPT ![p] = NoSlot]
    /\ Put(p, <<file[p]>>)
    /\ UNCHANGED <<disk, memory, local, cwd, freeing>>

-----------------------------------------------------------------------------
(* create, for open with O_CREATE and mkdir.                               *)

NewType(p) == IF call[p].op = "mkdir" THEN "DIR" ELSE "FILE"

Create(p) ==
    /\ Ready(p, "create") \/ Ready(p, "mkdir")
    /\ MayLock(dp[p])
    /\ \/ /\ Entry(p) # NoInum /\ CanGet(Entry(p))
          /\ inode' = Iget(Read(dp[p]), Entry(p))
          /\ Points(p, SlotOf(Entry(p)), NoSlot) /\ Put(p, <<dp[p]>>)
          /\ Goto(p, "exists")
          /\ UNCHANGED lock
       \/ /\ Entry(p) = NoInum
          /\ inode' = Read(dp[p])
          /\ lock' = [lock EXCEPT ![dp[p]] = p]
          /\ Goto(p, "ialloc")
          /\ UNCHANGED <<ip, dp, puts>>
    /\ UNCHANGED <<disk, call, path, cwd, file, freeing, load>>

\* The name exists: open it if it is a file.
Exists(p) ==
    /\ Ready(p, "exists") /\ MayLock(ip[p])
    /\ inode' = Read(ip[p])
    /\ \/ /\ call[p].op = "create" /\ Filled(ip[p]).type = "FILE" /\ file[p] = NoSlot
          /\ file' = [file EXCEPT ![p] = ip[p]]
          /\ Return(p, <<>>)
       \/ /\ ~(call[p].op = "create" /\ Filled(ip[p]).type = "FILE" /\ file[p] = NoSlot)
          /\ Return(p, <<ip[p]>>)
          /\ UNCHANGED file
    /\ UNCHANGED <<disk, lock, cwd, freeing, load>>

\* ialloc looks at one inode of the disk after the other, each in its block, and takes the
\* first that it finds free; then its iget.
Looks(p, i) == i > call[p].inum /\ \A j \in Inums : j > call[p].inum => i <= j

Ialloc(p) ==
    /\ Ready(p, "ialloc")
    /\ \/ \E i \in Inums :
             /\ Looks(p, i)
             /\ call' = [call EXCEPT ![p].inum = i]
             /\ \/ /\ dinode[i].type = "FREE"
                   /\ dinode' = [dinode EXCEPT ![i] = [FreeInode EXCEPT !.type = NewType(p)]]
                   /\ Goto(p, "iget")
                \/ /\ dinode[i].type # "FREE"
                   /\ UNCHANGED <<disk, pc>>
             /\ UNCHANGED <<lock, ip, dp, path, puts>>
       \/ /\ \A i \in Inums : i <= call[p].inum
          /\ lock' = [lock EXCEPT ![dp[p]] = Nobody]
          /\ Return(p, <<dp[p]>>)
          /\ UNCHANGED disk
    /\ UNCHANGED <<inode, cwd, file, freeing, load>>

IallocGet(p) ==
    /\ Ready(p, "iget") /\ CanGet(call[p].inum)
    /\ inode' = Iget(inode, call[p].inum)
    /\ Points(p, SlotOf(call[p].inum), dp[p])
    /\ Goto(p, "fill")
    /\ UNCHANGED <<disk, lock, call, path, cwd, file, puts, freeing, load>>

\* nlink, "..", the entry in dp, and the link of ".." to dp.
Fill(p) ==
    LET s == ip[p]
        i == inode[s].inum
        d == inode[dp[p]].inum
        subdir == IF NewType(p) = "DIR" THEN 1 ELSE 0
    IN
    /\ Ready(p, "fill") /\ MayLock(s)
    /\ inode' = [Relink(Read(s), dp[p], subdir) EXCEPT ![s].nlink = 1]
    /\ dinode' = [dinode EXCEPT
                    ![i].nlink = 1,
                    ![i].entries = IF subdir = 1 THEN [@ EXCEPT ![DotDot] = d] ELSE @,
                    ![d].entries[Name(p)] = i,
                    ![d].nlink = @ + subdir]
    /\ lock' = [lock EXCEPT ![s] = p, ![dp[p]] = Nobody]
    /\ Points(p, s, NoSlot) /\ Put(p, <<dp[p]>>)
    /\ Goto(p, "filled")
    /\ UNCHANGED <<call, path, cwd, file, freeing, load>>

\* No block for an entry: nlink is 0 again; ip is put while dp is locked.
FillFails(p) ==
    LET s == ip[p] IN
    /\ Ready(p, "fill") /\ MayLock(s) /\ load.full > 0
    /\ load' = [load EXCEPT !.full = @ - 1]
    /\ inode' = [Read(s) EXCEPT ![s].nlink = 0]
    /\ dinode' = [dinode EXCEPT ![inode[s].inum].nlink = 0]
    /\ Points(p, NoSlot, dp[p]) /\ Put(p, <<s>>)
    /\ Goto(p, "undo")
    /\ UNCHANGED <<lock, call, path, cwd, file, freeing>>

\* An error path that forgets to unlock the directory.
UndoKeepsLock(p) ==
    /\ Ready(p, "undo")
    /\ Return(p, <<dp[p]>>)
    /\ UNCHANGED <<disk, memory, cwd, file, freeing, load>>

\* iunlockput(dp)
Undo(p) ==
    /\ Ready(p, "undo")
    /\ lock' = [lock EXCEPT ![dp[p]] = Nobody]
    /\ Return(p, <<dp[p]>>)
    /\ UNCHANGED <<disk, inode, cwd, file, freeing, load>>

\* sys_open takes a descriptor, sys_mkdir puts the inode.
Created(p) ==
    /\ Ready(p, "filled")
    /\ lock' = [lock EXCEPT ![ip[p]] = Nobody]
    /\ IF call[p].op = "create" /\ file[p] = NoSlot
         THEN file' = [file EXCEPT ![p] = ip[p]] /\ Return(p, <<>>)
         ELSE Return(p, <<ip[p]>>) /\ UNCHANGED file
    /\ UNCHANGED <<disk, inode, cwd, freeing, load>>

-----------------------------------------------------------------------------
(* unlink.                                                                 *)

Unlink(p) ==
    /\ Ready(p, "unlink") /\ MayLock(dp[p])
    /\ \/ /\ Name(p) = DotDot \/ Entry(p) = NoInum
          /\ inode' = Read(dp[p])
          /\ Return(p, <<dp[p]>>)
          /\ UNCHANGED lock
       \/ /\ Name(p) # DotDot /\ Entry(p) # NoInum /\ CanGet(Entry(p))
          /\ inode' = Iget(Read(dp[p]), Entry(p))
          /\ lock' = [lock EXCEPT ![dp[p]] = p]
          /\ Points(p, SlotOf(Entry(p)), dp[p])
          /\ Goto(p, "erase")
          /\ UNCHANGED <<call, path, puts>>
    /\ UNCHANGED <<disk, cwd, file, freeing, load>>

IsDirEmpty(s) == \A n \in Names \ {DotDot} : Disk(s).entries[n] = NoInum

\* With both inodes locked; ip stays so.
Erase(p) ==
    LET s == ip[p]
        d == inode[dp[p]].inum
        subdir == IF Filled(s).type = "DIR" THEN 1 ELSE 0
    IN
    /\ Ready(p, "erase") /\ MayLock(s)
    /\ \/ /\ Filled(s).type = "DIR" /\ ~IsDirEmpty(s)
          /\ inode' = Read(s)
          /\ Points(p, NoSlot, dp[p]) /\ Put(p, <<s>>)
          /\ Goto(p, "undo")
          /\ UNCHANGED <<disk, lock>>
       \/ /\ Filled(s).type = "FILE" \/ IsDirEmpty(s)
          /\ inode' = Relink(Read(s), dp[p], -subdir)
          /\ dinode' = [dinode EXCEPT ![d].entries[Name(p)] = NoInum, ![d].nlink = @ - subdir]
          /\ lock' = [lock EXCEPT ![s] = p, ![dp[p]] = Nobody]
          /\ Points(p, s, NoSlot) /\ Put(p, <<dp[p]>>)
          /\ Goto(p, "drop")
    /\ UNCHANGED <<call, path, cwd, file, freeing, load>>

DropLink(p) ==
    LET s == ip[p] IN
    /\ Ready(p, "drop")
    /\ inode' = Relink(inode, s, -1)
    /\ dinode' = Updated(s, -1)
    /\ lock' = [lock EXCEPT ![s] = Nobody]
    /\ Return(p, <<s>>)
    /\ UNCHANGED <<cwd, file, freeing, load>>

-----------------------------------------------------------------------------
(* link.                                                                   *)

\* A link that does not count the new name.
LinkUncounted(p) ==
    LET s == ip[p]
        from == From([absolute |-> call[p].absolute], p)
    IN
    /\ Ready(p, "link") /\ MayLock(s) /\ CanGet(from)
    /\ inode' = Iget(Read(s), from)
    /\ Points(p, s, SlotOf(from))
    /\ path' = [path EXCEPT ![p] = call[p].new]
    /\ Goto(p, "walknew")
    /\ UNCHANGED <<disk, call, puts, lock, cwd, file, freeing, load>>

\* The inode has one link more before it has the name; then nameiparent(new).
Link(p) ==
    LET s == ip[p]
        from == From([absolute |-> call[p].absolute], p)
    IN
    /\ Ready(p, "link") /\ MayLock(s)
    /\ \/ /\ Filled(s).type = "DIR"
          /\ inode' = Read(s)
          /\ Return(p, <<s>>)
          /\ UNCHANGED disk
       \/ /\ Filled(s).type # "DIR" /\ CanGet(from)
          /\ inode' = Iget(Relink(Read(s), s, 1), from)
          /\ dinode' = Updated(s, 1)
          /\ Points(p, s, SlotOf(from))
          /\ path' = [path EXCEPT ![p] = call[p].new]
          /\ Goto(p, "walknew")
          /\ UNCHANGED <<call, puts>>
    /\ UNCHANGED <<lock, cwd, file, freeing, load>>

\* dirlink; a name that exists is looked up and put while dp is locked.
LinkNew(p) ==
    LET d == inode[dp[p]].inum IN
    /\ Ready(p, "linknew") /\ MayLock(dp[p])
    /\ \/ /\ Entry(p) = NoInum
          /\ dinode' = [dinode EXCEPT ![d].entries[Name(p)] = inode[ip[p]].inum]
          /\ inode' = Read(dp[p])
          /\ Return(p, <<dp[p], ip[p]>>)
          /\ UNCHANGED <<lock, load>>
       \/ /\ Entry(p) # NoInum /\ CanGet(Entry(p))
          /\ inode' = Iget(Read(dp[p]), Entry(p))
          /\ lock' = [lock EXCEPT ![dp[p]] = p]
          /\ Put(p, <<SlotOf(Entry(p))>>)
          /\ Goto(p, "linkundo")
          /\ UNCHANGED <<disk, call, path, ip, dp, load>>
       \/ /\ Entry(p) = NoInum /\ load.full > 0
          /\ load' = [load EXCEPT !.full = @ - 1]
          /\ inode' = Read(dp[p])
          /\ Put(p, <<dp[p]>>) /\ Points(p, ip[p], NoSlot)
          /\ Goto(p, "unlinkold")
          /\ UNCHANGED <<disk, lock, call, path>>
    /\ UNCHANGED <<cwd, file, freeing>>

LinkUndo(p) ==
    /\ Ready(p, "linkundo")
    /\ lock' = [lock EXCEPT ![dp[p]] = Nobody]
    /\ Put(p, <<dp[p]>>) /\ Points(p, ip[p], NoSlot)
    /\ Goto(p, "unlinkold")
    /\ UNCHANGED <<disk, inode, call, path, cwd, file, freeing, load>>

\* An error path that forgets to take the link back.
KeepLink(p) ==
    LET s == ip[p] IN
    /\ Ready(p, "unlinkold") /\ MayLock(s)
    /\ inode' = Read(s)
    /\ Return(p, <<s>>)
    /\ UNCHANGED <<disk, lock, cwd, file, freeing, load>>

\* "bad": take the link back.
UnlinkOld(p) ==
    LET s == ip[p] IN
    /\ Ready(p, "unlinkold") /\ MayLock(s)
    /\ inode' = Relink(Read(s), s, -1)
    /\ dinode' = Updated(s, -1)
    /\ Return(p, <<s>>)
    /\ UNCHANGED <<lock, cwd, file, freeing, load>>

-----------------------------------------------------------------------------
(* The machine stops at a commit, which is never inside a call; the log    *)
(* brings the disk to that point.  ireclaim frees the inodes without links *)
(* before the first process runs.                                          *)

Orphan(i) == dinode[i].type # "FREE" /\ dinode[i].nlink = 0

Crash ==
    /\ load.crashes > 0 /\ \A p \in Procs : Ready(p, "user")
    /\ load' = [load EXCEPT !.crashes = @ - 1]
    /\ Booted
    /\ dinode' = [i \in Inums |-> IF Orphan(i) THEN FreeInode ELSE dinode[i]]

-----------------------------------------------------------------------------
Kernel(p) ==
    \/ Iput(p) \/ Walk(p) \/ WalkEnd(p) \/ Open(p) \/ Chdir(p)
    \/ Create(p) \/ Exists(p) \/ Ialloc(p) \/ IallocGet(p) \/ Fill(p) \/ FillFails(p)
    \/ Undo(p) \/ Created(p)
    \/ Unlink(p) \/ Erase(p) \/ DropLink(p)
    \/ Link(p) \/ LinkNew(p) \/ LinkUndo(p) \/ UnlinkOld(p)

User(p) == Close(p) \/ \E c \in load.calls[p] : Start(p, c)

Next == Crash \/ \E p \in Procs : User(p) \/ Kernel(p)

\* Processes go on in their calls, and those that wait for a lock get it.
Fairness == \A p \in Procs : WF_vars(Kernel(p))

Spec == Init /\ [][Next]_vars /\ Fairness

-----------------------------------------------------------------------------
(* Properties.                                                             *)

References(s) ==
    Cardinality({p \in Procs : cwd[p] = s}) + Cardinality({p \in Procs : file[p] = s})
    + Cardinality({p \in Procs : ip[p] = s}) + Cardinality({p \in Procs : dp[p] = s})
    + Cardinality({r \in Procs \X (1..2) : r[2] \in DOMAIN puts[r[1]] /\ puts[r[1]][r[2]] = s})

\* The table of inodes is right whenever an inode is not locked: references are counted, an
\* inode is there once, and a valid one is what the disk has (fs.c:129-148).  iput frees an
\* inode that others look up, allocate and get at the same time.
TableAgrees ==
    /\ TypeOK
    /\ \A s \in Slots : inode[s].ref = References(s)
    /\ \A i \in Inums : Cardinality(Cached(i)) <= 1
    /\ \A s \in Slots :
          inode[s].ref > 0 /\ inode[s].valid /\ lock[s] = Nobody =>
              /\ inode[s].type = Disk(s).type /\ inode[s].nlink = Disk(s).nlink
              /\ inode[s].type # "FREE"

\* Where a name leads: entries of directories, and ".." of directories that have a name.
NamesOf(i) ==
    {e \in Inums \X (Names \ {DotDot}) :
        dinode[e[1]].type = "DIR" /\ dinode[e[1]].entries[e[2]] = i}
Parents(i) ==
    {d \in Inums \ {i} : dinode[d].type = "DIR" /\ dinode[d].entries[DotDot] = i /\ NamesOf(d) # {}}

\* Those that link and unlink have in hand: counted, and not yet made or already erased.
Linking == {"walknew", "linknew", "linkundo", "unlinkold"}
Pending(i) == {p \in Procs : pc[p] \in Linking \cup {"drop"} /\ inode[ip[p]].inum = i}
Rooted(i) == IF i = Root THEN 1 ELSE 0
Links(i) ==
    Cardinality(NamesOf(i)) + Cardinality(Parents(i)) + Rooted(i) + Cardinality(Pending(i))

\* A name never leads to an inode that is free, and an inode has a link for every name:
\* link counts the name before it makes it, unlink after it has erased it.
LinksAgree ==
    \A i \in Inums :
        /\ NamesOf(i) # {} => dinode[i].type # "FREE"
        /\ Links(i) <= dinode[i].nlink

\* No inode is left with a link too many, which would keep it for ever (sysfile.c:163-169,
\* 295-299): calls that fail take back what they have counted.  An inode loses a name
\* without the link only when the directory with the name was removed, and is freed.
LinksGoBack ==
    [][\A i \in Inums :
          dinode'[i].nlink - Links(i)' > dinode[i].nlink - Links(i) =>
              \E e \in NamesOf(i) : dinode'[e[1]].type = "FREE"]_vars

\* What a step is about to lock.
ToLock(p) ==
    CASE puts[p] # <<>> -> NoSlot
      [] pc[p] \in {"walk", "walknew", "create", "mkdir", "unlink", "linknew"} /\ path[p] # <<>> -> dp[p]
      [] pc[p] \in {"open", "chdir", "exists", "fill", "erase", "link", "unlinkold"} -> ip[p]
      [] OTHER -> NoSlot

\* ilock's assertion: an inode that somebody has found is allocated (fs.c:315-316).
LockFindsType ==
    \A p \in Procs : ToLock(p) # NoSlot /\ lock[ToLock(p)] = Nobody => ~NoType(ToLock(p))

\* The assertions of the inode layer: ilock finds an allocated inode, unlink one with a link
\* (sysfile.c:215), and the acquiresleep of iput, under a spin-lock, never blocks
\* (fs.c:345).  That iget finds room (fs.c:267) is not among them: it need not.
AssertionsHold ==
    /\ LockFindsType
    /\ \A p \in Procs :
          /\ Ready(p, "erase") /\ lock[ip[p]] = Nobody => Filled(ip[p]).nlink >= 1
          /\ puts[p] # <<>> /\ freeing[p] = "no" /\ LastPut(Head(puts[p])) =>
                lock[Head(puts[p])] = Nobody

\* Every call returns, and has then put what it had: inodes are locked in an order that
\* cannot go round (a directory and its entry, a directory and a new inode), also while
\* another one is put.
Idle(p) == pc[p] = "user" /\ puts[p] = <<>>
CallsReturn == \A p \in Procs : ~Idle(p) ~> Idle(p)
=============================================================================

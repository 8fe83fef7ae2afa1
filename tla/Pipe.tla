-------------------------------- MODULE Pipe ---------------------------------
(***************************************************************************)
(* The pipes of xv6 (kernel/pipe.c) behind the file table: processes       *)
(* create, inherit, duplicate and close their ends, read and write byte by *)
(* byte, sleep on a full or an empty pipe, are killed, and exit.           *)
(*                                                                         *)
(* Grain: the two loops go one iteration at a time with pi->lock held,     *)
(* because a kill does not need that lock.                                 *)
(***************************************************************************)
EXTENDS OpenFiles

CONSTANTS
    PIPESIZE,
    IdxMod,        \* nread and nwrite are uint: 2^32
    Bytes, NoByte,
    Nobody,
    Workloads      \* the processes and their descriptors at the start, how many calls
                   \* each makes, the sizes of reads and writes and the bytes written,
                   \* and how many kills and bad user addresses there are

ASSUME PipeAssumption ==
    /\ PIPESIZE \in Nat \ {0} /\ IdxMod \in Nat /\ IdxMod > PIPESIZE /\ IdxMod % PIPESIZE = 0
    /\ NoByte \notin Bytes /\ Nobody \notin Procs
    /\ Pipes # {} /\ Bytes # {}
    /\ \A w \in Workloads :
          /\ w \in [ofile : [Procs -> [FDs -> (Files \cap {1, 2}) \cup {NoFile}]],
                    alive : SUBSET Procs, calls : [Procs -> Nat], sizes : SUBSET Nat,
                    bytes : SUBSET Bytes, start : 0..IdxMod-1, kills : Nat, bad : Nat]
          /\ \A p \in Procs \ w.alive : w.ofile[p] = [d \in FDs |-> NoFile]

VARIABLES
    live,                   \* the pages that are pipes
    readopen, writeopen, nread, nwrite, data,   \* struct pipe
    lock,                   \* pi->lock
    chan,                   \* the channel that a process sleeps on
    killed,
    pc,
    io,                     \* a call of piperead or pipewrite: pi, i, n
    last,                   \* the byte that piperead copied out last
    left                    \* what is left of the workload

pipes == <<live, readopen, writeopen, nread, nwrite, data, lock>>
calls == <<chan, killed, pc, io, last, left>>
vars == <<files, pipes, calls>>

\* The channels &pi->nread and &pi->nwrite.
Awake == [on |-> "awake", pipe |-> NoPipe]
Data(pi) == [on |-> "nread", pipe |-> pi]
Room(pi) == [on |-> "nwrite", pipe |-> pi]
Wakeup(c) == [p \in Procs |-> IF chan[p] = c THEN Awake ELSE chan[p]]

NoIO == [pi |-> NoPipe, i |-> 0, n |-> 0]

PipeTypeOK ==
    /\ FilesTypeOK
    /\ live \subseteq Pipes
    /\ readopen \subseteq Pipes /\ writeopen \subseteq Pipes
    /\ nread \in [Pipes -> 0..IdxMod-1] /\ nwrite \in [Pipes -> 0..IdxMod-1]
    /\ data \in [Pipes -> [0..PIPESIZE-1 -> Bytes]]
    /\ lock \in [Pipes -> Procs \cup {Nobody}]
    /\ chan \in [Procs -> {Awake} \cup {Data(pi) : pi \in Pipes} \cup {Room(pi) : pi \in Pipes}]
    /\ killed \subseteq Procs
    /\ pc \in [Procs -> {"unborn", "user", "pipe", "write", "full", "read", "empty",
                         "copy", "exit", "gone"}]
    /\ last \in [Pipes -> Bytes \cup {NoByte}]

\* A state in which some processes share the ends of at most one pipe, which is empty after
\* w.start bytes (modulo IdxMod).
Init ==
    \E w \in Workloads :
        /\ left = [calls |-> w.calls, sizes |-> w.sizes, bytes |-> w.bytes, kills |-> w.kills, bad |-> w.bad]
        /\ ofile = w.ofile
        /\ temp = [p \in Procs |-> <<>>] /\ closing = temp
        /\ ending = [p \in Procs |-> NoEnd]
        /\ ref = [f \in Files |-> References(f)]
        /\ type = [f \in Files |-> IF ref[f] > 0 THEN "PIPE" ELSE "NONE"]
        /\ writable = [f \in Files |-> f = 2]
        /\ pipe = [f \in Files |-> IF ref[f] > 0 THEN CHOOSE pi \in Pipes : TRUE ELSE NoPipe]
        /\ readopen = {pipe[f] : f \in {g \in Files \cap {1} : ref[g] > 0}}
        /\ writeopen = {pipe[f] : f \in {g \in Files \cap {2} : ref[g] > 0}}
        /\ live = readopen \cup writeopen
        /\ nread = [pi \in Pipes |-> w.start] /\ nwrite = nread
        /\ data = [pi \in Pipes |-> [k \in 0..PIPESIZE-1 |-> CHOOSE b \in Bytes : TRUE]]
        /\ lock = [pi \in Pipes |-> Nobody]
        /\ chan = [p \in Procs |-> Awake]
        /\ killed = {}
        /\ pc = [p \in Procs |-> IF p \in w.alive THEN "user" ELSE "unborn"]
        /\ io = [p \in Procs |-> NoIO]
        /\ last = [pi \in Pipes |-> NoByte]

-----------------------------------------------------------------------------
(* System calls.                                                           *)

AtUser(p) == pc[p] = "user" /\ closing[p] = <<>> /\ ending[p] = NoEnd

\* usertrap: a killed process does not get into a system call.
MayCall(p) == AtUser(p) /\ p \notin killed /\ left.calls[p] > 0

Enters(p, step) ==
    /\ MayCall(p)
    /\ pc' = [pc EXCEPT ![p] = step]
    /\ left' = [left EXCEPT !.calls[p] = @ - 1]

Returns(p) == pc' = [pc EXCEPT ![p] = "user"]

\* sys_pipe: the first filealloc, the second, and the rest of it.
PipeStart(p) ==
    /\ Enters(p, "pipe")
    /\ FileAlloc(p)
    /\ UNCHANGED <<pipes, chan, killed, io, last>>

PipeSecond(p) ==
    /\ pc[p] = "pipe" /\ Len(temp[p]) = 1
    /\ \/ FileAlloc(p) /\ UNCHANGED pc
       \/ /\ FreeFiles = {}
          /\ GiveUpFiles(p) /\ Returns(p)
          /\ UNCHANGED <<ref, type, writable, pipe, ofile, ending>>
    /\ UNCHANGED <<pipes, chan, killed, io, last, left>>

\* kalloc fails.
PipeNoMemory(p) ==
    /\ pc[p] = "pipe" /\ Len(temp[p]) = 2 /\ live = Pipes
    /\ GiveUpFiles(p) /\ Returns(p)
    /\ UNCHANGED <<ref, type, writable, pipe, ofile, ending, pipes, chan, killed, io, last, left>>

PipeFinish(p, pi) ==
    /\ pc[p] = "pipe" /\ Len(temp[p]) = 2 /\ pi \notin live
    /\ \/ MakeEnds(p, pi, TRUE) /\ UNCHANGED left
       \/ MakeEnds(p, pi, FALSE) /\ Cardinality(FreeFDs(p)) < 2 /\ UNCHANGED left
       \/ /\ MakeEnds(p, pi, FALSE) /\ left.bad > 0
          /\ left' = [left EXCEPT !.bad = @ - 1]
    /\ live' = live \cup {pi}
    /\ readopen' = readopen \cup {pi} /\ writeopen' = writeopen \cup {pi}
    /\ nread' = [nread EXCEPT ![pi] = 0] /\ nwrite' = [nwrite EXCEPT ![pi] = 0]
    /\ Returns(p)
    /\ UNCHANGED <<data, lock, chan, killed, io, last>>

Dup(p, d) ==
    /\ Enters(p, "user")
    /\ FileDup(p, d)
    /\ UNCHANGED <<pipes, chan, killed, io, last>>

Close(p, d) ==
    /\ Enters(p, "user")
    /\ CloseFD(p, d)
    /\ UNCHANGED <<pipes, chan, killed, io, last>>

Fork(p, child) ==
    /\ MayCall(p) /\ pc[child] = "unborn"
    /\ left' = [left EXCEPT !.calls[p] = @ - 1]
    /\ pc' = [pc EXCEPT ![child] = "user"]
    /\ Inherit(p, child)
    /\ UNCHANGED <<pipes, chan, killed, io, last>>

\* kexit, by the process or because it was killed.
Exit(p) ==
    /\ AtUser(p)
    /\ pc' = [pc EXCEPT ![p] = "exit"]
    /\ UNCHANGED <<files, pipes, chan, killed, io, last, left>>

Exiting(p) == pc[p] = "exit" /\ closing[p] = <<>> /\ ending[p] = NoEnd

\* Its loop over the open files.
ExitClose(p) ==
    /\ Exiting(p) /\ OpenFDs(p) # {}
    /\ CloseFD(p, First(OpenFDs(p)))
    /\ UNCHANGED <<pipes, calls>>

Gone(p) ==
    /\ Exiting(p) /\ OpenFDs(p) = {}
    /\ pc' = [pc EXCEPT ![p] = "gone"]
    /\ UNCHANGED <<files, pipes, chan, killed, io, last, left>>

CloseNext(p) ==
    /\ FileClose(p)
    /\ UNCHANGED <<pipes, calls>>

\* kkill, with the wakeup of a sleeping process.
Kill(p) ==
    /\ left.kills > 0 /\ pc[p] \notin {"unborn", "exit", "gone"}
    /\ killed' = killed \cup {p}
    /\ chan' = [chan EXCEPT ![p] = Awake]
    /\ left' = [left EXCEPT !.kills = @ - 1]
    /\ UNCHANGED <<files, pipes, pc, io, last>>

-----------------------------------------------------------------------------
(* pipe.c                                                                  *)

\* A pipeclose that wakes its own side.
PipeCloseSwapped(p) ==
    LET pi == ending[p].pipe IN
    /\ ending[p] # NoEnd /\ lock[pi] = Nobody
    /\ IF ending[p].writable
         THEN writeopen' = writeopen \ {pi} /\ chan' = Wakeup(Room(pi)) /\ UNCHANGED readopen
         ELSE readopen' = readopen \ {pi} /\ chan' = Wakeup(Data(pi)) /\ UNCHANGED writeopen
    /\ live' = IF pi \in readopen' \cup writeopen' THEN live ELSE live \ {pi}
    /\ ending' = [ending EXCEPT ![p] = NoEnd]
    /\ UNCHANGED <<ref, type, writable, pipe, ofile, temp, closing, nread, nwrite, data, lock,
                   killed, pc, io, last, left>>

PipeClose(p) ==
    LET pi == ending[p].pipe IN
    /\ ending[p] # NoEnd /\ lock[pi] = Nobody
    /\ IF ending[p].writable
         THEN writeopen' = writeopen \ {pi} /\ chan' = Wakeup(Data(pi)) /\ UNCHANGED readopen
         ELSE readopen' = readopen \ {pi} /\ chan' = Wakeup(Room(pi)) /\ UNCHANGED writeopen
    /\ live' = IF pi \in readopen' \cup writeopen' THEN live ELSE live \ {pi}
    /\ ending' = [ending EXCEPT ![p] = NoEnd]
    /\ UNCHANGED <<ref, type, writable, pipe, ofile, temp, closing, nread, nwrite, data, lock,
                   killed, pc, io, last, left>>

Empty(pi) == nread[pi] = nwrite[pi]
FullUnwrapped(pi) == nwrite[pi] = nread[pi] + PIPESIZE
Full(pi) == nwrite[pi] = (nread[pi] + PIPESIZE) % IdxMod

\* sys_read and sys_write find the pipe of the descriptor.
StartIO(p, d, n) ==
    LET f == ofile[p][d] IN
    /\ f # NoFile /\ n \in left.sizes
    /\ Enters(p, IF writable[f] THEN "write" ELSE "read")
    /\ io' = [io EXCEPT ![p] = [pi |-> pipe[f], i |-> 0, n |-> n]]
    /\ UNCHANGED <<files, pipes, chan, killed, last>>

EndIO(p) ==
    /\ lock' = [lock EXCEPT ![io[p].pi] = Nobody]
    /\ io' = [io EXCEPT ![p] = NoIO]
    /\ Returns(p)

\* The test of the first loop of piperead, once the lock is there.
ReadTest(p) ==
    LET pi == io[p].pi IN
    /\ pc[p] = "read" /\ chan[p] = Awake /\ lock[pi] = Nobody
    /\ \/ /\ Empty(pi) /\ pi \in writeopen /\ p \in killed
          /\ EndIO(p)
       \/ /\ ~(Empty(pi) /\ pi \in writeopen /\ p \in killed)
          /\ lock' = [lock EXCEPT ![pi] = p]
          /\ pc' = [pc EXCEPT ![p] = IF Empty(pi) /\ pi \in writeopen THEN "empty" ELSE "copy"]
          /\ UNCHANGED io
    /\ UNCHANGED <<files, live, readopen, writeopen, nread, nwrite, data, chan, killed, last, left>>

ReadSleep(p) ==
    LET pi == io[p].pi IN
    /\ pc[p] = "empty"
    /\ chan' = [chan EXCEPT ![p] = Data(pi)]
    /\ lock' = [lock EXCEPT ![pi] = Nobody]
    /\ pc' = [pc EXCEPT ![p] = "read"]
    /\ UNCHANGED <<files, live, readopen, writeopen, nread, nwrite, data, killed, io, last, left>>

\* One byte; a byte that cannot be copied out is the last one of the call, and lost.
ReadByte(p) ==
    LET pi == io[p].pi IN
    /\ pc[p] = "copy" /\ io[p].i < io[p].n /\ ~Empty(pi)
    /\ nread' = [nread EXCEPT ![pi] = (@ + 1) % IdxMod]
    /\ \/ /\ last' = [last EXCEPT ![pi] = data[pi][nread[pi] % PIPESIZE]]
          /\ io' = [io EXCEPT ![p].i = @ + 1]
          /\ UNCHANGED left
       \/ /\ left.bad > 0
          /\ left' = [left EXCEPT !.bad = @ - 1]
          /\ io' = [io EXCEPT ![p].n = io[p].i]
          /\ UNCHANGED last
    /\ UNCHANGED <<files, live, readopen, writeopen, nwrite, data, lock, chan, killed, pc>>

\* piperead that wakes the writers only if it has emptied the pipe.
ReadEndIfEmpty(p) ==
    LET pi == io[p].pi IN
    /\ pc[p] = "copy" /\ (io[p].i = io[p].n \/ Empty(pi))
    /\ chan' = IF Empty(pi) THEN Wakeup(Room(pi)) ELSE chan
    /\ EndIO(p)
    /\ UNCHANGED <<files, live, readopen, writeopen, nread, nwrite, data, killed, last, left>>

ReadEnd(p) ==
    LET pi == io[p].pi IN
    /\ pc[p] = "copy" /\ (io[p].i = io[p].n \/ Empty(pi))
    /\ chan' = Wakeup(Room(pi))
    /\ EndIO(p)
    /\ UNCHANGED <<files, live, readopen, writeopen, nread, nwrite, data, killed, last, left>>

\* pipewrite has the lock, or takes it.
Writes(p) == pc[p] = "write" /\ chan[p] = Awake /\ lock[io[p].pi] \in {Nobody, p}
Refused(p) == io[p].pi \notin readopen \/ p \in killed

WriteRefused(p) ==
    /\ Writes(p) /\ io[p].i < io[p].n /\ Refused(p)
    /\ EndIO(p)
    /\ UNCHANGED <<files, live, readopen, writeopen, nread, nwrite, data, chan, killed, last, left>>

WriteTest(p) ==
    /\ Writes(p) /\ io[p].i < io[p].n /\ ~Refused(p) /\ Full(io[p].pi)
    /\ lock' = [lock EXCEPT ![io[p].pi] = p]
    /\ pc' = [pc EXCEPT ![p] = "full"]
    /\ UNCHANGED <<files, live, readopen, writeopen, nread, nwrite, data, chan, killed, io, last,
                   left>>

WriteSleep(p) ==
    LET pi == io[p].pi IN
    /\ pc[p] = "full"
    /\ chan' = [Wakeup(Data(pi)) EXCEPT ![p] = Room(pi)]
    /\ lock' = [lock EXCEPT ![pi] = Nobody]
    /\ pc' = [pc EXCEPT ![p] = "write"]
    /\ UNCHANGED <<files, live, readopen, writeopen, nread, nwrite, data, killed, io, last, left>>

WriteByte(p) ==
    LET pi == io[p].pi IN
    /\ Writes(p) /\ io[p].i < io[p].n /\ ~Refused(p) /\ ~Full(pi)
    /\ \E v \in left.bytes : data' = [data EXCEPT ![pi][nwrite[pi] % PIPESIZE] = v]
    /\ nwrite' = [nwrite EXCEPT ![pi] = (@ + 1) % IdxMod]
    /\ lock' = [lock EXCEPT ![pi] = p]
    /\ io' = [io EXCEPT ![p].i = @ + 1]
    /\ UNCHANGED <<files, live, readopen, writeopen, nread, chan, killed, pc, last, left>>

\* After the last byte, or one that cannot be copied in.
WriteEnd(p) ==
    /\ Writes(p)
    /\ \/ io[p].i = io[p].n /\ UNCHANGED left
       \/ /\ io[p].i < io[p].n /\ ~Refused(p) /\ ~Full(io[p].pi)
          /\ left.bad > 0
          /\ left' = [left EXCEPT !.bad = @ - 1]
    /\ chan' = Wakeup(Data(io[p].pi))
    /\ EndIO(p)
    /\ UNCHANGED <<files, live, readopen, writeopen, nread, nwrite, data, killed, last>>

-----------------------------------------------------------------------------
\* What a process does without a choice of its own.
Kernel(p) ==
    \/ PipeSecond(p) \/ PipeNoMemory(p) \/ (\E pi \in Pipes : PipeFinish(p, pi))
    \/ CloseNext(p) \/ PipeClose(p) \/ ExitClose(p) \/ Gone(p)
    \/ ReadTest(p) \/ ReadSleep(p) \/ ReadByte(p) \/ ReadEnd(p)
    \/ WriteRefused(p) \/ WriteTest(p) \/ WriteSleep(p) \/ WriteByte(p) \/ WriteEnd(p)

User(p) ==
    \/ PipeStart(p) \/ Exit(p)
    \/ \E d \in FDs : \/ Dup(p, d) \/ Close(p, d)
                       \/ \E n \in left.sizes : StartIO(p, d, n)
    \/ \E child \in Procs : Fork(p, child)

Next == \E p \in Procs : User(p) \/ Kernel(p) \/ Kill(p)

\* Processes go on in their system calls, and killed ones get to usertrap.
Fairness ==
    \A p \in Procs : WF_vars(Kernel(p)) /\ WF_vars(Exit(p) /\ p \in killed)

Spec == Init /\ [][Next]_vars /\ Fairness

-----------------------------------------------------------------------------
(* Properties.                                                             *)

EndOf(f) == [pipe |-> pipe[f], writable |-> writable[f]]
OpenEnds == {EndOf(f) : f \in {g \in Files : type[g] = "PIPE"}}
            \cup {ending[p] : p \in {q \in Procs : ending[q] # NoEnd}}

\* The table of files and the pipes agree between any two critical sections: every
\* reference to a file is counted, a free file is no pipe end (pipealloc closes files that
\* it has not filled in), a pipe is in memory exactly as long as an end of it is open or
\* being closed, and with one file per open end, and nobody is in a pipe that is not.
FilesConsistent ==
    /\ PipeTypeOK
    /\ \A f \in Files : /\ ref[f] = References(f)
                        /\ type[f] = "PIPE" => ref[f] > 0
    /\ live = readopen \cup writeopen
    /\ OpenEnds = {[pipe |-> pi, writable |-> FALSE] : pi \in readopen}
                   \cup {[pipe |-> pi, writable |-> TRUE] : pi \in writeopen}
    /\ Cardinality(OpenEnds) = Cardinality({f \in Files : type[f] = "PIPE"})
                               + Cardinality({p \in Procs : ending[p] # NoEnd})
    /\ \A p \in Procs : pc[p] \in {"read", "empty", "copy", "write", "full"} =>
          \E f \in Files : type[f] = "PIPE" /\ pipe[f] = io[p].pi /\ \E d \in FDs : ofile[p][d] = f
    /\ \A pi \in Pipes : (nwrite[pi] - nread[pi]) % IdxMod <= PIPESIZE

WaitsForData(p, pi) == chan[p] = Data(pi) /\ lock[pi] = Nobody
WaitsForRoom(p, pi) == chan[p] = Room(pi) /\ lock[pi] = Nobody

\* When nobody is inside a pipe, a reader sleeps only if there is a writer, and a writer
\* only on a full pipe with a reader; and if nobody has been killed a reader only on an
\* empty one: no wakeup of reads, writes, and closes is lost.  (A writer that is killed
\* between two bytes does not wake the readers.)
SleepersHaveReason ==
    \A p \in Procs, pi \in Pipes :
        /\ WaitsForData(p, pi) => pi \in writeopen /\ (Empty(pi) \/ killed # {})
        /\ WaitsForRoom(p, pi) => pi \in readopen /\ Full(pi)

\* The bytes under way in each pipe.
Queue ==
    [pi \in Pipes |->
        IF pi \notin live THEN <<>>
        ELSE [k \in 1..((nwrite[pi] - nread[pi]) % IdxMod) |->
                 data[pi][(nread[pi] + k - 1) % PIPESIZE]]]

Stream == INSTANCE ByteStream WITH Size <- PIPESIZE, queue <- Queue

\* A pipe is a bounded stream of bytes: what piperead gives out is what pipewrite took in,
\* in that order, also when the counters wrap, and as long as an end is open.
PipesDeliver == Stream!Spec

\* A read or write on a pipe returns once the other end is closed.
EndIsSeen ==
    \A p \in Procs :
        /\ pc[p] \in {"read", "empty", "copy"} /\ io[p].pi \notin writeopen ~> pc[p] = "user"
        /\ pc[p] \in {"write", "full"} /\ io[p].pi \notin readopen ~> pc[p] = "user"
=============================================================================

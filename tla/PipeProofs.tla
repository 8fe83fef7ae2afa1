----------------------------- MODULE PipeProofs ------------------------------
(***************************************************************************)
(* Proofs about Pipe and the open files under it, for any number of        *)
(* processes, descriptors, files and pages, any size of a pipe and any     *)
(* workload: the table of files and the pipes agree, nobody sleeps without *)
(* a reason, and pipes implement ByteStream.                               *)
(***************************************************************************)
EXTENDS Pipe, FunctionTheorems, FiniteSetTheorems, SequenceTheorems, TLAPS

Reading(p) == pc[p] \in {"read", "empty", "copy"}
Writing(p) == pc[p] \in {"write", "full"}

\* The locals of the system calls.
IOStates == {"read", "empty", "copy", "write", "full"}
Steps == IOStates \cup {"unborn", "user", "pipe", "exit", "gone"}
Lefts == [calls : [Procs -> Nat], sizes : SUBSET Nat, bytes : SUBSET Bytes, kills : Nat, bad : Nat]
IOs == [pi : Pipes \cup {NoPipe}, i : Nat, n : Nat]

Locals(p) ==
    /\ Len(temp[p]) \in IF pc[p] = "pipe" THEN {1, 2} ELSE {0}
    /\ Len(temp[p]) = 2 => temp[p][1] # temp[p][2]
    /\ Len(closing[p]) \in 0..2
    /\ closing[p] # <<>> \/ ending[p] # NoEnd => pc[p] \in {"user", "exit"}
    /\ Len(closing[p]) = 2 => closing[p][1] # closing[p][2]
    /\ ending[p] # NoEnd => ending[p].pipe \in Pipes
    /\ pc[p] = "unborn" => \A d \in FDs : ofile[p][d] = NoFile

LocalsOK == left \in Lefts /\ io \in [Procs -> IOs] /\ \A p \in Procs : Locals(p)

\* Every reference is counted.
Counted == \A f \in Files : ref[f] = References(f)

\* A descriptor is of a pipe end; a file that sys_pipe is about to make one has no other
\* reference.
Kinds ==
    /\ \A p \in Procs, d \in FDs : ofile[p][d] # NoFile => type[ofile[p][d]] = "PIPE"
    /\ \A p \in Procs : \A f \in Range(temp[p]) : type[f] = "NONE" /\ ref[f] = 1
    /\ \A f \in Files : type[f] = "PIPE" => ref[f] > 0 /\ pipe[f] \in Pipes

\* An end is open exactly as long as one file or one fileclose has it.
IsPipe(f) == type[f] = "PIPE"
Opened == {[pipe |-> pi, writable |-> FALSE] : pi \in readopen}
          \cup {[pipe |-> pi, writable |-> TRUE] : pi \in writeopen}
Ends ==
    /\ live = readopen \cup writeopen
    /\ OpenEnds = Opened
    /\ \A f, g \in Files : IsPipe(f) /\ IsPipe(g) /\ EndOf(f) = EndOf(g) => f = g
    /\ \A p, q \in Procs : ending[p] = ending[q] /\ ending[p] # NoEnd => p = q
    /\ \A f \in Files, p \in Procs : IsPipe(f) => EndOf(f) # ending[p]

\* A process in piperead or pipewrite has the end open.
HasEnd(p, w) == \E d \in FDs : /\ ofile[p][d] # NoFile
                               /\ EndOf(ofile[p][d]) = [pipe |-> io[p].pi, writable |-> w]
InPipe == \A p \in Procs : (Reading(p) => HasEnd(p, FALSE)) /\ (Writing(p) => HasEnd(p, TRUE))

Fill(pi) == (nwrite[pi] - nread[pi]) % IdxMod
Filled == \A pi \in Pipes : Fill(pi) <= PIPESIZE

IInv == PipeTypeOK /\ LocalsOK /\ Counted /\ Kinds /\ Ends /\ InPipe /\ Filled

\* The lock is with a process that is inside, and what that process has found out still
\* holds.
Holding == {"empty", "copy", "write", "full"}
Holder(pi) == lock[pi] # Nobody => io[lock[pi]].pi = pi /\ pc[lock[pi]] \in Holding
Found(p) ==
    /\ pc[p] \in {"empty", "copy", "full"} => lock[io[p].pi] = p
    /\ pc[p] = "empty" => Empty(io[p].pi) /\ io[p].pi \in writeopen
    /\ pc[p] = "full" => Full(io[p].pi) /\ io[p].pi \in readopen
Locked == (\A pi \in Pipes : Holder(pi)) /\ (\A p \in Procs : Found(p))

\* Who sleeps, and who is going to wake up a reader that has something to read or a writer
\* that has room.
WriterInside(pi) == lock[pi] # Nobody /\ Writing(lock[pi])
ReaderInside(pi) == lock[pi] # Nobody /\ pc[lock[pi]] = "copy"
SleepsForData(p, pi) ==
    chan[p] = Data(pi) => /\ pc[p] = "read" /\ io[p].pi = pi /\ pi \in writeopen
                          /\ Empty(pi) \/ killed # {} \/ WriterInside(pi)
SleepsForRoom(p, pi) ==
    chan[p] = Room(pi) => /\ pc[p] = "write" /\ io[p].pi = pi /\ pi \in readopen
                          /\ lock[pi] # p
                          /\ Full(pi) \/ ReaderInside(pi)
Asleep == \A p \in Procs, pi \in Pipes : SleepsForData(p, pi) /\ SleepsForRoom(p, pi)

SInv == IInv /\ Locked /\ Asleep

-----------------------------------------------------------------------------
(* Numbers, sets and sequences.                                            *)

LEMMA FirstIsLeast ==
    ASSUME NEW S \in SUBSET Nat, S # {}
    PROVE  First(S) \in S /\ \A j \in S : First(S) <= j
<1>1. PICK x \in S : \A y \in S : ~ (<<y, x>> \in OpToRel(<, Nat))
  BY NatLessThanWellFounded, WFMin
<1>2. ASSUME NEW y \in S
      PROVE  x <= y
  <2>1. x \in Nat /\ y \in Nat
    OBVIOUS
  <2>2. ~ (<<y, x>> \in {r \in Nat \X Nat : r[1] < r[2]})
    BY <1>1 DEF OpToRel
  <2>3. QED
    BY <2>1, <2>2
<1>3. QED
  BY <1>2 DEF First

LEMMA ModSmall ==
    ASSUME NEW m \in Nat \ {0}, NEW a \in Int, 0 <= a, a < 2 * m
    PROVE  a % m = IF a < m THEN a ELSE a - m
BY Z3

LEMMA ModNegative ==
    ASSUME NEW m \in Nat \ {0}, NEW a \in Int, -m <= a, a < 0
    PROVE  a % m = a + m
BY Z3

\* The places of a circle.
LEMMA ModOfMultiple ==
    ASSUME NEW m \in Nat \ {0}, NEW q \in Int, NEW r \in 0..m-1
    PROVE  (q * m + r) % m = r
BY Z3

LEMMA RangeFacts ==
    ASSUME NEW S, NEW s \in Seq(S)
    PROVE  /\ Range(s) \subseteq S
           /\ Len(s) = 0 => s = <<>> /\ Range(s) = {}
           /\ Len(s) = 1 => s = <<s[1]>> /\ Range(s) = {s[1]} /\ s[1] \in S
           /\ Len(s) = 2 => Range(s) = {s[1], s[2]} /\ s[1] \in S /\ s[2] \in S
           /\ \A x : Range(Append(s, x)) = Range(s) \cup {x}
<1>1. DOMAIN s = 1..Len(s) /\ Len(s) \in Nat /\ \A i \in 1..Len(s) : s[i] \in S
  OBVIOUS
<1>2. Range(s) = {s[i] : i \in 1..Len(s)}
  BY <1>1 DEF Range
<1>3. 1..0 = {} /\ 1..1 = {1} /\ 1..2 = {1, 2}
  OBVIOUS
<1>4. ASSUME NEW x
      PROVE  Range(Append(s, x)) = Range(s) \cup {x}
  <2>1. PICK T : T = S \cup {x}
    OBVIOUS
  <2>2. s \in Seq(T) /\ x \in T
    BY <2>1
  <2>3. PICK z : z = Append(s, x)
    OBVIOUS
  <2>4. /\ z \in Seq(T) /\ Len(z) = Len(s) + 1
        /\ \A i \in 1..Len(s) : z[i] = s[i]
        /\ z[Len(s) + 1] = x
    BY <2>2, <2>3, AppendProperties
  <2>5. DOMAIN z = 1..(Len(s) + 1)
    BY <2>4
  <2>6. 1..(Len(s) + 1) = 1..Len(s) \cup {Len(s) + 1}
    BY <1>1
  <2>7. Range(z) = {z[i] : i \in 1..Len(s)} \cup {x}
    BY <2>4, <2>5, <2>6 DEF Range
  <2>8. {z[i] : i \in 1..Len(s)} = {s[i] : i \in 1..Len(s)}
    BY <2>4
  <2>9. QED
    BY <1>2, <2>3, <2>7, <2>8
<1>5. Len(s) = 1 => s = <<s[1]>>
  BY <1>1
<1>6. QED
  BY <1>1, <1>2, <1>3, <1>4, <1>5

-----------------------------------------------------------------------------
(* The references to a file.                                               *)

LEMMA Finite ==
    ASSUME NEW f
    PROVE  IsFiniteSet(Descriptors(f)) /\ IsFiniteSet(Opening(f)) /\ IsFiniteSet(Closing(f))
<1>1. IsFiniteSet(FDs)
  BY FilesAssumption, FS_Interval DEF FDs
<1>2. IsFiniteSet(Procs \X FDs)
  BY <1>1, FilesAssumption, FS_Product
<1>3. Descriptors(f) \subseteq Procs \X FDs /\ Opening(f) \subseteq Procs /\ Closing(f) \subseteq Procs
  BY DEF Descriptors, Opening, Closing
<1>4. QED
  BY <1>2, <1>3, FilesAssumption, FS_Subset

LEMMA Numbered ==
    ASSUME NEW f
    PROVE  \E d \in Nat, t \in Nat, c \in Nat :
              /\ d = Cardinality(Descriptors(f)) /\ t = Cardinality(Opening(f))
              /\ c = Cardinality(Closing(f)) /\ References(f) = d + t + c
              /\ (d = 0 <=> Descriptors(f) = {}) /\ (t = 0 <=> Opening(f) = {})
              /\ (c = 0 <=> Closing(f) = {})
<1>1. PICK D, T, C : D = Descriptors(f) /\ T = Opening(f) /\ C = Closing(f)
  OBVIOUS
<1>2. IsFiniteSet(D) /\ IsFiniteSet(T) /\ IsFiniteSet(C)
  BY <1>1, Finite
<1>3. /\ Cardinality(D) \in Nat /\ Cardinality(T) \in Nat /\ Cardinality(C) \in Nat
      /\ (Cardinality(D) = 0 <=> D = {}) /\ (Cardinality(T) = 0 <=> T = {})
      /\ (Cardinality(C) = 0 <=> C = {})
  BY <1>2, FS_CardinalityType, FS_EmptySet
<1>4. References(f) = Cardinality(D) + Cardinality(T) + Cardinality(C)
  BY <1>1 DEF References
<1>5. QED
  BY <1>1, <1>3, <1>4

\* One element more or less.
LEMMA OneMore ==
    ASSUME NEW S, IsFiniteSet(S), NEW x
    PROVE  /\ x \notin S => Cardinality(S \cup {x}) = Cardinality(S) + 1
           /\ x \in S => Cardinality(S \ {x}) = Cardinality(S) - 1 /\ Cardinality(S) >= 1
           /\ Cardinality(S) \in Nat
<1>1. Cardinality(S) \in Nat
  BY FS_CardinalityType
<1>2. x \notin S => Cardinality(S \cup {x}) = Cardinality(S) + 1
  BY FS_AddElement
<1>3. ASSUME x \in S
      PROVE  Cardinality(S \ {x}) = Cardinality(S) - 1 /\ Cardinality(S) >= 1
  <2>1. Cardinality(S \ {x}) = Cardinality(S) - 1 /\ IsFiniteSet(S \ {x})
    BY <1>3, FS_RemoveElement
  <2>2. Cardinality(S \ {x}) \in Nat
    BY <2>1, FS_CardinalityType
  <2>3. QED
    BY <1>1, <2>1, <2>2
<1>4. QED
  BY <1>1, <1>2, <1>3

\* One element in the place of another kind: the count of both kinds stays.
LEMMA OneOver ==
    ASSUME NEW S, IsFiniteSet(S), NEW x \in S, NEW T, IsFiniteSet(T), NEW y, y \notin T
    PROVE  Cardinality(S \ {x}) + Cardinality(T \cup {y}) = Cardinality(S) + Cardinality(T)
<1>1. Cardinality(S \ {x}) = Cardinality(S) - 1 /\ Cardinality(S) \in Nat
  BY OneMore
<1>2. Cardinality(T \cup {y}) = Cardinality(T) + 1 /\ Cardinality(T) \in Nat
  BY OneMore
<1>3. QED
  BY <1>1, <1>2

\* What one reference says about the places of a file.
LEMMA OnlyReference ==
    ASSUME NEW f, References(f) = 1
    PROVE  /\ Opening(f) # {} => Descriptors(f) = {} /\ Closing(f) = {}
           /\ Closing(f) # {} => Descriptors(f) = {} /\ Opening(f) = {}
           /\ \A p, q \in Opening(f) : p = q
           /\ \A p, q \in Closing(f) : p = q
<1>1. PICK d \in Nat, t \in Nat, c \in Nat :
          /\ d = Cardinality(Descriptors(f)) /\ t = Cardinality(Opening(f))
          /\ c = Cardinality(Closing(f)) /\ References(f) = d + t + c
          /\ (d = 0 <=> Descriptors(f) = {}) /\ (t = 0 <=> Opening(f) = {})
          /\ (c = 0 <=> Closing(f) = {})
  BY Numbered
<1>2. t <= 1 /\ c <= 1 /\ (t # 0 => d = 0 /\ c = 0) /\ (c # 0 => d = 0 /\ t = 0)
  BY <1>1
<1>3. ASSUME NEW S, IsFiniteSet(S), Cardinality(S) <= 1, NEW p \in S, NEW q \in S
      PROVE  p = q
  <2>1. Cardinality(S \ {p}) = Cardinality(S) - 1 /\ Cardinality(S) \in Nat /\ IsFiniteSet(S \ {p})
    BY <1>3, OneMore, FS_RemoveElement
  <2>2. Cardinality(S \ {p}) = 0
    <3>1. Cardinality(S \ {p}) \in Nat
      BY <2>1, FS_CardinalityType
    <3>2. QED
      BY <1>3, <2>1, <3>1
  <2>3. S \ {p} = {}
    BY <2>1, <2>2, FS_EmptySet
  <2>4. QED
    BY <2>3
<1>4. \A p, q \in Opening(f) : p = q
  BY <1>1, <1>2, <1>3, Finite
<1>5. \A p, q \in Closing(f) : p = q
  BY <1>1, <1>2, <1>3, Finite
<1>6. QED
  BY <1>1, <1>2, <1>4, <1>5

LEMMA NoReference ==
    ASSUME NEW f, References(f) = 0
    PROVE  Descriptors(f) = {} /\ Opening(f) = {} /\ Closing(f) = {}
<1>1. PICK d \in Nat, t \in Nat, c \in Nat :
          /\ d = Cardinality(Descriptors(f)) /\ t = Cardinality(Opening(f))
          /\ c = Cardinality(Closing(f)) /\ References(f) = d + t + c
          /\ (d = 0 <=> Descriptors(f) = {}) /\ (t = 0 <=> Opening(f) = {})
          /\ (c = 0 <=> Closing(f) = {})
  BY Numbered
<1>2. d = 0 /\ t = 0 /\ c = 0
  <2>1. d + t + c = 0
    BY <1>1
  <2>2. QED
    BY <2>1
<1>3. QED
  BY <1>1, <1>2

\* The same places, the same references.
LEMMA SameReferences ==
    ASSUME NEW f, Descriptors(f)' = Descriptors(f), Opening(f)' = Opening(f),
           Closing(f)' = Closing(f)
    PROVE  References(f)' = References(f)
BY DEF References

\* A file gets a descriptor, or loses one.
LEMMA DescriptorAdded ==
    ASSUME NEW p \in Procs, NEW d \in FDs, NEW f,
           \A q \in Procs, e \in FDs : ofile'[q][e] = f <=> ofile[q][e] = f \/ (q = p /\ e = d)
    PROVE  Descriptors(f)' = Descriptors(f) \cup {<<p, d>>}
<1>1. \A q \in Procs, e \in FDs : <<q, e>> = <<p, d>> <=> q = p /\ e = d
  OBVIOUS
<1>2. \A x \in Procs \X FDs : x = <<x[1], x[2]>> /\ x[1] \in Procs /\ x[2] \in FDs
  OBVIOUS
<1>3. \A x \in Procs \X FDs : ofile'[x[1]][x[2]] = f <=> ofile[x[1]][x[2]] = f \/ x = <<p, d>>
  BY <1>1, <1>2
<1>4. <<p, d>> \in Procs \X FDs
  OBVIOUS
<1>5. QED
  BY <1>3, <1>4 DEF Descriptors

LEMMA DescriptorRemoved ==
    ASSUME NEW p \in Procs, NEW d \in FDs, NEW f,
           \A q \in Procs, e \in FDs :
              ofile'[q][e] = f <=> ofile[q][e] = f /\ ~(q = p /\ e = d)
    PROVE  Descriptors(f)' = Descriptors(f) \ {<<p, d>>}
<1>1. \A q \in Procs, e \in FDs : <<q, e>> = <<p, d>> <=> q = p /\ e = d
  OBVIOUS
<1>2. \A x \in Procs \X FDs : x = <<x[1], x[2]>> /\ x[1] \in Procs /\ x[2] \in FDs
  OBVIOUS
<1>3. \A x \in Procs \X FDs : ofile'[x[1]][x[2]] = f <=> ofile[x[1]][x[2]] = f /\ x # <<p, d>>
  BY <1>1, <1>2
<1>4. QED
  BY <1>3 DEF Descriptors

LEMMA DescriptorsKept ==
    ASSUME NEW f,
           \A q \in Procs, e \in FDs : ofile'[q][e] = f <=> ofile[q][e] = f
    PROVE  Descriptors(f)' = Descriptors(f)
<1>1. \A x \in Procs \X FDs : x[1] \in Procs /\ x[2] \in FDs
  OBVIOUS
<1>2. QED
  BY <1>1 DEF Descriptors

\* The files in the hands of one process change.
LEMMA OpeningSet ==
    ASSUME NEW p \in Procs, NEW f, \A q \in Procs : q # p => temp'[q] = temp[q]
    PROVE  Opening(f)' = IF f \in Range(temp'[p]) THEN Opening(f) \cup {p} ELSE Opening(f) \ {p}
BY DEF Opening

LEMMA ClosingSet ==
    ASSUME NEW p \in Procs, NEW f, \A q \in Procs : q # p => closing'[q] = closing[q]
    PROVE  Closing(f)' = IF f \in Range(closing'[p]) THEN Closing(f) \cup {p} ELSE Closing(f) \ {p}
BY DEF Closing

\* filealloc
LEMMA AllocCounts ==
    ASSUME FilesTypeOK, Counted, NEW p \in Procs, NEW f \in Files,
           ref[f] = 0, ref' = [ref EXCEPT ![f] = 1],
           temp' = [temp EXCEPT ![p] = Append(@, f)], UNCHANGED <<ofile, closing>>
    PROVE  Counted'
<1> SUFFICES ASSUME NEW g \in Files
             PROVE  ref'[g] = References(g)'
  BY DEF Counted
<1>1. Descriptors(g)' = Descriptors(g) /\ Closing(g)' = Closing(g)
  BY DEF Descriptors, Closing
<1>2. temp[p] \in Seq(Files) /\ temp'[p] = Append(temp[p], f)
      /\ \A q \in Procs : q # p => temp'[q] = temp[q]
  BY DEF FilesTypeOK
<1>3. Range(temp'[p]) = Range(temp[p]) \cup {f}
  BY <1>2, RangeFacts
<1>4. Opening(g)' = IF g \in Range(temp'[p]) THEN Opening(g) \cup {p} ELSE Opening(g) \ {p}
  BY <1>2, OpeningSet
<1>5. CASE g = f
  <2>1. References(g) = 0
    BY <1>5 DEF Counted
  <2>2. Descriptors(g) = {} /\ Opening(g) = {} /\ Closing(g) = {}
    BY <2>1, NoReference
  <2>3. Opening(g)' = {p}
    BY <1>3, <1>4, <1>5, <2>2
  <2>4. Cardinality({p}) = 1 /\ Cardinality({}) = 0
    BY FS_Singleton, FS_EmptySet
  <2>5. References(g)' = Cardinality({}) + Cardinality({p}) + Cardinality({})
    <3>1. Descriptors(g)' = {} /\ Closing(g)' = {}
      BY <1>1, <2>2
    <3>2. QED
      BY <3>1, <2>3 DEF References
  <2>6. ref'[g] = 1
    BY <1>5 DEF FilesTypeOK
  <2>7. QED
    BY <2>4, <2>5, <2>6
<1>6. CASE g # f
  <2>1. p \in Opening(g) <=> g \in Range(temp[p])
    BY DEF Opening
  <2>2. Opening(g)' = Opening(g)
    BY <1>3, <1>4, <1>6, <2>1
  <2>3. ref'[g] = ref[g]
    BY <1>6 DEF FilesTypeOK
  <2>4. QED
    BY <1>1, <2>2, <2>3, SameReferences DEF Counted
<1>7. QED
  BY <1>5, <1>6

\* Files that have no descriptor yet are closed.
LEMMA GiveUpCounts ==
    ASSUME FilesTypeOK, Counted, NEW p \in Procs, closing[p] = <<>>, GiveUpFiles(p),
           UNCHANGED <<ref, ofile>>
    PROVE  Counted'
<1> SUFFICES ASSUME NEW g \in Files
             PROVE  References(g)' = References(g)
  BY DEF Counted
<1>1. Descriptors(g)' = Descriptors(g)
  BY DEF Descriptors
<1>2. /\ closing'[p] = temp[p] /\ temp'[p] = <<>>
      /\ \A q \in Procs : q # p => temp'[q] = temp[q]
      /\ \A q \in Procs : q # p => closing'[q] = closing[q]
  BY DEF FilesTypeOK, GiveUpFiles
<1>3. Range(temp'[p]) = {} /\ Range(closing[p]) = {}
  BY <1>2 DEF Range
<1>4. Opening(g)' = Opening(g) \ {p}
  BY <1>2, <1>3, OpeningSet
<1>5. Closing(g)' = IF g \in Range(temp[p]) THEN Closing(g) \cup {p} ELSE Closing(g) \ {p}
  BY <1>2, ClosingSet
<1>6. (p \in Opening(g) <=> g \in Range(temp[p])) /\ p \notin Closing(g)
  BY <1>3 DEF Opening, Closing
<1>7. CASE p \in Opening(g)
  <2>1. PICK d, t, c : d = Descriptors(g) /\ t = Opening(g) /\ c = Closing(g)
    OBVIOUS
  <2>2. IsFiniteSet(d) /\ IsFiniteSet(t) /\ IsFiniteSet(c) /\ p \in t /\ p \notin c
    BY <1>6, <1>7, <2>1, Finite
  <2>3. Cardinality(t \ {p}) + Cardinality(c \cup {p}) = Cardinality(t) + Cardinality(c)
    BY <2>2, OneOver
  <2>4. References(g)' = Cardinality(d) + Cardinality(t \ {p}) + Cardinality(c \cup {p})
    <3>1. Descriptors(g)' = d /\ Opening(g)' = t \ {p}
      BY <1>1, <1>4, <2>1
    <3>2. Closing(g)' = c \cup {p}
      BY <1>5, <1>6, <1>7, <2>1
    <3>3. QED
      BY <3>1, <3>2 DEF References
  <2>5. References(g) = Cardinality(d) + Cardinality(t) + Cardinality(c)
    BY <2>1 DEF References
  <2>6. Cardinality(d) \in Nat /\ Cardinality(t) \in Nat /\ Cardinality(c) \in Nat
        /\ Cardinality(t \ {p}) \in Nat /\ Cardinality(c \cup {p}) \in Nat
    BY <2>2, FS_CardinalityType, FS_RemoveElement, FS_AddElement
  <2>7. QED
    BY <2>3, <2>4, <2>5, <2>6
<1>8. CASE p \notin Opening(g)
  <2>1. Opening(g)' = Opening(g) /\ Closing(g)' = Closing(g)
    BY <1>4, <1>5, <1>6, <1>8
  <2>2. QED
    BY <1>1, <2>1, SameReferences
<1>9. QED
  BY <1>7, <1>8

\* Two files get descriptors.
LEMMA InstallCounts ==
    ASSUME FilesTypeOK, Counted, NEW p \in Procs, NEW d0 \in FDs, NEW d1 \in FDs, d0 # d1,
           NEW rf \in Files, NEW wf \in Files, rf # wf, Range(temp[p]) = {rf, wf},
           ofile[p][d0] = NoFile, ofile[p][d1] = NoFile,
           ofile' = [ofile EXCEPT ![p][d0] = rf, ![p][d1] = wf],
           temp' = [temp EXCEPT ![p] = <<>>], UNCHANGED <<ref, closing>>
    PROVE  Counted'
<1> SUFFICES ASSUME NEW g \in Files
             PROVE  References(g)' = References(g)
  BY DEF Counted
<1>1. Closing(g)' = Closing(g)
  BY DEF Closing
<1>2. temp'[p] = <<>> /\ \A q \in Procs : q # p => temp'[q] = temp[q]
  BY DEF FilesTypeOK
<1>3. Range(temp'[p]) = {}
  BY <1>2 DEF Range
<1>4. Opening(g)' = Opening(g) \ {p}
  BY <1>2, <1>3, OpeningSet
<1>5. p \in Opening(g) <=> g \in {rf, wf}
  BY DEF Opening
<1>6. \A q \in Procs, e \in FDs : ofile'[q][e] = IF q = p /\ e = d0 THEN rf
                                                 ELSE IF q = p /\ e = d1 THEN wf ELSE ofile[q][e]
  BY DEF FilesTypeOK
<1>7. g # NoFile
  BY FilesAssumption DEF Files
<1>8. ASSUME NEW d \in FDs, d = IF g = rf THEN d0 ELSE d1, g \in {rf, wf}
      PROVE  References(g)' = References(g)
  <2>1. \A q \in Procs, e \in FDs :
           ofile'[q][e] = g <=> ofile[q][e] = g \/ (q = p /\ e = d)
    <3>1. SUFFICES ASSUME NEW q \in Procs, NEW e \in FDs
                   PROVE  ofile'[q][e] = g <=> ofile[q][e] = g \/ (q = p /\ e = d)
      OBVIOUS
    <3>2. ofile'[q][e] = IF q = p /\ e = d0 THEN rf
                         ELSE IF q = p /\ e = d1 THEN wf ELSE ofile[q][e]
      BY <1>6
    <3>3. CASE g = rf
      BY <1>7, <1>8, <3>2, <3>3
    <3>4. CASE g = wf
      BY <1>7, <1>8, <3>2, <3>4
    <3>5. QED
      BY <1>8, <3>3, <3>4
  <2>2. Descriptors(g)' = Descriptors(g) \cup {<<p, d>>}
    BY <2>1, DescriptorAdded
  <2>3. <<p, d>> \notin Descriptors(g)
    BY <1>7, <1>8 DEF Descriptors
  <2>4. PICK D, T, C, x : D = Descriptors(g) /\ T = Opening(g) /\ C = Closing(g) /\ x = <<p, d>>
    OBVIOUS
  <2>5. IsFiniteSet(D) /\ IsFiniteSet(T) /\ IsFiniteSet(C) /\ p \in T /\ x \notin D
    BY <1>5, <1>8, <2>3, <2>4, Finite
  <2>6. Cardinality(T \ {p}) + Cardinality(D \cup {x}) = Cardinality(T) + Cardinality(D)
    BY <2>5, OneOver
  <2>7. References(g)' = Cardinality(D \cup {x}) + Cardinality(T \ {p}) + Cardinality(C)
    <3>1. Descriptors(g)' = D \cup {x} /\ Opening(g)' = T \ {p} /\ Closing(g)' = C
      BY <1>1, <1>4, <2>2, <2>4
    <3>2. QED
      BY <3>1 DEF References
  <2>8. References(g) = Cardinality(D) + Cardinality(T) + Cardinality(C)
    BY <2>4 DEF References
  <2>9. Cardinality(D) \in Nat /\ Cardinality(T) \in Nat /\ Cardinality(C) \in Nat
        /\ Cardinality(T \ {p}) \in Nat /\ Cardinality(D \cup {x}) \in Nat
    BY <2>5, FS_CardinalityType, FS_RemoveElement, FS_AddElement
  <2>10. QED
    BY <2>6, <2>7, <2>8, <2>9
<1>9. ASSUME g \notin {rf, wf}
      PROVE  References(g)' = References(g)
  <2>1. \A q \in Procs, e \in FDs : ofile'[q][e] = g <=> ofile[q][e] = g
    <3>1. SUFFICES ASSUME NEW q \in Procs, NEW e \in FDs
                   PROVE  ofile'[q][e] = g <=> ofile[q][e] = g
      OBVIOUS
    <3>2. ofile'[q][e] = IF q = p /\ e = d0 THEN rf
                         ELSE IF q = p /\ e = d1 THEN wf ELSE ofile[q][e]
      BY <1>6
    <3>3. QED
      BY <1>7, <1>9, <3>2
  <2>2. Descriptors(g)' = Descriptors(g)
    BY <2>1, DescriptorsKept
  <2>3. Opening(g)' = Opening(g)
    BY <1>4, <1>5, <1>9
  <2>4. QED
    BY <1>1, <2>2, <2>3, SameReferences
<1>10. QED
  BY <1>8, <1>9

\* filedup, for a free descriptor
LEMMA DupCounts ==
    ASSUME FilesTypeOK, Counted, NEW p \in Procs, NEW d \in FDs, ofile[p][d] = NoFile,
           NEW f \in Files, ofile' = [ofile EXCEPT ![p][d] = f],
           ref' = [ref EXCEPT ![f] = @ + 1], UNCHANGED <<temp, closing>>
    PROVE  Counted'
<1> SUFFICES ASSUME NEW g \in Files
             PROVE  ref'[g] = References(g)'
  BY DEF Counted
<1>1. Closing(g)' = Closing(g) /\ Opening(g)' = Opening(g)
  BY DEF Closing, Opening
<1>2. \A q \in Procs, e \in FDs : ofile'[q][e] = IF q = p /\ e = d THEN f ELSE ofile[q][e]
  BY DEF FilesTypeOK
<1>3. g # NoFile
  BY FilesAssumption DEF Files
<1>4. ref'[g] = (IF g = f THEN ref[g] + 1 ELSE ref[g]) /\ ref[g] = References(g) /\ ref[g] \in Nat
  BY DEF FilesTypeOK, Counted
<1>5. CASE g = f
  <2>1. \A q \in Procs, e \in FDs :
           ofile'[q][e] = g <=> ofile[q][e] = g \/ (q = p /\ e = d)
    BY <1>2, <1>5
  <2>2. Descriptors(g)' = Descriptors(g) \cup {<<p, d>>}
    BY <2>1, DescriptorAdded
  <2>3. <<p, d>> \notin Descriptors(g)
    BY <1>3 DEF Descriptors
  <2>4. PICK D, T, C, x : D = Descriptors(g) /\ T = Opening(g) /\ C = Closing(g) /\ x = <<p, d>>
    OBVIOUS
  <2>5. IsFiniteSet(D) /\ IsFiniteSet(T) /\ IsFiniteSet(C) /\ x \notin D
    BY <2>3, <2>4, Finite
  <2>6. Cardinality(D \cup {x}) = Cardinality(D) + 1
    BY <2>5, OneMore
  <2>7. References(g)' = Cardinality(D \cup {x}) + Cardinality(T) + Cardinality(C)
    <3>1. Descriptors(g)' = D \cup {x} /\ Opening(g)' = T /\ Closing(g)' = C
      BY <1>1, <2>2, <2>4
    <3>2. QED
      BY <3>1 DEF References
  <2>8. References(g) = Cardinality(D) + Cardinality(T) + Cardinality(C)
    BY <2>4 DEF References
  <2>9. Cardinality(D) \in Nat /\ Cardinality(T) \in Nat /\ Cardinality(C) \in Nat
    BY <2>5, FS_CardinalityType
  <2>10. QED
    BY <1>4, <1>5, <2>6, <2>7, <2>8, <2>9
<1>6. CASE g # f
  <2>1. \A q \in Procs, e \in FDs : ofile'[q][e] = g <=> ofile[q][e] = g
    BY <1>2, <1>3, <1>6
  <2>2. Descriptors(g)' = Descriptors(g)
    BY <2>1, DescriptorsKept
  <2>3. QED
    BY <1>1, <1>4, <1>6, <2>2, SameReferences
<1>7. QED
  BY <1>5, <1>6

\* kfork, for a child without descriptors
LEMMA InheritCounts ==
    ASSUME FilesTypeOK, Counted, NEW p \in Procs, NEW child \in Procs,
           \A d \in FDs : ofile[child][d] = NoFile, Inherit(p, child)
    PROVE  Counted'
<1> SUFFICES ASSUME NEW g \in Files
             PROVE  ref'[g] = References(g)'
  BY DEF Counted
<1> DEFINE E == {d \in FDs : ofile[p][d] = g}
           X == {child} \X E
<1>1. Closing(g)' = Closing(g) /\ Opening(g)' = Opening(g)
  BY DEF Closing, Opening, Inherit
<1>2. \A q \in Procs, e \in FDs : ofile'[q][e] = IF q = child THEN ofile[p][e] ELSE ofile[q][e]
  BY DEF FilesTypeOK, Inherit
<1>3. g # NoFile
  BY FilesAssumption DEF Files
<1>4. ref'[g] = ref[g] + Cardinality(E) /\ ref[g] = References(g) /\ ref[g] \in Nat
  BY DEF FilesTypeOK, Counted, Inherit
<1>5. Descriptors(g)' = Descriptors(g) \cup X
  <2>1. \A x \in Procs \X FDs : x = <<x[1], x[2]>> /\ x[1] \in Procs /\ x[2] \in FDs
    OBVIOUS
  <2>2. \A x \in Procs \X FDs : x \in X <=> x[1] = child /\ ofile[p][x[2]] = g
    BY <2>1
  <2>3. \A x \in Procs \X FDs :
           ofile'[x[1]][x[2]] = g <=> ofile[x[1]][x[2]] = g \/ x \in X
    <3>1. SUFFICES ASSUME NEW x \in Procs \X FDs
                   PROVE  ofile'[x[1]][x[2]] = g <=> ofile[x[1]][x[2]] = g \/ x \in X
      OBVIOUS
    <3>2. x[1] \in Procs /\ x[2] \in FDs
      BY <2>1
    <3>3. ofile'[x[1]][x[2]] = IF x[1] = child THEN ofile[p][x[2]] ELSE ofile[x[1]][x[2]]
      BY <1>2, <3>2
    <3>4. CASE x[1] = child
      <4>1. ofile[x[1]][x[2]] = NoFile
        BY <3>2, <3>4
      <4>2. QED
        BY <1>3, <2>2, <3>3, <3>4, <4>1
    <3>5. CASE x[1] # child
      BY <2>2, <3>3, <3>5
    <3>6. QED
      BY <3>4, <3>5
  <2>4. X \subseteq Procs \X FDs
    OBVIOUS
  <2>5. QED
    BY <2>3, <2>4 DEF Descriptors
<1>6. Descriptors(g) \cap X = {}
  <2>1. \A x \in X : x \in Procs \X FDs /\ x[1] = child /\ x[2] \in FDs
    OBVIOUS
  <2>2. QED
    BY <1>3, <2>1 DEF Descriptors
<1>7. IsFiniteSet(E)
  <2>1. IsFiniteSet(FDs)
    BY FilesAssumption, FS_Interval DEF FDs
  <2>2. QED
    BY <2>1, FS_Subset
<1>8. IsFiniteSet(X) /\ Cardinality(X) = Cardinality(E)
  <2>1. IsFiniteSet({child}) /\ Cardinality({child}) = 1
    BY FS_Singleton
  <2>2. IsFiniteSet(X) /\ Cardinality(X) = Cardinality({child}) * Cardinality(E)
    BY <1>7, <2>1, FS_Product
  <2>3. Cardinality(E) \in Nat
    BY <1>7, FS_CardinalityType
  <2>4. QED
    BY <2>1, <2>2, <2>3
<1> HIDE DEF X, E
<1>9. PICK D, T, C : D = Descriptors(g) /\ T = Opening(g) /\ C = Closing(g)
  OBVIOUS
<1>10. IsFiniteSet(D) /\ IsFiniteSet(T) /\ IsFiniteSet(C) /\ D \cap X = {}
  BY <1>6, <1>9, Finite
<1>11. Cardinality(D \cup X) = Cardinality(D) + Cardinality(E)
  <2>1. Cardinality(D \cup X) = Cardinality(D) + Cardinality(X) - Cardinality(D \cap X)
    BY <1>8, <1>10, FS_Union
  <2>2. Cardinality(D \cap X) = 0
    BY <1>10, FS_EmptySet
  <2>3. Cardinality(D) \in Nat /\ Cardinality(X) \in Nat
    BY <1>8, <1>10, FS_CardinalityType
  <2>4. QED
    BY <1>8, <2>1, <2>2, <2>3
<1>12. References(g)' = Cardinality(D \cup X) + Cardinality(T) + Cardinality(C)
  <2>1. Descriptors(g)' = D \cup X /\ Opening(g)' = T /\ Closing(g)' = C
    BY <1>1, <1>5, <1>9
  <2>2. QED
    BY <2>1 DEF References
<1>13. References(g) = Cardinality(D) + Cardinality(T) + Cardinality(C)
  BY <1>9 DEF References
<1>14. /\ Cardinality(D) \in Nat /\ Cardinality(T) \in Nat /\ Cardinality(C) \in Nat
       /\ Cardinality(E) \in Nat
  BY <1>7, <1>10, FS_CardinalityType
<1>15. QED
  BY <1>4, <1>11, <1>12, <1>13, <1>14

\* A descriptor is given up, and its file is to close.
LEMMA CloseCounts ==
    ASSUME FilesTypeOK, Counted, NEW p \in Procs, NEW d \in FDs, closing[p] = <<>>,
           CloseFD(p, d)
    PROVE  Counted' /\ ofile[p][d] \in Files
<1>1. PICK f : f = ofile[p][d]
  OBVIOUS
<1>2. f \in Files
  BY <1>1 DEF CloseFD, OpenFDs, FreeFDs, FilesTypeOK
<1> SUFFICES ASSUME NEW g \in Files
             PROVE  References(g)' = References(g)
  BY <1>1, <1>2 DEF Counted, CloseFD
<1>3. Opening(g)' = Opening(g)
  BY DEF Opening, CloseFD
<1>4. \A q \in Procs, e \in FDs : ofile'[q][e] = IF q = p /\ e = d THEN NoFile ELSE ofile[q][e]
  BY DEF FilesTypeOK, CloseFD
<1>5. g # NoFile
  BY FilesAssumption DEF Files
<1>6. closing'[p] = <<f>> /\ \A q \in Procs : q # p => closing'[q] = closing[q]
  BY <1>1 DEF FilesTypeOK, CloseFD
<1>7. Range(closing'[p]) = {f} /\ Range(closing[p]) = {}
  BY <1>6 DEF Range
<1>8. Closing(g)' = IF g = f THEN Closing(g) \cup {p} ELSE Closing(g) \ {p}
  BY <1>6, <1>7, ClosingSet
<1>9. p \notin Closing(g)
  BY <1>7 DEF Closing
<1>10. CASE g = f
  <2>1. \A q \in Procs, e \in FDs :
           ofile'[q][e] = g <=> ofile[q][e] = g /\ ~(q = p /\ e = d)
    BY <1>4, <1>5
  <2>2. Descriptors(g)' = Descriptors(g) \ {<<p, d>>}
    BY <2>1, DescriptorRemoved
  <2>3. <<p, d>> \in Descriptors(g)
    BY <1>1, <1>10 DEF Descriptors
  <2>4. PICK D, T, C, x : D = Descriptors(g) /\ T = Opening(g) /\ C = Closing(g) /\ x = <<p, d>>
    OBVIOUS
  <2>5. IsFiniteSet(D) /\ IsFiniteSet(T) /\ IsFiniteSet(C) /\ x \in D /\ p \notin C
    BY <1>9, <2>3, <2>4, Finite
  <2>6. Cardinality(D \ {x}) + Cardinality(C \cup {p}) = Cardinality(D) + Cardinality(C)
    BY <2>5, OneOver
  <2>7. References(g)' = Cardinality(D \ {x}) + Cardinality(T) + Cardinality(C \cup {p})
    <3>1. Descriptors(g)' = D \ {x} /\ Opening(g)' = T /\ Closing(g)' = C \cup {p}
      BY <1>3, <1>8, <1>10, <2>2, <2>4
    <3>2. QED
      BY <3>1 DEF References
  <2>8. References(g) = Cardinality(D) + Cardinality(T) + Cardinality(C)
    BY <2>4 DEF References
  <2>9. /\ Cardinality(D) \in Nat /\ Cardinality(T) \in Nat /\ Cardinality(C) \in Nat
        /\ Cardinality(D \ {x}) \in Nat /\ Cardinality(C \cup {p}) \in Nat
    BY <2>5, FS_CardinalityType, FS_RemoveElement, FS_AddElement
  <2>10. QED
    BY <2>6, <2>7, <2>8, <2>9
<1>11. CASE g # f
  <2>1. \A q \in Procs, e \in FDs : ofile'[q][e] = g <=> ofile[q][e] = g
    BY <1>1, <1>4, <1>5, <1>11
  <2>2. Descriptors(g)' = Descriptors(g)
    BY <2>1, DescriptorsKept
  <2>3. Closing(g)' = Closing(g)
    BY <1>8, <1>9, <1>11
  <2>4. QED
    BY <1>3, <2>2, <2>3, SameReferences
<1>12. QED
  BY <1>10, <1>11

LEMMA TailFacts ==
    ASSUME NEW S, NEW s \in Seq(S), Len(s) \in 1..2, Len(s) = 2 => s[1] # s[2]
    PROVE  /\ Head(s) \in S /\ Head(s) \in Range(s)
           /\ Tail(s) \in Seq(S) /\ Len(Tail(s)) = Len(s) - 1
           /\ Range(Tail(s)) = Range(s) \ {Head(s)}
<1>1. s # <<>> /\ Len(s) \in {1, 2}
  OBVIOUS
<1>2. Head(s) = s[1] /\ s[1] \in S
  BY <1>1, HeadTailProperties
<1>3. Tail(s) \in Seq(S) /\ Len(Tail(s)) = Len(s) - 1 /\ \A i \in 1..Len(Tail(s)) : Tail(s)[i] = s[i + 1]
  BY <1>1, HeadTailProperties
<1>4. CASE Len(s) = 1
  <2>1. Range(s) = {s[1]} /\ Len(Tail(s)) = 0
    BY <1>3, <1>4, RangeFacts
  <2>2. Range(Tail(s)) = {}
    BY <1>3, <2>1, RangeFacts
  <2>3. QED
    BY <1>2, <1>3, <2>1, <2>2
<1>5. CASE Len(s) = 2
  <2>1. Range(s) = {s[1], s[2]} /\ Len(Tail(s)) = 1
    BY <1>3, <1>5, RangeFacts
  <2>2. Tail(s)[1] = s[2]
    BY <1>3, <2>1
  <2>3. Range(Tail(s)) = {s[2]}
    BY <1>3, <2>1, <2>2, RangeFacts
  <2>4. QED
    BY <1>2, <1>3, <1>5, <2>1, <2>3
<1>6. QED
  BY <1>1, <1>4, <1>5

\* fileclose
LEMMA FileCloseCounts ==
    ASSUME FilesTypeOK, Counted, NEW p \in Procs, NEW f, f = Head(closing[p]),
           Len(closing[p]) \in 1..2, Len(closing[p]) = 2 => closing[p][1] # closing[p][2],
           FileClose(p)
    PROVE  /\ Counted' /\ f \in Files /\ ref[f] \in Nat \ {0} /\ p \in Closing(f)
           /\ closing'[p] \in Seq(Files) /\ Len(closing'[p]) = Len(closing[p]) - 1
<1>1. closing[p] \in Seq(Files)
  BY DEF FilesTypeOK
<1>2. /\ f \in Files /\ f \in Range(closing[p])
      /\ Tail(closing[p]) \in Seq(Files) /\ Len(Tail(closing[p])) = Len(closing[p]) - 1
      /\ Range(Tail(closing[p])) = Range(closing[p]) \ {f}
  BY <1>1, TailFacts
<1>3. closing'[p] = Tail(closing[p]) /\ \A q \in Procs : q # p => closing'[q] = closing[q]
  BY DEF FilesTypeOK, FileClose
<1>4. UNCHANGED <<ofile, temp>> /\ ref' = [ref EXCEPT ![f] = @ - 1]
  BY DEF FileClose
<1>5. p \in Closing(f)
  BY <1>2 DEF Closing
<1>6. ref[f] = References(f) /\ ref[f] \in Nat
  BY <1>2 DEF Counted, FilesTypeOK
<1>7. PICK D, T, C : D = Descriptors(f) /\ T = Opening(f) /\ C = Closing(f)
  OBVIOUS
<1>8. IsFiniteSet(D) /\ IsFiniteSet(T) /\ IsFiniteSet(C) /\ p \in C
  BY <1>5, <1>7, Finite
<1>9. ref[f] = Cardinality(D) + Cardinality(T) + Cardinality(C)
  BY <1>6, <1>7 DEF References
<1>10. Cardinality(C \ {p}) = Cardinality(C) - 1 /\ Cardinality(C) >= 1 /\ Cardinality(C) \in Nat
  BY <1>8, OneMore
<1>11. Cardinality(D) \in Nat /\ Cardinality(T) \in Nat
  BY <1>8, FS_CardinalityType
<1>12. ref[f] \in Nat \ {0}
  BY <1>6, <1>9, <1>10, <1>11
<1>13. ASSUME NEW g \in Files
       PROVE  ref'[g] = References(g)'
  <2>1. Descriptors(g)' = Descriptors(g) /\ Opening(g)' = Opening(g)
    BY <1>4 DEF Descriptors, Opening
  <2>2. Closing(g)' = IF g \in Range(closing'[p]) THEN Closing(g) \cup {p} ELSE Closing(g) \ {p}
    BY <1>3, ClosingSet
  <2>3. p \in Closing(g) <=> g \in Range(closing[p])
    BY DEF Closing
  <2>4. CASE g = f
    <3>1. Closing(g)' = C \ {p}
      BY <1>2, <1>3, <1>7, <2>2, <2>4
    <3>2. Descriptors(g)' = D /\ Opening(g)' = T
      BY <1>7, <2>1, <2>4
    <3>3. References(g)' = Cardinality(D) + Cardinality(T) + Cardinality(C \ {p})
      BY <3>1, <3>2 DEF References
    <3>4. ref'[g] = ref[f] - 1
      BY <1>4, <2>4 DEF FilesTypeOK
    <3>5. QED
      BY <1>9, <1>10, <1>11, <3>3, <3>4
  <2>5. CASE g # f
    <3>1. Closing(g)' = Closing(g)
      BY <1>2, <1>3, <2>2, <2>3, <2>5
    <3>2. ref'[g] = ref[g]
      BY <1>4, <2>5 DEF FilesTypeOK
    <3>3. QED
      BY <2>1, <3>1, <3>2, SameReferences DEF Counted
  <2>6. QED
    BY <2>4, <2>5
<1>14. QED
  BY <1>2, <1>3, <1>5, <1>12, <1>13 DEF Counted

-----------------------------------------------------------------------------
(* The pipes.                                                              *)

\* The bytes under way, counted with counters that wrap.
LEMMA Circle ==
    ASSUME NEW M \in Nat \ {0}, NEW a \in 0..M-1, NEW b \in 0..M-1, NEW S \in 1..M-1
    PROVE  /\ (b - a) % M \in 0..M-1
           /\ (b - a) % M = 0 <=> a = b
           /\ b = (a + S) % M <=> (b - a) % M = S
           /\ (a + 1) % M \in 0..M-1 /\ (b + 1) % M \in 0..M-1
           /\ a # b => (b - ((a + 1) % M)) % M = ((b - a) % M) - 1
           /\ (b - a) % M < S => (((b + 1) % M) - a) % M = ((b - a) % M) + 1
<1>1. /\ a \in Nat /\ b \in Nat /\ S \in Nat /\ M \in Nat
      /\ a < M /\ b < M /\ 0 < S /\ S < M
  OBVIOUS
<1>2. (a + 1) % M = (IF a + 1 < M THEN a + 1 ELSE 0)
  <2>1. PICK x \in Int : x = a + 1
    BY <1>1
  <2>2. 0 <= x /\ x <= M /\ x < 2 * M
    BY <1>1, <2>1
  <2>3. x % M = IF x < M THEN x ELSE x - M
    BY <2>2, ModSmall
  <2>4. QED
    BY <1>1, <2>1, <2>2, <2>3
<1>3. (b + 1) % M = (IF b + 1 < M THEN b + 1 ELSE 0)
  <2>1. PICK x \in Int : x = b + 1
    BY <1>1
  <2>2. 0 <= x /\ x <= M /\ x < 2 * M
    BY <1>1, <2>1
  <2>3. x % M = IF x < M THEN x ELSE x - M
    BY <2>2, ModSmall
  <2>4. QED
    BY <1>1, <2>1, <2>2, <2>3
<1>4. ASSUME NEW x \in 0..M-1, NEW y \in 0..M-1
      PROVE  (y - x) % M = IF y >= x THEN y - x ELSE y - x + M
  <2>1. CASE y >= x
    <3>1. 0 <= y - x /\ y - x < M /\ y - x < 2 * M /\ y - x \in Int
      BY <1>1, <2>1
    <3>2. QED
      BY <2>1, <3>1, ModSmall
  <2>2. CASE y < x
    <3>1. -M <= y - x /\ y - x < 0 /\ y - x \in Int
      BY <1>1, <2>2
    <3>2. (y - x) % M = y - x + M
      BY <3>1, ModNegative
    <3>3. QED
      BY <1>1, <2>2, <3>2
  <2>3. QED
    BY <2>1, <2>2
<1>5. (b - a) % M = IF b >= a THEN b - a ELSE b - a + M
  BY <1>4
<1>6. (a + S) % M = IF a + S < M THEN a + S ELSE a + S - M
  <2>1. PICK x \in Int : x = a + S
    BY <1>1
  <2>2. 0 <= x /\ x < 2 * M
    BY <1>1, <2>1
  <2>3. x % M = IF x < M THEN x ELSE x - M
    BY <2>2, ModSmall
  <2>4. QED
    BY <2>1, <2>3
<1>7. (a + 1) % M \in 0..M-1 /\ (b + 1) % M \in 0..M-1
  BY <1>1, <1>2, <1>3
<1>8. ASSUME a # b
      PROVE  (b - ((a + 1) % M)) % M = ((b - a) % M) - 1
  <2>1. PICK c \in 0..M-1 : c = (a + 1) % M
    BY <1>7
  <2>2. (b - c) % M = IF b >= c THEN b - c ELSE b - c + M
    BY <1>4
  <2>3. c = IF a + 1 < M THEN a + 1 ELSE 0
    BY <1>2, <2>1
  <2>4. (b - c) % M = ((b - a) % M) - 1
    BY <1>1, <1>5, <1>8, <2>2, <2>3
  <2>5. QED
    BY <2>1, <2>4
<1>9. ASSUME (b - a) % M < S
      PROVE  (((b + 1) % M) - a) % M = ((b - a) % M) + 1
  <2>1. PICK c \in 0..M-1 : c = (b + 1) % M
    BY <1>7
  <2>2. (c - a) % M = IF c >= a THEN c - a ELSE c - a + M
    BY <1>4
  <2>3. c = IF b + 1 < M THEN b + 1 ELSE 0
    BY <1>3, <2>1
  <2>4. (c - a) % M = ((b - a) % M) + 1
    BY <1>1, <1>5, <1>9, <2>2, <2>3
  <2>5. QED
    BY <2>1, <2>4
<1>10. (b - a) % M \in 0..M-1 /\ ((b - a) % M = 0 <=> a = b)
  BY <1>1, <1>5
<1>11. b = (a + S) % M <=> (b - a) % M = S
  BY <1>1, <1>5, <1>6
<1>12. QED
  BY <1>7, <1>8, <1>9, <1>10, <1>11

\* The two counters of a pipe.
LEMMA Counters ==
    ASSUME NEW a \in 0..IdxMod-1, NEW b \in 0..IdxMod-1
    PROVE  /\ (b - a) % IdxMod \in 0..IdxMod-1
           /\ (b - a) % IdxMod = 0 <=> a = b
           /\ b = (a + PIPESIZE) % IdxMod <=> (b - a) % IdxMod = PIPESIZE
           /\ \E c \in 0..IdxMod-1 :
                 c = (a + 1) % IdxMod /\ (a # b => (b - c) % IdxMod = ((b - a) % IdxMod) - 1)
           /\ \E c \in 0..IdxMod-1 :
                 c = (b + 1) % IdxMod
                 /\ ((b - a) % IdxMod < PIPESIZE => (c - a) % IdxMod = ((b - a) % IdxMod) + 1)
<1>1. PICK M \in Nat \ {0}, S \in 1..IdxMod-1 : M = IdxMod /\ S = PIPESIZE
  BY PipeAssumption
<1>2. a \in 0..M-1 /\ b \in 0..M-1 /\ S \in 1..M-1
  BY <1>1
<1>3. /\ (b - a) % M \in 0..M-1
      /\ (b - a) % M = 0 <=> a = b
      /\ b = (a + S) % M <=> (b - a) % M = S
      /\ (a + 1) % M \in 0..M-1 /\ (b + 1) % M \in 0..M-1
      /\ a # b => (b - ((a + 1) % M)) % M = ((b - a) % M) - 1
      /\ (b - a) % M < S => (((b + 1) % M) - a) % M = ((b - a) % M) + 1
  BY <1>2, Circle
<1>4. PICK c \in 0..M-1, e \in 0..M-1 : c = (a + 1) % M /\ e = (b + 1) % M
  BY <1>3
<1>5. /\ a # b => (b - c) % M = ((b - a) % M) - 1
      /\ (b - a) % M < S => (e - a) % M = ((b - a) % M) + 1
  BY <1>3, <1>4
<1>6. QED
  BY <1>1, <1>3, <1>4, <1>5

-----------------------------------------------------------------------------
(* The steps inside a pipe.                                                *)

LEMMA LeftSteps ==
    ASSUME left \in Lefts
    PROVE  /\ left.bad > 0 => [left EXCEPT !.bad = @ - 1] \in Lefts
           /\ left.kills > 0 => [left EXCEPT !.kills = @ - 1] \in Lefts
           /\ \A p \in Procs : left.calls[p] > 0 => [left EXCEPT !.calls[p] = @ - 1] \in Lefts
           /\ left.bytes \subseteq Bytes /\ left.sizes \subseteq Nat
<1>1. /\ left.bad \in Nat /\ left.kills \in Nat /\ left.calls \in [Procs -> Nat]
      /\ left.bytes \subseteq Bytes /\ left.sizes \subseteq Nat
  BY DEF Lefts
<1>2. left.bad > 0 => [left EXCEPT !.bad = @ - 1] \in Lefts
  BY <1>1 DEF Lefts
<1>3. left.kills > 0 => [left EXCEPT !.kills = @ - 1] \in Lefts
  BY <1>1 DEF Lefts
<1>4. ASSUME NEW p \in Procs, left.calls[p] > 0
      PROVE  [left EXCEPT !.calls[p] = @ - 1] \in Lefts
  <2>1. [left.calls EXCEPT ![p] = @ - 1] \in [Procs -> Nat]
    BY <1>1, <1>4
  <2>2. QED
    BY <2>1 DEF Lefts
<1>5. QED
  BY <1>1, <1>2, <1>3, <1>4

\* A process in piperead or pipewrite is in a pipe whose end is open.
LEMMA InsidePipe ==
    ASSUME IInv, NEW p \in Procs, pc[p] \in IOStates
    PROVE  /\ io[p].pi \in Pipes /\ io[p].i \in Nat /\ io[p].n \in Nat
           /\ Reading(p) => io[p].pi \in readopen
           /\ Writing(p) => io[p].pi \in writeopen
<1>1. Reading(p) \/ Writing(p)
  BY DEF IOStates, Reading, Writing
<1>2. ASSUME NEW w \in BOOLEAN, HasEnd(p, w)
      PROVE  io[p].pi \in Pipes /\ io[p].pi \in IF w THEN writeopen ELSE readopen
  <2>1. PICK d \in FDs : /\ ofile[p][d] # NoFile
                         /\ EndOf(ofile[p][d]) = [pipe |-> io[p].pi, writable |-> w]
    BY <1>2 DEF HasEnd
  <2>2. PICK f : f = ofile[p][d]
    OBVIOUS
  <2>3. f \in Files /\ type[f] = "PIPE"
    BY <2>1, <2>2 DEF IInv, PipeTypeOK, FilesTypeOK, Kinds
  <2>4. pipe[f] \in Pipes
    BY <2>3 DEF IInv, Kinds
  <2>5. pipe[f] = io[p].pi
    BY <2>1, <2>2 DEF EndOf
  <2>6. [pipe |-> io[p].pi, writable |-> w] \in OpenEnds
    BY <2>1, <2>2, <2>3 DEF OpenEnds
  <2>7. [pipe |-> io[p].pi, writable |-> w] \in
           {[pipe |-> pi, writable |-> FALSE] : pi \in readopen}
           \cup {[pipe |-> pi, writable |-> TRUE] : pi \in writeopen}
    BY <2>6 DEF IInv, Ends, Opened
  <2>8. QED
    BY <2>4, <2>5, <2>7
<1>3. io[p].i \in Nat /\ io[p].n \in Nat
  BY DEF IInv, LocalsOK, IOs
<1>4. Reading(p) => HasEnd(p, FALSE)
  BY DEF IInv, InPipe
<1>5. Writing(p) => HasEnd(p, TRUE)
  BY DEF IInv, InPipe
<1>6. QED
  BY <1>1, <1>2, <1>3, <1>4, <1>5

\* Those who are in a pipe keep the descriptor they are in it by.
LEMMA InPipeKept ==
    ASSUME InPipe, Kinds, FilesTypeOK,
           \A f \in Files : IsPipe(f) => pipe'[f] = pipe[f] /\ writable'[f] = writable[f],
           \A q \in Procs :
              /\ Reading(q)' => Reading(q) /\ io'[q].pi = io[q].pi /\ ofile'[q] = ofile[q]
              /\ Writing(q)' => Writing(q) /\ io'[q].pi = io[q].pi /\ ofile'[q] = ofile[q]
    PROVE  InPipe'
<1>1. ASSUME NEW q \in Procs, NEW w, HasEnd(q, w), io'[q].pi = io[q].pi, ofile'[q] = ofile[q]
      PROVE  HasEnd(q, w)'
  <2>1. PICK d \in FDs : /\ ofile[q][d] # NoFile
                         /\ EndOf(ofile[q][d]) = [pipe |-> io[q].pi, writable |-> w]
    BY <1>1 DEF HasEnd
  <2>2. PICK f \in Files : f = ofile[q][d]
    BY <2>1 DEF FilesTypeOK
  <2>3. IsPipe(f)
    BY <2>1, <2>2 DEF Kinds, IsPipe
  <2>4. pipe'[f] = pipe[f] /\ writable'[f] = writable[f]
    BY <2>3
  <2>5. ofile'[q][d] = f /\ f # NoFile
    BY <1>1, <2>1, <2>2
  <2>6. EndOf(f)' = [pipe |-> io'[q].pi, writable |-> w]
    BY <1>1, <2>1, <2>2, <2>4 DEF EndOf
  <2>7. QED
    BY <2>5, <2>6 DEF HasEnd, EndOf
<1>2. ASSUME NEW q \in Procs
      PROVE  (Reading(q)' => HasEnd(q, FALSE)') /\ (Writing(q)' => HasEnd(q, TRUE)')
  <2>1. CASE Reading(q)'
    <3>1. ~Writing(q)'
      BY <2>1 DEF Reading, Writing
    <3>2. HasEnd(q, FALSE)
      BY <2>1 DEF InPipe
    <3>3. HasEnd(q, FALSE)'
      BY <1>1, <2>1, <3>2
    <3>4. QED
      BY <3>1, <3>3
  <2>2. CASE Writing(q)'
    <3>1. ~Reading(q)'
      BY <2>2 DEF Reading, Writing
    <3>2. HasEnd(q, TRUE)
      BY <2>2 DEF InPipe
    <3>3. HasEnd(q, TRUE)'
      BY <1>1, <2>2, <3>2
    <3>4. QED
      BY <3>1, <3>3
  <2>3. QED
    BY <2>1, <2>2
<1>3. QED
  BY <1>2 DEF InPipe

\* A step that leaves the files and the ends alone and goes into no pipe.
LEMMA InsideStep ==
    ASSUME IInv, UNCHANGED <<files, live, readopen, writeopen>>,
           PipeTypeOK', Filled', left' \in Lefts,
           io' \in [Procs -> IOs],
           \A q \in Procs :
              /\ pc'[q] \in {pc[q], "exit", "gone"} \/ (pc[q] \in IOStates /\ pc'[q] \in {"user"} \cup IOStates)
              /\ pc[q] # pc'[q] /\ pc'[q] = "exit" => pc[q] = "user"
              /\ pc'[q] = "gone" => pc[q] = "gone" \/ (closing[q] = <<>> /\ ending[q] = NoEnd)
              /\ pc'[q] \in {"exit", "gone"} => pc[q] # "pipe"
              /\ Reading(q)' => Reading(q) /\ io'[q].pi = io[q].pi
              /\ Writing(q)' => Writing(q) /\ io'[q].pi = io[q].pi
    PROVE  IInv'
<1>1. UNCHANGED <<ref, type, writable, pipe, ofile, temp, closing, ending>>
  BY DEF files
<1>2. Counted'
  BY <1>1 DEF IInv, Counted, References, Descriptors, Opening, Closing
<1>3. Kinds'
  BY <1>1 DEF IInv, Kinds
<1>4. Ends'
  BY <1>1 DEF IInv, Ends, Opened, OpenEnds, EndOf, IsPipe
<1>5. InPipe'
  BY <1>1, InPipeKept DEF IInv, PipeTypeOK
<1>6. LocalsOK'
  <2>1. \A q \in Procs :
          /\ Len(temp[q]) \in IF pc'[q] = "pipe" THEN {1, 2} ELSE {0}
          /\ closing[q] # <<>> \/ ending[q] # NoEnd => pc'[q] \in {"user", "exit"}
          /\ pc'[q] = "unborn" => pc[q] = "unborn"
    <3>1. SUFFICES ASSUME NEW q \in Procs
                   PROVE  /\ Len(temp[q]) \in IF pc'[q] = "pipe" THEN {1, 2} ELSE {0}
                          /\ closing[q] # <<>> \/ ending[q] # NoEnd => pc'[q] \in {"user", "exit"}
                          /\ pc'[q] = "unborn" => pc[q] = "unborn"
      OBVIOUS
    <3>2. /\ Len(temp[q]) \in IF pc[q] = "pipe" THEN {1, 2} ELSE {0}
          /\ closing[q] # <<>> \/ ending[q] # NoEnd => pc[q] \in {"user", "exit"}
      BY DEF IInv, LocalsOK, Locals
    <3>3. CASE pc'[q] = pc[q]
      BY <3>2, <3>3
    <3>4. CASE pc[q] \in IOStates /\ pc'[q] \in {"user"} \cup IOStates
      BY <3>2, <3>4 DEF IOStates
    <3>5. CASE pc'[q] \in {"exit", "gone"} /\ pc'[q] # pc[q]
      BY <3>2, <3>5
    <3>6. QED
      BY <3>3, <3>4, <3>5
  <2>2. QED
    BY <1>1, <2>1 DEF IInv, LocalsOK, Locals
<1>7. QED
  BY <1>2, <1>3, <1>4, <1>5, <1>6 DEF IInv

Channels == {Awake} \cup {Data(pi) : pi \in Pipes} \cup {Room(pi) : pi \in Pipes}

\* The types of what changes inside a pipe.
LEMMA InsideTypes ==
    ASSUME IInv, UNCHANGED <<files, live, readopen, writeopen>>,
           nread' \in [Pipes -> 0..IdxMod-1], nwrite' \in [Pipes -> 0..IdxMod-1],
           data' \in [Pipes -> [0..PIPESIZE-1 -> Bytes]],
           lock' \in [Pipes -> Procs \cup {Nobody}], chan' \in [Procs -> Channels],
           killed' \subseteq Procs, pc' \in [Procs -> Steps],
           last' \in [Pipes -> Bytes \cup {NoByte}]
    PROVE  PipeTypeOK'
BY DEF IInv, PipeTypeOK, FilesTypeOK, files, Steps, IOStates, Channels

LEMMA Types ==
    ASSUME IInv
    PROVE  /\ left \in Lefts /\ io \in [Procs -> IOs]
           /\ nread \in [Pipes -> 0..IdxMod-1] /\ nwrite \in [Pipes -> 0..IdxMod-1]
           /\ data \in [Pipes -> [0..PIPESIZE-1 -> Bytes]]
           /\ lock \in [Pipes -> Procs \cup {Nobody}] /\ chan \in [Procs -> Channels]
           /\ killed \subseteq Procs /\ pc \in [Procs -> Steps]
           /\ last \in [Pipes -> Bytes \cup {NoByte}]
           /\ readopen \subseteq Pipes /\ writeopen \subseteq Pipes /\ live \subseteq Pipes
           /\ NoIO \in IOs
BY DEF IInv, PipeTypeOK, LocalsOK, IOs, Steps, IOStates, Channels, NoIO

LEMMA WakeupType ==
    ASSUME chan \in [Procs -> Channels], NEW c
    PROVE  Wakeup(c) \in [Procs -> Channels]
BY DEF Wakeup, Channels

LEMMA ReadTestStep ==
    ASSUME IInv, NEW p \in Procs, ReadTest(p)
    PROVE  IInv'
<1>1. pc[p] = "read" /\ io[p].pi \in Pipes
  BY InsidePipe DEF ReadTest, IOStates
<1>2. /\ UNCHANGED <<files, live, readopen, writeopen, nread, nwrite, data, chan, killed, last, left>>
      /\ \/ EndIO(p)
         \/ /\ lock' = [lock EXCEPT ![io[p].pi] = p] /\ UNCHANGED io
            /\ pc' = [pc EXCEPT ![p] = "empty"] \/ pc' = [pc EXCEPT ![p] = "copy"]
  BY DEF ReadTest
<1>3. /\ lock' \in [Pipes -> Procs \cup {Nobody}] /\ pc' \in [Procs -> Steps] /\ io' \in [Procs -> IOs]
      /\ pc'[p] \in {"user", "empty", "copy"} /\ (pc'[p] # "user" => io' = io)
      /\ \A q \in Procs : q # p => pc'[q] = pc[q] /\ io'[q] = io[q]
  <2>1. CASE EndIO(p)
    BY <1>1, <2>1, Types DEF EndIO, Returns, Steps, IOStates
  <2>2. CASE /\ lock' = [lock EXCEPT ![io[p].pi] = p] /\ UNCHANGED io
             /\ pc' = [pc EXCEPT ![p] = "empty"] \/ pc' = [pc EXCEPT ![p] = "copy"]
    BY <1>1, <2>2, Types DEF Steps, IOStates
  <2>3. QED
    BY <1>2, <2>1, <2>2
<1>4. PipeTypeOK' /\ left' \in Lefts
  BY <1>2, <1>3, Types, InsideTypes
<1>5. Filled'
  BY <1>2 DEF IInv, Filled, Fill
<1>6. \A q \in Procs :
          /\ pc'[q] = pc[q] \/ (pc[q] \in IOStates /\ pc'[q] \in {"user"} \cup IOStates)
          /\ Reading(q)' => Reading(q) /\ io'[q].pi = io[q].pi
          /\ Writing(q)' => Writing(q) /\ io'[q].pi = io[q].pi
  BY <1>1, <1>3 DEF IOStates, Reading, Writing
<1>7. QED
  BY <1>2, <1>3, <1>4, <1>5, <1>6, InsideStep DEF IOs, IOStates

LEMMA ReadSleepStep ==
    ASSUME IInv, NEW p \in Procs, ReadSleep(p)
    PROVE  IInv'
<1>1. pc[p] = "empty" /\ io[p].pi \in Pipes
  BY InsidePipe DEF ReadSleep, IOStates
<1>2. /\ UNCHANGED <<files, live, readopen, writeopen, nread, nwrite, data, killed, io, last, left>>
      /\ chan' = [chan EXCEPT ![p] = Data(io[p].pi)]
      /\ lock' = [lock EXCEPT ![io[p].pi] = Nobody] /\ pc' = [pc EXCEPT ![p] = "read"]
  BY DEF ReadSleep
<1>3. /\ lock' \in [Pipes -> Procs \cup {Nobody}] /\ pc' \in [Procs -> Steps]
      /\ chan' \in [Procs -> Channels] /\ pc'[p] = "read"
      /\ \A q \in Procs : q # p => pc'[q] = pc[q]
  BY <1>1, <1>2, Types DEF Steps, IOStates, Channels
<1>4. PipeTypeOK' /\ left' \in Lefts /\ io' \in [Procs -> IOs]
  BY <1>2, <1>3, Types, InsideTypes
<1>5. Filled'
  BY <1>2 DEF IInv, Filled, Fill
<1>6. \A q \in Procs :
          /\ pc'[q] = pc[q] \/ (pc[q] \in IOStates /\ pc'[q] \in {"user"} \cup IOStates)
          /\ Reading(q)' => Reading(q) /\ io'[q].pi = io[q].pi
          /\ Writing(q)' => Writing(q) /\ io'[q].pi = io[q].pi
  BY <1>1, <1>2, <1>3 DEF IOStates, Reading, Writing
<1>7. QED
  BY <1>2, <1>3, <1>4, <1>5, <1>6, InsideStep DEF IOs, IOStates

LEMMA ReadByteStep ==
    ASSUME IInv, NEW p \in Procs, ReadByte(p)
    PROVE  IInv'
<1>1. pc[p] = "copy" /\ io[p].pi \in Pipes /\ io[p].i \in Nat
  BY InsidePipe DEF ReadByte, IOStates
<1>2. PICK pi \in Pipes : pi = io[p].pi
  BY <1>1
<1>3. /\ UNCHANGED <<files, live, readopen, writeopen, nwrite, data, lock, chan, killed, pc>>
      /\ nread' = [nread EXCEPT ![pi] = (nread[pi] + 1) % IdxMod] /\ nread[pi] # nwrite[pi]
      /\ \/ /\ last' = [last EXCEPT ![pi] = data[pi][nread[pi] % PIPESIZE]]
            /\ io' = [io EXCEPT ![p].i = @ + 1] /\ UNCHANGED left
         \/ /\ left.bad > 0 /\ left' = [left EXCEPT !.bad = @ - 1]
            /\ io' = [io EXCEPT ![p].n = io[p].i] /\ UNCHANGED last
  BY <1>2 DEF ReadByte, Empty
<1>4. nread[pi] \in 0..IdxMod-1 /\ nwrite[pi] \in 0..IdxMod-1 /\ PIPESIZE \in 1..IdxMod-1
      /\ IdxMod \in Nat \ {0}
  BY Types, PipeAssumption
<1>5. PICK a \in 0..IdxMod-1, b \in 0..IdxMod-1 : a = nread[pi] /\ b = nwrite[pi]
  BY <1>4
<1>13. PICK c \in 0..IdxMod-1 :
          c = (a + 1) % IdxMod /\ (a # b => (b - c) % IdxMod = ((b - a) % IdxMod) - 1)
  BY Counters
<1>14. (b - c) % IdxMod = ((b - a) % IdxMod) - 1 /\ (b - a) % IdxMod \in 0..IdxMod-1
  BY <1>3, <1>5, <1>13, Counters
<1>6. nread' \in [Pipes -> 0..IdxMod-1] /\ nread' = [nread EXCEPT ![pi] = c]
  BY <1>3, <1>5, <1>13, Types
<1>7. data[pi][nread[pi] % PIPESIZE] \in Bytes
  <2>1. nread[pi] % PIPESIZE \in 0..PIPESIZE-1
    BY <1>4, PipeAssumption
  <2>2. QED
    BY <2>1, Types
<1>8. last' \in [Pipes -> Bytes \cup {NoByte}] /\ io' \in [Procs -> IOs] /\ left' \in Lefts
      /\ \A q \in Procs : io'[q].pi = io[q].pi
  <2>1. io[p] \in IOs /\ [io[p] EXCEPT !.i = @ + 1] \in IOs /\ [io[p] EXCEPT !.n = io[p].i] \in IOs
    <3>1. PICK r \in IOs : r = io[p]
      BY Types
    <3>2. [r EXCEPT !.i = @ + 1] \in IOs
      BY DEF IOs
    <3>3. [r EXCEPT !.n = r.i] \in IOs
      BY DEF IOs
    <3>4. QED
      BY <3>1, <3>2, <3>3
  <2>2. PICK r \in IOs : io' = [io EXCEPT ![p] = r] /\ r.pi = io[p].pi
    <3>1. io' = [io EXCEPT ![p] = [io[p] EXCEPT !.i = @ + 1]]
          \/ io' = [io EXCEPT ![p] = [io[p] EXCEPT !.n = io[p].i]]
      BY <1>3
    <3>2. [io[p] EXCEPT !.i = @ + 1].pi = io[p].pi /\ [io[p] EXCEPT !.n = io[p].i].pi = io[p].pi
      BY <2>1 DEF IOs
    <3>3. QED
      BY <2>1, <3>1, <3>2
  <2>3. io' \in [Procs -> IOs] /\ \A q \in Procs : io'[q].pi = io[q].pi
    BY <2>2, Types
  <2>4. last' \in [Pipes -> Bytes \cup {NoByte}]
    BY <1>3, <1>7, Types
  <2>5. left' \in Lefts
    BY <1>3, Types, LeftSteps
  <2>6. QED
    BY <2>3, <2>4, <2>5
<1>9. PipeTypeOK'
  BY <1>3, <1>6, <1>8, Types, InsideTypes
<1>10. Filled'
  <2>1. SUFFICES ASSUME NEW x \in Pipes
                 PROVE  (nwrite'[x] - nread'[x]) % IdxMod <= PIPESIZE
    BY DEF Filled, Fill
  <2>2. Fill(x) <= PIPESIZE
    BY DEF IInv, Filled
  <2>3. CASE x = pi
    <3>1. nwrite'[x] = b /\ nread'[x] = c
      BY <1>3, <1>5, <1>6, <2>3, Types
    <3>2. (b - a) % IdxMod <= PIPESIZE
      BY <1>5, <2>2, <2>3 DEF Fill
    <3>3. (b - c) % IdxMod <= PIPESIZE
      BY <1>4, <1>14, <3>2
    <3>4. QED
      BY <3>1, <3>3
  <2>4. CASE x # pi
    <3>1. nwrite'[x] = nwrite[x] /\ nread'[x] = nread[x]
      BY <1>3, <2>4, Types
    <3>2. QED
      BY <2>2, <3>1 DEF Fill
  <2>5. QED
    BY <2>3, <2>4
<1>11. \A q \in Procs :
          /\ pc'[q] = pc[q]
          /\ Reading(q)' => Reading(q) /\ io'[q].pi = io[q].pi
          /\ Writing(q)' => Writing(q) /\ io'[q].pi = io[q].pi
  BY <1>3, <1>8 DEF Reading, Writing
<1>12. QED
  BY <1>3, <1>8, <1>9, <1>10, <1>11, InsideStep DEF IOs

LEMMA ReadEndStep ==
    ASSUME IInv, NEW p \in Procs, ReadEnd(p)
    PROVE  IInv'
<1>1. pc[p] = "copy" /\ io[p].pi \in Pipes
  BY InsidePipe DEF ReadEnd, IOStates
<1>2. /\ UNCHANGED <<files, live, readopen, writeopen, nread, nwrite, data, killed, last, left>>
      /\ chan' = Wakeup(Room(io[p].pi)) /\ EndIO(p)
  BY DEF ReadEnd
<1>3. /\ lock' \in [Pipes -> Procs \cup {Nobody}] /\ pc' \in [Procs -> Steps] /\ io' \in [Procs -> IOs]
      /\ pc'[p] = "user" /\ \A q \in Procs : q # p => pc'[q] = pc[q] /\ io'[q] = io[q]
  BY <1>1, <1>2, Types DEF EndIO, Returns, Steps, IOStates
<1>4. chan' \in [Procs -> Channels]
  BY <1>2, Types, WakeupType
<1>5. PipeTypeOK' /\ left' \in Lefts
  BY <1>2, <1>3, <1>4, Types, InsideTypes
<1>6. Filled'
  BY <1>2 DEF IInv, Filled, Fill
<1>7. \A q \in Procs :
          /\ pc'[q] = pc[q] \/ (pc[q] \in IOStates /\ pc'[q] \in {"user"} \cup IOStates)
          /\ Reading(q)' => Reading(q) /\ io'[q].pi = io[q].pi
          /\ Writing(q)' => Writing(q) /\ io'[q].pi = io[q].pi
  BY <1>1, <1>3 DEF IOStates, Reading, Writing
<1>8. QED
  BY <1>2, <1>3, <1>5, <1>6, <1>7, InsideStep DEF IOs, IOStates

LEMMA WriteRefusedStep ==
    ASSUME IInv, NEW p \in Procs, WriteRefused(p)
    PROVE  IInv'
<1>1. pc[p] = "write" /\ io[p].pi \in Pipes
  BY InsidePipe DEF WriteRefused, Writes, IOStates
<1>2. /\ UNCHANGED <<files, live, readopen, writeopen, nread, nwrite, data, chan, killed, last, left>>
      /\ EndIO(p)
  BY DEF WriteRefused
<1>3. /\ lock' \in [Pipes -> Procs \cup {Nobody}] /\ pc' \in [Procs -> Steps] /\ io' \in [Procs -> IOs]
      /\ pc'[p] = "user" /\ \A q \in Procs : q # p => pc'[q] = pc[q] /\ io'[q] = io[q]
  BY <1>1, <1>2, Types DEF EndIO, Returns, Steps, IOStates
<1>4. PipeTypeOK' /\ left' \in Lefts
  BY <1>2, <1>3, Types, InsideTypes
<1>5. Filled'
  BY <1>2 DEF IInv, Filled, Fill
<1>6. \A q \in Procs :
          /\ pc'[q] = pc[q] \/ (pc[q] \in IOStates /\ pc'[q] \in {"user"} \cup IOStates)
          /\ Reading(q)' => Reading(q) /\ io'[q].pi = io[q].pi
          /\ Writing(q)' => Writing(q) /\ io'[q].pi = io[q].pi
  BY <1>1, <1>3 DEF IOStates, Reading, Writing
<1>7. QED
  BY <1>2, <1>3, <1>4, <1>5, <1>6, InsideStep DEF IOs, IOStates

LEMMA WriteTestStep ==
    ASSUME IInv, NEW p \in Procs, WriteTest(p)
    PROVE  IInv'
<1>1. pc[p] = "write" /\ io[p].pi \in Pipes
  BY InsidePipe DEF WriteTest, Writes, IOStates
<1>2. /\ UNCHANGED <<files, live, readopen, writeopen, nread, nwrite, data, chan, killed, io, last,
                     left>>
      /\ lock' = [lock EXCEPT ![io[p].pi] = p] /\ pc' = [pc EXCEPT ![p] = "full"]
  BY DEF WriteTest
<1>3. /\ lock' \in [Pipes -> Procs \cup {Nobody}] /\ pc' \in [Procs -> Steps]
      /\ pc'[p] = "full" /\ \A q \in Procs : q # p => pc'[q] = pc[q]
  BY <1>1, <1>2, Types DEF Steps, IOStates
<1>4. PipeTypeOK' /\ left' \in Lefts /\ io' \in [Procs -> IOs]
  BY <1>2, <1>3, Types, InsideTypes
<1>5. Filled'
  BY <1>2 DEF IInv, Filled, Fill
<1>6. \A q \in Procs :
          /\ pc'[q] = pc[q] \/ (pc[q] \in IOStates /\ pc'[q] \in {"user"} \cup IOStates)
          /\ Reading(q)' => Reading(q) /\ io'[q].pi = io[q].pi
          /\ Writing(q)' => Writing(q) /\ io'[q].pi = io[q].pi
  BY <1>1, <1>2, <1>3 DEF IOStates, Reading, Writing
<1>7. QED
  BY <1>2, <1>3, <1>4, <1>5, <1>6, InsideStep DEF IOs, IOStates

LEMMA WriteSleepStep ==
    ASSUME IInv, NEW p \in Procs, WriteSleep(p)
    PROVE  IInv'
<1>1. pc[p] = "full" /\ io[p].pi \in Pipes
  BY InsidePipe DEF WriteSleep, IOStates
<1>2. /\ UNCHANGED <<files, live, readopen, writeopen, nread, nwrite, data, killed, io, last, left>>
      /\ chan' = [Wakeup(Data(io[p].pi)) EXCEPT ![p] = Room(io[p].pi)]
      /\ lock' = [lock EXCEPT ![io[p].pi] = Nobody] /\ pc' = [pc EXCEPT ![p] = "write"]
  BY DEF WriteSleep
<1>3. /\ lock' \in [Pipes -> Procs \cup {Nobody}] /\ pc' \in [Procs -> Steps]
      /\ pc'[p] = "write" /\ \A q \in Procs : q # p => pc'[q] = pc[q]
  BY <1>1, <1>2, Types DEF Steps, IOStates
<1>4. chan' \in [Procs -> Channels]
  <2>1. Wakeup(Data(io[p].pi)) \in [Procs -> Channels]
    BY Types, WakeupType
  <2>2. Room(io[p].pi) \in Channels
    BY <1>1 DEF Channels
  <2>3. QED
    BY <1>2, <2>1, <2>2
<1>5. PipeTypeOK' /\ left' \in Lefts /\ io' \in [Procs -> IOs]
  BY <1>2, <1>3, <1>4, Types, InsideTypes
<1>6. Filled'
  BY <1>2 DEF IInv, Filled, Fill
<1>7. \A q \in Procs :
          /\ pc'[q] = pc[q] \/ (pc[q] \in IOStates /\ pc'[q] \in {"user"} \cup IOStates)
          /\ Reading(q)' => Reading(q) /\ io'[q].pi = io[q].pi
          /\ Writing(q)' => Writing(q) /\ io'[q].pi = io[q].pi
  BY <1>1, <1>2, <1>3 DEF IOStates, Reading, Writing
<1>8. QED
  BY <1>2, <1>3, <1>5, <1>6, <1>7, InsideStep DEF IOs, IOStates

LEMMA WriteByteStep ==
    ASSUME IInv, NEW p \in Procs, WriteByte(p)
    PROVE  IInv'
<1>1. pc[p] = "write" /\ io[p].pi \in Pipes /\ io[p].i \in Nat
  BY InsidePipe DEF WriteByte, Writes, IOStates
<1>2. PICK pi \in Pipes : pi = io[p].pi
  BY <1>1
<1>3. /\ UNCHANGED <<files, live, readopen, writeopen, nread, chan, killed, pc, last, left>>
      /\ nwrite' = [nwrite EXCEPT ![pi] = (nwrite[pi] + 1) % IdxMod] /\ ~Full(pi)
      /\ lock' = [lock EXCEPT ![pi] = p] /\ io' = [io EXCEPT ![p].i = @ + 1]
  BY <1>2 DEF WriteByte
<1>4. PICK v \in left.bytes : data' = [data EXCEPT ![pi][nwrite[pi] % PIPESIZE] = v]
  BY <1>2 DEF WriteByte
<1>5. PICK a \in 0..IdxMod-1, b \in 0..IdxMod-1 : a = nread[pi] /\ b = nwrite[pi]
  BY Types
<1>6. PICK c \in 0..IdxMod-1 :
         c = (b + 1) % IdxMod
         /\ ((b - a) % IdxMod < PIPESIZE => (c - a) % IdxMod = ((b - a) % IdxMod) + 1)
  BY Counters
<1>7. (b - a) % IdxMod \in Nat /\ (b - a) % IdxMod < PIPESIZE /\ PIPESIZE \in Nat
  <2>1. b # (a + PIPESIZE) % IdxMod
    BY <1>3, <1>5 DEF Full
  <2>2. (b - a) % IdxMod # PIPESIZE /\ (b - a) % IdxMod \in 0..IdxMod-1
    BY <2>1, Counters
  <2>3. (b - a) % IdxMod <= PIPESIZE
    BY <1>5 DEF IInv, Filled, Fill
  <2>4. PICK n \in 0..IdxMod-1 : n = (b - a) % IdxMod
    BY <2>2
  <2>5. QED
    BY <2>2, <2>3, <2>4, PipeAssumption
<1>8. nwrite' = [nwrite EXCEPT ![pi] = c] /\ nwrite' \in [Pipes -> 0..IdxMod-1]
  BY <1>3, <1>5, <1>6, Types
<1>9. data' \in [Pipes -> [0..PIPESIZE-1 -> Bytes]]
  <2>1. v \in Bytes
    BY <1>4, Types, LeftSteps
  <2>2. [data[pi] EXCEPT ![nwrite[pi] % PIPESIZE] = v] \in [0..PIPESIZE-1 -> Bytes]
    BY <2>1, Types
  <2>3. data' = [data EXCEPT ![pi] = [data[pi] EXCEPT ![nwrite[pi] % PIPESIZE] = v]]
    BY <1>4
  <2>4. QED
    BY <2>2, <2>3, Types
<1>10. io' \in [Procs -> IOs] /\ \A q \in Procs : io'[q].pi = io[q].pi
  <2>1. PICK r \in IOs : r = io[p]
    BY Types
  <2>2. [r EXCEPT !.i = @ + 1] \in IOs /\ [r EXCEPT !.i = @ + 1].pi = r.pi
    BY DEF IOs
  <2>3. io' = [io EXCEPT ![p] = [r EXCEPT !.i = @ + 1]]
    BY <1>3, <2>1
  <2>4. QED
    BY <2>1, <2>2, <2>3, Types
<1>11. lock' \in [Pipes -> Procs \cup {Nobody}]
  BY <1>3, Types
<1>12. PipeTypeOK' /\ left' \in Lefts
  BY <1>3, <1>8, <1>9, <1>11, Types, InsideTypes
<1>13. Filled'
  <2>1. SUFFICES ASSUME NEW x \in Pipes
                 PROVE  (nwrite'[x] - nread'[x]) % IdxMod <= PIPESIZE
    BY DEF Filled, Fill
  <2>2. CASE x = pi
    <3>1. nwrite'[x] = c /\ nread'[x] = a
      BY <1>3, <1>5, <1>8, <2>2, Types
    <3>2. (c - a) % IdxMod <= PIPESIZE
      BY <1>6, <1>7
    <3>3. QED
      BY <3>1, <3>2
  <2>3. CASE x # pi
    <3>1. nwrite'[x] = nwrite[x] /\ nread'[x] = nread[x]
      BY <1>3, <1>8, <2>3, Types
    <3>2. QED
      BY <3>1 DEF IInv, Filled, Fill
  <2>4. QED
    BY <2>2, <2>3
<1>14. \A q \in Procs :
          /\ pc'[q] = pc[q]
          /\ Reading(q)' => Reading(q) /\ io'[q].pi = io[q].pi
          /\ Writing(q)' => Writing(q) /\ io'[q].pi = io[q].pi
  BY <1>3, <1>10 DEF Reading, Writing
<1>15. QED
  BY <1>3, <1>10, <1>12, <1>13, <1>14, InsideStep DEF IOs

LEMMA WriteEndStep ==
    ASSUME IInv, NEW p \in Procs, WriteEnd(p)
    PROVE  IInv'
<1>1. pc[p] = "write" /\ io[p].pi \in Pipes
  BY InsidePipe DEF WriteEnd, Writes, IOStates
<1>2. /\ UNCHANGED <<files, live, readopen, writeopen, nread, nwrite, data, killed, last>>
      /\ chan' = Wakeup(Data(io[p].pi)) /\ EndIO(p)
      /\ UNCHANGED left \/ (left.bad > 0 /\ left' = [left EXCEPT !.bad = @ - 1])
  BY DEF WriteEnd
<1>3. /\ lock' \in [Pipes -> Procs \cup {Nobody}] /\ pc' \in [Procs -> Steps] /\ io' \in [Procs -> IOs]
      /\ pc'[p] = "user" /\ \A q \in Procs : q # p => pc'[q] = pc[q] /\ io'[q] = io[q]
  BY <1>1, <1>2, Types DEF EndIO, Returns, Steps, IOStates
<1>4. chan' \in [Procs -> Channels] /\ left' \in Lefts
  BY <1>2, Types, WakeupType, LeftSteps
<1>5. PipeTypeOK'
  BY <1>2, <1>3, <1>4, Types, InsideTypes
<1>6. Filled'
  BY <1>2 DEF IInv, Filled, Fill
<1>7. \A q \in Procs :
          /\ pc'[q] = pc[q] \/ (pc[q] \in IOStates /\ pc'[q] \in {"user"} \cup IOStates)
          /\ Reading(q)' => Reading(q) /\ io'[q].pi = io[q].pi
          /\ Writing(q)' => Writing(q) /\ io'[q].pi = io[q].pi
  BY <1>1, <1>3 DEF IOStates, Reading, Writing
<1>8. QED
  BY <1>2, <1>3, <1>4, <1>5, <1>6, <1>7, InsideStep DEF IOs, IOStates

\* Kills, and the ends of processes.
LEMMA KillStep ==
    ASSUME IInv, NEW p \in Procs, Kill(p)
    PROVE  IInv'
<1>1. /\ UNCHANGED <<files, live, readopen, writeopen, nread, nwrite, data, lock, pc, io, last>>
      /\ killed' = killed \cup {p} /\ chan' = [chan EXCEPT ![p] = Awake]
      /\ left.kills > 0 /\ left' = [left EXCEPT !.kills = @ - 1]
  BY DEF Kill, pipes
<1>2. chan' \in [Procs -> Channels] /\ left' \in Lefts /\ killed' \subseteq Procs
  BY <1>1, Types, LeftSteps DEF Channels
<1>3. PipeTypeOK' /\ io' \in [Procs -> IOs]
  BY <1>1, <1>2, Types, InsideTypes
<1>4. Filled'
  BY <1>1 DEF IInv, Filled, Fill
<1>5. QED
  BY <1>1, <1>2, <1>3, <1>4, InsideStep DEF IOs, Reading, Writing

LEMMA ExitStep ==
    ASSUME IInv, NEW p \in Procs, Exit(p) \/ Gone(p)
    PROVE  IInv'
<1>1. /\ UNCHANGED <<files, live, readopen, writeopen, nread, nwrite, data, lock, chan, killed, io,
                     last, left>>
      /\ closing[p] = <<>> /\ ending[p] = NoEnd
      /\ \/ pc[p] = "user" /\ pc' = [pc EXCEPT ![p] = "exit"]
         \/ pc[p] = "exit" /\ pc' = [pc EXCEPT ![p] = "gone"]
  BY DEF Exit, Gone, Exiting, AtUser, pipes
<1>2. /\ pc' \in [Procs -> Steps] /\ \A q \in Procs : q # p => pc'[q] = pc[q]
      /\ \/ pc[p] = "user" /\ pc'[p] = "exit"
         \/ pc[p] = "exit" /\ pc'[p] = "gone"
  BY <1>1, Types DEF Steps, IOStates
<1>3. PipeTypeOK' /\ io' \in [Procs -> IOs] /\ left' \in Lefts
  BY <1>1, <1>2, Types, InsideTypes
<1>4. Filled'
  BY <1>1 DEF IInv, Filled, Fill
<1>5. \A q \in Procs :
          /\ pc'[q] \in {pc[q], "exit", "gone"}
          /\ pc[q] # pc'[q] /\ pc'[q] = "exit" => pc[q] = "user"
          /\ pc'[q] = "gone" => pc[q] = "gone" \/ (closing[q] = <<>> /\ ending[q] = NoEnd)
          /\ pc'[q] \in {"exit", "gone"} => pc[q] # "pipe"
          /\ Reading(q)' => Reading(q)
          /\ Writing(q)' => Writing(q)
  BY <1>1, <1>2 DEF Reading, Writing
<1>6. QED
  BY <1>1, <1>3, <1>4, <1>5, InsideStep DEF IOs

-----------------------------------------------------------------------------
(* The steps on the table of files.                                        *)

LEMMA LocalsFrame ==
    ASSUME IInv, NEW p \in Procs, Locals(p)', left' \in Lefts, io' \in [Procs -> IOs],
           \A q \in Procs : q # p =>
              /\ temp'[q] = temp[q] /\ closing'[q] = closing[q] /\ ending'[q] = ending[q]
              /\ pc'[q] = pc[q] /\ ofile'[q] = ofile[q]
    PROVE  LocalsOK'
<1>1. ASSUME NEW q \in Procs, q # p
      PROVE  Locals(q)'
  <2>1. Locals(q)
    BY DEF IInv, LocalsOK
  <2>2. /\ temp'[q] = temp[q] /\ closing'[q] = closing[q] /\ ending'[q] = ending[q]
        /\ pc'[q] = pc[q] /\ ofile'[q] = ofile[q]
    BY <1>1
  <2>3. QED
    BY <2>1, <2>2 DEF Locals
<1>2. QED
  BY <1>1 DEF LocalsOK

LEMMA FileTypes ==
    ASSUME IInv, UNCHANGED <<pipes, chan, killed, last>>, FilesTypeOK', pc' \in [Procs -> Steps]
    PROVE  PipeTypeOK' /\ Filled'
BY DEF IInv, PipeTypeOK, pipes, Steps, IOStates, Filled, Fill

LEMMA EndsKept ==
    ASSUME Ends, UNCHANGED <<type, writable, pipe, ending, live, readopen, writeopen>>
    PROVE  Ends'
BY DEF Ends, Opened, OpenEnds, EndOf, IsPipe

\* What the steps of the table use of the invariant.
LEMMA FileFacts ==
    ASSUME IInv
    PROVE  /\ ref \in [Files -> Nat] /\ type \in [Files -> {"NONE", "PIPE"}]
           /\ writable \in [Files -> BOOLEAN] /\ pipe \in [Files -> Pipes \cup {NoPipe}]
           /\ ofile \in [Procs -> [FDs -> Files \cup {NoFile}]]
           /\ temp \in [Procs -> Seq(Files)] /\ closing \in [Procs -> Seq(Files)]
           /\ ending \in [Procs -> [pipe : Pipes \cup {NoPipe}, writable : BOOLEAN]]
           /\ NoFile \notin Files /\ NoEnd \in [pipe : Pipes \cup {NoPipe}, writable : BOOLEAN]
           /\ FilesTypeOK /\ Counted /\ Kinds /\ Ends /\ InPipe
           /\ \A p \in Procs : Locals(p)
BY FilesAssumption DEF IInv, PipeTypeOK, FilesTypeOK, Files, NoEnd, LocalsOK

LEMMA AllocStep ==
    ASSUME IInv, NEW p \in Procs, FileAlloc(p), UNCHANGED <<pipes, chan, killed, io, last>>,
           left' \in Lefts, pc' = [pc EXCEPT ![p] = "pipe"],
           \/ pc[p] = "user" /\ closing[p] = <<>> /\ ending[p] = NoEnd
           \/ pc[p] = "pipe" /\ Len(temp[p]) = 1
    PROVE  IInv'
<1>1. PICK f \in Files : f = First(FreeFiles) /\ ref[f] = 0
  <2>1. FreeFiles \in SUBSET Nat /\ FreeFiles # {}
    BY DEF FreeFiles, Files, FileAlloc
  <2>2. First(FreeFiles) \in FreeFiles
    BY <2>1, FirstIsLeast
  <2>3. QED
    BY <2>2 DEF FreeFiles
<1>2. /\ ref' = [ref EXCEPT ![f] = 1] /\ temp' = [temp EXCEPT ![p] = Append(@, f)]
      /\ UNCHANGED <<type, writable, pipe, ofile, closing, ending>>
  BY <1>1 DEF FileAlloc
<1>3. Counted'
  BY <1>1, <1>2, FileFacts, AllocCounts
<1>4. type[f] = "NONE"
  <2>1. type[f] # "PIPE"
    BY <1>1, FileFacts DEF Kinds
  <2>2. QED
    BY <2>1, FileFacts
<1>5. temp'[p] = Append(temp[p], f) /\ temp[p] \in Seq(Files)
      /\ \A q \in Procs : q # p => temp'[q] = temp[q]
  BY <1>2, FileFacts
<1>6. Range(temp'[p]) = Range(temp[p]) \cup {f}
  BY <1>5, RangeFacts
<1>7. Kinds'
  <2>1. \A g \in Files : ref[g] = 1 => ref'[g] = 1
    BY <1>2, FileFacts
  <2>2. \A g \in Files : type[g] = "PIPE" => ref'[g] = ref[g]
    BY <1>2, <1>4, FileFacts
  <2>3. ref'[f] = 1
    BY <1>2, FileFacts
  <2>4. ASSUME NEW q \in Procs, NEW g \in Range(temp'[q])
        PROVE  type[g] = "NONE" /\ ref'[g] = 1
    <3>1. CASE q = p /\ g = f
      BY <1>4, <2>3, <3>1
    <3>2. CASE ~(q = p /\ g = f)
      <4>1. g \in Range(temp[q])
        BY <1>5, <1>6, <2>4, <3>2
      <4>2. g \in Files
        BY <4>1, FileFacts, RangeFacts
      <4>3. QED
        BY <2>1, <4>1, <4>2, FileFacts DEF Kinds
    <3>3. QED
      BY <3>1, <3>2
  <2>5. QED
    BY <1>2, <2>2, <2>4, FileFacts DEF Kinds
<1>8. Ends'
  BY <1>2, FileFacts, EndsKept DEF pipes
<1>9. pc' \in [Procs -> Steps] /\ pc'[p] = "pipe" /\ \A q \in Procs : q # p => pc'[q] = pc[q]
  BY Types DEF Steps
<1>10. InPipe'
  <2>1. \A q \in Procs :
              /\ Reading(q)' => Reading(q) /\ io'[q].pi = io[q].pi /\ ofile'[q] = ofile[q]
              /\ Writing(q)' => Writing(q) /\ io'[q].pi = io[q].pi /\ ofile'[q] = ofile[q]
    BY <1>2, <1>9 DEF Reading, Writing
  <2>2. QED
    BY <1>2, <2>1, FileFacts, InPipeKept
<1>11. temp' \in [Procs -> Seq(Files)] /\ Len(temp'[p]) = Len(temp[p]) + 1
       /\ \A i \in 1..Len(temp[p]) : temp'[p][i] = temp[p][i]
       /\ temp'[p][Len(temp[p]) + 1] = f
  <2>1. /\ Append(temp[p], f) \in Seq(Files) /\ Len(Append(temp[p], f)) = Len(temp[p]) + 1
        /\ \A i \in 1..Len(temp[p]) : Append(temp[p], f)[i] = temp[p][i]
        /\ Append(temp[p], f)[Len(temp[p]) + 1] = f
    BY <1>5, AppendProperties
  <2>2. temp' \in [Procs -> Seq(Files)]
    BY <1>2, <2>1, FileFacts
  <2>3. QED
    BY <1>5, <2>1, <2>2
<1>12. Locals(p)'
  <2>1. Locals(p)
    BY FileFacts
  <2>2. CASE pc[p] = "user"
    <3>1. Len(temp[p]) = 0 /\ Len(temp'[p]) = 1
      BY <1>11, <2>1, <2>2 DEF Locals
    <3>2. closing[p] = <<>> /\ ending[p] = NoEnd
      BY <2>2
    <3>3. QED
      BY <1>2, <1>9, <2>1, <3>1, <3>2 DEF Locals
  <2>3. CASE pc[p] = "pipe" /\ Len(temp[p]) = 1
    <3>1. Len(temp'[p]) = 2 /\ temp'[p][1] = temp[p][1] /\ temp'[p][2] = f
      BY <1>11, <2>3
    <3>2. temp[p][1] \in Range(temp[p])
      BY <1>5, <2>3, RangeFacts
    <3>3. ref[temp[p][1]] = 1
      BY <3>2, FileFacts DEF Kinds
    <3>4. temp'[p][1] # temp'[p][2]
      BY <1>1, <3>1, <3>3
    <3>5. closing[p] = <<>> /\ ending[p] = NoEnd
      BY <2>1, <2>3 DEF Locals
    <3>6. QED
      BY <1>2, <1>9, <2>1, <3>1, <3>4, <3>5 DEF Locals
  <2>4. QED
    BY <2>2, <2>3
<1>13. LocalsOK'
  <2>1. io' \in [Procs -> IOs]
    BY Types
  <2>2. QED
    BY <1>2, <1>5, <1>9, <1>12, <2>1, LocalsFrame
<1>14. FilesTypeOK'
  BY <1>2, <1>11, FileFacts DEF FilesTypeOK
<1>15. PipeTypeOK' /\ Filled'
  BY <1>9, <1>14, FileTypes
<1>16. QED
  BY <1>3, <1>7, <1>8, <1>10, <1>13, <1>15 DEF IInv

LEMMA GiveUpStep ==
    ASSUME IInv, NEW p \in Procs, pc[p] = "pipe", GiveUpFiles(p), Returns(p),
           UNCHANGED <<ref, type, writable, pipe, ofile, ending, pipes, chan, killed, io, last, left>>
    PROVE  IInv'
<1>1. /\ closing'[p] = temp[p] /\ temp'[p] = <<>>
      /\ \A q \in Procs : q # p => temp'[q] = temp[q]
      /\ \A q \in Procs : q # p => closing'[q] = closing[q]
      /\ temp' \in [Procs -> Seq(Files)] /\ closing' \in [Procs -> Seq(Files)]
  BY FileFacts DEF GiveUpFiles
<1>2. Locals(p) /\ closing[p] = <<>> /\ ending[p] = NoEnd
  BY FileFacts DEF Locals
<1>3. Counted'
  BY <1>2, FileFacts, GiveUpCounts
<1>4. Kinds'
  <2>1. Range(temp'[p]) = {}
    BY <1>1 DEF Range
  <2>2. \A q \in Procs : Range(temp'[q]) \subseteq Range(temp[q])
    BY <1>1, <2>1
  <2>3. QED
    BY <2>2, FileFacts DEF Kinds
<1>5. Ends'
  BY FileFacts, EndsKept DEF pipes
<1>6. pc' \in [Procs -> Steps] /\ pc'[p] = "user" /\ \A q \in Procs : q # p => pc'[q] = pc[q]
  BY Types DEF Returns, Steps
<1>7. InPipe'
  <2>1. \A q \in Procs :
              /\ Reading(q)' => Reading(q) /\ io'[q].pi = io[q].pi /\ ofile'[q] = ofile[q]
              /\ Writing(q)' => Writing(q) /\ io'[q].pi = io[q].pi /\ ofile'[q] = ofile[q]
    BY <1>6 DEF Reading, Writing
  <2>2. QED
    BY <2>1, FileFacts, InPipeKept
<1>8. Locals(p)'
  <2>1. Len(temp[p]) \in {1, 2} /\ (Len(temp[p]) = 2 => temp[p][1] # temp[p][2])
    BY <1>2 DEF Locals
  <2>2. Len(temp'[p]) = 0
    BY <1>1
  <2>3. QED
    BY <1>1, <1>2, <1>6, <2>1, <2>2 DEF Locals
<1>9. LocalsOK'
  <2>1. io' \in [Procs -> IOs] /\ left' \in Lefts
    BY Types
  <2>2. QED
    BY <1>1, <1>6, <1>8, <2>1, LocalsFrame
<1>10. FilesTypeOK'
  BY <1>1, FileFacts DEF FilesTypeOK
<1>11. PipeTypeOK' /\ Filled'
  BY <1>6, <1>10, FileTypes
<1>12. QED
  BY <1>3, <1>4, <1>5, <1>7, <1>9, <1>11 DEF IInv

FinishEffect(p, pi, rf, wf) ==
    /\ rf # wf /\ Range(temp[p]) = {rf, wf} /\ rf = temp[p][1] /\ wf = temp[p][2]
    /\ type[rf] = "NONE" /\ type[wf] = "NONE" /\ ref[rf] = 1 /\ ref[wf] = 1
    /\ type' = [type EXCEPT ![rf] = "PIPE", ![wf] = "PIPE"]
    /\ writable' = [writable EXCEPT ![rf] = FALSE, ![wf] = TRUE]
    /\ pipe' = [pipe EXCEPT ![rf] = pi, ![wf] = pi]
    /\ pi \notin live /\ live' = live \cup {pi}
    /\ readopen' = readopen \cup {pi} /\ writeopen' = writeopen \cup {pi}
    /\ nread' = [nread EXCEPT ![pi] = 0] /\ nwrite' = [nwrite EXCEPT ![pi] = 0]
    /\ pc[p] = "pipe" /\ pc' = [pc EXCEPT ![p] = "user"]
    /\ UNCHANGED <<ref, ending, data, lock, chan, killed, io, last>>
    /\ left' \in Lefts
    /\ \/ GiveUpFiles(p) /\ UNCHANGED ofile
       \/ /\ Cardinality(FreeFDs(p)) >= 2
          /\ ofile' = [ofile EXCEPT ![p][First(FreeFDs(p))] = rf,
                                    ![p][First(FreeFDs(p) \ {First(FreeFDs(p))})] = wf]
          /\ temp' = [temp EXCEPT ![p] = <<>>]
          /\ UNCHANGED closing

LEMMA FinishEffects ==
    ASSUME IInv, NEW p \in Procs, NEW pi \in Pipes, PipeFinish(p, pi)
    PROVE  \E rf \in Files, wf \in Files : FinishEffect(p, pi, rf, wf)
<1>1. temp[p] \in Seq(Files) /\ Len(temp[p]) = 2 /\ pc[p] = "pipe"
  BY FileFacts DEF PipeFinish
<1>2. PICK rf \in Files, wf \in Files : rf = temp[p][1] /\ wf = temp[p][2] /\ Range(temp[p]) = {rf, wf}
  BY <1>1, RangeFacts
<1>3. rf # wf
  <2>1. Locals(p)
    BY FileFacts
  <2>2. QED
    BY <1>1, <1>2, <2>1 DEF Locals
<1>4. type[rf] = "NONE" /\ type[wf] = "NONE" /\ ref[rf] = 1 /\ ref[wf] = 1
  BY <1>2, FileFacts DEF Kinds
<1>5. left' \in Lefts
  BY Types, LeftSteps DEF PipeFinish
<1>6. MakeEnds(p, pi, TRUE) \/ MakeEnds(p, pi, FALSE)
  BY DEF PipeFinish
<1>7. /\ pi \notin live /\ live' = live \cup {pi}
      /\ readopen' = readopen \cup {pi} /\ writeopen' = writeopen \cup {pi}
      /\ nread' = [nread EXCEPT ![pi] = 0] /\ nwrite' = [nwrite EXCEPT ![pi] = 0]
      /\ pc' = [pc EXCEPT ![p] = "user"]
      /\ UNCHANGED <<data, lock, chan, killed, io, last>>
  BY DEF PipeFinish, Returns
<1>8. /\ type' = [type EXCEPT ![rf] = "PIPE", ![wf] = "PIPE"]
      /\ writable' = [writable EXCEPT ![rf] = FALSE, ![wf] = TRUE]
      /\ pipe' = [pipe EXCEPT ![rf] = pi, ![wf] = pi]
      /\ UNCHANGED <<ref, ending>>
  BY <1>2, <1>6 DEF MakeEnds
<1>9. \/ GiveUpFiles(p) /\ UNCHANGED ofile
      \/ /\ Cardinality(FreeFDs(p)) >= 2
         /\ ofile' = [ofile EXCEPT ![p][First(FreeFDs(p))] = rf,
                                   ![p][First(FreeFDs(p) \ {First(FreeFDs(p))})] = wf]
         /\ temp' = [temp EXCEPT ![p] = <<>>]
         /\ UNCHANGED closing
  BY <1>2, <1>6 DEF MakeEnds
<1>10. FinishEffect(p, pi, rf, wf)
  BY <1>1, <1>2, <1>3, <1>4, <1>5, <1>7, <1>8, <1>9 DEF FinishEffect
<1>11. QED
  BY <1>10

\* Two files become the ends of a new pipe.
LEMMA NewEnds ==
    ASSUME IInv, NEW pi \in Pipes, pi \notin live, NEW rf \in Files, NEW wf \in Files, rf # wf,
           type[rf] = "NONE", type[wf] = "NONE",
           type' = [type EXCEPT ![rf] = "PIPE", ![wf] = "PIPE"],
           writable' = [writable EXCEPT ![rf] = FALSE, ![wf] = TRUE],
           pipe' = [pipe EXCEPT ![rf] = pi, ![wf] = pi],
           live' = live \cup {pi}, readopen' = readopen \cup {pi},
           writeopen' = writeopen \cup {pi}, UNCHANGED ending
    PROVE  Ends'
<1> DEFINE R == [pipe |-> pi, writable |-> FALSE]
           W == [pipe |-> pi, writable |-> TRUE]
<1>1. \A f \in Files : /\ IsPipe(f)' <=> IsPipe(f) \/ f = rf \/ f = wf
                       /\ EndOf(f)' = IF f = rf THEN R ELSE IF f = wf THEN W ELSE EndOf(f)
  BY FileFacts DEF IsPipe, EndOf
<1>2. ~IsPipe(rf) /\ ~IsPipe(wf)
  BY DEF IsPipe
<1>3. Opened' = Opened \cup {R, W}
  BY DEF Opened
<1>4. R \notin OpenEnds /\ W \notin OpenEnds
  <2>1. pi \notin readopen /\ pi \notin writeopen /\ OpenEnds = Opened
    BY FileFacts DEF Ends
  <2>2. QED
    BY <2>1 DEF Opened
<1>5. R # W
  OBVIOUS
<1>6. /\ \A f \in Files : IsPipe(f) => EndOf(f) \in OpenEnds
      /\ \A q \in Procs : ending[q] # NoEnd => ending[q] \in OpenEnds
      /\ \A e \in OpenEnds : (\E f \in Files : IsPipe(f) /\ e = EndOf(f))
                             \/ (\E q \in Procs : ending[q] # NoEnd /\ e = ending[q])
  BY DEF OpenEnds, IsPipe
<1>7. OpenEnds' = OpenEnds \cup {R, W}
  <2>1. \A e : e \in OpenEnds' <=> (\E f \in Files : IsPipe(f)' /\ e = EndOf(f)')
                                   \/ (\E q \in Procs : ending'[q] # NoEnd /\ e = ending'[q])
    BY DEF OpenEnds, IsPipe
  <2>2. ASSUME NEW e \in OpenEnds'
        PROVE  e \in OpenEnds \cup {R, W}
    <3>1. CASE \E f \in Files : IsPipe(f)' /\ e = EndOf(f)'
      BY <1>1, <1>6, <3>1
    <3>2. CASE \E q \in Procs : ending'[q] # NoEnd /\ e = ending'[q]
      BY <1>6, <3>2
    <3>3. QED
      BY <2>1, <3>1, <3>2
  <2>3. ASSUME NEW e \in OpenEnds \cup {R, W}
        PROVE  e \in OpenEnds'
    <3>1. CASE e = R
      <4>1. IsPipe(rf)' /\ EndOf(rf)' = R
        BY <1>1
      <4>2. QED
        BY <2>1, <3>1, <4>1
    <3>2. CASE e = W
      <4>1. IsPipe(wf)' /\ EndOf(wf)' = W
        BY <1>1
      <4>2. QED
        BY <2>1, <3>2, <4>1
    <3>3. CASE e \in OpenEnds
      <4>1. CASE \E f \in Files : IsPipe(f) /\ e = EndOf(f)
        <5>1. PICK f \in Files : IsPipe(f) /\ e = EndOf(f)
          BY <4>1
        <5>2. IsPipe(f)' /\ EndOf(f)' = EndOf(f)
          BY <1>1, <1>2, <5>1
        <5>3. QED
          BY <2>1, <5>1, <5>2
      <4>2. CASE \E q \in Procs : ending[q] # NoEnd /\ e = ending[q]
        BY <2>1, <4>2
      <4>3. QED
        BY <1>6, <3>3, <4>1, <4>2
    <3>4. QED
      BY <2>3, <3>1, <3>2, <3>3
  <2>4. QED
    BY <2>2, <2>3
<1>8. ASSUME NEW f \in Files, NEW g \in Files, IsPipe(f)', IsPipe(g)', EndOf(f)' = EndOf(g)'
      PROVE  f = g
  <2>1. (IsPipe(f) => EndOf(f) \in OpenEnds) /\ (IsPipe(g) => EndOf(g) \in OpenEnds)
    BY <1>6
  <2>2. IsPipe(f) /\ IsPipe(g) /\ EndOf(f) = EndOf(g) => f = g
    BY FileFacts DEF Ends
  <2>3. PICK a, b, r, w : a = EndOf(f) /\ b = EndOf(g) /\ r = R /\ w = W
    OBVIOUS
  <2>4. /\ r # w /\ (IsPipe(f) => a # r /\ a # w) /\ (IsPipe(g) => b # r /\ b # w)
        /\ (IsPipe(f) /\ IsPipe(g) /\ a = b => f = g)
    BY <1>4, <1>5, <2>1, <2>2, <2>3
  <2>5. /\ IsPipe(f) \/ f = rf \/ f = wf
        /\ IsPipe(g) \/ g = rf \/ g = wf
        /\ (IF f = rf THEN r ELSE IF f = wf THEN w ELSE a)
           = (IF g = rf THEN r ELSE IF g = wf THEN w ELSE b)
    BY <1>1, <1>8, <2>3
  <2>6. QED
    BY <1>2, <2>4, <2>5
<1>9. ASSUME NEW f \in Files, NEW q \in Procs, IsPipe(f)'
      PROVE  EndOf(f)' # ending'[q]
  <2>1. R # NoEnd /\ W # NoEnd
    BY FilesAssumption DEF NoEnd
  <2>2. ending[q] \notin {R, W}
    BY <1>4, <1>6, <2>1
  <2>3. IsPipe(f) => EndOf(f) # ending[q]
    BY FileFacts DEF Ends
  <2>4. QED
    BY <1>1, <1>9, <2>2, <2>3
<1>10. \A q, r \in Procs : ending'[q] = ending'[r] /\ ending'[q] # NoEnd => q = r
  BY FileFacts DEF Ends
<1>11. live' = readopen' \cup writeopen'
  BY FileFacts DEF Ends
<1>12. OpenEnds' = Opened'
  BY <1>3, <1>7, FileFacts DEF Ends
<1>13. QED
  BY <1>8, <1>9, <1>10, <1>11, <1>12 DEF Ends

LEMMA TwoFree ==
    ASSUME NEW p \in Procs, Cardinality(FreeFDs(p)) >= 2
    PROVE  \E d0 \in FreeFDs(p), d1 \in FreeFDs(p) :
              /\ d0 = First(FreeFDs(p)) /\ d1 = First(FreeFDs(p) \ {First(FreeFDs(p))}) /\ d0 # d1
<1>1. PICK S : S = FreeFDs(p)
  OBVIOUS
<1>2. S \in SUBSET Nat /\ IsFiniteSet(S)
  <2>1. IsFiniteSet(FDs) /\ FDs \subseteq Nat
    BY FilesAssumption, FS_Interval DEF FDs
  <2>2. S \subseteq FDs
    BY <1>1 DEF FreeFDs
  <2>3. QED
    BY <2>1, <2>2, FS_Subset
<1>3. S # {}
  BY <1>1, <1>2, FS_EmptySet
<1>4. First(S) \in S
  BY <1>2, <1>3, FirstIsLeast
<1>5. S \ {First(S)} # {}
  <2>1. IsFiniteSet(S \ {First(S)}) /\ Cardinality(S \ {First(S)}) = Cardinality(S) - 1
    BY <1>2, <1>4, FS_RemoveElement
  <2>2. Cardinality(S) \in Nat /\ Cardinality(S) >= 2
    BY <1>1, <1>2, FS_CardinalityType
  <2>3. Cardinality(S \ {First(S)}) # 0
    BY <2>1, <2>2
  <2>4. QED
    BY <2>3, FS_EmptySet
<1>6. S \ {First(S)} \in SUBSET Nat
  BY <1>2
<1>7. First(S \ {First(S)}) \in S \ {First(S)}
  BY <1>5, <1>6, FirstIsLeast
<1>8. QED
  BY <1>1, <1>4, <1>7

LEMMA FinishStep ==
    ASSUME IInv, NEW p \in Procs, NEW pi \in Pipes, PipeFinish(p, pi)
    PROVE  IInv'
<1>0. PICK rf \in Files, wf \in Files : FinishEffect(p, pi, rf, wf)
  BY FinishEffects
<1>1. /\ rf # wf /\ Range(temp[p]) = {rf, wf} /\ rf = temp[p][1] /\ wf = temp[p][2]
      /\ type[rf] = "NONE" /\ type[wf] = "NONE" /\ ref[rf] = 1 /\ ref[wf] = 1
      /\ type' = [type EXCEPT ![rf] = "PIPE", ![wf] = "PIPE"]
      /\ writable' = [writable EXCEPT ![rf] = FALSE, ![wf] = TRUE]
      /\ pipe' = [pipe EXCEPT ![rf] = pi, ![wf] = pi]
      /\ pi \notin live /\ live' = live \cup {pi}
      /\ readopen' = readopen \cup {pi} /\ writeopen' = writeopen \cup {pi}
      /\ nread' = [nread EXCEPT ![pi] = 0] /\ nwrite' = [nwrite EXCEPT ![pi] = 0]
      /\ pc[p] = "pipe" /\ pc' = [pc EXCEPT ![p] = "user"]
      /\ UNCHANGED <<ref, ending, data, lock, chan, killed, io, last>>
      /\ left' \in Lefts
      /\ \/ GiveUpFiles(p) /\ UNCHANGED ofile
         \/ /\ Cardinality(FreeFDs(p)) >= 2
            /\ ofile' = [ofile EXCEPT ![p][First(FreeFDs(p))] = rf,
                                      ![p][First(FreeFDs(p) \ {First(FreeFDs(p))})] = wf]
            /\ temp' = [temp EXCEPT ![p] = <<>>]
            /\ UNCHANGED closing
  BY <1>0 DEF FinishEffect
<1>2. Locals(p) /\ closing[p] = <<>> /\ ending[p] = NoEnd
  BY <1>1, FileFacts DEF Locals
<1>3. Ends'
  BY <1>1, NewEnds
<1>4. /\ temp'[p] = <<>> /\ temp' \in [Procs -> Seq(Files)] /\ closing' \in [Procs -> Seq(Files)]
      /\ closing'[p] \in {<<>>, temp[p]}
      /\ \A q \in Procs : q # p => temp'[q] = temp[q] /\ closing'[q] = closing[q]
  <2>1. CASE GiveUpFiles(p)
    BY <2>1, FileFacts DEF GiveUpFiles
  <2>2. CASE temp' = [temp EXCEPT ![p] = <<>>] /\ UNCHANGED closing
    BY <1>2, <2>2, FileFacts
  <2>3. QED
    BY <1>1, <2>1, <2>2
<1>5. /\ Counted' /\ ofile' \in [Procs -> [FDs -> Files \cup {NoFile}]]
      /\ \A q \in Procs : q # p => ofile'[q] = ofile[q]
      /\ \A d \in FDs : ofile'[p][d] \in {ofile[p][d], rf, wf}
  <2>1. CASE GiveUpFiles(p) /\ UNCHANGED ofile
    <3>1. Counted'
      BY <1>1, <1>2, <2>1, FileFacts, GiveUpCounts
    <3>2. QED
      BY <2>1, <3>1, FileFacts
  <2>2. CASE /\ Cardinality(FreeFDs(p)) >= 2
             /\ ofile' = [ofile EXCEPT ![p][First(FreeFDs(p))] = rf,
                                       ![p][First(FreeFDs(p) \ {First(FreeFDs(p))})] = wf]
             /\ temp' = [temp EXCEPT ![p] = <<>>]
             /\ UNCHANGED closing
    <3>1. PICK d0 \in FreeFDs(p), d1 \in FreeFDs(p) :
              /\ d0 = First(FreeFDs(p)) /\ d1 = First(FreeFDs(p) \ {First(FreeFDs(p))}) /\ d0 # d1
      BY <2>2, TwoFree
    <3>2. /\ d0 \in FDs /\ d1 \in FDs /\ ofile[p][d0] = NoFile /\ ofile[p][d1] = NoFile
      BY DEF FreeFDs
    <3>3. ofile' = [ofile EXCEPT ![p][d0] = rf, ![p][d1] = wf]
      BY <2>2, <3>1
    <3>4. Counted'
      BY <1>1, <2>2, <3>1, <3>2, <3>3, FileFacts, InstallCounts
    <3>5. \A d \in FDs : ofile'[p][d] = IF d = d1 THEN wf ELSE IF d = d0 THEN rf ELSE ofile[p][d]
      BY <3>2, <3>3, FileFacts
    <3>6. ofile' \in [Procs -> [FDs -> Files \cup {NoFile}]] /\ \A q \in Procs : q # p => ofile'[q] = ofile[q]
      BY <3>2, <3>3, FileFacts
    <3>7. QED
      BY <3>4, <3>5, <3>6
  <2>3. QED
    BY <1>1, <2>1, <2>2
<1>6. \A f \in Files : /\ type'[f] = IF f \in {rf, wf} THEN "PIPE" ELSE type[f]
                       /\ pipe'[f] = IF f \in {rf, wf} THEN pi ELSE pipe[f]
                       /\ f \notin {rf, wf} => writable'[f] = writable[f]
  BY <1>1, FileFacts
<1>7. Kinds'
  <2>1. ASSUME NEW q \in Procs, NEW d \in FDs, ofile'[q][d] # NoFile
        PROVE  type'[ofile'[q][d]] = "PIPE"
    <3>1. ofile'[q][d] \in {ofile[q][d], rf, wf}
      BY <1>5
    <3>2. PICK g \in Files : g = ofile'[q][d]
      BY <1>5, <2>1
    <3>3. g \notin {rf, wf} => type[g] = "PIPE"
      BY <2>1, <3>1, <3>2, FileFacts DEF Kinds
    <3>4. QED
      BY <1>6, <3>2, <3>3
  <2>2. ASSUME NEW q \in Procs, NEW g \in Range(temp'[q])
        PROVE  type'[g] = "NONE" /\ ref'[g] = 1
    <3>1. q # p
      BY <1>4, <2>2 DEF Range
    <3>2. g \in Range(temp[q]) /\ g \in Files
      BY <1>4, <2>2, <3>1, FileFacts, RangeFacts
    <3>3. ASSUME NEW h \in Files, h \in {rf, wf}
          PROVE  g # h
      <4>1. References(h) = 1
        BY <1>1, <3>3, FileFacts DEF Counted
      <4>2. p \in Opening(h)
        BY <1>1, <3>3 DEF Opening
      <4>3. q \notin Opening(h)
        BY <3>1, <4>1, <4>2, OnlyReference
      <4>4. QED
        BY <3>2, <4>3 DEF Opening
    <3>4. type'[g] = type[g]
      BY <1>6, <3>2, <3>3
    <3>5. QED
      BY <1>1, <3>2, <3>4, FileFacts DEF Kinds
  <2>3. ASSUME NEW f \in Files, type'[f] = "PIPE"
        PROVE  ref'[f] > 0 /\ pipe'[f] \in Pipes
    <3>1. CASE f \in {rf, wf}
      <4>1. ref'[f] = 1
        BY <1>1, <3>1
      <4>2. pipe'[f] = pi
        BY <1>6, <3>1
      <4>3. QED
        BY <4>1, <4>2
    <3>2. CASE f \notin {rf, wf}
      BY <1>1, <1>6, <2>3, <3>2, FileFacts DEF Kinds
    <3>3. QED
      BY <3>1, <3>2
  <2>4. QED
    BY <2>1, <2>2, <2>3 DEF Kinds
<1>8. pc' \in [Procs -> Steps] /\ pc'[p] = "user" /\ \A q \in Procs : q # p => pc'[q] = pc[q]
  BY <1>1, Types DEF Steps
<1>9. InPipe'
  <2>1. \A q \in Procs :
              /\ Reading(q)' => Reading(q) /\ io'[q].pi = io[q].pi /\ ofile'[q] = ofile[q]
              /\ Writing(q)' => Writing(q) /\ io'[q].pi = io[q].pi /\ ofile'[q] = ofile[q]
    BY <1>1, <1>5, <1>8 DEF Reading, Writing
  <2>2. \A f \in Files : IsPipe(f) => pipe'[f] = pipe[f] /\ writable'[f] = writable[f]
    BY <1>1, <1>6 DEF IsPipe
  <2>3. QED
    BY <2>1, <2>2, FileFacts, InPipeKept
<1>10. Locals(p)'
  <2>1. Len(temp[p]) \in {1, 2} /\ (Len(temp[p]) = 2 => temp[p][1] # temp[p][2])
    BY <1>1, <1>2 DEF Locals
  <2>2. Len(temp'[p]) = 0 /\ ending'[p] = NoEnd
    BY <1>1, <1>2, <1>4
  <2>3. QED
    BY <1>4, <1>8, <2>1, <2>2 DEF Locals
<1>11. LocalsOK'
  <2>1. io' \in [Procs -> IOs] /\ left' \in Lefts
    BY <1>1, Types
  <2>2. QED
    BY <1>1, <1>4, <1>5, <1>8, <1>10, <2>1, LocalsFrame
<1>12. FilesTypeOK'
  <2>1. /\ type' \in [Files -> {"NONE", "PIPE"}] /\ writable' \in [Files -> BOOLEAN]
        /\ pipe' \in [Files -> Pipes \cup {NoPipe}]
    BY <1>1, FileFacts
  <2>2. QED
    BY <1>1, <1>4, <1>5, <2>1, FileFacts DEF FilesTypeOK
<1>13. /\ nread' \in [Pipes -> 0..IdxMod-1] /\ nwrite' \in [Pipes -> 0..IdxMod-1]
       /\ nread'[pi] = 0 /\ nwrite'[pi] = 0
       /\ \A x \in Pipes : x # pi => nread'[x] = nread[x] /\ nwrite'[x] = nwrite[x]
  BY <1>1, Types, PipeAssumption
<1>14. PipeTypeOK'
  <2>1. readopen' \subseteq Pipes /\ writeopen' \subseteq Pipes /\ live' \subseteq Pipes
    BY <1>1, Types
  <2>2. QED
    BY <1>1, <1>8, <1>12, <1>13, <2>1, Types DEF PipeTypeOK, Channels, Steps, IOStates
<1>15. Filled'
  <2>1. SUFFICES ASSUME NEW x \in Pipes
                 PROVE  (nwrite'[x] - nread'[x]) % IdxMod <= PIPESIZE
    BY DEF Filled, Fill
  <2>2. CASE x = pi
    <3>1. PICK a \in 0..IdxMod-1 : a = 0
      BY PipeAssumption
    <3>2. (a - a) % IdxMod = 0
      BY Counters
    <3>3. nwrite'[x] = a /\ nread'[x] = a
      BY <1>13, <2>2, <3>1
    <3>4. (nwrite'[x] - nread'[x]) % IdxMod = 0
      BY <3>2, <3>3
    <3>5. QED
      BY <3>4, PipeAssumption
  <2>3. CASE x # pi
    BY <1>13, <2>3 DEF IInv, Filled, Fill
  <2>4. QED
    BY <2>2, <2>3
<1>16. QED
  BY <1>3, <1>5, <1>7, <1>9, <1>11, <1>14, <1>15 DEF IInv

LEMMA DupStep ==
    ASSUME IInv, NEW p \in Procs, NEW d \in FDs, Dup(p, d)
    PROVE  IInv'
<1>1. PICK f : f = ofile[p][d]
  OBVIOUS
<1>2. f \in Files /\ type[f] = "PIPE"
  BY <1>1, FileFacts DEF Dup, FileDup, OpenFDs, FreeFDs, Kinds
<1>3. PICK e \in FDs : e = First(FreeFDs(p)) /\ ofile[p][e] = NoFile
  <2>1. FreeFDs(p) \in SUBSET Nat /\ FreeFDs(p) # {}
    BY FilesAssumption DEF FreeFDs, FDs, Dup, FileDup
  <2>2. First(FreeFDs(p)) \in FreeFDs(p)
    BY <2>1, FirstIsLeast
  <2>3. QED
    BY <2>2 DEF FreeFDs
<1>4. /\ ofile' = [ofile EXCEPT ![p][e] = f] /\ ref' = [ref EXCEPT ![f] = @ + 1]
      /\ UNCHANGED <<type, writable, pipe, temp, closing, ending, pipes, chan, killed, io, last>>
      /\ pc[p] = "user" /\ pc' = [pc EXCEPT ![p] = "user"]
      /\ left.calls[p] > 0 /\ left' = [left EXCEPT !.calls[p] = @ - 1]
  BY <1>1, <1>3 DEF Dup, FileDup, Enters, MayCall, AtUser
<1>5. Counted'
  BY <1>2, <1>3, <1>4, FileFacts, DupCounts
<1>6. /\ \A q \in Procs, x \in FDs : ofile'[q][x] \in {ofile[q][x], f}
      /\ \A q \in Procs : q # p => ofile'[q] = ofile[q]
      /\ ofile' \in [Procs -> [FDs -> Files \cup {NoFile}]]
      /\ ref' \in [Files -> Nat] /\ \A g \in Files : ref'[g] = IF g = f THEN ref[g] + 1 ELSE ref[g]
  BY <1>2, <1>4, FileFacts
<1>7. Kinds'
  <2>1. ASSUME NEW q \in Procs, NEW x \in FDs, ofile'[q][x] # NoFile
        PROVE  type'[ofile'[q][x]] = "PIPE"
    BY <1>2, <1>4, <1>6, <2>1, FileFacts DEF Kinds
  <2>2. ASSUME NEW q \in Procs, NEW g \in Range(temp'[q])
        PROVE  type'[g] = "NONE" /\ ref'[g] = 1
    <3>1. g \in Range(temp[q]) /\ g \in Files
      BY <1>4, <2>2, FileFacts, RangeFacts
    <3>2. type[g] = "NONE" /\ ref[g] = 1
      BY <3>1, FileFacts DEF Kinds
    <3>3. g # f
      BY <1>2, <3>2
    <3>4. QED
      BY <1>4, <1>6, <3>1, <3>2, <3>3
  <2>3. ASSUME NEW g \in Files, type'[g] = "PIPE"
        PROVE  ref'[g] > 0 /\ pipe'[g] \in Pipes
    <3>1. ref[g] > 0 /\ pipe[g] \in Pipes /\ ref[g] \in Nat
      BY <1>4, <2>3, FileFacts DEF Kinds
    <3>2. QED
      BY <1>4, <1>6, <3>1
  <2>4. QED
    BY <2>1, <2>2, <2>3 DEF Kinds
<1>8. Ends'
  BY <1>4, FileFacts, EndsKept DEF pipes
<1>9. pc' \in [Procs -> Steps] /\ pc'[p] = "user" /\ \A q \in Procs : q # p => pc'[q] = pc[q]
  BY <1>4, Types DEF Steps
<1>10. InPipe'
  <2>1. \A q \in Procs :
              /\ Reading(q)' => Reading(q) /\ io'[q].pi = io[q].pi /\ ofile'[q] = ofile[q]
              /\ Writing(q)' => Writing(q) /\ io'[q].pi = io[q].pi /\ ofile'[q] = ofile[q]
    BY <1>4, <1>6, <1>9 DEF Reading, Writing
  <2>2. QED
    BY <1>4, <2>1, FileFacts, InPipeKept
<1>11. LocalsOK'
  <2>1. Locals(p)'
    <3>1. Locals(p)
      BY FileFacts
    <3>2. QED
      BY <1>4, <1>9, <3>1 DEF Locals
  <2>2. io' \in [Procs -> IOs] /\ left' \in Lefts
    BY <1>4, Types, LeftSteps
  <2>3. QED
    BY <1>4, <1>6, <1>9, <2>1, <2>2, LocalsFrame
<1>12. FilesTypeOK'
  BY <1>4, <1>6, FileFacts DEF FilesTypeOK
<1>13. PipeTypeOK' /\ Filled'
  BY <1>4, <1>9, <1>12, FileTypes
<1>14. QED
  BY <1>5, <1>7, <1>8, <1>10, <1>11, <1>13 DEF IInv

LEMMA ForkStep ==
    ASSUME IInv, NEW p \in Procs, NEW child \in Procs, Fork(p, child)
    PROVE  IInv'
<1>1. /\ Inherit(p, child) /\ pc[child] = "unborn" /\ pc' = [pc EXCEPT ![child] = "user"]
      /\ UNCHANGED <<pipes, chan, killed, io, last>>
      /\ left.calls[p] > 0 /\ left' = [left EXCEPT !.calls[p] = @ - 1]
  BY DEF Fork, MayCall
<1>2. /\ ofile' = [ofile EXCEPT ![child] = ofile[p]]
      /\ ref' = [f \in Files |-> ref[f] + Cardinality({d \in FDs : ofile[p][d] = f})]
      /\ UNCHANGED <<type, writable, pipe, temp, closing, ending>>
  BY <1>1 DEF Inherit
<1>3. Locals(child) /\ \A d \in FDs : ofile[child][d] = NoFile
  BY <1>1, FileFacts DEF Locals
<1>4. Counted'
  BY <1>1, <1>3, FileFacts, InheritCounts
<1>5. \A f \in Files : Cardinality({d \in FDs : ofile[p][d] = f}) \in Nat
  <2>1. IsFiniteSet(FDs)
    BY FilesAssumption, FS_Interval DEF FDs
  <2>2. \A f \in Files : IsFiniteSet({d \in FDs : ofile[p][d] = f})
    BY <2>1, FS_Subset
  <2>3. QED
    BY <2>2, FS_CardinalityType
<1>6. ref' \in [Files -> Nat] /\ \A f \in Files : ref'[f] >= ref[f]
  <2>1. ASSUME NEW f \in Files
        PROVE  ref'[f] \in Nat /\ ref'[f] >= ref[f]
    <3>1. PICK n \in Nat, r \in Nat : n = Cardinality({d \in FDs : ofile[p][d] = f}) /\ r = ref[f]
      BY <1>5, FileFacts
    <3>2. ref'[f] = r + n
      BY <1>2, <3>1
    <3>3. QED
      BY <3>1, <3>2
  <2>2. QED
    BY <1>2, <2>1
<1>7. Kinds'
  <2>1. ASSUME NEW q \in Procs, NEW d \in FDs, ofile'[q][d] # NoFile
        PROVE  type'[ofile'[q][d]] = "PIPE"
    <3>1. ofile'[q][d] = IF q = child THEN ofile[p][d] ELSE ofile[q][d]
      BY <1>2, FileFacts
    <3>2. QED
      BY <1>2, <2>1, <3>1, FileFacts DEF Kinds
  <2>2. ASSUME NEW q \in Procs, NEW g \in Range(temp'[q])
        PROVE  type'[g] = "NONE" /\ ref'[g] = 1
    <3>1. g \in Range(temp[q]) /\ g \in Files
      BY <1>2, <2>2, FileFacts, RangeFacts
    <3>2. type[g] = "NONE" /\ ref[g] = 1
      BY <3>1, FileFacts DEF Kinds
    <3>3. {d \in FDs : ofile[p][d] = g} = {}
      <4>1. ASSUME NEW d \in FDs, ofile[p][d] = g
            PROVE  FALSE
        <5>1. g # NoFile
          BY <3>1, FileFacts
        <5>2. type[g] = "PIPE"
          BY <4>1, <5>1, FileFacts DEF Kinds
        <5>3. QED
          BY <3>2, <5>2
      <4>2. QED
        BY <4>1
    <3>4. ref'[g] = 1
      BY <1>2, <3>1, <3>2, <3>3, FS_EmptySet
    <3>5. QED
      BY <1>2, <3>2, <3>4
  <2>3. ASSUME NEW g \in Files, type'[g] = "PIPE"
        PROVE  ref'[g] > 0 /\ pipe'[g] \in Pipes
    <3>1. ref[g] > 0 /\ pipe[g] \in Pipes /\ ref[g] \in Nat
      BY <1>2, <2>3, FileFacts DEF Kinds
    <3>2. ref'[g] \in Nat /\ ref'[g] >= ref[g]
      BY <1>6
    <3>3. QED
      BY <1>2, <3>1, <3>2
  <2>4. QED
    BY <2>1, <2>2, <2>3 DEF Kinds
<1>8. Ends'
  BY <1>1, <1>2, FileFacts, EndsKept DEF pipes
<1>9. pc' \in [Procs -> Steps] /\ pc'[child] = "user" /\ \A q \in Procs : q # child => pc'[q] = pc[q]
  BY <1>1, Types DEF Steps
<1>10. \A q \in Procs : q # child => ofile'[q] = ofile[q]
  BY <1>2, FileFacts
<1>11. InPipe'
  <2>1. \A q \in Procs :
              /\ Reading(q)' => Reading(q) /\ io'[q].pi = io[q].pi /\ ofile'[q] = ofile[q]
              /\ Writing(q)' => Writing(q) /\ io'[q].pi = io[q].pi /\ ofile'[q] = ofile[q]
    BY <1>1, <1>9, <1>10 DEF Reading, Writing
  <2>2. QED
    BY <1>2, <2>1, FileFacts, InPipeKept
<1>12. LocalsOK'
  <2>1. Locals(child)'
    BY <1>1, <1>2, <1>3, <1>9 DEF Locals
  <2>2. io' \in [Procs -> IOs] /\ left' \in Lefts
    BY <1>1, Types, LeftSteps
  <2>3. QED
    BY <1>2, <1>9, <1>10, <2>1, <2>2, LocalsFrame
<1>13. FilesTypeOK'
  <2>1. ofile' \in [Procs -> [FDs -> Files \cup {NoFile}]]
    BY <1>2, FileFacts
  <2>2. QED
    BY <1>2, <1>6, <2>1, FileFacts DEF FilesTypeOK
<1>14. PipeTypeOK' /\ Filled'
  BY <1>1, <1>9, <1>13, FileTypes
<1>15. QED
  BY <1>4, <1>7, <1>8, <1>11, <1>12, <1>14 DEF IInv

LEMMA CloseFDStep ==
    ASSUME IInv, NEW p \in Procs, NEW d \in FDs, CloseFD(p, d),
           pc[p] \in {"user", "exit"}, closing[p] = <<>>, ending[p] = NoEnd,
           UNCHANGED <<pipes, chan, killed, io, last>>, left' \in Lefts,
           pc' = [pc EXCEPT ![p] = pc[p]]
    PROVE  IInv'
<1>1. PICK f \in Files : f = ofile[p][d]
  BY FileFacts, CloseCounts
<1>2. /\ ofile' = [ofile EXCEPT ![p][d] = NoFile]
      /\ closing' = [closing EXCEPT ![p] = <<f>>]
      /\ UNCHANGED <<ref, type, writable, pipe, temp, ending>>
  BY <1>1 DEF CloseFD
<1>3. Counted'
  BY FileFacts, CloseCounts
<1>4. /\ \A q \in Procs, x \in FDs : ofile'[q][x] \in {ofile[q][x], NoFile}
      /\ \A q \in Procs : q # p => ofile'[q] = ofile[q] /\ closing'[q] = closing[q]
      /\ ofile' \in [Procs -> [FDs -> Files \cup {NoFile}]]
      /\ closing'[p] = <<f>>
  BY <1>2, FileFacts
<1>5. closing' \in [Procs -> Seq(Files)]
  BY <1>2, FileFacts
<1>6. Kinds'
  <2>1. \A q \in Procs, x \in FDs : ofile'[q][x] # NoFile => type[ofile'[q][x]] = "PIPE"
    BY <1>4, FileFacts DEF Kinds
  <2>2. QED
    BY <1>2, <2>1, FileFacts DEF Kinds
<1>7. Ends'
  BY <1>2, FileFacts, EndsKept DEF pipes
<1>8. pc' \in [Procs -> Steps] /\ \A q \in Procs : pc'[q] = pc[q]
  BY Types
<1>9. InPipe'
  <2>1. \A q \in Procs :
              /\ Reading(q)' => Reading(q) /\ io'[q].pi = io[q].pi /\ ofile'[q] = ofile[q]
              /\ Writing(q)' => Writing(q) /\ io'[q].pi = io[q].pi /\ ofile'[q] = ofile[q]
    BY <1>4, <1>8 DEF Reading, Writing
  <2>2. QED
    BY <1>2, <2>1, FileFacts, InPipeKept
<1>10. LocalsOK'
  <2>1. Locals(p)'
    <3>1. Locals(p)
      BY FileFacts
    <3>2. Len(closing'[p]) = 1
      BY <1>4
    <3>3. QED
      BY <1>2, <1>8, <3>1, <3>2 DEF Locals
  <2>2. io' \in [Procs -> IOs]
    BY Types
  <2>3. QED
    BY <1>2, <1>4, <1>8, <2>1, <2>2, LocalsFrame
<1>11. FilesTypeOK'
  BY <1>2, <1>4, <1>5, FileFacts DEF FilesTypeOK
<1>12. PipeTypeOK' /\ Filled'
  BY <1>8, <1>11, FileTypes
<1>13. QED
  BY <1>3, <1>6, <1>7, <1>9, <1>10, <1>12 DEF IInv

\* An end goes from its file to the fileclose that had the last reference to it.
LEMMA EndMoves ==
    ASSUME IInv, NEW p \in Procs, NEW f \in Files, type[f] = "PIPE", ending[p] = NoEnd,
           type' = [type EXCEPT ![f] = "NONE"], ending' = [ending EXCEPT ![p] = EndOf(f)],
           UNCHANGED <<writable, pipe, live, readopen, writeopen>>
    PROVE  Ends'
<1>1. PICK e : e = EndOf(f)
  OBVIOUS
<1>2. /\ IsPipe(f) /\ e # NoEnd
      /\ \A g \in Files : /\ IsPipe(g)' <=> IsPipe(g) /\ g # f
                          /\ EndOf(g)' = EndOf(g)
      /\ \A q \in Procs : ending'[q] = IF q = p THEN e ELSE ending[q]
  <2>1. e # NoEnd
    <3>1. pipe[f] \in Pipes
      BY FileFacts DEF Kinds
    <3>2. QED
      BY <1>1, <3>1, FilesAssumption DEF EndOf, NoEnd
  <2>2. QED
    BY <1>1, <2>1, FileFacts DEF IsPipe, EndOf
<1>3. Opened' = Opened
  BY DEF Opened
<1>4. /\ \A x : x \in OpenEnds' <=> (\E g \in Files : IsPipe(g)' /\ x = EndOf(g)')
                                    \/ (\E q \in Procs : ending'[q] # NoEnd /\ x = ending'[q])
      /\ \A x : x \in OpenEnds <=> (\E g \in Files : IsPipe(g) /\ x = EndOf(g))
                                   \/ (\E q \in Procs : ending[q] # NoEnd /\ x = ending[q])
  BY DEF OpenEnds, IsPipe
<1>5. \A x : x \in OpenEnds' => x \in OpenEnds
  BY <1>1, <1>2, <1>4
<1>6. \A x : x \in OpenEnds => x \in OpenEnds'
  <2>1. SUFFICES ASSUME NEW x \in OpenEnds
                 PROVE  x \in OpenEnds'
    OBVIOUS
  <2>2. CASE x = e
    <3>1. ending'[p] # NoEnd /\ x = ending'[p]
      BY <1>2, <2>2
    <3>2. QED
      BY <1>4, <3>1
  <2>3. CASE \E g \in Files : IsPipe(g) /\ x = EndOf(g) /\ x # e
    BY <1>1, <1>2, <1>4, <2>3
  <2>4. CASE \E q \in Procs : ending[q] # NoEnd /\ x = ending[q]
    BY <1>2, <1>4, <2>4
  <2>5. QED
    BY <1>4, <2>2, <2>3, <2>4
<1>7. OpenEnds' = OpenEnds
  BY <1>5, <1>6
<1>8. /\ \A g \in Files : IsPipe(g) /\ EndOf(g) = e => g = f
      /\ \A q \in Procs : ending[q] # e
      /\ \A g, h \in Files : IsPipe(g) /\ IsPipe(h) /\ EndOf(g) = EndOf(h) => g = h
      /\ \A q, r \in Procs : ending[q] = ending[r] /\ ending[q] # NoEnd => q = r
      /\ \A g \in Files, q \in Procs : IsPipe(g) => EndOf(g) # ending[q]
      /\ live = readopen \cup writeopen /\ OpenEnds = Opened
  BY <1>1, <1>2, FileFacts DEF Ends
<1>9. \A g, h \in Files : IsPipe(g)' /\ IsPipe(h)' /\ EndOf(g)' = EndOf(h)' => g = h
  BY <1>2, <1>8
<1>10. \A q, r \in Procs : ending'[q] = ending'[r] /\ ending'[q] # NoEnd => q = r
  BY <1>2, <1>8
<1>11. \A g \in Files, q \in Procs : IsPipe(g)' => EndOf(g)' # ending'[q]
  BY <1>2, <1>8
<1>12. QED
  BY <1>3, <1>7, <1>8, <1>9, <1>10, <1>11 DEF Ends

LEMMA FileCloseStep ==
    ASSUME IInv, NEW p \in Procs, CloseNext(p)
    PROVE  IInv'
<1>1. /\ FileClose(p) /\ closing[p] # <<>> /\ ending[p] = NoEnd
      /\ UNCHANGED <<writable, pipe, ofile, temp, pipes, chan, killed, pc, io, last, left>>
  BY DEF CloseNext, FileClose, calls
<1>2. PICK f : f = Head(closing[p])
  OBVIOUS
<1>3. /\ closing[p] \in Seq(Files) /\ Len(closing[p]) \in 1..2
      /\ Len(closing[p]) = 2 => closing[p][1] # closing[p][2]
  BY <1>1, FileFacts DEF Locals
<1>4. /\ Counted' /\ f \in Files /\ ref[f] \in Nat \ {0} /\ p \in Closing(f)
      /\ closing'[p] \in Seq(Files) /\ Len(closing'[p]) = Len(closing[p]) - 1
  BY <1>1, <1>2, <1>3, FileFacts, FileCloseCounts
<1>5. /\ closing' = [closing EXCEPT ![p] = Tail(@)] /\ ref' = [ref EXCEPT ![f] = @ - 1]
      /\ ref[f] = 1 /\ type[f] = "PIPE" =>
            type' = [type EXCEPT ![f] = "NONE"] /\ ending' = [ending EXCEPT ![p] = EndOf(f)]
      /\ ref[f] = 1 /\ type[f] # "PIPE" => type' = [type EXCEPT ![f] = "NONE"] /\ ending' = ending
      /\ ref[f] # 1 => UNCHANGED <<type, ending>>
  BY <1>1, <1>2 DEF FileClose, EndOf
<1>6. ref[f] = 1 /\ type[f] # "PIPE" => UNCHANGED <<type, ending>>
  <2>1. type[f] # "PIPE" => type[f] = "NONE"
    BY <1>4, FileFacts
  <2>2. QED
    BY <1>5, <2>1, FileFacts
<1>7. \/ /\ ref[f] = 1 /\ type[f] = "PIPE"
         /\ type' = [type EXCEPT ![f] = "NONE"] /\ ending' = [ending EXCEPT ![p] = EndOf(f)]
      \/ /\ ref[f] # 1 \/ type[f] # "PIPE"
         /\ UNCHANGED <<type, ending>>
  BY <1>5, <1>6
<1>8. Ends'
  <2>1. CASE /\ type[f] = "PIPE"
             /\ type' = [type EXCEPT ![f] = "NONE"] /\ ending' = [ending EXCEPT ![p] = EndOf(f)]
    BY <1>1, <1>4, <2>1, EndMoves DEF pipes
  <2>2. CASE UNCHANGED <<type, ending>>
    BY <1>1, <2>2, FileFacts, EndsKept DEF pipes
  <2>3. QED
    BY <1>7, <2>1, <2>2
<1>9. /\ ref' \in [Files -> Nat] /\ \A g \in Files : ref'[g] = IF g = f THEN ref[f] - 1 ELSE ref[g]
      /\ \A q \in Procs : q # p => closing'[q] = closing[q] /\ ending'[q] = ending[q]
      /\ type' \in [Files -> {"NONE", "PIPE"}] /\ \A g \in Files : g # f => type'[g] = type[g]
      /\ closing' \in [Procs -> Seq(Files)]
  <2>1. /\ ref' \in [Files -> Nat] /\ \A g \in Files : ref'[g] = IF g = f THEN ref[f] - 1 ELSE ref[g]
    BY <1>4, <1>5, FileFacts
  <2>2. \A q \in Procs : q # p => closing'[q] = closing[q] /\ ending'[q] = ending[q]
    BY <1>5, <1>7, FileFacts
  <2>3. type' \in [Files -> {"NONE", "PIPE"}] /\ \A g \in Files : g # f => type'[g] = type[g]
    BY <1>7, FileFacts
  <2>4. closing'[p] = Tail(closing[p])
    BY <1>5, FileFacts
  <2>5. closing' \in [Procs -> Seq(Files)]
    BY <1>4, <1>5, <2>4, FileFacts
  <2>6. QED
    BY <2>1, <2>2, <2>3, <2>5
<1>10. ending' \in [Procs -> [pipe : Pipes \cup {NoPipe}, writable : BOOLEAN]]
       /\ (ending'[p] # NoEnd => ending'[p].pipe \in Pipes)
  <2>1. CASE type[f] = "PIPE" /\ ending' = [ending EXCEPT ![p] = EndOf(f)]
    <3>1. pipe[f] \in Pipes /\ writable[f] \in BOOLEAN
      BY <1>4, <2>1, FileFacts DEF Kinds
    <3>2. EndOf(f) \in [pipe : Pipes \cup {NoPipe}, writable : BOOLEAN] /\ EndOf(f).pipe \in Pipes
      BY <3>1 DEF EndOf
    <3>3. QED
      BY <2>1, <3>2, FileFacts
  <2>2. CASE UNCHANGED ending
    BY <1>1, <2>2, FileFacts
  <2>3. QED
    BY <1>7, <2>1, <2>2
<1>11. ref[f] = 1 => Descriptors(f) = {}
  <2>1. References(f) = ref[f] /\ Closing(f) # {}
    BY <1>4, FileFacts DEF Counted
  <2>2. QED
    BY <2>1, OnlyReference
<1>12. Opening(f) = {}
  <2>1. ASSUME NEW q \in Opening(f)
        PROVE  FALSE
    <3>1. ref[f] = 1
      BY FileFacts DEF Opening, Kinds
    <3>2. References(f) = 1
      BY <1>4, <3>1, FileFacts DEF Counted
    <3>3. QED
      BY <1>4, <2>1, <3>2, OnlyReference
  <2>2. QED
    BY <2>1
<1>13. Kinds'
  <2>1. ASSUME NEW q \in Procs, NEW x \in FDs, ofile'[q][x] # NoFile
        PROVE  type'[ofile'[q][x]] = "PIPE"
    <3>1. PICK g \in Files : g = ofile[q][x] /\ ofile'[q][x] = g /\ type[g] = "PIPE"
      BY <1>1, <2>1, FileFacts DEF Kinds
    <3>2. CASE g = f /\ ref[f] = 1
      <4>1. <<q, x>> \in Descriptors(f)
        BY <3>1, <3>2 DEF Descriptors
      <4>2. QED
        BY <1>11, <3>2, <4>1
    <3>3. CASE g # f \/ ref[f] # 1
      BY <1>7, <1>9, <3>1, <3>3
    <3>4. QED
      BY <3>2, <3>3
  <2>2. ASSUME NEW q \in Procs, NEW g \in Range(temp'[q])
        PROVE  type'[g] = "NONE" /\ ref'[g] = 1
    <3>1. g \in Range(temp[q]) /\ g \in Files
      BY <1>1, <2>2, FileFacts, RangeFacts
    <3>2. type[g] = "NONE" /\ ref[g] = 1
      BY <3>1, FileFacts DEF Kinds
    <3>3. g # f
      BY <1>12, <3>1 DEF Opening
    <3>4. QED
      BY <1>9, <3>1, <3>2, <3>3
  <2>3. ASSUME NEW g \in Files, type'[g] = "PIPE"
        PROVE  ref'[g] > 0 /\ pipe'[g] \in Pipes
    <3>1. CASE g = f
      <4>1. ref[f] # 1 /\ type[f] = "PIPE"
        BY <1>4, <1>7, <2>3, <3>1, FileFacts
      <4>2. pipe'[f] \in Pipes
        BY <1>1, <1>4, <4>1, FileFacts DEF Kinds
      <4>3. ref'[f] > 0
        BY <1>4, <1>9, <4>1
      <4>4. QED
        BY <3>1, <4>2, <4>3
    <3>2. CASE g # f
      BY <1>1, <1>9, <2>3, <3>2, FileFacts DEF Kinds
    <3>3. QED
      BY <3>1, <3>2
  <2>4. QED
    BY <2>1, <2>2, <2>3 DEF Kinds
<1>14. InPipe'
  <2>1. \A q \in Procs :
              /\ Reading(q)' => Reading(q) /\ io'[q].pi = io[q].pi /\ ofile'[q] = ofile[q]
              /\ Writing(q)' => Writing(q) /\ io'[q].pi = io[q].pi /\ ofile'[q] = ofile[q]
    BY <1>1 DEF Reading, Writing
  <2>2. QED
    BY <1>1, <2>1, FileFacts, InPipeKept
<1>15. LocalsOK'
  <2>1. Locals(p)'
    <3>1. Locals(p) /\ pc[p] \in {"user", "exit"}
      BY <1>1, FileFacts DEF Locals
    <3>2. Len(closing'[p]) \in 0..1
      BY <1>3, <1>4
    <3>3. QED
      BY <1>1, <1>10, <3>1, <3>2 DEF Locals
  <2>2. io' \in [Procs -> IOs] /\ left' \in Lefts
    BY <1>1, Types
  <2>3. QED
    BY <1>1, <1>9, <2>1, <2>2, LocalsFrame
<1>16. FilesTypeOK'
  BY <1>1, <1>9, <1>10, FileFacts DEF FilesTypeOK
<1>17. PipeTypeOK' /\ Filled'
  <2>1. pc' \in [Procs -> Steps]
    BY <1>1, Types
  <2>2. QED
    BY <1>1, <1>16, <2>1, FileTypes
<1>18. QED
  BY <1>4, <1>8, <1>13, <1>14, <1>15, <1>17 DEF IInv

PipeCloseEffect(p, pi, w) ==
    /\ ending[p] = [pipe |-> pi, writable |-> w] /\ ending[p] # NoEnd
    /\ pi \in IF w THEN writeopen ELSE readopen
    /\ writeopen' = (IF w THEN writeopen \ {pi} ELSE writeopen)
    /\ readopen' = (IF w THEN readopen ELSE readopen \ {pi})
    /\ live' = readopen' \cup writeopen'
    /\ chan' = Wakeup(IF w THEN Data(pi) ELSE Room(pi))
    /\ ending' = [ending EXCEPT ![p] = NoEnd]
    /\ UNCHANGED <<ref, type, writable, pipe, ofile, temp, closing, nread, nwrite, data, lock,
                   killed, pc, io, last, left>>

LEMMA PipeCloseEffects ==
    ASSUME IInv, NEW p \in Procs, PipeClose(p)
    PROVE  /\ lock[ending[p].pipe] = Nobody
           /\ \E pi \in Pipes, w \in BOOLEAN : PipeCloseEffect(p, pi, w)
<1>1. ending[p] # NoEnd /\ lock[ending[p].pipe] = Nobody
  BY DEF PipeClose
<1>2. ending[p] \in [pipe : Pipes \cup {NoPipe}, writable : BOOLEAN] /\ ending[p].pipe \in Pipes
  BY <1>1, FileFacts DEF Locals
<1>3. PICK pi \in Pipes, w \in BOOLEAN : /\ pi = ending[p].pipe /\ w = ending[p].writable
                                        /\ ending[p] = [pipe |-> pi, writable |-> w]
  BY <1>2
<1>4. pi \in IF w THEN writeopen ELSE readopen
  <2>1. ending[p] \in OpenEnds
    BY <1>1 DEF OpenEnds
  <2>2. [pipe |-> pi, writable |-> w] \in Opened
    BY <1>3, <2>1, FileFacts DEF Ends
  <2>3. QED
    BY <2>2 DEF Opened
<1>5. /\ writeopen' = (IF w THEN writeopen \ {pi} ELSE writeopen)
      /\ readopen' = (IF w THEN readopen ELSE readopen \ {pi})
      /\ chan' = Wakeup(IF w THEN Data(pi) ELSE Room(pi))
      /\ live' = (IF pi \in readopen' \cup writeopen' THEN live ELSE live \ {pi})
      /\ ending' = [ending EXCEPT ![p] = NoEnd]
      /\ UNCHANGED <<ref, type, writable, pipe, ofile, temp, closing, nread, nwrite, data, lock,
                     killed, pc, io, last, left>>
  BY <1>3 DEF PipeClose
<1>6. live' = readopen' \cup writeopen'
  <2>1. live = readopen \cup writeopen
    BY FileFacts DEF Ends
  <2>2. QED
    BY <1>4, <1>5, <2>1
<1>7. PipeCloseEffect(p, pi, w)
  BY <1>1, <1>3, <1>4, <1>5, <1>6 DEF PipeCloseEffect
<1>8. QED
  BY <1>1, <1>7

LEMMA PipeCloseStep ==
    ASSUME IInv, NEW p \in Procs, PipeClose(p)
    PROVE  IInv'
<1>1. PICK pi \in Pipes, w \in BOOLEAN : PipeCloseEffect(p, pi, w)
  BY PipeCloseEffects
<1>2. PICK e : e = [pipe |-> pi, writable |-> w]
  OBVIOUS
<1>3. /\ ending[p] = e /\ e # NoEnd
      /\ ending' = [ending EXCEPT ![p] = NoEnd]
      /\ \A q \in Procs : ending'[q] = IF q = p THEN NoEnd ELSE ending[q]
      /\ UNCHANGED <<ref, type, writable, pipe, ofile, temp, closing, nread, nwrite, data, lock,
                     killed, pc, io, last, left>>
  BY <1>1, <1>2, FileFacts DEF PipeCloseEffect
<1>4. Opened' = Opened \ {e}
  <2>1. /\ writeopen' = (IF w THEN writeopen \ {pi} ELSE writeopen)
        /\ readopen' = (IF w THEN readopen ELSE readopen \ {pi})
    BY <1>1 DEF PipeCloseEffect
  <2>2. CASE w = TRUE
    <3>1. e = [pipe |-> pi, writable |-> TRUE] /\ writeopen' = writeopen \ {pi} /\ readopen' = readopen
      BY <1>2, <2>1, <2>2
    <3>2. {[pipe |-> x, writable |-> TRUE] : x \in writeopen \ {pi}}
          = {[pipe |-> x, writable |-> TRUE] : x \in writeopen} \ {e}
      BY <3>1
    <3>3. e \notin {[pipe |-> x, writable |-> FALSE] : x \in readopen}
      BY <3>1
    <3>4. QED
      BY <3>1, <3>2, <3>3 DEF Opened
  <2>3. CASE w = FALSE
    <3>1. e = [pipe |-> pi, writable |-> FALSE] /\ readopen' = readopen \ {pi} /\ writeopen' = writeopen
      BY <1>2, <2>1, <2>3
    <3>2. {[pipe |-> x, writable |-> FALSE] : x \in readopen \ {pi}}
          = {[pipe |-> x, writable |-> FALSE] : x \in readopen} \ {e}
      BY <3>1
    <3>3. e \notin {[pipe |-> x, writable |-> TRUE] : x \in writeopen}
      BY <3>1
    <3>4. QED
      BY <3>1, <3>2, <3>3 DEF Opened
  <2>4. QED
    BY <2>2, <2>3
<1>5. /\ \A x : x \in OpenEnds' <=> (\E g \in Files : IsPipe(g) /\ x = EndOf(g))
                                    \/ (\E q \in Procs : ending'[q] # NoEnd /\ x = ending'[q])
      /\ \A x : x \in OpenEnds <=> (\E g \in Files : IsPipe(g) /\ x = EndOf(g))
                                   \/ (\E q \in Procs : ending[q] # NoEnd /\ x = ending[q])
  BY <1>3 DEF OpenEnds, IsPipe, EndOf
<1>6. /\ \A g, h \in Files : IsPipe(g) /\ IsPipe(h) /\ EndOf(g) = EndOf(h) => g = h
      /\ \A q, r \in Procs : ending[q] = ending[r] /\ ending[q] # NoEnd => q = r
      /\ \A g \in Files, q \in Procs : IsPipe(g) => EndOf(g) # ending[q]
      /\ OpenEnds = Opened
  BY FileFacts DEF Ends
<1>7. OpenEnds' = OpenEnds \ {e}
  <2>1. ASSUME NEW x \in OpenEnds'
        PROVE  x \in OpenEnds /\ x # e
    <3>1. CASE \E g \in Files : IsPipe(g) /\ x = EndOf(g)
      BY <1>3, <1>5, <1>6, <3>1
    <3>2. CASE \E q \in Procs : ending'[q] # NoEnd /\ x = ending'[q]
      BY <1>3, <1>5, <1>6, <3>2
    <3>3. QED
      BY <1>5, <2>1, <3>1, <3>2
  <2>2. ASSUME NEW x \in OpenEnds, x # e
        PROVE  x \in OpenEnds'
    <3>1. CASE \E g \in Files : IsPipe(g) /\ x = EndOf(g)
      BY <1>5, <3>1
    <3>2. CASE \E q \in Procs : ending[q] # NoEnd /\ x = ending[q]
      BY <1>3, <1>5, <2>2, <3>2
    <3>3. QED
      BY <1>5, <2>2, <3>1, <3>2
  <2>3. QED
    BY <2>1, <2>2
<1>8. Ends'
  <2>1. \A g, h \in Files : IsPipe(g)' /\ IsPipe(h)' /\ EndOf(g)' = EndOf(h)' => g = h
    BY <1>3, <1>6 DEF IsPipe, EndOf
  <2>2. \A q, r \in Procs : ending'[q] = ending'[r] /\ ending'[q] # NoEnd => q = r
    BY <1>3, <1>6
  <2>3. \A g \in Files, q \in Procs : IsPipe(g)' => EndOf(g)' # ending'[q]
    <3>1. \A g \in Files : IsPipe(g)' <=> IsPipe(g)
      BY <1>3 DEF IsPipe
    <3>2. \A g \in Files : EndOf(g)' = EndOf(g)
      BY <1>3 DEF EndOf
    <3>3. \A g \in Files : IsPipe(g) => EndOf(g) # NoEnd
      <4>1. NoPipe \notin Pipes
        BY FilesAssumption
      <4>2. \A g \in Files : IsPipe(g) => pipe[g] \in Pipes
        BY FileFacts DEF Kinds, IsPipe
      <4>3. QED
        BY <4>1, <4>2 DEF EndOf, NoEnd
    <3>4. QED
      BY <1>3, <1>6, <3>1, <3>2, <3>3
  <2>4. live' = readopen' \cup writeopen'
    BY <1>1 DEF PipeCloseEffect
  <2>5. OpenEnds' = Opened'
    BY <1>4, <1>6, <1>7
  <2>6. QED
    BY <2>1, <2>2, <2>3, <2>4, <2>5 DEF Ends
<1>9. Counted'
  BY <1>3, FileFacts DEF Counted, References, Descriptors, Opening, Closing
<1>10. Kinds'
  BY <1>3, FileFacts DEF Kinds
<1>11. InPipe'
  <2>1. \A q \in Procs :
              /\ Reading(q)' => Reading(q) /\ io'[q].pi = io[q].pi /\ ofile'[q] = ofile[q]
              /\ Writing(q)' => Writing(q) /\ io'[q].pi = io[q].pi /\ ofile'[q] = ofile[q]
    BY <1>3 DEF Reading, Writing
  <2>2. QED
    BY <1>3, <2>1, FileFacts, InPipeKept
<1>12. LocalsOK'
  <2>1. Locals(p)'
    <3>1. Locals(p) /\ ending'[p] = NoEnd
      BY <1>3, FileFacts
    <3>2. closing'[p] # <<>> => pc'[p] \in {"user", "exit"}
      BY <1>3, <3>1 DEF Locals
    <3>3. QED
      BY <1>3, <3>1, <3>2 DEF Locals
  <2>2. io' \in [Procs -> IOs] /\ left' \in Lefts
    BY <1>3, Types
  <2>3. QED
    BY <1>3, <2>1, <2>2, LocalsFrame
<1>13. ending' \in [Procs -> [pipe : Pipes \cup {NoPipe}, writable : BOOLEAN]]
  BY <1>3, FileFacts
<1>14. FilesTypeOK'
  BY <1>3, <1>13, FileFacts DEF FilesTypeOK
<1>15. PipeTypeOK'
  <2>1. readopen' \subseteq Pipes /\ writeopen' \subseteq Pipes /\ live' \subseteq Pipes
    BY <1>1, Types DEF PipeCloseEffect
  <2>2. chan' \in [Procs -> Channels]
    BY <1>1, Types, WakeupType DEF PipeCloseEffect
  <2>3. QED
    BY <1>3, <1>14, <2>1, <2>2, Types DEF PipeTypeOK, Channels, Steps, IOStates
<1>16. Filled'
  BY <1>3 DEF IInv, Filled, Fill
<1>17. QED
  BY <1>8, <1>9, <1>10, <1>11, <1>12, <1>15, <1>16 DEF IInv

LEMMA StartIOStep ==
    ASSUME IInv, NEW p \in Procs, NEW d \in FDs, NEW n \in left.sizes, StartIO(p, d, n)
    PROVE  IInv'
<1>1. PICK f : f = ofile[p][d]
  OBVIOUS
<1>2. f \in Files /\ type[f] = "PIPE" /\ pipe[f] \in Pipes /\ writable[f] \in BOOLEAN /\ f # NoFile
  BY <1>1, FileFacts DEF StartIO, Kinds
<1>3. /\ UNCHANGED <<files, pipes, chan, killed, last>> /\ pc[p] = "user"
      /\ closing[p] = <<>> /\ ending[p] = NoEnd
      /\ pc' = [pc EXCEPT ![p] = IF writable[f] THEN "write" ELSE "read"]
      /\ left.calls[p] > 0 /\ left' = [left EXCEPT !.calls[p] = @ - 1]
      /\ io' = [io EXCEPT ![p] = [pi |-> pipe[f], i |-> 0, n |-> n]]
  BY <1>1 DEF StartIO, Enters, MayCall, AtUser
<1>4. UNCHANGED <<ref, type, writable, pipe, ofile, temp, closing, ending>>
  BY <1>3 DEF files
<1>5. /\ pc' \in [Procs -> Steps] /\ pc'[p] = (IF writable[f] THEN "write" ELSE "read")
      /\ \A q \in Procs : q # p => pc'[q] = pc[q] /\ io'[q] = io[q]
      /\ io' \in [Procs -> IOs] /\ io'[p].pi = pipe[f]
  <2>1. [pi |-> pipe[f], i |-> 0, n |-> n] \in IOs
    BY <1>2, Types, LeftSteps DEF IOs
  <2>2. QED
    BY <1>3, <2>1, Types DEF Steps, IOStates
<1>6. Counted'
  BY <1>4, FileFacts DEF Counted, References, Descriptors, Opening, Closing
<1>7. Kinds'
  BY <1>4, FileFacts DEF Kinds
<1>8. Ends'
  BY <1>3, <1>4, FileFacts, EndsKept DEF pipes
<1>9. InPipe'
  <2>1. ASSUME NEW w, w = writable[f]
        PROVE  HasEnd(p, w)'
    <3>1. ofile'[p][d] = f /\ pipe'[f] = io'[p].pi /\ writable'[f] = w
      BY <1>1, <1>4, <1>5, <2>1
    <3>2. QED
      BY <1>2, <1>4, <3>1 DEF HasEnd, EndOf
  <2>2. ASSUME NEW q \in Procs
        PROVE  (Reading(q)' => HasEnd(q, FALSE)') /\ (Writing(q)' => HasEnd(q, TRUE)')
    <3>1. CASE q = p
      <4>1. CASE writable[f] = TRUE
        <5>1. HasEnd(p, TRUE)' /\ pc'[p] = "write"
          BY <1>5, <2>1, <4>1
        <5>2. QED
          BY <3>1, <5>1 DEF Reading, Writing
      <4>2. CASE writable[f] = FALSE
        <5>1. HasEnd(p, FALSE)' /\ pc'[p] = "read"
          BY <1>5, <2>1, <4>2
        <5>2. QED
          BY <3>1, <5>1 DEF Reading, Writing
      <4>3. QED
        BY <1>2, <4>1, <4>2
    <3>2. CASE q # p
      <4>1. pc'[q] = pc[q] /\ io'[q] = io[q] /\ ofile' = ofile /\ pipe' = pipe /\ writable' = writable
        BY <1>4, <1>5, <3>2
      <4>2. (Reading(q) => HasEnd(q, FALSE)) /\ (Writing(q) => HasEnd(q, TRUE))
        BY FileFacts DEF InPipe
      <4>3. QED
        BY <4>1, <4>2 DEF Reading, Writing, HasEnd, EndOf
    <3>3. QED
      BY <3>1, <3>2
  <2>3. QED
    BY <2>2 DEF InPipe
<1>10. LocalsOK'
  <2>1. Locals(p)'
    <3>1. Locals(p)
      BY FileFacts
    <3>2. pc'[p] \notin {"pipe", "unborn"}
      BY <1>5
    <3>3. QED
      BY <1>3, <1>4, <3>1, <3>2 DEF Locals
  <2>2. left' \in Lefts
    BY <1>3, Types, LeftSteps
  <2>3. QED
    BY <1>4, <1>5, <2>1, <2>2, LocalsFrame
<1>11. FilesTypeOK'
  BY <1>4, FileFacts DEF FilesTypeOK
<1>12. PipeTypeOK' /\ Filled'
  BY <1>3, <1>5, <1>11, FileTypes
<1>13. QED
  BY <1>6, <1>7, <1>8, <1>9, <1>10, <1>12 DEF IInv

-----------------------------------------------------------------------------
(* The table of files and the pipes agree.                                 *)

LEMMA InitIInv == Init => IInv
<1> SUFFICES ASSUME Init
             PROVE  IInv
  OBVIOUS
<1>1. PICK w \in Workloads :
        /\ left = [calls |-> w.calls, sizes |-> w.sizes, bytes |-> w.bytes, kills |-> w.kills, bad |-> w.bad]
        /\ ofile = w.ofile
        /\ temp = [p \in Procs |-> <<>>] /\ closing = temp
        /\ ending = [p \in Procs |-> NoEnd]
        /\ ref = [f \in Files |-> References(f)]
        /\ type = [f \in Files |-> IF ref[f] > 0 THEN "PIPE" ELSE "NONE"]
        /\ writable = [f \in Files |-> f = 2]
        /\ pipe = [f \in Files |-> IF ref[f] > 0 THEN CHOOSE pi \in Pipes : TRUE ELSE NoPipe]
        /\ readopen = {pipe[f] : f \in {g \in Files \cap {1} : ref[g] > 0}}
        /\ writeopen = {pipe[f] : f \in {g \in Files \cap {2} : ref[g] > 0}}
        /\ live = readopen \cup writeopen
        /\ nread = [pi \in Pipes |-> w.start] /\ nwrite = nread
        /\ data = [pi \in Pipes |-> [k \in 0..PIPESIZE-1 |-> CHOOSE b \in Bytes : TRUE]]
        /\ lock = [pi \in Pipes |-> Nobody]
        /\ chan = [p \in Procs |-> Awake]
        /\ killed = {}
        /\ pc = [p \in Procs |-> IF p \in w.alive THEN "user" ELSE "unborn"]
        /\ io = [p \in Procs |-> NoIO]
        /\ last = [pi \in Pipes |-> NoByte]
  BY DEF Init
<1>2. /\ w.ofile \in [Procs -> [FDs -> (Files \cap {1, 2}) \cup {NoFile}]]
      /\ w.calls \in [Procs -> Nat] /\ w.sizes \in SUBSET Nat /\ w.bytes \in SUBSET Bytes
      /\ w.start \in 0..IdxMod-1 /\ w.kills \in Nat /\ w.bad \in Nat
      /\ \A p \in Procs \ w.alive : w.ofile[p] = [d \in FDs |-> NoFile]
  BY PipeAssumption
<1>3. PICK q \in Pipes : q = CHOOSE pi \in Pipes : TRUE
  BY PipeAssumption
<1>4. /\ NoFile \notin Files /\ NoPipe \notin Pipes
      /\ NoEnd \in [pipe : Pipes \cup {NoPipe}, writable : BOOLEAN]
  BY FilesAssumption DEF Files, NoEnd
<1>5. \A p \in Procs : /\ temp[p] = <<>> /\ closing[p] = <<>> /\ ending[p] = NoEnd
                       /\ pc[p] \in {"user", "unborn"}
  BY <1>1
<1>6. \A f \in Files : Opening(f) = {} /\ Closing(f) = {}
  BY <1>5 DEF Opening, Closing, Range
<1>7. Counted /\ ref \in [Files -> Nat]
  <2>1. \A f \in Files : References(f) \in Nat
    <3>1. SUFFICES ASSUME NEW f \in Files
                   PROVE  References(f) \in Nat
      OBVIOUS
    <3>2. PICK d \in Nat, t \in Nat, c \in Nat : References(f) = d + t + c
      BY Numbered
    <3>3. QED
      BY <3>2
  <2>2. QED
    BY <1>1, <2>1 DEF Counted
<1>8. \A f \in Files : ref[f] > 0 <=> Descriptors(f) # {}
  <2>1. SUFFICES ASSUME NEW f \in Files
                 PROVE  ref[f] > 0 <=> Descriptors(f) # {}
    OBVIOUS
  <2>2. PICK d \in Nat, t \in Nat, c \in Nat :
          /\ d = Cardinality(Descriptors(f)) /\ t = Cardinality(Opening(f))
          /\ c = Cardinality(Closing(f)) /\ References(f) = d + t + c
          /\ (d = 0 <=> Descriptors(f) = {}) /\ (t = 0 <=> Opening(f) = {})
          /\ (c = 0 <=> Closing(f) = {})
    BY Numbered
  <2>3. t = 0 /\ c = 0
    BY <1>6, <2>2
  <2>4. ref[f] = d + t + c
    BY <1>7, <2>2 DEF Counted
  <2>5. ref[f] = d
    BY <2>3, <2>4
  <2>6. QED
    BY <2>2, <2>5
<1>9. \A f \in Files : ref[f] > 0 => f \in {1, 2}
  <2>1. ASSUME NEW f \in Files, NEW x \in Descriptors(f)
        PROVE  f \in {1, 2}
    <3>1. x[1] \in Procs /\ x[2] \in FDs /\ ofile[x[1]][x[2]] = f
      BY <2>1 DEF Descriptors
    <3>2. QED
      BY <1>1, <1>2, <1>4, <3>1
  <2>2. QED
    BY <1>8, <2>1
<1>10. \A f \in Files : /\ type[f] = "PIPE" <=> ref[f] > 0
                        /\ type[f] \in {"NONE", "PIPE"} /\ pipe[f] \in Pipes \cup {NoPipe}
                        /\ ref[f] > 0 => pipe[f] = q
                        /\ writable[f] = (f = 2)
  BY <1>1, <1>3
<1>11. /\ readopen \subseteq {q} /\ writeopen \subseteq {q}
       /\ q \in readopen <=> 1 \in Files /\ ref[1] > 0
       /\ q \in writeopen <=> 2 \in Files /\ ref[2] > 0
  <2>1. readopen = {pipe[f] : f \in {g \in Files \cap {1} : ref[g] > 0}}
        /\ writeopen = {pipe[f] : f \in {g \in Files \cap {2} : ref[g] > 0}}
    BY <1>1
  <2>2. QED
    BY <1>10, <2>1
<1>12. FilesTypeOK
  <2>1. ofile \in [Procs -> [FDs -> Files \cup {NoFile}]]
    BY <1>1, <1>2
  <2>2. temp \in [Procs -> Seq(Files)] /\ closing \in [Procs -> Seq(Files)]
    BY <1>1
  <2>3. ending \in [Procs -> [pipe : Pipes \cup {NoPipe}, writable : BOOLEAN]]
    BY <1>1, <1>4
  <2>4. /\ type \in [Files -> {"NONE", "PIPE"}] /\ writable \in [Files -> BOOLEAN]
        /\ pipe \in [Files -> Pipes \cup {NoPipe}]
    BY <1>1, <1>10
  <2>5. QED
    BY <1>7, <2>1, <2>2, <2>3, <2>4 DEF FilesTypeOK
<1>13. PipeTypeOK
  <2>1. data \in [Pipes -> [0..PIPESIZE-1 -> Bytes]]
    <3>1. (CHOOSE b \in Bytes : TRUE) \in Bytes
      BY PipeAssumption
    <3>2. QED
      BY <1>1, <3>1
  <2>2. nread \in [Pipes -> 0..IdxMod-1] /\ nwrite \in [Pipes -> 0..IdxMod-1]
    BY <1>1, <1>2
  <2>3. readopen \subseteq Pipes /\ writeopen \subseteq Pipes /\ live \subseteq Pipes
    BY <1>1, <1>11
  <2>4. QED
    BY <1>1, <1>12, <2>1, <2>2, <2>3 DEF PipeTypeOK
<1>14. LocalsOK
  <2>1. left \in Lefts
    BY <1>1, <1>2 DEF Lefts
  <2>2. io \in [Procs -> IOs]
    BY <1>1 DEF IOs, NoIO
  <2>3. ASSUME NEW p \in Procs
        PROVE  Locals(p)
    <3>1. pc[p] = "unborn" => \A d \in FDs : ofile[p][d] = NoFile
      BY <1>1, <1>2
    <3>2. Len(temp[p]) = 0 /\ Len(closing[p]) = 0
      BY <1>5
    <3>3. QED
      BY <1>5, <3>1, <3>2 DEF Locals
  <2>4. QED
    BY <2>1, <2>2, <2>3 DEF LocalsOK
<1>15. Kinds
  <2>1. ASSUME NEW p \in Procs, NEW d \in FDs, ofile[p][d] # NoFile
        PROVE  type[ofile[p][d]] = "PIPE"
    <3>1. PICK f \in Files : f = ofile[p][d]
      BY <1>12, <2>1 DEF FilesTypeOK
    <3>2. <<p, d>> \in Descriptors(f)
      BY <3>1 DEF Descriptors
    <3>3. QED
      BY <1>8, <1>10, <3>1, <3>2
  <2>2. \A p \in Procs : Range(temp[p]) = {}
    BY <1>5 DEF Range
  <2>3. QED
    BY <1>10, <2>1, <2>2 DEF Kinds
<1>16. Ends
  <2>1. \A f \in Files : IsPipe(f) <=> f \in {1, 2} /\ ref[f] > 0
    BY <1>9, <1>10 DEF IsPipe
  <2>2. \A f \in Files : IsPipe(f) => EndOf(f) = [pipe |-> q, writable |-> (f = 2)]
    BY <1>10, <2>1 DEF EndOf
  <2>9. /\ 1 \in Files /\ IsPipe(1) => EndOf(1) = [pipe |-> q, writable |-> FALSE]
        /\ 2 \in Files /\ IsPipe(2) => EndOf(2) = [pipe |-> q, writable |-> TRUE]
    <3>1. (1 = 2) = FALSE /\ (2 = 2) = TRUE
      OBVIOUS
    <3>2. 1 \in Files /\ IsPipe(1) => EndOf(1) = [pipe |-> q, writable |-> (1 = 2)]
      BY <2>2
    <3>3. 2 \in Files /\ IsPipe(2) => EndOf(2) = [pipe |-> q, writable |-> (2 = 2)]
      BY <2>2
    <3>4. QED
      BY <3>1, <3>2, <3>3
  <2>3. \A x : x \in OpenEnds <=> \E f \in Files : IsPipe(f) /\ x = EndOf(f)
    BY <1>5 DEF OpenEnds, IsPipe
  <2>4. ASSUME NEW x \in OpenEnds
        PROVE  x \in Opened
    <3>1. PICK f \in Files : IsPipe(f) /\ x = EndOf(f)
      BY <2>3
    <3>2. CASE f = 1
      <4>1. q \in readopen /\ x = [pipe |-> q, writable |-> FALSE]
        BY <1>11, <2>1, <2>9, <3>1, <3>2
      <4>2. QED
        BY <4>1 DEF Opened
    <3>3. CASE f = 2
      <4>1. q \in writeopen /\ x = [pipe |-> q, writable |-> TRUE]
        BY <1>11, <2>1, <2>9, <3>1, <3>3
      <4>2. QED
        BY <4>1 DEF Opened
    <3>4. QED
      BY <2>1, <3>1, <3>2, <3>3
  <2>5. ASSUME NEW x \in Opened
        PROVE  x \in OpenEnds
    <3>1. CASE \E pi \in readopen : x = [pipe |-> pi, writable |-> FALSE]
      <4>1. x = [pipe |-> q, writable |-> FALSE] /\ 1 \in Files /\ ref[1] > 0
        BY <1>11, <3>1
      <4>2. IsPipe(1) /\ EndOf(1) = x
        BY <2>1, <2>9, <4>1
      <4>3. QED
        BY <2>3, <4>1, <4>2
    <3>2. CASE \E pi \in writeopen : x = [pipe |-> pi, writable |-> TRUE]
      <4>1. x = [pipe |-> q, writable |-> TRUE] /\ 2 \in Files /\ ref[2] > 0
        BY <1>11, <3>2
      <4>2. IsPipe(2) /\ EndOf(2) = x
        BY <2>1, <2>9, <4>1
      <4>3. QED
        BY <2>3, <4>1, <4>2
    <3>3. QED
      BY <2>5, <3>1, <3>2 DEF Opened
  <2>6. \A f, g \in Files : IsPipe(f) /\ IsPipe(g) /\ EndOf(f) = EndOf(g) => f = g
    BY <2>1, <2>2
  <2>7. \A f \in Files, p \in Procs : IsPipe(f) => EndOf(f) # ending[p]
    <3>1. \A f \in Files : IsPipe(f) => EndOf(f).pipe \in Pipes
      BY <2>2
    <3>2. QED
      BY <1>4, <1>5, <3>1 DEF NoEnd
  <2>8. QED
    BY <1>1, <1>5, <2>4, <2>5, <2>6, <2>7 DEF Ends
<1>17. InPipe
  BY <1>5 DEF InPipe, Reading, Writing
<1>18. Filled
  <2>1. SUFFICES ASSUME NEW pi \in Pipes
                 PROVE  (nwrite[pi] - nread[pi]) % IdxMod <= PIPESIZE
    BY DEF Filled, Fill
  <2>2. PICK a \in 0..IdxMod-1 : a = nread[pi] /\ a = nwrite[pi]
    BY <1>1, <1>2
  <2>3. (a - a) % IdxMod = 0
    BY Counters
  <2>4. (nwrite[pi] - nread[pi]) % IdxMod = 0
    BY <2>2, <2>3
  <2>5. QED
    BY <2>4, PipeAssumption
<1>19. QED
  BY <1>7, <1>13, <1>14, <1>15, <1>16, <1>17, <1>18 DEF IInv

LEMMA Stutter == IInv /\ UNCHANGED vars => IInv'
<1> SUFFICES ASSUME IInv, UNCHANGED vars
             PROVE  IInv'
  OBVIOUS
<1>1. /\ UNCHANGED <<files, live, readopen, writeopen, nread, nwrite, data, lock, chan, killed, pc,
                     io, last, left>>
  BY DEF vars, pipes, calls
<1>2. PipeTypeOK'
  BY <1>1, Types, InsideTypes
<1>3. Filled' /\ left' \in Lefts /\ io' \in [Procs -> IOs]
  BY <1>1, Types DEF IInv, Filled, Fill
<1>4. QED
  BY <1>1, <1>2, <1>3, InsideStep DEF Reading, Writing

LEMMA NextIInv == IInv /\ [Next]_vars => IInv'
<1> SUFFICES ASSUME IInv, [Next]_vars
             PROVE  IInv'
  OBVIOUS
<1>1. CASE UNCHANGED vars
  BY <1>1, Stutter
<1>2. ASSUME NEW p \in Procs, User(p) \/ Kernel(p) \/ Kill(p)
      PROVE  IInv'
  <2>1. CASE PipeStart(p)
    <3>1. /\ FileAlloc(p) /\ UNCHANGED <<pipes, chan, killed, io, last>>
          /\ pc[p] = "user" /\ closing[p] = <<>> /\ ending[p] = NoEnd
          /\ pc' = [pc EXCEPT ![p] = "pipe"]
          /\ left.calls[p] > 0 /\ left' = [left EXCEPT !.calls[p] = @ - 1]
      BY <2>1 DEF PipeStart, Enters, MayCall, AtUser
    <3>2. left' \in Lefts
      BY <3>1, Types, LeftSteps
    <3>3. QED
      BY <3>1, <3>2, AllocStep
  <2>2. CASE PipeSecond(p)
    <3>1. /\ pc[p] = "pipe" /\ Len(temp[p]) = 1 /\ UNCHANGED <<pipes, chan, killed, io, last, left>>
          /\ \/ FileAlloc(p) /\ UNCHANGED pc
             \/ /\ GiveUpFiles(p) /\ Returns(p)
                /\ UNCHANGED <<ref, type, writable, pipe, ofile, ending>>
      BY <2>2 DEF PipeSecond
    <3>2. CASE FileAlloc(p) /\ UNCHANGED pc
      <4>1. left' \in Lefts /\ pc' = [pc EXCEPT ![p] = "pipe"]
        BY <3>1, <3>2, Types
      <4>2. QED
        BY <3>1, <3>2, <4>1, AllocStep
    <3>3. CASE GiveUpFiles(p) /\ Returns(p) /\ UNCHANGED <<ref, type, writable, pipe, ofile, ending>>
      BY <3>1, <3>3, GiveUpStep
    <3>4. QED
      BY <3>1, <3>2, <3>3
  <2>3. CASE PipeNoMemory(p)
    BY <2>3, GiveUpStep DEF PipeNoMemory
  <2>4. CASE \E pi \in Pipes : PipeFinish(p, pi)
    BY <2>4, FinishStep
  <2>5. CASE \E d \in FDs : Dup(p, d)
    BY <2>5, DupStep
  <2>6. CASE \E d \in FDs : Close(p, d)
    <3>1. PICK d \in FDs : Close(p, d)
      BY <2>6
    <3>2. /\ CloseFD(p, d) /\ pc[p] = "user" /\ closing[p] = <<>> /\ ending[p] = NoEnd
          /\ UNCHANGED <<pipes, chan, killed, io, last>> /\ pc' = [pc EXCEPT ![p] = "user"]
          /\ left.calls[p] > 0 /\ left' = [left EXCEPT !.calls[p] = @ - 1]
      BY <3>1 DEF Close, Enters, MayCall, AtUser
    <3>3. left' \in Lefts
      BY <3>2, Types, LeftSteps
    <3>4. QED
      BY <3>2, <3>3, CloseFDStep
  <2>7. CASE ExitClose(p)
    <3>1. PICK d : d = First(OpenFDs(p))
      OBVIOUS
    <3>2. d \in FDs
      <4>1. OpenFDs(p) \in SUBSET Nat /\ OpenFDs(p) # {} /\ OpenFDs(p) \subseteq FDs
        BY <2>7, FilesAssumption DEF OpenFDs, FDs, ExitClose
      <4>2. QED
        BY <3>1, <4>1, FirstIsLeast
    <3>3. /\ CloseFD(p, d) /\ pc[p] = "exit" /\ closing[p] = <<>> /\ ending[p] = NoEnd
          /\ UNCHANGED <<pipes, chan, killed, io, last, left, pc>>
      BY <2>7, <3>1 DEF ExitClose, Exiting, calls
    <3>4. left' \in Lefts /\ pc' = [pc EXCEPT ![p] = pc[p]]
      BY <3>3, Types
    <3>5. QED
      BY <3>2, <3>3, <3>4, CloseFDStep
  <2>8. CASE \E child \in Procs : Fork(p, child)
    BY <2>8, ForkStep
  <2>9. CASE \E d \in FDs : \E n \in left.sizes : StartIO(p, d, n)
    BY <2>9, StartIOStep
  <2>10. CASE Exit(p) \/ Gone(p)
    BY <2>10, ExitStep
  <2>11. CASE CloseNext(p)
    BY <2>11, FileCloseStep
  <2>12. CASE PipeClose(p)
    BY <2>12, PipeCloseStep
  <2>13. CASE Kill(p)
    BY <2>13, KillStep
  <2>14. CASE ReadTest(p) \/ ReadSleep(p) \/ ReadByte(p) \/ ReadEnd(p)
    BY <2>14, ReadTestStep, ReadSleepStep, ReadByteStep, ReadEndStep
  <2>15. CASE WriteRefused(p) \/ WriteTest(p) \/ WriteSleep(p) \/ WriteByte(p) \/ WriteEnd(p)
    BY <2>15, WriteRefusedStep, WriteTestStep, WriteSleepStep, WriteByteStep, WriteEndStep
  <2>16. QED
    BY <1>2, <2>1, <2>2, <2>3, <2>4, <2>5, <2>6, <2>7, <2>8, <2>9, <2>10, <2>11, <2>12, <2>13,
       <2>14, <2>15 DEF User, Kernel
<1>3. QED
  BY <1>1, <1>2 DEF Next

LEMMA ImageSize ==
    ASSUME NEW S, IsFiniteSet(S), NEW T, NEW g \in [S -> T],
           \A x, y \in S : g[x] = g[y] => x = y, \A t \in T : \E x \in S : g[x] = t
    PROVE  IsFiniteSet(T) /\ Cardinality(T) = Cardinality(S)
<1>1. g \in Bijection(S, T)
  BY Fun_IsBij
<1>2. ExistsBijection(S, T)
  BY <1>1 DEF ExistsBijection
<1>3. QED
  BY <1>2, FS_Bijection

\* No two holders of an end have the same one.
LEMMA EndsCounted ==
    ASSUME IInv
    PROVE  Cardinality(OpenEnds) = Cardinality({f \in Files : type[f] = "PIPE"})
                                   + Cardinality({p \in Procs : ending[p] # NoEnd})
<1> DEFINE F == {f \in Files : type[f] = "PIPE"}
           P == {p \in Procs : ending[p] # NoEnd}
           A == {EndOf(f) : f \in F}
           B == {ending[p] : p \in P}
<1>1. IsFiniteSet(F) /\ IsFiniteSet(P)
  <2>1. IsFiniteSet(Files) /\ IsFiniteSet(Procs)
    BY FilesAssumption, FS_Interval DEF Files
  <2>2. QED
    BY <2>1, FS_Subset
<1>2. IsFiniteSet(A) /\ Cardinality(A) = Cardinality(F)
  <2>1. PICK g : g = [f \in F |-> EndOf(f)]
    OBVIOUS
  <2>2. g \in [F -> A] /\ (\A t \in A : \E x \in F : g[x] = t)
    BY <2>1
  <2>3. \A x, y \in F : g[x] = g[y] => x = y
    BY <2>1, FileFacts DEF Ends, IsPipe
  <2>4. QED
    BY <1>1, <2>2, <2>3, ImageSize
<1>3. IsFiniteSet(B) /\ Cardinality(B) = Cardinality(P)
  <2>1. PICK g : g = [p \in P |-> ending[p]]
    OBVIOUS
  <2>2. g \in [P -> B] /\ (\A t \in B : \E x \in P : g[x] = t)
    BY <2>1
  <2>3. \A x, y \in P : g[x] = g[y] => x = y
    BY <2>1, FileFacts DEF Ends
  <2>4. QED
    BY <1>1, <2>2, <2>3, ImageSize
<1>4. A \cap B = {}
  BY FileFacts DEF Ends, IsPipe
<1>5. OpenEnds = A \cup B
  BY DEF OpenEnds
<1> HIDE DEF A, B, F, P
<1>6. Cardinality(A \cup B) = Cardinality(A) + Cardinality(B) - Cardinality(A \cap B)
  BY <1>2, <1>3, FS_Union
<1>7. Cardinality(A \cap B) = 0
  BY <1>4, FS_EmptySet
<1>8. Cardinality(A) \in Nat /\ Cardinality(B) \in Nat
  BY <1>2, <1>3, FS_CardinalityType
<1>9. Cardinality(OpenEnds) = Cardinality(F) + Cardinality(P)
  BY <1>2, <1>3, <1>5, <1>6, <1>7, <1>8
<1>10. QED
  BY <1>9 DEF F, P

LEMMA IInvConsistent == IInv => FilesConsistent
<1> SUFFICES ASSUME IInv
             PROVE  FilesConsistent
  OBVIOUS
<1>1. \A f \in Files : ref[f] = References(f) /\ (type[f] = "PIPE" => ref[f] > 0)
  BY FileFacts DEF Counted, Kinds
<1>2. live = readopen \cup writeopen /\ OpenEnds = Opened
  BY FileFacts DEF Ends
<1>3. ASSUME NEW p \in Procs, pc[p] \in {"read", "empty", "copy", "write", "full"}
      PROVE  \E f \in Files : type[f] = "PIPE" /\ pipe[f] = io[p].pi /\ \E d \in FDs : ofile[p][d] = f
  <2>1. PICK w : HasEnd(p, w)
    BY <1>3, FileFacts DEF InPipe, Reading, Writing
  <2>2. PICK d \in FDs : /\ ofile[p][d] # NoFile
                         /\ EndOf(ofile[p][d]) = [pipe |-> io[p].pi, writable |-> w]
    BY <2>1 DEF HasEnd
  <2>3. PICK f \in Files : f = ofile[p][d] /\ type[f] = "PIPE"
    BY <2>2, FileFacts DEF Kinds
  <2>4. pipe[f] = io[p].pi
    BY <2>2, <2>3 DEF EndOf
  <2>5. QED
    BY <2>3, <2>4
<1>4. \A pi \in Pipes : (nwrite[pi] - nread[pi]) % IdxMod <= PIPESIZE
  BY DEF IInv, Filled, Fill
<1>5. PipeTypeOK
  BY DEF IInv
<1>6. QED
  BY <1>1, <1>2, <1>3, <1>4, <1>5, EndsCounted DEF FilesConsistent, Opened

LEMMA AlwaysIInv == Spec => []IInv
<1>1. Init => IInv
  BY InitIInv
<1>2. IInv /\ [Next]_vars => IInv'
  BY NextIInv
<1>3. QED
  BY <1>1, <1>2, PTL DEF Spec

\* The table of files and the pipes agree between any two critical sections: filealloc,
\* filedup, fileclose, fork and exit count every reference, and pipeclose frees the page of a
\* pipe with its second end and not before.
THEOREM FilesAndPipesAgree == Spec => []FilesConsistent
<1>1. IInv => FilesConsistent
  BY IInvConsistent
<1>2. QED
  BY <1>1, AlwaysIInv, PTL

-----------------------------------------------------------------------------
(* Sleep and wakeup.                                                       *)

LEMMA ChannelFacts ==
    ASSUME NEW pi \in Pipes
    PROVE  /\ Data(pi) # Awake /\ Room(pi) # Awake
           /\ \A r \in Pipes : Data(pi) # Room(r) /\ Room(pi) # Data(r)
                               /\ (Data(pi) = Data(r) => pi = r) /\ (Room(pi) = Room(r) => pi = r)
<1>1. Data(pi).on = "nread" /\ Room(pi).on = "nwrite" /\ Awake.on = "awake"
  BY DEF Data, Room, Awake
<1>2. \A r \in Pipes : Data(r).on = "nread" /\ Room(r).on = "nwrite" /\ Data(r).pipe = r /\ Room(r).pipe = r
  BY DEF Data, Room
<1>3. QED
  BY <1>1, <1>2

LEMMA WakeupFacts ==
    ASSUME NEW c, NEW q \in Procs
    PROVE  Wakeup(c)[q] \in {chan[q], Awake} /\ (Wakeup(c)[q] # c \/ c = Awake)
BY DEF Wakeup

\* What the steps inside a pipe use of the invariant.
LEMMA SleepFacts ==
    ASSUME SInv
    PROVE  /\ IInv
           /\ \A pi \in Pipes : Holder(pi)
           /\ \A q \in Procs : Found(q)
           /\ \A q \in Procs, pi \in Pipes : SleepsForData(q, pi) /\ SleepsForRoom(q, pi)
           /\ \A q \in Procs : pc[q] \notin {"read", "write"} => chan[q] = Awake
           /\ Nobody \notin Procs
<1>1. IInv /\ Locked /\ Asleep
  BY DEF SInv
<1>2. \A q \in Procs, pi \in Pipes : SleepsForData(q, pi) /\ SleepsForRoom(q, pi)
  BY <1>1 DEF Asleep
<1>3. ASSUME NEW q \in Procs, pc[q] \notin {"read", "write"}
      PROVE  chan[q] = Awake
  <2>1. chan[q] \in Channels
    BY <1>1, Types
  <2>2. \A pi \in Pipes : chan[q] # Data(pi) /\ chan[q] # Room(pi)
    BY <1>2, <1>3 DEF SleepsForData, SleepsForRoom
  <2>3. QED
    BY <2>1, <2>2 DEF Channels
<1>4. QED
  BY <1>1, <1>2, <1>3, PipeAssumption DEF Locked

\* A step outside of the pipes.
LEMMA OutsideStep ==
    ASSUME SInv, UNCHANGED <<readopen, writeopen, nread, nwrite, lock, chan, killed>>,
           \A q \in Procs : \/ pc'[q] = pc[q] /\ io'[q] = io[q]
                            \/ pc[q] \notin IOStates /\ pc'[q] \notin {"empty", "copy", "full"}
    PROVE  Locked' /\ Asleep'
<1>1. ASSUME NEW pi \in Pipes, lock[pi] # Nobody
      PROVE  /\ lock[pi] \in Procs /\ pc'[lock[pi]] = pc[lock[pi]] /\ io'[lock[pi]] = io[lock[pi]]
             /\ Holder(pi)
  <2>1. lock[pi] \in Procs
    BY <1>1, SleepFacts, Types
  <2>2. Holder(pi)
    BY SleepFacts
  <2>3. pc[lock[pi]] \in IOStates
    BY <1>1, <2>2 DEF Holder, Holding, IOStates
  <2>4. QED
    BY <2>1, <2>2, <2>3
<1>2. ASSUME NEW pi \in Pipes
      PROVE  Holder(pi)'
  BY <1>1 DEF Holder
<1>3. ASSUME NEW q \in Procs
      PROVE  Found(q)'
  <2>1. CASE pc'[q] \in {"empty", "copy", "full"}
    <3>1. pc'[q] = pc[q] /\ io'[q] = io[q]
      BY <2>1
    <3>2. Found(q)
      BY SleepFacts
    <3>3. QED
      BY <3>1, <3>2 DEF Found, Empty, Full
  <2>2. CASE pc'[q] \notin {"empty", "copy", "full"}
    BY <2>2 DEF Found
  <2>3. QED
    BY <2>1, <2>2
<1>4. ASSUME NEW q \in Procs, NEW pi \in Pipes
      PROVE  SleepsForData(q, pi)' /\ SleepsForRoom(q, pi)'
  <2>1. SleepsForData(q, pi) /\ SleepsForRoom(q, pi)
    BY SleepFacts
  <2>2. pc[q] \in {"read", "write"} => pc'[q] = pc[q] /\ io'[q] = io[q]
    BY DEF IOStates
  <2>3. /\ WriterInside(pi) => WriterInside(pi)'
        /\ ReaderInside(pi) => ReaderInside(pi)'
    BY <1>1 DEF WriterInside, ReaderInside, Writing
  <2>4. (Empty(pi)' <=> Empty(pi)) /\ (Full(pi)' <=> Full(pi))
    BY DEF Empty, Full
  <2>5. SleepsForData(q, pi)'
    BY <2>1, <2>2, <2>3, <2>4 DEF SleepsForData
  <2>6. SleepsForRoom(q, pi)'
    BY <2>1, <2>2, <2>3, <2>4 DEF SleepsForRoom
  <2>7. QED
    BY <2>5, <2>6
<1>5. QED
  BY <1>2, <1>3, <1>4 DEF Locked, Asleep

\* A step of a process inside a pipe, whose lock nobody else has: what is left to show is
\* about that pipe.
LEMMA WithinPipe ==
    ASSUME SInv, NEW p \in Procs, NEW pi \in Pipes, pi = io[p].pi, pc[p] \in IOStates,
           lock[pi] \in {Nobody, p},
           UNCHANGED <<readopen, writeopen, killed>>,
           \A q \in Procs \ {p} :
              pc'[q] = pc[q] /\ io'[q] = io[q] /\ chan'[q] \in {chan[q], Awake},
           \A r \in Pipes \ {pi} : lock'[r] = lock[r] /\ nread'[r] = nread[r] /\ nwrite'[r] = nwrite[r],
           lock'[pi] \in {Nobody, p},
           lock'[pi] = p => io'[p].pi = pi /\ pc'[p] \in Holding,
           Found(p)',
           \/ chan'[p] = Awake
           \/ chan'[p] = Data(pi) /\ pc'[p] = "read" /\ io'[p].pi = pi /\ pi \in writeopen
           \/ chan'[p] = Room(pi) /\ pc'[p] = "write" /\ io'[p].pi = pi /\ pi \in readopen
              /\ lock'[pi] = Nobody,
           (\E q \in Procs : chan'[q] = Data(pi)) =>
              Empty(pi)' \/ killed # {} \/ (lock'[pi] = p /\ Writing(p)'),
           (\E q \in Procs : chan'[q] = Room(pi)) =>
              Full(pi)' \/ (lock'[pi] = p /\ pc'[p] = "copy")
    PROVE  Locked' /\ Asleep'
<1>1. ASSUME NEW r \in Pipes, r # pi, lock[r] # Nobody
      PROVE  /\ lock[r] \in Procs \ {p} /\ lock'[r] = lock[r]
             /\ pc'[lock[r]] = pc[lock[r]] /\ io'[lock[r]] = io[lock[r]] /\ Holder(r)
  <2>1. lock[r] \in Procs /\ Holder(r)
    BY <1>1, SleepFacts, Types
  <2>2. lock[r] # p
    BY <1>1, <2>1 DEF Holder
  <2>3. QED
    BY <1>1, <2>1, <2>2
<1>2. ASSUME NEW r \in Pipes
      PROVE  Holder(r)'
  <2>1. CASE r = pi
    BY <2>1 DEF Holder
  <2>2. CASE r # pi
    BY <1>1, <2>2 DEF Holder
  <2>3. QED
    BY <2>1, <2>2
<1>3. ASSUME NEW q \in Procs
      PROVE  Found(q)'
  <2>1. CASE q = p
    BY <2>1
  <2>2. CASE q # p /\ pc[q] \in {"empty", "copy", "full"}
    <3>1. Found(q) /\ pc'[q] = pc[q] /\ io'[q] = io[q]
      BY <2>2, SleepFacts
    <3>2. io[q].pi \in Pipes
      BY <2>2, SleepFacts, InsidePipe DEF IOStates
    <3>3. PICK r \in Pipes : r = io[q].pi
      BY <3>2
    <3>4. lock[r] = q
      BY <2>2, <3>1, <3>3 DEF Found
    <3>5. r # pi
      BY <2>2, <3>4, SleepFacts
    <3>6. lock'[r] = lock[r] /\ nread'[r] = nread[r] /\ nwrite'[r] = nwrite[r]
      BY <3>5
    <3>7. QED
      BY <3>1, <3>3, <3>6 DEF Found, Empty, Full
  <2>3. CASE q # p /\ pc[q] \notin {"empty", "copy", "full"}
    BY <2>3 DEF Found
  <2>4. QED
    BY <2>1, <2>2, <2>3
<1>4. ASSUME NEW q \in Procs, NEW r \in Pipes
      PROVE  SleepsForData(q, r)' /\ SleepsForRoom(q, r)'
  <2>1. SleepsForData(q, r) /\ SleepsForRoom(q, r)
    BY SleepFacts
  <2>2. CASE r # pi
    <3>1. chan'[p] # Data(r) /\ chan'[p] # Room(r)
      BY <2>2, ChannelFacts
    <3>2. /\ WriterInside(r) => WriterInside(r)'
          /\ ReaderInside(r) => ReaderInside(r)'
      BY <1>1, <2>2 DEF WriterInside, ReaderInside, Writing
    <3>3. (Empty(r)' <=> Empty(r)) /\ (Full(r)' <=> Full(r)) /\ lock'[r] = lock[r]
      BY <2>2 DEF Empty, Full
    <3>4. q # p => /\ chan'[q] = Data(r) => chan[q] = Data(r)
                   /\ chan'[q] = Room(r) => chan[q] = Room(r)
                   /\ pc'[q] = pc[q] /\ io'[q] = io[q]
      BY ChannelFacts
    <3>5. SleepsForData(q, r)'
      BY <2>1, <3>1, <3>2, <3>3, <3>4 DEF SleepsForData
    <3>6. SleepsForRoom(q, r)'
      BY <2>1, <3>1, <3>2, <3>3, <3>4 DEF SleepsForRoom
    <3>7. QED
      BY <3>5, <3>6
  <2>3. CASE r = pi
    <3>1. /\ lock'[pi] = p /\ Writing(p)' => WriterInside(pi)'
          /\ lock'[pi] = p /\ pc'[p] = "copy" => ReaderInside(pi)'
      BY SleepFacts DEF WriterInside, ReaderInside, Writing
    <3>2. /\ chan'[q] = Data(pi) => Empty(pi)' \/ killed' # {} \/ WriterInside(pi)'
          /\ chan'[q] = Room(pi) => Full(pi)' \/ ReaderInside(pi)'
      BY <3>1
    <3>3. CASE q # p
      <4>1. /\ chan'[q] = Data(pi) => chan[q] = Data(pi)
            /\ chan'[q] = Room(pi) => chan[q] = Room(pi)
            /\ pc'[q] = pc[q] /\ io'[q] = io[q] /\ lock'[pi] # q
        BY <3>3, ChannelFacts, SleepFacts
      <4>2. SleepsForData(q, r)'
        BY <2>1, <2>3, <3>2, <4>1 DEF SleepsForData
      <4>3. SleepsForRoom(q, r)'
        BY <2>1, <2>3, <3>2, <4>1 DEF SleepsForRoom
      <4>4. QED
        BY <4>2, <4>3
    <3>4. CASE q = p
      <4>1. SleepsForData(q, r)'
        BY <2>3, <3>2, <3>4, ChannelFacts DEF SleepsForData
      <4>2. SleepsForRoom(q, r)'
        BY <2>3, <3>2, <3>4, ChannelFacts, SleepFacts DEF SleepsForRoom
      <4>3. QED
        BY <4>1, <4>2
    <3>5. QED
      BY <3>3, <3>4
  <2>4. QED
    BY <2>2, <2>3
<1>5. QED
  BY <1>2, <1>3, <1>4 DEF Locked, Asleep

\* EndIO, seen from the pipe.
LEMMA EndFacts ==
    ASSUME SInv, NEW p \in Procs, pc[p] \in IOStates, EndIO(p)
    PROVE  /\ lock'[io[p].pi] = Nobody /\ pc'[p] = "user"
           /\ \A q \in Procs \ {p} : pc'[q] = pc[q] /\ io'[q] = io[q]
           /\ \A r \in Pipes \ {io[p].pi} : lock'[r] = lock[r]
           /\ Found(p)' /\ Nobody # p
<1>1. io[p].pi \in Pipes /\ IInv
  BY SleepFacts, InsidePipe
<1>2. pc'[p] = "user" /\ (\A q \in Procs \ {p} : pc'[q] = pc[q] /\ io'[q] = io[q])
  BY <1>1, Types DEF EndIO, Returns
<1>3. lock'[io[p].pi] = Nobody /\ \A r \in Pipes \ {io[p].pi} : lock'[r] = lock[r]
  BY <1>1, Types DEF EndIO
<1>4. Found(p)'
  BY <1>2 DEF Found
<1>5. QED
  BY <1>2, <1>3, <1>4, SleepFacts

\* Who sleeps on a pipe whose lock is free, or with a process that is neither a writer nor
\* in the second loop of piperead.
LEMMA WaitersOf ==
    ASSUME SInv, NEW q \in Procs, NEW pi \in Pipes
    PROVE  /\ chan[q] = Data(pi) /\ ~WriterInside(pi) => Empty(pi) \/ killed # {}
           /\ chan[q] = Room(pi) /\ ~ReaderInside(pi) => Full(pi)
           /\ chan[q] = Data(pi) => pi \in readopen /\ pi \in writeopen
           /\ chan[q] = Room(pi) => pi \in readopen /\ pi \in writeopen
<1>1. SleepsForData(q, pi) /\ SleepsForRoom(q, pi) /\ IInv
  BY SleepFacts
<1>2. chan[q] = Data(pi) => pi \in readopen
  BY <1>1, InsidePipe DEF SleepsForData, Reading, IOStates
<1>3. chan[q] = Room(pi) => pi \in writeopen
  BY <1>1, InsidePipe DEF SleepsForRoom, Writing, IOStates
<1>4. QED
  BY <1>1, <1>2, <1>3 DEF SleepsForData, SleepsForRoom

LEMMA ReadTestSleep ==
    ASSUME SInv, NEW p \in Procs, ReadTest(p)
    PROVE  Locked' /\ Asleep'
<1>1. pc[p] = "read" /\ pc[p] \in IOStates /\ chan[p] = Awake /\ io[p].pi \in Pipes /\ IInv
  BY SleepFacts, InsidePipe DEF ReadTest, IOStates
<1>2. PICK pi \in Pipes : pi = io[p].pi
  BY <1>1
<1>3. /\ UNCHANGED <<readopen, writeopen, nread, nwrite, chan, killed>> /\ lock[pi] = Nobody
      /\ \/ EndIO(p)
         \/ /\ lock' = [lock EXCEPT ![pi] = p] /\ UNCHANGED io
            /\ pc' = [pc EXCEPT ![p] = IF Empty(pi) /\ pi \in writeopen THEN "empty" ELSE "copy"]
  BY <1>2 DEF ReadTest
<1>4. /\ lock'[pi] \in {Nobody, p} /\ (lock'[pi] = p => io'[p].pi = pi /\ pc'[p] \in Holding)
      /\ \A q \in Procs \ {p} : pc'[q] = pc[q] /\ io'[q] = io[q]
      /\ \A r \in Pipes \ {pi} : lock'[r] = lock[r]
      /\ Found(p)'
  <2>1. CASE EndIO(p)
    BY <1>1, <1>2, <2>1, EndFacts
  <2>2. CASE /\ lock' = [lock EXCEPT ![pi] = p] /\ UNCHANGED io
             /\ pc' = [pc EXCEPT ![p] = IF Empty(pi) /\ pi \in writeopen THEN "empty" ELSE "copy"]
    <3>1. /\ lock'[pi] = p /\ (\A r \in Pipes \ {pi} : lock'[r] = lock[r])
          /\ pc'[p] = IF Empty(pi) /\ pi \in writeopen THEN "empty" ELSE "copy"
          /\ \A q \in Procs \ {p} : pc'[q] = pc[q]
      BY <1>1, <2>2, Types
    <3>2. Empty(pi)' <=> Empty(pi)
      BY <1>3 DEF Empty
    <3>3. Found(p)'
      BY <1>2, <1>3, <2>2, <3>1, <3>2 DEF Found
    <3>4. QED
      BY <1>2, <2>2, <3>1, <3>3 DEF Holding
  <2>3. QED
    BY <1>3, <2>1, <2>2
<1>5. ~WriterInside(pi) /\ ~ReaderInside(pi)
  BY <1>3 DEF WriterInside, ReaderInside
<1>6. /\ (\E q \in Procs : chan'[q] = Data(pi)) => Empty(pi)' \/ killed # {}
      /\ (\E q \in Procs : chan'[q] = Room(pi)) => Full(pi)'
  BY <1>3, <1>5, WaitersOf DEF Empty, Full
<1>7. QED
  BY <1>1, <1>2, <1>3, <1>4, <1>6, WithinPipe

LEMMA ReadSleepSleep ==
    ASSUME SInv, NEW p \in Procs, ReadSleep(p)
    PROVE  Locked' /\ Asleep'
<1>1. pc[p] = "empty" /\ pc[p] \in IOStates /\ io[p].pi \in Pipes /\ IInv
  BY SleepFacts, InsidePipe DEF ReadSleep, IOStates
<1>2. PICK pi \in Pipes : pi = io[p].pi
  BY <1>1
<1>3. /\ UNCHANGED <<readopen, writeopen, nread, nwrite, io, killed>>
      /\ chan' = [chan EXCEPT ![p] = Data(pi)] /\ lock' = [lock EXCEPT ![pi] = Nobody]
      /\ pc' = [pc EXCEPT ![p] = "read"]
  BY <1>2 DEF ReadSleep
<1>4. lock[pi] = p /\ Empty(pi) /\ pi \in writeopen
  BY <1>1, <1>2, SleepFacts DEF Found
<1>5. /\ lock'[pi] = Nobody /\ (\A r \in Pipes \ {pi} : lock'[r] = lock[r])
      /\ pc'[p] = "read" /\ (\A q \in Procs \ {p} : pc'[q] = pc[q] /\ chan'[q] = chan[q])
      /\ chan'[p] = Data(pi)
  BY <1>1, <1>3, Types
<1>6. Found(p)'
  BY <1>5 DEF Found
<1>7. ~ReaderInside(pi)
  BY <1>1, <1>4 DEF ReaderInside
<1>8. (\E q \in Procs : chan'[q] = Room(pi)) => Full(pi)'
  BY <1>3, <1>5, <1>7, WaitersOf, ChannelFacts DEF Full
<1>9. Empty(pi)'
  BY <1>3, <1>4 DEF Empty
<1>10. QED
  BY <1>1, <1>2, <1>3, <1>4, <1>5, <1>6, <1>8, <1>9, SleepFacts, WithinPipe

LEMMA ReadByteSleep ==
    ASSUME SInv, NEW p \in Procs, ReadByte(p)
    PROVE  Locked' /\ Asleep'
<1>1. pc[p] = "copy" /\ pc[p] \in IOStates /\ io[p].pi \in Pipes /\ IInv
  BY SleepFacts, InsidePipe DEF ReadByte, IOStates
<1>2. PICK pi \in Pipes : pi = io[p].pi
  BY <1>1
<1>3. /\ UNCHANGED <<readopen, writeopen, nwrite, lock, chan, killed, pc>> /\ ~Empty(pi)
      /\ nread' = [nread EXCEPT ![pi] = (nread[pi] + 1) % IdxMod]
      /\ \/ io' = [io EXCEPT ![p].i = @ + 1]
         \/ io' = [io EXCEPT ![p].n = io[p].i]
  BY <1>2 DEF ReadByte
<1>4. lock[pi] = p /\ chan[p] = Awake
  BY <1>1, <1>2, SleepFacts DEF Found
<1>5. io'[p].pi = pi /\ \A q \in Procs \ {p} : io'[q] = io[q]
  <2>1. io[p] \in IOs /\ io \in [Procs -> IOs]
    BY <1>1, Types
  <2>2. [io[p] EXCEPT !.i = @ + 1].pi = pi /\ [io[p] EXCEPT !.n = io[p].i].pi = pi
    BY <1>2, <2>1 DEF IOs
  <2>3. io' = [io EXCEPT ![p] = [io[p] EXCEPT !.i = @ + 1]]
        \/ io' = [io EXCEPT ![p] = [io[p] EXCEPT !.n = io[p].i]]
    BY <1>3
  <2>4. QED
    BY <2>1, <2>2, <2>3
<1>6. \A r \in Pipes \ {pi} : nread'[r] = nread[r] /\ nwrite'[r] = nwrite[r]
  BY <1>1, <1>3, Types
<1>7. Found(p)'
  BY <1>1, <1>3, <1>4, <1>5 DEF Found
<1>8. ~WriterInside(pi)
  BY <1>1, <1>4 DEF WriterInside, Writing
<1>9. (\E q \in Procs : chan'[q] = Data(pi)) => killed # {}
  BY <1>3, <1>8, WaitersOf
<1>10. QED
  BY <1>1, <1>2, <1>3, <1>4, <1>5, <1>6, <1>7, <1>9, WithinPipe DEF Holding

LEMMA ReadEndSleep ==
    ASSUME SInv, NEW p \in Procs, ReadEnd(p)
    PROVE  Locked' /\ Asleep'
<1>1. pc[p] = "copy" /\ pc[p] \in IOStates /\ io[p].pi \in Pipes /\ IInv
  BY SleepFacts, InsidePipe DEF ReadEnd, IOStates
<1>2. PICK pi \in Pipes : pi = io[p].pi
  BY <1>1
<1>3. /\ UNCHANGED <<readopen, writeopen, nread, nwrite, killed>>
      /\ chan' = Wakeup(Room(pi)) /\ EndIO(p)
  BY <1>2 DEF ReadEnd
<1>4. lock[pi] = p /\ chan[p] = Awake
  BY <1>1, <1>2, SleepFacts DEF Found
<1>5. /\ lock'[pi] = Nobody /\ pc'[p] = "user" /\ Found(p)' /\ Nobody # p
      /\ \A q \in Procs \ {p} : pc'[q] = pc[q] /\ io'[q] = io[q]
      /\ \A r \in Pipes \ {pi} : lock'[r] = lock[r]
  BY <1>1, <1>2, <1>3, EndFacts
<1>6. \A q \in Procs : chan'[q] \in {chan[q], Awake} /\ chan'[q] # Room(pi)
  BY <1>3, WakeupFacts, ChannelFacts
<1>7. ~WriterInside(pi)
  BY <1>1, <1>4 DEF WriterInside, Writing
<1>8. (\E q \in Procs : chan'[q] = Data(pi)) => Empty(pi)' \/ killed # {}
  BY <1>3, <1>6, <1>7, WaitersOf, ChannelFacts DEF Empty
<1>9. QED
  BY <1>1, <1>2, <1>3, <1>4, <1>5, <1>6, <1>8, WithinPipe

\* A pipewrite that goes on: it has the lock or takes it.
LEMMA WriterFacts ==
    ASSUME SInv, NEW p \in Procs, Writes(p)
    PROVE  /\ IInv /\ pc[p] = "write" /\ pc[p] \in IOStates /\ chan[p] = Awake
           /\ io[p].pi \in Pipes /\ lock[io[p].pi] \in {Nobody, p} /\ io[p] \in IOs
           /\ ~ReaderInside(io[p].pi)
<1>1. pc[p] = "write" /\ chan[p] = Awake /\ lock[io[p].pi] \in {Nobody, p} /\ IInv
  BY SleepFacts DEF Writes
<1>2. io[p].pi \in Pipes /\ io[p] \in IOs /\ pc[p] \in IOStates
  BY <1>1, InsidePipe, Types DEF IOStates
<1>3. ~ReaderInside(io[p].pi)
  BY <1>1 DEF ReaderInside
<1>4. QED
  BY <1>1, <1>2, <1>3

\* It does not wake up the readers, who may sleep on with bytes to read only if somebody has
\* been killed.
LEMMA WriteRefusedSleep ==
    ASSUME SInv, NEW p \in Procs, WriteRefused(p)
    PROVE  Locked' /\ Asleep'
<1>1. Writes(p) /\ Refused(p) /\ EndIO(p)
      /\ UNCHANGED <<readopen, writeopen, nread, nwrite, chan, killed>>
  BY DEF WriteRefused
<1>2. PICK pi \in Pipes : pi = io[p].pi
  BY <1>1, WriterFacts
<1>3. /\ lock'[pi] = Nobody /\ pc'[p] = "user" /\ Found(p)' /\ Nobody # p
      /\ \A q \in Procs \ {p} : pc'[q] = pc[q] /\ io'[q] = io[q]
      /\ \A r \in Pipes \ {pi} : lock'[r] = lock[r]
  BY <1>1, <1>2, EndFacts, WriterFacts
<1>4. (\E q \in Procs : chan'[q] = Data(pi)) => Empty(pi)' \/ killed # {}
  <2>1. CASE p \in killed
    BY <2>1
  <2>2. CASE pi \notin readopen
    BY <1>1, <2>2, WaitersOf
  <2>3. QED
    BY <1>1, <1>2, <2>1, <2>2 DEF Refused
<1>5. (\E q \in Procs : chan'[q] = Room(pi)) => Full(pi)'
  BY <1>1, <1>2, WriterFacts, WaitersOf DEF Full
<1>6. QED
  BY <1>1, <1>2, <1>3, <1>4, <1>5, WriterFacts, WithinPipe

LEMMA WriteTestSleep ==
    ASSUME SInv, NEW p \in Procs, WriteTest(p)
    PROVE  Locked' /\ Asleep'
<1>1. Writes(p) /\ ~Refused(p) /\ Full(io[p].pi)
      /\ UNCHANGED <<readopen, writeopen, nread, nwrite, chan, killed, io>>
      /\ lock' = [lock EXCEPT ![io[p].pi] = p] /\ pc' = [pc EXCEPT ![p] = "full"]
  BY DEF WriteTest
<1>2. PICK pi \in Pipes : pi = io[p].pi
  BY <1>1, WriterFacts
<1>3. /\ lock'[pi] = p /\ pc'[p] = "full" /\ (\A r \in Pipes \ {pi} : lock'[r] = lock[r])
      /\ \A q \in Procs \ {p} : pc'[q] = pc[q]
  BY <1>1, <1>2, WriterFacts, Types
<1>4. Full(pi)' /\ pi \in readopen
  BY <1>1, <1>2 DEF Full, Refused
<1>5. Found(p)'
  BY <1>1, <1>2, <1>3, <1>4 DEF Found
<1>6. Writing(p)'
  BY <1>3 DEF Writing
<1>7. QED
  BY <1>1, <1>2, <1>3, <1>4, <1>5, <1>6, WriterFacts, WithinPipe DEF Holding

LEMMA WriteSleepSleep ==
    ASSUME SInv, NEW p \in Procs, WriteSleep(p)
    PROVE  Locked' /\ Asleep'
<1>1. pc[p] = "full" /\ pc[p] \in IOStates /\ io[p].pi \in Pipes /\ IInv
  BY SleepFacts, InsidePipe DEF WriteSleep, IOStates
<1>2. PICK pi \in Pipes : pi = io[p].pi
  BY <1>1
<1>3. /\ UNCHANGED <<readopen, writeopen, nread, nwrite, io, killed>>
      /\ chan' = [Wakeup(Data(pi)) EXCEPT ![p] = Room(pi)]
      /\ lock' = [lock EXCEPT ![pi] = Nobody] /\ pc' = [pc EXCEPT ![p] = "write"]
  BY <1>2 DEF WriteSleep
<1>4. lock[pi] = p /\ Full(pi) /\ pi \in readopen
  BY <1>1, <1>2, SleepFacts DEF Found
<1>5. /\ lock'[pi] = Nobody /\ (\A r \in Pipes \ {pi} : lock'[r] = lock[r])
      /\ pc'[p] = "write" /\ (\A q \in Procs \ {p} : pc'[q] = pc[q])
  BY <1>1, <1>3, Types
<1>6. /\ chan'[p] = Room(pi)
      /\ \A q \in Procs \ {p} : chan'[q] \in {chan[q], Awake} /\ chan'[q] # Data(pi)
  <2>1. \A q \in Procs : Wakeup(Data(pi))[q] \in {chan[q], Awake} /\ Wakeup(Data(pi))[q] # Data(pi)
    BY WakeupFacts, ChannelFacts
  <2>2. Wakeup(Data(pi)) \in [Procs -> Channels]
    BY <1>1, Types, WakeupType
  <2>3. QED
    BY <1>3, <2>1, <2>2
<1>7. Found(p)'
  BY <1>5 DEF Found
<1>8. Full(pi)'
  BY <1>3, <1>4 DEF Full
<1>9. \A q \in Procs : chan'[q] # Data(pi)
  BY <1>6, ChannelFacts
<1>10. QED
  BY <1>1, <1>2, <1>3, <1>4, <1>5, <1>6, <1>7, <1>8, <1>9, SleepFacts, WithinPipe

LEMMA WriteByteSleep ==
    ASSUME SInv, NEW p \in Procs, WriteByte(p)
    PROVE  Locked' /\ Asleep'
<1>1. Writes(p) /\ ~Full(io[p].pi) /\ UNCHANGED <<readopen, writeopen, nread, chan, killed, pc>>
  BY DEF WriteByte
<1>2. PICK pi \in Pipes : pi = io[p].pi
  BY <1>1, WriterFacts
<1>3. /\ nwrite' = [nwrite EXCEPT ![pi] = (nwrite[pi] + 1) % IdxMod]
      /\ lock' = [lock EXCEPT ![pi] = p] /\ io' = [io EXCEPT ![p].i = @ + 1]
  BY <1>2 DEF WriteByte
<1>4. /\ lock'[pi] = p
      /\ \A r \in Pipes \ {pi} : lock'[r] = lock[r] /\ nread'[r] = nread[r] /\ nwrite'[r] = nwrite[r]
  BY <1>1, <1>3, WriterFacts, Types
<1>5. io'[p].pi = pi /\ \A q \in Procs \ {p} : io'[q] = io[q]
  <2>1. io[p] \in IOs /\ io \in [Procs -> IOs]
    BY <1>1, WriterFacts, Types
  <2>2. [io[p] EXCEPT !.i = @ + 1].pi = pi
    BY <1>2, <2>1 DEF IOs
  <2>3. io' = [io EXCEPT ![p] = [io[p] EXCEPT !.i = @ + 1]]
    BY <1>3
  <2>4. QED
    BY <2>1, <2>2, <2>3
<1>6. Found(p)' /\ Writing(p)' /\ pc'[p] \in Holding
  BY <1>1, WriterFacts DEF Found, Writing, Holding
<1>7. \A q \in Procs : chan'[q] # Room(pi)
  BY <1>1, <1>2, WriterFacts, WaitersOf
<1>8. QED
  BY <1>1, <1>2, <1>4, <1>5, <1>6, <1>7, WriterFacts, WithinPipe

LEMMA WriteEndSleep ==
    ASSUME SInv, NEW p \in Procs, WriteEnd(p)
    PROVE  Locked' /\ Asleep'
<1>1. Writes(p) /\ EndIO(p) /\ chan' = Wakeup(Data(io[p].pi))
      /\ UNCHANGED <<readopen, writeopen, nread, nwrite, killed>>
  BY DEF WriteEnd
<1>2. PICK pi \in Pipes : pi = io[p].pi
  BY <1>1, WriterFacts
<1>3. /\ lock'[pi] = Nobody /\ pc'[p] = "user" /\ Found(p)' /\ Nobody # p
      /\ \A q \in Procs \ {p} : pc'[q] = pc[q] /\ io'[q] = io[q]
      /\ \A r \in Pipes \ {pi} : lock'[r] = lock[r]
  BY <1>1, <1>2, EndFacts, WriterFacts
<1>4. \A q \in Procs : chan'[q] \in {chan[q], Awake} /\ chan'[q] # Data(pi)
  BY <1>1, <1>2, WakeupFacts, ChannelFacts
<1>5. (\E q \in Procs : chan'[q] = Room(pi)) => Full(pi)'
  BY <1>1, <1>2, <1>4, WriterFacts, WaitersOf, ChannelFacts DEF Full
<1>6. QED
  BY <1>1, <1>2, <1>3, <1>4, <1>5, WriterFacts, WithinPipe

LEMMA KillSleep ==
    ASSUME SInv, NEW p \in Procs, Kill(p)
    PROVE  Locked' /\ Asleep'
<1>1. /\ killed' = killed \cup {p} /\ chan' = [chan EXCEPT ![p] = Awake]
      /\ UNCHANGED <<readopen, writeopen, nread, nwrite, lock, pc, io>>
  BY DEF Kill, pipes
<1>2. killed' # {} /\ \A q \in Procs : chan'[q] \in {chan[q], Awake}
  <2>1. chan \in [Procs -> Channels]
    BY SleepFacts, Types
  <2>2. QED
    BY <1>1, <2>1
<1>3. \A pi \in Pipes : Holder(pi)'
  BY <1>1, SleepFacts DEF Holder
<1>4. \A q \in Procs : Found(q)'
  <2>1. SUFFICES ASSUME NEW q \in Procs
                 PROVE  Found(q)'
    OBVIOUS
  <2>2. Found(q)
    BY SleepFacts
  <2>3. QED
    BY <1>1, <2>2 DEF Found, Empty, Full
<1>5. ASSUME NEW q \in Procs, NEW pi \in Pipes
      PROVE  SleepsForData(q, pi)' /\ SleepsForRoom(q, pi)'
  <2>1. SleepsForData(q, pi) /\ SleepsForRoom(q, pi)
    BY SleepFacts
  <2>2. /\ chan'[q] = Data(pi) => chan[q] = Data(pi)
        /\ chan'[q] = Room(pi) => chan[q] = Room(pi)
    BY <1>2, ChannelFacts
  <2>3. SleepsForData(q, pi)'
    BY <1>1, <1>2, <2>1, <2>2 DEF SleepsForData
  <2>4. SleepsForRoom(q, pi)'
    BY <1>1, <2>1, <2>2 DEF SleepsForRoom, Full, ReaderInside
  <2>5. QED
    BY <2>3, <2>4
<1>6. QED
  BY <1>3, <1>4, <1>5 DEF Locked, Asleep

\* Nobody is in a pipe that pipealloc makes.
LEMMA FinishSleep ==
    ASSUME SInv, NEW p \in Procs, NEW pi \in Pipes, PipeFinish(p, pi)
    PROVE  Locked' /\ Asleep'
<1>1. PICK rf \in Files, wf \in Files : FinishEffect(p, pi, rf, wf)
  BY SleepFacts, FinishEffects
<1>2. /\ pi \notin readopen /\ pi \notin writeopen
      /\ readopen' = readopen \cup {pi} /\ writeopen' = writeopen \cup {pi}
      /\ \A r \in Pipes \ {pi} : nread'[r] = nread[r] /\ nwrite'[r] = nwrite[r]
      /\ pc[p] = "pipe" /\ pc'[p] = "user" /\ (\A q \in Procs \ {p} : pc'[q] = pc[q])
      /\ UNCHANGED <<lock, chan, killed, io>>
  BY <1>1, SleepFacts, Types, FileFacts DEF FinishEffect, Ends
<1>3. \A q \in Procs : pc[q] \in IOStates => pc'[q] = pc[q] /\ io[q].pi # pi /\ io[q].pi \in Pipes
  BY <1>2, SleepFacts, InsidePipe DEF IOStates, Reading, Writing
<1>4. ASSUME NEW r \in Pipes
      PROVE  Holder(r)'
  <2>1. lock[r] # Nobody => lock[r] \in Procs /\ pc[lock[r]] \in Holding /\ io[lock[r]].pi = r
    BY SleepFacts, Types DEF Holder
  <2>2. QED
    BY <1>2, <1>3, <2>1 DEF Holder, Holding, IOStates
<1>5. ASSUME NEW q \in Procs
      PROVE  Found(q)'
  <2>1. Found(q)
    BY SleepFacts
  <2>2. CASE pc'[q] \in {"empty", "copy", "full"}
    <3>1. pc'[q] = pc[q] /\ pc[q] \in IOStates
      BY <1>2, <2>2 DEF IOStates
    <3>2. PICK r \in Pipes : r = io[q].pi /\ r # pi
      BY <1>3, <3>1
    <3>3. nread'[r] = nread[r] /\ nwrite'[r] = nwrite[r]
      BY <1>2, <3>2
    <3>4. QED
      BY <1>2, <2>1, <3>1, <3>2, <3>3 DEF Found, Empty, Full
  <2>3. CASE pc'[q] \notin {"empty", "copy", "full"}
    BY <2>3 DEF Found
  <2>4. QED
    BY <2>2, <2>3
<1>6. ASSUME NEW q \in Procs, NEW r \in Pipes
      PROVE  SleepsForData(q, r)' /\ SleepsForRoom(q, r)'
  <2>1. SleepsForData(q, r) /\ SleepsForRoom(q, r)
    BY SleepFacts
  <2>2. CASE r = pi
    BY <1>2, <2>2, WaitersOf DEF SleepsForData, SleepsForRoom
  <2>3. CASE r # pi
    <3>1. nread'[r] = nread[r] /\ nwrite'[r] = nwrite[r]
      BY <1>2, <2>3
    <3>2. lock[r] # Nobody => lock[r] \in Procs
      BY SleepFacts, Types
    <3>3. pc[q] \in IOStates => pc'[q] = pc[q]
      BY <1>3
    <3>4. WriterInside(r) => WriterInside(r)'
      BY <1>2, <1>3, <3>2 DEF WriterInside, Writing, IOStates
    <3>5. ReaderInside(r) => ReaderInside(r)'
      BY <1>2, <1>3, <3>2 DEF ReaderInside, IOStates
    <3>6. SleepsForData(q, r)'
      BY <1>2, <2>1, <3>1, <3>3, <3>4 DEF SleepsForData, Empty, IOStates
    <3>7. SleepsForRoom(q, r)'
      BY <1>2, <2>1, <3>1, <3>3, <3>5 DEF SleepsForRoom, Full, IOStates
    <3>8. QED
      BY <3>6, <3>7
  <2>4. QED
    BY <2>2, <2>3
<1>7. QED
  BY <1>4, <1>5, <1>6 DEF Locked, Asleep

\* pipeclose wakes up those who sleep on the other side.
LEMMA PipeCloseSleep ==
    ASSUME SInv, NEW p \in Procs, PipeClose(p)
    PROVE  Locked' /\ Asleep'
<1>1. PICK pi \in Pipes, w \in BOOLEAN : PipeCloseEffect(p, pi, w) /\ lock[pi] = Nobody
  <2>1. /\ lock[ending[p].pipe] = Nobody
        /\ \E pi \in Pipes, w \in BOOLEAN : PipeCloseEffect(p, pi, w)
    BY SleepFacts, PipeCloseEffects
  <2>2. PICK pi \in Pipes, w \in BOOLEAN : PipeCloseEffect(p, pi, w)
    BY <2>1
  <2>3. ending[p].pipe = pi
    BY <2>2 DEF PipeCloseEffect
  <2>4. QED
    BY <2>1, <2>2, <2>3
<1>2. /\ writeopen' = (IF w THEN writeopen \ {pi} ELSE writeopen)
      /\ readopen' = (IF w THEN readopen ELSE readopen \ {pi})
      /\ chan' = Wakeup(IF w THEN Data(pi) ELSE Room(pi))
      /\ UNCHANGED <<nread, nwrite, lock, killed, pc, io>>
  BY <1>1 DEF PipeCloseEffect
<1>3. ASSUME NEW q \in Procs
      PROVE  /\ chan'[q] \in {chan[q], Awake}
             /\ chan'[q] = Data(pi) => w = FALSE
             /\ chan'[q] = Room(pi) => w = TRUE
  BY <1>2, WakeupFacts, ChannelFacts
<1>4. \A r \in Pipes : Holder(r)'
  BY <1>2, SleepFacts DEF Holder
<1>5. ASSUME NEW q \in Procs
      PROVE  Found(q)'
  <2>1. Found(q)
    BY SleepFacts
  <2>2. CASE pc[q] \in {"empty", "copy", "full"}
    <3>1. lock[io[q].pi] = q /\ io[q].pi # pi
      BY <1>1, <2>1, <2>2, SleepFacts DEF Found
    <3>2. QED
      BY <1>2, <2>1, <3>1 DEF Found, Empty, Full
  <2>3. CASE pc[q] \notin {"empty", "copy", "full"}
    BY <1>2, <2>3 DEF Found
  <2>4. QED
    BY <2>2, <2>3
<1>6. ASSUME NEW q \in Procs, NEW r \in Pipes
      PROVE  SleepsForData(q, r)' /\ SleepsForRoom(q, r)'
  <2>1. SleepsForData(q, r) /\ SleepsForRoom(q, r)
    BY SleepFacts
  <2>2. /\ chan'[q] = Data(r) => chan[q] = Data(r) /\ (r \in writeopen => r \in writeopen')
        /\ chan'[q] = Room(r) => chan[q] = Room(r) /\ (r \in readopen => r \in readopen')
    BY <1>2, <1>3, ChannelFacts
  <2>3. SleepsForData(q, r)'
    BY <1>2, <2>1, <2>2 DEF SleepsForData, Empty, WriterInside, Writing
  <2>4. SleepsForRoom(q, r)'
    BY <1>2, <2>1, <2>2 DEF SleepsForRoom, Full, ReaderInside
  <2>5. QED
    BY <2>3, <2>4
<1>7. QED
  BY <1>4, <1>5, <1>6 DEF Locked, Asleep

LEMMA InitSInv == Init => SInv
<1> SUFFICES ASSUME Init
             PROVE  SInv
  OBVIOUS
<1>1. IInv
  BY InitIInv
<1>2. /\ lock = [pi \in Pipes |-> Nobody] /\ chan = [p \in Procs |-> Awake]
      /\ \E A : pc = [p \in Procs |-> IF p \in A THEN "user" ELSE "unborn"]
  BY DEF Init
<1>3. Locked
  BY <1>2 DEF Locked, Holder, Found
<1>4. Asleep
  BY <1>2, ChannelFacts DEF Asleep, SleepsForData, SleepsForRoom
<1>5. QED
  BY <1>1, <1>3, <1>4 DEF SInv

\* What the steps outside of the pipes have in common.
LEMMA OutsideSteps ==
    ASSUME SInv, NEW p \in Procs,
           \/ PipeStart(p) \/ PipeSecond(p) \/ PipeNoMemory(p) \/ Exit(p) \/ Gone(p)
           \/ ExitClose(p) \/ CloseNext(p)
           \/ \E d \in FDs : Dup(p, d) \/ Close(p, d) \/ \E n \in left.sizes : StartIO(p, d, n)
           \/ \E child \in Procs : Fork(p, child)
    PROVE  Locked' /\ Asleep'
<1> USE DEF pipes, calls
<1>1. UNCHANGED <<readopen, writeopen, nread, nwrite, lock, chan, killed>>
  BY DEF PipeStart, PipeSecond, PipeNoMemory, Exit, Gone, ExitClose, CloseNext, Dup, Close, StartIO,
         Fork
<1>2. pc \in [Procs -> Steps] /\ io \in [Procs -> IOs]
  BY SleepFacts, Types
<1>3. CASE \/ PipeStart(p) \/ PipeSecond(p) \/ PipeNoMemory(p) \/ Exit(p) \/ Gone(p)
           \/ ExitClose(p) \/ CloseNext(p)
  <2>1. /\ io' = io
        /\ \/ pc' = pc
           \/ pc[p] \notin IOStates /\ \E s \in {"user", "pipe", "exit", "gone"} : pc' = [pc EXCEPT ![p] = s]
    BY <1>3 DEF PipeStart, PipeSecond, PipeNoMemory, Exit, Gone, ExitClose, CloseNext, Enters,
                MayCall, AtUser, Exiting, Returns, IOStates
  <2>2. QED
    BY <1>1, <1>2, <2>1, OutsideStep
<1>4. CASE \E d \in FDs : Dup(p, d) \/ Close(p, d)
  <2>1. io' = io /\ pc[p] \notin IOStates /\ pc' = [pc EXCEPT ![p] = "user"]
    BY <1>4 DEF Dup, Close, Enters, MayCall, AtUser, IOStates
  <2>2. QED
    BY <1>1, <1>2, <2>1, OutsideStep
<1>5. CASE \E d \in FDs : \E n \in left.sizes : StartIO(p, d, n)
  <2>1. /\ pc[p] \notin IOStates /\ \E s \in {"read", "write"} : pc' = [pc EXCEPT ![p] = s]
        /\ \E r : io' = [io EXCEPT ![p] = r]
    BY <1>5 DEF StartIO, Enters, MayCall, AtUser, IOStates
  <2>2. QED
    BY <1>1, <1>2, <2>1, OutsideStep
<1>6. CASE \E child \in Procs : Fork(p, child)
  <2>1. PICK child \in Procs : Fork(p, child)
    BY <1>6
  <2>2. io' = io /\ pc[child] \notin IOStates /\ pc' = [pc EXCEPT ![child] = "user"]
    BY <2>1 DEF Fork, IOStates
  <2>3. QED
    BY <1>1, <1>2, <2>2, OutsideStep
<1>7. QED
  BY <1>3, <1>4, <1>5, <1>6

LEMMA NextSInv == SInv /\ [Next]_vars => SInv'
<1> SUFFICES ASSUME SInv, [Next]_vars
             PROVE  SInv'
  OBVIOUS
<1>1. IInv'
  BY SleepFacts, NextIInv
<1>2. Locked' /\ Asleep'
  <2>1. CASE UNCHANGED vars
    BY <2>1, OutsideStep DEF vars, pipes, calls
  <2>2. ASSUME NEW p \in Procs, User(p) \/ Kernel(p) \/ Kill(p)
        PROVE  Locked' /\ Asleep'
    <3>1. CASE User(p)
      BY <3>1, OutsideSteps DEF User
    <3>2. CASE \/ PipeSecond(p) \/ PipeNoMemory(p) \/ CloseNext(p) \/ ExitClose(p) \/ Gone(p)
      BY <3>2, OutsideSteps
    <3>3. CASE \E pi \in Pipes : PipeFinish(p, pi)
      BY <3>3, FinishSleep
    <3>4. CASE PipeClose(p)
      BY <3>4, PipeCloseSleep
    <3>5. CASE Kill(p)
      BY <3>5, KillSleep
    <3>6. CASE ReadTest(p) \/ ReadSleep(p) \/ ReadByte(p) \/ ReadEnd(p)
      BY <3>6, ReadTestSleep, ReadSleepSleep, ReadByteSleep, ReadEndSleep
    <3>7. CASE WriteRefused(p) \/ WriteTest(p) \/ WriteSleep(p) \/ WriteByte(p) \/ WriteEnd(p)
      BY <3>7, WriteRefusedSleep, WriteTestSleep, WriteSleepSleep, WriteByteSleep, WriteEndSleep
    <3>8. QED
      BY <2>2, <3>1, <3>2, <3>3, <3>4, <3>5, <3>6, <3>7 DEF Kernel
  <2>3. QED
    BY <2>1, <2>2 DEF Next
<1>3. QED
  BY <1>1, <1>2 DEF SInv

\* No wakeup of reads, writes and closes is lost: whoever sleeps while nobody is inside the
\* pipe has a reason to.
THEOREM NobodySleepsForNothing == Spec => []SleepersHaveReason
<1>1. Init => SInv
  BY InitSInv
<1>2. SInv /\ [Next]_vars => SInv'
  BY NextSInv
<1>3. SInv => SleepersHaveReason
  <2>1. SUFFICES ASSUME SInv, NEW p \in Procs, NEW pi \in Pipes
                 PROVE  /\ WaitsForData(p, pi) => pi \in writeopen /\ (Empty(pi) \/ killed # {})
                        /\ WaitsForRoom(p, pi) => pi \in readopen /\ Full(pi)
    BY DEF SleepersHaveReason
  <2>2. lock[pi] = Nobody => ~WriterInside(pi) /\ ~ReaderInside(pi)
    BY DEF WriterInside, ReaderInside
  <2>3. /\ chan[p] = Data(pi) /\ ~WriterInside(pi) => Empty(pi) \/ killed # {}
        /\ chan[p] = Room(pi) /\ ~ReaderInside(pi) => Full(pi)
        /\ chan[p] = Data(pi) => pi \in writeopen
        /\ chan[p] = Room(pi) => pi \in readopen
    BY <2>1, WaitersOf
  <2>4. QED
    BY <2>2, <2>3 DEF WaitsForData, WaitsForRoom
<1>4. QED
  BY <1>1, <1>2, <1>3, PTL DEF Spec

-----------------------------------------------------------------------------
(* Pipes implement ByteStream.                                             *)

\* The places of a pipe go on where the counter wraps.
LEMMA WrapKeepsPlace ==
    ASSUME NEW S \in Nat \ {0}, NEW M \in Nat, M % S = 0, NEW x \in Nat
    PROVE  (x - M) % S = x % S
<1>1. PICK q \in Int, r \in 0..S-1 : x = q * S + r
  <2>1. x = (x \div S) * S + (x % S) /\ x \div S \in Int /\ x % S \in 0..S-1
    BY Z3
  <2>2. QED
    BY <2>1
<1>2. PICK j \in Int : M = j * S
  <2>1. M = (M \div S) * S + (M % S) /\ M \div S \in Int
    BY Z3
  <2>2. PICK j \in Int : j = M \div S
    BY <2>1
  <2>3. j * S \in Int
    OBVIOUS
  <2>4. M = j * S
    BY <2>1, <2>2, <2>3
  <2>5. QED
    BY <2>4
<1>3. x % S = r
  BY <1>1, ModOfMultiple
<1>4. x - M = (q - j) * S + r /\ q - j \in Int
  BY <1>1, <1>2, Z3
<1>5. QED
  BY <1>3, <1>4, ModOfMultiple

\* Fewer than S bytes after each other have places of their own.
LEMMA PlacesDiffer ==
    ASSUME NEW S \in Nat \ {0}, NEW x \in Nat, NEW d \in 1..S-1
    PROVE  (x + d) % S # x % S
<1>1. PICK q \in Int, r \in 0..S-1 : x = q * S + r
  <2>1. x = (x \div S) * S + (x % S) /\ x \div S \in Int /\ x % S \in 0..S-1
    BY Z3
  <2>2. QED
    BY <2>1
<1>2. x % S = r
  BY <1>1, ModOfMultiple
<1>3. CASE r + d < S
  <2>1. PICK t \in 0..S-1, y \in Nat : t = r + d /\ y = x + d
    BY <1>3
  <2>2. y = q * S + t
    BY <1>1, <2>1
  <2>3. y % S = t
    BY <2>2, ModOfMultiple
  <2>4. t # r
    BY <2>1
  <2>5. QED
    BY <1>2, <2>1, <2>3, <2>4
<1>4. CASE r + d >= S
  <2>1. PICK t \in 0..S-1, k \in Int, y \in Nat : t = r + d - S /\ k = q + 1 /\ y = x + d
    BY <1>4
  <2>2. y = k * S + t
    BY <1>1, <2>1, Z3
  <2>3. y % S = t
    BY <2>2, ModOfMultiple
  <2>4. t # r
    BY <2>1
  <2>5. QED
    BY <1>2, <2>1, <2>3, <2>4
<1>5. QED
  BY <1>3, <1>4

\* The place of a byte, from the place of an earlier one.
LEMMA PlaceAfter ==
    ASSUME NEW a \in 0..IdxMod-1, NEW j \in 0..PIPESIZE, NEW c, c = (a + j) % IdxMod, NEW k \in Nat
    PROVE  /\ c \in 0..IdxMod-1
           /\ (c + k) % PIPESIZE = (a + j + k) % PIPESIZE
           /\ (a + k) % PIPESIZE \in 0..PIPESIZE-1
<1>1. PICK S \in Nat \ {0}, M \in Nat : S = PIPESIZE /\ M = IdxMod /\ S < M /\ M % S = 0
  BY PipeAssumption
<1>2. PICK x \in Nat : x = a + j
  BY <1>1
<1>3. x < 2 * M
  BY <1>1, <1>2
<1>4. x % M = IF x < M THEN x ELSE x - M
  <2>1. x \in Int /\ 0 <= x /\ M \in Nat \ {0}
    BY <1>1
  <2>2. QED
    BY <1>3, <2>1, ModSmall
<1>5. CASE x < M
  BY <1>1, <1>2, <1>4, <1>5
<1>6. CASE x >= M
  <2>1. c = x - M
    BY <1>1, <1>2, <1>4, <1>6
  <2>2. PICK y \in Nat : y = x + k
    OBVIOUS
  <2>3. (y - M) % S = y % S
    BY <1>1, WrapKeepsPlace
  <2>4. c + k = y - M
    BY <1>1, <2>1, <2>2
  <2>5. QED
    BY <1>1, <1>2, <1>3, <1>6, <2>1, <2>2, <2>3, <2>4
<1>7. QED
  BY <1>5, <1>6

\* The counters, from how far they are apart.
LEMMA FillIsDistance ==
    ASSUME NEW a \in 0..IdxMod-1, NEW b \in 0..IdxMod-1
    PROVE  b = (a + ((b - a) % IdxMod)) % IdxMod
<1>1. PICK M \in Nat \ {0} : M = IdxMod /\ a \in 0..M-1 /\ b \in 0..M-1
  BY PipeAssumption
<1>2. (b - a) % M = IF b >= a THEN b - a ELSE b - a + M
  <2>1. CASE b >= a
    <3>1. 0 <= b - a /\ b - a < M /\ b - a < 2 * M /\ b - a \in Int
      BY <1>1, <2>1
    <3>2. QED
      BY <2>1, <3>1, ModSmall
  <2>2. CASE b < a
    <3>1. -M <= b - a /\ b - a < 0 /\ b - a \in Int
      BY <1>1, <2>2
    <3>2. (b - a) % M = b - a + M
      BY <3>1, ModNegative
    <3>3. QED
      BY <1>1, <2>2, <3>2
  <2>3. QED
    BY <1>1, <2>1, <2>2
<1>3. PICK x \in Int : x = a + ((b - a) % M)
  BY <1>1, <1>2
<1>4. x = IF b >= a THEN b ELSE b + M
  BY <1>1, <1>2, <1>3
<1>5. 0 <= x /\ x < 2 * M
  BY <1>1, <1>4
<1>6. x % M = b
  BY <1>1, <1>4, <1>5, ModSmall
<1>7. QED
  BY <1>1, <1>3, <1>6

\* The bytes under way in one pipe.
Place(pi, k) == (nread[pi] + k - 1) % PIPESIZE
UnderWay(pi) ==
    IF pi \notin live THEN <<>> ELSE [k \in 1..Fill(pi) |-> data[pi][Place(pi, k)]]

LEMMA QueueIs == Queue = [pi \in Pipes |-> UnderWay(pi)]
BY DEF Queue, UnderWay, Fill, Place

LEMMA UnderWayFacts ==
    ASSUME IInv, NEW pi \in Pipes
    PROVE  /\ UnderWay(pi) \in Seq(Bytes)
           /\ pi \in live => Len(UnderWay(pi)) = Fill(pi)
           /\ Fill(pi) \in 0..PIPESIZE /\ (Fill(pi) = 0 <=> Empty(pi))
           /\ Full(pi) <=> Fill(pi) = PIPESIZE
           /\ Fill(pi) = 0 => UnderWay(pi) = <<>>
<1>1. PICK a \in 0..IdxMod-1, b \in 0..IdxMod-1 : a = nread[pi] /\ b = nwrite[pi]
  BY Types
<1>2. /\ (b - a) % IdxMod \in 0..IdxMod-1
      /\ (b - a) % IdxMod = 0 <=> a = b
      /\ b = (a + PIPESIZE) % IdxMod <=> (b - a) % IdxMod = PIPESIZE
  BY Counters
<1>3. Fill(pi) = (b - a) % IdxMod /\ Fill(pi) <= PIPESIZE
  BY <1>1 DEF Fill, IInv, Filled
<1>4. Fill(pi) \in 0..PIPESIZE /\ (Fill(pi) = 0 <=> Empty(pi)) /\ (Full(pi) <=> Fill(pi) = PIPESIZE)
  BY <1>1, <1>2, <1>3, PipeAssumption DEF Empty, Full
<1>5. PICK n \in 0..PIPESIZE : n = Fill(pi)
  BY <1>4
<1>6. ASSUME NEW k \in 1..n
      PROVE  data[pi][Place(pi, k)] \in Bytes
  <2>1. Place(pi, k) \in 0..PIPESIZE-1
    BY <1>1, PipeAssumption DEF Place
  <2>2. QED
    BY <2>1, Types
<1>7. PICK s : s = [k \in 1..n |-> data[pi][Place(pi, k)]]
  OBVIOUS
<1>8. s \in Seq(Bytes) /\ Len(s) = n
  <2>1. s \in [1..n -> Bytes] /\ n \in Nat
    BY <1>6, <1>7, PipeAssumption
  <2>2. QED
    BY <2>1
<1>9. UnderWay(pi) = IF pi \notin live THEN <<>> ELSE s
  BY <1>5, <1>7 DEF UnderWay
<1>10. n = 0 => s = <<>>
  BY <1>8
<1>11. QED
  BY <1>4, <1>5, <1>8, <1>9, <1>10

UnderWayTyped ==
    \A pi \in Pipes : /\ UnderWay(pi) \in Seq(Bytes)
                      /\ pi \in live => Len(UnderWay(pi)) = Fill(pi)
                      /\ Fill(pi) = 0 => UnderWay(pi) = <<>>

LEMMA UnderWayThen == IInv' => UnderWayTyped'
<1>1. IInv => UnderWayTyped
  BY UnderWayFacts DEF UnderWayTyped
<1>2. QED
  BY <1>1, PTL

\* A step that nobody sees who uses the pipes.
Unseen == UNCHANGED <<Queue, readopen, writeopen, last>>

LEMMA NotSeen ==
    ASSUME UNCHANGED <<live, readopen, writeopen, nread, nwrite, data, last>>
    PROVE  Unseen
<1>1. UNCHANGED Queue
  BY DEF Queue
<1>2. QED
  BY <1>1 DEF Unseen

\* A step that changes what is under way in one pipe.
LEMMA OneQueue ==
    ASSUME NEW pi \in Pipes,
           \A r \in Pipes \ {pi} : /\ r \in live' <=> r \in live
                                   /\ nread'[r] = nread[r] /\ nwrite'[r] = nwrite[r]
                                   /\ data'[r] = data[r]
    PROVE  Queue' = [Queue EXCEPT ![pi] = UnderWay(pi)']
<1>1. ASSUME NEW r \in Pipes, r # pi
      PROVE  UnderWay(r)' = UnderWay(r)
  BY <1>1 DEF UnderWay, Fill, Place
<1>2. Queue' = [r \in Pipes |-> UnderWay(r)']
  BY DEF Queue, UnderWay, Fill, Place
<1>3. QED
  BY <1>1, <1>2, QueueIs

\* The byte that pipewrite copies in goes behind those under way, and to a place of its own.
LEMMA WriteByteRefines ==
    ASSUME IInv, IInv', NEW p \in Procs, WriteByte(p)
    PROVE  \E pi \in Pipes : Stream!Put(pi)
<1>1. pc[p] = "write" /\ io[p].pi \in Pipes /\ io[p].pi \in writeopen
  BY InsidePipe DEF WriteByte, Writes, IOStates, Writing
<1>2. PICK pi \in Pipes : pi = io[p].pi
  BY <1>1
<1>3. /\ UNCHANGED <<live, readopen, writeopen, nread, last>>
      /\ nwrite' = [nwrite EXCEPT ![pi] = (nwrite[pi] + 1) % IdxMod] /\ ~Full(pi)
      /\ pi \in readopen /\ pi \in writeopen
  BY <1>1, <1>2 DEF WriteByte, Refused
<1>4. PICK v \in Bytes : data' = [data EXCEPT ![pi][nwrite[pi] % PIPESIZE] = v]
  BY <1>2, Types, LeftSteps DEF WriteByte
<1>5. PICK a \in 0..IdxMod-1, b \in 0..IdxMod-1 : a = nread[pi] /\ b = nwrite[pi]
  BY Types
<1>6. PICK n \in 0..PIPESIZE-1 : n = Fill(pi)
  <2>1. PICK n \in 0..PIPESIZE : n = Fill(pi)
    BY UnderWayFacts
  <2>2. n # PIPESIZE
    BY <1>3, <2>1, UnderWayFacts
  <2>3. n \in 0..PIPESIZE-1
    BY <2>1, <2>2, PipeAssumption
  <2>4. QED
    BY <2>1, <2>3
<1>7. Fill(pi)' = n + 1
  <2>1. PICK c \in 0..IdxMod-1 :
           c = (b + 1) % IdxMod
           /\ ((b - a) % IdxMod < PIPESIZE => (c - a) % IdxMod = ((b - a) % IdxMod) + 1)
    BY Counters
  <2>2. nwrite'[pi] = c /\ nread'[pi] = a
    BY <1>3, <1>5, <2>1, Types
  <2>3. (b - a) % IdxMod = n /\ n < PIPESIZE
    BY <1>5, <1>6, PipeAssumption DEF Fill
  <2>4. QED
    BY <2>1, <2>2, <2>3 DEF Fill
<1>8. pi \in live /\ pi \in live'
  BY <1>3, FileFacts DEF Ends
<1>9. b = (a + n) % IdxMod
  <2>1. Fill(pi) = (b - a) % IdxMod
    BY <1>5 DEF Fill
  <2>2. QED
    BY <1>5, <1>6, <2>1, FillIsDistance
<1>10. b % PIPESIZE = (a + n) % PIPESIZE
  <2>1. n \in 0..PIPESIZE /\ 0 \in Nat
    BY PipeAssumption
  <2>2. (b + 0) % PIPESIZE = (a + n + 0) % PIPESIZE
    BY <1>9, <2>1, PlaceAfter
  <2>3. b + 0 = b /\ a + n + 0 = a + n
    OBVIOUS
  <2>4. QED
    BY <2>2, <2>3
<1>11. ASSUME NEW k \in 1..n
       PROVE  data'[pi][(a + k - 1) % PIPESIZE] = data[pi][(a + k - 1) % PIPESIZE]
  <2>1. PICK x \in Nat, d \in 1..PIPESIZE-1 : x = a + k - 1 /\ x + d = a + n
    <3>1. a + k - 1 \in Nat /\ n - k + 1 \in 1..PIPESIZE-1 /\ (a + k - 1) + (n - k + 1) = a + n
      BY PipeAssumption
    <3>2. QED
      BY <3>1
  <2>2. x % PIPESIZE # b % PIPESIZE
    <3>1. PIPESIZE \in Nat \ {0}
      BY PipeAssumption
    <3>2. (x + d) % PIPESIZE # x % PIPESIZE
      BY <3>1, PlacesDiffer
    <3>3. QED
      BY <1>10, <2>1, <3>2
  <2>3. data' = [data EXCEPT ![pi] = [data[pi] EXCEPT ![b % PIPESIZE] = v]]
    BY <1>4, <1>5
  <2>4. data'[pi] = [data[pi] EXCEPT ![b % PIPESIZE] = v]
    BY <2>3, Types
  <2>5. x % PIPESIZE \in 0..PIPESIZE-1
    BY PipeAssumption
  <2>6. data[pi] \in [0..PIPESIZE-1 -> Bytes]
    BY Types
  <2>7. QED
    BY <2>1, <2>2, <2>4, <2>5, <2>6
<1>12. data'[pi][(a + n) % PIPESIZE] = v
  <2>1. data'[pi] = [data[pi] EXCEPT ![b % PIPESIZE] = v] /\ data[pi] \in [0..PIPESIZE-1 -> Bytes]
    BY <1>4, <1>5, Types
  <2>2. b % PIPESIZE \in 0..PIPESIZE-1
    BY PipeAssumption
  <2>3. QED
    BY <1>10, <2>1, <2>2
<1>13. UnderWay(pi)' = Append(UnderWay(pi), v)
  <2>1. PICK s : s = UnderWay(pi)
    OBVIOUS
  <2>2. PICK t : t = UnderWay(pi)'
    OBVIOUS
  <2>3. s = [k \in 1..n |-> data[pi][(a + k - 1) % PIPESIZE]]
    BY <1>5, <1>6, <1>8, <2>1 DEF UnderWay, Place
  <2>4. t = [k \in 1..(n+1) |-> data'[pi][(a + k - 1) % PIPESIZE]]
    BY <1>3, <1>5, <1>7, <1>8, <2>2 DEF UnderWay, Place
  <2>5. s \in Seq(Bytes) /\ Len(s) = n
    BY <1>6, <1>8, <2>1, UnderWayFacts
  <2>6. t \in Seq(Bytes) /\ Len(t) = n + 1
    BY <1>7, <1>8, <2>2, UnderWayThen DEF UnderWayTyped
  <2>7. \A k \in 1..n : t[k] = s[k]
    BY <1>11, <2>3, <2>4
  <2>8. t[n + 1] = v
    <3>1. t[n + 1] = data'[pi][(a + (n + 1) - 1) % PIPESIZE]
      BY <2>4
    <3>2. a + (n + 1) - 1 = a + n
      OBVIOUS
    <3>3. QED
      BY <1>12, <3>1, <3>2
  <2>9. t = Append(s, v)
    BY <2>5, <2>6, <2>7, <2>8
  <2>10. QED
    BY <2>1, <2>2, <2>9
<1>14. Queue' = [Queue EXCEPT ![pi] = Append(Queue[pi], v)]
  <2>1. \A r \in Pipes \ {pi} : /\ r \in live' <=> r \in live
                                /\ nread'[r] = nread[r] /\ nwrite'[r] = nwrite[r]
                                /\ data'[r] = data[r]
    BY <1>3, <1>4, Types
  <2>2. Queue' = [Queue EXCEPT ![pi] = UnderWay(pi)']
    BY <2>1, OneQueue
  <2>3. Queue[pi] = UnderWay(pi)
    BY QueueIs
  <2>4. QED
    BY <1>13, <2>2, <2>3
<1>15. Len(Queue[pi]) < PIPESIZE
  <2>1. Queue[pi] = UnderWay(pi)
    BY QueueIs
  <2>2. Len(UnderWay(pi)) = n
    BY <1>6, <1>8, UnderWayFacts
  <2>3. QED
    BY <2>1, <2>2, PipeAssumption
<1>16. Stream!Put(pi)
  BY <1>3, <1>4, <1>14, <1>15 DEF Stream!Put
<1>17. QED
  BY <1>16

\* The byte that piperead copies out, or has no memory for, is the first one of those under
\* way.
LEMMA ReadByteRefines ==
    ASSUME IInv, IInv', NEW p \in Procs, ReadByte(p)
    PROVE  \E pi \in Pipes : Stream!Take(pi)
<1>1. io[p].pi \in Pipes /\ io[p].pi \in readopen
  BY InsidePipe DEF ReadByte, IOStates, Reading
<1>2. PICK pi \in Pipes : pi = io[p].pi
  BY <1>1
<1>3. PICK a \in 0..IdxMod-1, b \in 0..IdxMod-1 : a = nread[pi] /\ b = nwrite[pi]
  BY Types
<1>4. /\ UNCHANGED <<live, readopen, writeopen, nwrite, data>>
      /\ nread' = [nread EXCEPT ![pi] = (a + 1) % IdxMod] /\ ~Empty(pi) /\ pi \in readopen
      /\ last' \in {last, [last EXCEPT ![pi] = data[pi][a % PIPESIZE]]}
  BY <1>1, <1>2, <1>3 DEF ReadByte
<1>5. PICK n \in 1..PIPESIZE : n = Fill(pi)
  <2>1. PICK n \in 0..PIPESIZE : n = Fill(pi)
    BY UnderWayFacts
  <2>2. n # 0
    BY <1>4, <2>1, UnderWayFacts
  <2>3. n \in 1..PIPESIZE
    BY <2>1, <2>2, PipeAssumption
  <2>4. QED
    BY <2>1, <2>3
<1>6. PICK c \in 0..IdxMod-1 :
         c = (a + 1) % IdxMod
         /\ (a # b => (b - c) % IdxMod = ((b - a) % IdxMod) - 1)
  BY Counters
<1>7. Fill(pi)' = n - 1
  <2>1. nwrite'[pi] = b /\ nread'[pi] = c
    BY <1>3, <1>4, <1>6, Types
  <2>2. (b - a) % IdxMod = n /\ a # b
    BY <1>3, <1>4, <1>5 DEF Fill, Empty
  <2>3. QED
    BY <1>6, <2>1, <2>2 DEF Fill
<1>8. pi \in live /\ pi \in live'
  BY <1>4, FileFacts DEF Ends
<1>9. PICK s, t : s = UnderWay(pi) /\ t = UnderWay(pi)'
  OBVIOUS
<1>10. s = [k \in 1..n |-> data[pi][(a + k - 1) % PIPESIZE]]
  BY <1>3, <1>5, <1>8, <1>9 DEF UnderWay, Place
<1>11. t = [k \in 1..(n-1) |-> data[pi][(c + k - 1) % PIPESIZE]]
  <2>1. nread'[pi] = c
    BY <1>4, <1>6, Types
  <2>2. QED
    BY <1>4, <1>7, <1>8, <1>9, <2>1 DEF UnderWay, Place
<1>12. s \in Seq(Bytes) /\ Len(s) = n /\ s # <<>>
  BY <1>5, <1>8, <1>9, UnderWayFacts
<1>13. t \in Seq(Bytes) /\ Len(t) = n - 1
  BY <1>7, <1>8, <1>9, UnderWayThen DEF UnderWayTyped
<1>14. ASSUME NEW k \in 1..(n-1)
       PROVE  t[k] = s[k + 1]
  <2>1. PICK j \in Nat : j = k - 1
    OBVIOUS
  <2>2. 1 \in 0..PIPESIZE
    BY PipeAssumption
  <2>3. (c + j) % PIPESIZE = (a + 1 + j) % PIPESIZE
    BY <1>6, <2>2, PlaceAfter
  <2>4. c + k - 1 = c + j /\ a + (k + 1) - 1 = a + 1 + j /\ k + 1 \in 1..n
    BY <2>1
  <2>5. t[k] = data[pi][(c + k - 1) % PIPESIZE]
    BY <1>11
  <2>6. s[k + 1] = data[pi][(a + (k + 1) - 1) % PIPESIZE]
    BY <1>10, <2>4
  <2>7. QED
    BY <2>3, <2>4, <2>5, <2>6
<1>15. t = Tail(s)
  <2>1. PICK u : u = Tail(s)
    OBVIOUS
  <2>2. u \in Seq(Bytes) /\ Len(u) = n - 1 /\ \A k \in 1..(n-1) : u[k] = s[k + 1]
    BY <1>12, <2>1
  <2>3. \A k \in 1..(n-1) : t[k] = u[k]
    BY <1>14, <2>2
  <2>4. QED
    BY <1>13, <2>1, <2>2, <2>3
<1>16. Head(s) = data[pi][a % PIPESIZE]
  <2>1. 1 \in 1..n /\ a + 1 - 1 = a
    OBVIOUS
  <2>2. s[1] = data[pi][(a + 1 - 1) % PIPESIZE]
    BY <1>10, <2>1
  <2>3. Head(s) = s[1]
    BY <1>12
  <2>4. QED
    BY <2>1, <2>2, <2>3
<1>17. Queue[pi] = s
  BY <1>9, QueueIs
<1>18. Queue' = [Queue EXCEPT ![pi] = Tail(Queue[pi])]
  <2>1. \A r \in Pipes \ {pi} : /\ r \in live' <=> r \in live
                                /\ nread'[r] = nread[r] /\ nwrite'[r] = nwrite[r]
                                /\ data'[r] = data[r]
    BY <1>4, Types
  <2>2. Queue' = [Queue EXCEPT ![pi] = UnderWay(pi)']
    BY <2>1, OneQueue
  <2>3. QED
    BY <1>9, <1>15, <1>17, <2>2
<1>19. Queue[pi] # <<>> /\ last' \in {last, [last EXCEPT ![pi] = Head(Queue[pi])]}
  BY <1>4, <1>12, <1>16, <1>17
<1>20. Stream!Take(pi)
  BY <1>4, <1>18, <1>19 DEF Stream!Take
<1>21. QED
  BY <1>20

LEMMA FinishRefines ==
    ASSUME IInv, IInv', NEW p \in Procs, NEW pi \in Pipes, PipeFinish(p, pi)
    PROVE  Stream!Create(pi)
<1>1. PICK rf \in Files, wf \in Files : FinishEffect(p, pi, rf, wf)
  BY FinishEffects
<1>2. /\ pi \notin live /\ live' = live \cup {pi} /\ UNCHANGED <<data, last>>
      /\ readopen' = readopen \cup {pi} /\ writeopen' = writeopen \cup {pi}
      /\ nread' = [nread EXCEPT ![pi] = 0] /\ nwrite' = [nwrite EXCEPT ![pi] = 0]
  BY <1>1 DEF FinishEffect
<1>3. pi \notin readopen \cup writeopen
  BY <1>2, FileFacts DEF Ends
<1>4. Fill(pi)' = 0
  <2>1. nread'[pi] = 0 /\ nwrite'[pi] = 0 /\ IdxMod \in Nat \ {0}
    BY <1>2, Types, PipeAssumption
  <2>2. (0 - 0) % IdxMod = 0
    BY <2>1
  <2>3. QED
    BY <2>1, <2>2 DEF Fill
<1>5. UnderWay(pi)' = <<>>
  BY <1>4, UnderWayThen DEF UnderWayTyped
<1>6. Queue' = [Queue EXCEPT ![pi] = <<>>]
  <2>1. \A r \in Pipes \ {pi} : /\ r \in live' <=> r \in live
                                /\ nread'[r] = nread[r] /\ nwrite'[r] = nwrite[r]
                                /\ data'[r] = data[r]
    BY <1>2, Types
  <2>2. Queue' = [Queue EXCEPT ![pi] = UnderWay(pi)']
    BY <2>1, OneQueue
  <2>3. QED
    BY <1>5, <2>2
<1>7. QED
  BY <1>2, <1>3, <1>6 DEF Stream!Create

\* The bytes under way stay until pipeclose frees the page.
LEMMA PipeCloseRefines ==
    ASSUME IInv, NEW p \in Procs, PipeClose(p)
    PROVE  \E pi \in Pipes : Stream!CloseRead(pi) \/ Stream!CloseWrite(pi)
<1>1. PICK pi \in Pipes, w \in BOOLEAN : PipeCloseEffect(p, pi, w)
  BY PipeCloseEffects
<1>2. /\ pi \in IF w THEN writeopen ELSE readopen
      /\ writeopen' = (IF w THEN writeopen \ {pi} ELSE writeopen)
      /\ readopen' = (IF w THEN readopen ELSE readopen \ {pi})
      /\ live' = readopen' \cup writeopen'
      /\ UNCHANGED <<nread, nwrite, data, last>>
  BY <1>1 DEF PipeCloseEffect
<1>3. live = readopen \cup writeopen
  BY FileFacts DEF Ends
<1>4. Queue' = [Queue EXCEPT ![pi] = UnderWay(pi)']
  BY <1>2, <1>3, OneQueue
<1>5. Queue[pi] = UnderWay(pi) /\ DOMAIN Queue = Pipes /\ Queue = [Queue EXCEPT ![pi] = UnderWay(pi)]
  BY QueueIs
<1>6. UnderWay(pi)' = IF pi \in live' THEN UnderWay(pi) ELSE <<>>
  BY <1>2, <1>3 DEF UnderWay, Fill, Place
<1>7. CASE w = TRUE
  <2>1. /\ pi \in writeopen /\ writeopen' = writeopen \ {pi} /\ readopen' = readopen
        /\ pi \in live' <=> pi \in readopen
    BY <1>2, <1>7
  <2>2. Queue' = Stream!Left(pi, readopen)
    BY <1>4, <1>5, <1>6, <2>1 DEF Stream!Left
  <2>3. Stream!CloseWrite(pi)
    BY <1>2, <2>1, <2>2 DEF Stream!CloseWrite
  <2>4. QED
    BY <2>3
<1>8. CASE w = FALSE
  <2>1. /\ pi \in readopen /\ readopen' = readopen \ {pi} /\ writeopen' = writeopen
        /\ pi \in live' <=> pi \in writeopen
    BY <1>2, <1>8
  <2>2. Queue' = Stream!Left(pi, writeopen)
    BY <1>4, <1>5, <1>6, <2>1 DEF Stream!Left
  <2>3. Stream!CloseRead(pi)
    BY <1>2, <2>1, <2>2 DEF Stream!CloseRead
  <2>4. QED
    BY <2>3
<1>9. QED
  BY <1>7, <1>8

LEMMA InitRefines == Init => Stream!Init
<1> SUFFICES ASSUME Init
             PROVE  Stream!Init
  OBVIOUS
<1>1. IInv
  BY InitIInv
<1>2. nread = nwrite /\ last = [pi \in Pipes |-> NoByte]
  BY DEF Init
<1>3. ASSUME NEW pi \in Pipes
      PROVE  UnderWay(pi) = <<>>
  <2>1. Empty(pi)
    BY <1>2 DEF Empty
  <2>2. QED
    BY <1>1, <2>1, UnderWayFacts
<1>4. Queue = [pi \in Pipes |-> <<>>]
  BY <1>3, QueueIs
<1>5. <<>> \in UNION {[1..n -> Bytes] : n \in 0..PIPESIZE}
  <2>1. <<>> \in [1..0 -> Bytes] /\ 0 \in 0..PIPESIZE
    BY PipeAssumption
  <2>2. QED
    BY <2>1
<1>6. Queue \in [Pipes -> UNION {[1..n -> Bytes] : n \in 0..PIPESIZE}]
  BY <1>4, <1>5
<1>7. readopen \subseteq Pipes /\ writeopen \subseteq Pipes
  BY <1>1, Types
<1>8. \A pi \in Pipes : last[pi] \notin Bytes
  BY <1>2, PipeAssumption
<1>9. QED
  BY <1>6, <1>7, <1>8 DEF Stream!Init

LEMMA StepRefines ==
    ASSUME IInv, IInv', [Next]_vars
    PROVE  Stream!Next \/ Unseen
<1>1. CASE UNCHANGED vars
  BY <1>1, NotSeen DEF vars, pipes, calls
<1>2. ASSUME NEW p \in Procs, User(p) \/ Kernel(p) \/ Kill(p)
      PROVE  Stream!Next \/ Unseen
  <2>1. CASE User(p)
    <3>1. UNCHANGED <<pipes, last>>
      BY <2>1 DEF User, PipeStart, Exit, Dup, Close, StartIO, Fork
    <3>2. QED
      BY <3>1, NotSeen DEF pipes
  <2>2. CASE \/ PipeSecond(p) \/ PipeNoMemory(p) \/ CloseNext(p) \/ ExitClose(p) \/ Gone(p) \/ Kill(p)
    <3>1. UNCHANGED <<pipes, last>>
      BY <2>2 DEF PipeSecond, PipeNoMemory, CloseNext, ExitClose, Gone, Kill, calls
    <3>2. QED
      BY <3>1, NotSeen DEF pipes
  <2>3. CASE \/ ReadTest(p) \/ ReadSleep(p) \/ ReadEnd(p)
             \/ WriteRefused(p) \/ WriteTest(p) \/ WriteSleep(p) \/ WriteEnd(p)
    <3>1. UNCHANGED <<live, readopen, writeopen, nread, nwrite, data, last>>
      BY <2>3 DEF ReadTest, ReadSleep, ReadEnd, WriteRefused, WriteTest, WriteSleep, WriteEnd
    <3>2. QED
      BY <3>1, NotSeen
  <2>4. CASE \E pi \in Pipes : PipeFinish(p, pi)
    BY <2>4, FinishRefines DEF Stream!Next
  <2>5. CASE PipeClose(p)
    BY <2>5, PipeCloseRefines DEF Stream!Next
  <2>6. CASE ReadByte(p)
    BY <2>6, ReadByteRefines DEF Stream!Next
  <2>7. CASE WriteByte(p)
    BY <2>7, WriteByteRefines DEF Stream!Next
  <2>8. QED
    BY <1>2, <2>1, <2>2, <2>3, <2>4, <2>5, <2>6, <2>7 DEF Kernel
<1>3. QED
  BY <1>1, <1>2 DEF Next

\* Pipes are bounded streams of bytes: piperead gives out what pipewrite took in, in that
\* order, also when nread and nwrite wrap, and nothing is lost as long as an end is open.
THEOREM PipesAreStreams == Spec => PipesDeliver
<1>1. IInv /\ [Next]_vars => IInv'
  BY NextIInv
<1>2. IInv /\ IInv' /\ [Next]_vars => [Stream!Next]_<<Queue, readopen, writeopen, last>>
  BY StepRefines DEF Unseen
<1>3. Stream!Spec <=> Stream!Init /\ [][Stream!Next]_<<Queue, readopen, writeopen, last>>
  BY DEF Stream!Spec, Stream!svars
<1>4. QED
  BY <1>1, <1>2, <1>3, InitIInv, InitRefines, PTL DEF Spec, PipesDeliver

=============================================================================

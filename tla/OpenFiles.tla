----------------------------- MODULE OpenFiles -------------------------------
(***************************************************************************)
(* The open files of xv6 (kernel/file.c, the descriptors of                *)
(* kernel/sysfile.c and kernel/proc.c) whose only kind here is the pipe.   *)
(*                                                                         *)
(* Grain: one action per critical section under ftable.lock; what a        *)
(* process does with its own descriptors goes with the next of them.       *)
(***************************************************************************)
EXTENDS Integers, Sequences, FiniteSets, Functions

CONSTANTS
    Procs,
    NOFILE, NFILE,
    Pipes,     \* the pages that pipes may get
    NoFile, NoPipe

ASSUME FilesAssumption ==
    /\ IsFiniteSet(Procs) /\ IsFiniteSet(Pipes)
    /\ NOFILE \in Nat /\ NFILE \in Nat
    /\ NoFile \notin 1..NFILE /\ NoPipe \notin Pipes

Files == 1..NFILE       \* ftable.file, in its order
FDs == 0..NOFILE-1

VARIABLES
    ref, type, writable, pipe,  \* struct file
    ofile,                      \* the descriptors of a process
    temp,                       \* files that sys_pipe has and no descriptor yet
    closing,                    \* files that a process has still to close
    ending                      \* the pipe end that fileclose goes on with

files == <<ref, type, writable, pipe, ofile, temp, closing, ending>>

NoEnd == [pipe |-> NoPipe, writable |-> FALSE]

FilesTypeOK ==
    /\ ref \in [Files -> Nat]
    /\ type \in [Files -> {"NONE", "PIPE"}]
    /\ writable \in [Files -> BOOLEAN]
    /\ pipe \in [Files -> Pipes \cup {NoPipe}]
    /\ ofile \in [Procs -> [FDs -> Files \cup {NoFile}]]
    /\ temp \in [Procs -> Seq(Files)]
    /\ closing \in [Procs -> Seq(Files)]
    /\ ending \in [Procs -> [pipe : Pipes \cup {NoPipe}, writable : BOOLEAN]]

First(S) == CHOOSE x \in S : \A y \in S : x <= y

FreeFiles == {f \in Files : ref[f] = 0}
FreeFDs(p) == {d \in FDs : ofile[p][d] = NoFile}
OpenFDs(p) == FDs \ FreeFDs(p)

-----------------------------------------------------------------------------
\* filealloc
FileAlloc(p) ==
    LET f == First(FreeFiles) IN
    /\ FreeFiles # {}
    /\ ref' = [ref EXCEPT ![f] = 1]
    /\ temp' = [temp EXCEPT ![p] = Append(@, f)]
    /\ UNCHANGED <<type, writable, pipe, ofile, closing, ending>>

\* The "bad" path of pipealloc, and that of sys_pipe: close what there is.
GiveUpFiles(p) ==
    /\ closing' = [closing EXCEPT ![p] = temp[p]]
    /\ temp' = [temp EXCEPT ![p] = <<>>]

\* The second half of pipealloc makes both files ends of a new pipe; sys_pipe takes two
\* descriptors for them, or closes them again.
MakeEnds(p, pi, installed) ==
    LET rf == temp[p][1]
        wf == temp[p][2]
        fd0 == First(FreeFDs(p))
        fd1 == First(FreeFDs(p) \ {fd0})
    IN
    /\ type' = [type EXCEPT ![rf] = "PIPE", ![wf] = "PIPE"]
    /\ writable' = [writable EXCEPT ![rf] = FALSE, ![wf] = TRUE]
    /\ pipe' = [pipe EXCEPT ![rf] = pi, ![wf] = pi]
    /\ IF installed
         THEN /\ Cardinality(FreeFDs(p)) >= 2
              /\ ofile' = [ofile EXCEPT ![p][fd0] = rf, ![p][fd1] = wf]
              /\ temp' = [temp EXCEPT ![p] = <<>>]
              /\ UNCHANGED closing
         ELSE GiveUpFiles(p) /\ UNCHANGED ofile
    /\ UNCHANGED <<ref, ending>>

\* sys_dup: fdalloc, filedup
FileDup(p, d) ==
    /\ d \in OpenFDs(p) /\ FreeFDs(p) # {}
    /\ ofile' = [ofile EXCEPT ![p][First(FreeFDs(p))] = ofile[p][d]]
    /\ ref' = [ref EXCEPT ![ofile[p][d]] = @ + 1]
    /\ UNCHANGED <<type, writable, pipe, temp, closing, ending>>

\* kfork: filedup of every open file.  The parent keeps them open meanwhile.
Inherit(p, child) ==
    /\ ofile' = [ofile EXCEPT ![child] = ofile[p]]
    /\ ref' = [f \in Files |-> ref[f] + Cardinality({d \in FDs : ofile[p][d] = f})]
    /\ UNCHANGED <<type, writable, pipe, temp, closing, ending>>

\* sys_close, up to fileclose
CloseFD(p, d) ==
    /\ d \in OpenFDs(p)
    /\ ofile' = [ofile EXCEPT ![p][d] = NoFile]
    /\ closing' = [closing EXCEPT ![p] = <<ofile[p][d]>>]
    /\ UNCHANGED <<ref, type, writable, pipe, temp, ending>>

\* fileclose that leaves the type of a file that is free.
FileCloseKeepsType(p) ==
    LET f == Head(closing[p]) IN
    /\ closing[p] # <<>> /\ ending[p] = NoEnd
    /\ closing' = [closing EXCEPT ![p] = Tail(@)]
    /\ ref' = [ref EXCEPT ![f] = @ - 1]
    /\ IF ref[f] = 1 /\ type[f] = "PIPE"
         THEN ending' = [ending EXCEPT ![p] = [pipe |-> pipe[f], writable |-> writable[f]]]
         ELSE UNCHANGED ending
    /\ UNCHANGED <<type, writable, pipe, ofile, temp>>

\* fileclose, under ftable.lock; the last reference to a pipe end closes the end after it.
FileClose(p) ==
    LET f == Head(closing[p]) IN
    /\ closing[p] # <<>> /\ ending[p] = NoEnd
    /\ closing' = [closing EXCEPT ![p] = Tail(@)]
    /\ ref' = [ref EXCEPT ![f] = @ - 1]
    /\ IF ref[f] = 1
         THEN /\ type' = [type EXCEPT ![f] = "NONE"]
              /\ ending' = IF type[f] = "PIPE"
                             THEN [ending EXCEPT ![p] =
                                      [pipe |-> pipe[f], writable |-> writable[f]]]
                             ELSE ending
         ELSE UNCHANGED <<type, ending>>
    /\ UNCHANGED <<writable, pipe, ofile, temp>>

-----------------------------------------------------------------------------
\* The references to a file: the descriptors, and what processes have in their hands.
Descriptors(f) == {x \in Procs \X FDs : ofile[x[1]][x[2]] = f}
Opening(f) == {p \in Procs : f \in Range(temp[p])}
Closing(f) == {p \in Procs : f \in Range(closing[p])}

References(f) ==
    Cardinality(Descriptors(f)) + Cardinality(Opening(f)) + Cardinality(Closing(f))
=============================================================================

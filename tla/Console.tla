------------------------------- MODULE Console -------------------------------
(***************************************************************************)
(* The console: consoleread and consolewrite, the interrupt handler with   *)
(* its line editing, and the driver of the UART below them.                *)
(*                                                                         *)
(* cons.lock is a variable: consoleintr holds it while it echoes, and      *)
(* echoing waits for the UART.  What is done under tx_lock is one step.    *)
(* The handler runs on one CPU at a time (the PLIC hands an interrupt to   *)
(* one), beside the processes on the other CPUs.                           *)
(*                                                                         *)
(* The UART is external: a FIFO in each direction, a status bit for an     *)
(* empty transmit FIFO and an interrupt when it has become empty.          *)
(***************************************************************************)
EXTENDS Naturals, Sequences, FiniteSets

CONSTANTS
    Procs,
    INPUT_BUF_SIZE,
    IdxMod,         \* 2^32: r, w and e are unsigned int
    ChunkSize,      \* 32: what consolewrite copies in at a time
    RxDepth,        \* characters the UART keeps until they are read
    Nobody,
    Workloads

ASSUME ConsoleAssumption ==
    /\ INPUT_BUF_SIZE \in Nat \ {0} /\ ChunkSize \in Nat \ {0} /\ RxDepth \in Nat \ {0}
    /\ \E k \in 2..IdxMod : IdxMod = k * INPUT_BUF_SIZE
    /\ "intr" \notin Procs /\ Nobody \notin Procs \cup {"intr"}

\* C('D'), C('P'), C('U'), C('H') and an ordinary character; carriage return is stored
\* as newline, and a NUL is ignored.
Stored == {"x", "nl", "eof"}
Keys == Stored \cup {"cr", "nul", "list", "kill", "bs"}
NoKey == "none"

VARIABLES
    buf, r, w, e,           \* cons
    lock,                   \* the holder of cons.lock: a process, "intr" or Nobody
    tx_busy,
    tx, thre, rx,           \* UART: FIFOs, and the interrupt "transmitter empty"
    hpc, char, echo,        \* the handler: its place, the key to be stored, what to echo
    pc, n, target, chunk,   \* locals of consoleread, consolewrite and uartwrite
    killed,
    workload, calls, keys, kills,
    \* History: the last read of p, the bytes of p copied in and seen, and whether a
    \* kill came between the test of killed and the sleep.
    got, offered, shown, missed

cons == <<buf, r, w, e>>
uart == <<tx_busy, tx, thre, rx, shown>>
handler == <<hpc, char, echo>>
locals == <<pc, n, target, chunk, got, offered, missed>>
inputs == <<workload, calls, keys, kills, killed>>
vars == <<cons, lock, uart, handler, locals, inputs>>

ReadPC == {"read_lock", "read", "read_sleep", "read_asleep"}
WritePC == {"write", "put", "put_asleep"}

Minus(i, j) == (i + IdxMod - j) % IdxMod
Cell(i) == i % INPUT_BUF_SIZE
\* The contents of the ring from index i to j.
Between(i, j) == [k \in 1..Minus(j, i) |-> buf[Cell(i + k - 1)]]

Init ==
    /\ workload \in Workloads
    /\ calls = workload.calls /\ keys = workload.typed /\ kills = workload.kills
    /\ buf = [i \in 0..(INPUT_BUF_SIZE - 1) |-> "nul"]
    /\ r = workload.start /\ w = workload.start /\ e = workload.start
    /\ lock = Nobody
    /\ tx_busy = FALSE
    /\ tx = <<>> /\ rx = <<>> /\ thre \in BOOLEAN
    /\ hpc = "idle" /\ char = NoKey /\ echo = <<>>
    /\ pc = [p \in Procs |-> "user"]
    /\ n = [p \in Procs |-> 0] /\ target = [p \in Procs |-> 0]
    /\ chunk = [p \in Procs |-> 0]
    /\ killed = [p \in Procs |-> FALSE] /\ missed = [p \in Procs |-> FALSE]
    /\ got = [p \in Procs |-> <<>>]
    /\ offered = [p \in Procs |-> 0] /\ shown = [p \in Procs |-> 0]

Goto(p, at) == pc' = [pc EXCEPT ![p] = at]
\* wakeup: who sleeps at this place goes on with its loop.
Wakeup(from, to) == pc' = [p \in Procs |-> IF pc[p] = from THEN to ELSE pc[p]]

-----------------------------------------------------------------------------
(* The UART.                                                               *)

\* A character arrives.
Receive ==
    /\ keys > 0 /\ Len(rx) < RxDepth
    /\ \E c \in workload.keys : rx' = Append(rx, c)
    /\ keys' = keys - 1
    /\ UNCHANGED <<cons, lock, tx_busy, tx, thre, shown, handler, locals,
                   workload, calls, kills, killed>>

\* A character leaves; when it was the last one, there is an interrupt.
Transmit ==
    /\ tx # <<>>
    /\ tx' = Tail(tx)
    /\ thre' = (Tail(tx) = <<>>)
    /\ shown' = IF Head(tx).by \in Procs
                  THEN [shown EXCEPT ![Head(tx).by] = Head(tx).nr] ELSE shown
    /\ UNCHANGED <<cons, lock, tx_busy, rx, handler, locals, inputs>>

TxIdle == tx = <<>>
\* WriteReg(THR): the interrupt, if there is one, is withdrawn.
PutTHR(by, nr) ==
    /\ tx' = Append(tx, [by |-> by, nr |-> nr])
    /\ thre' = FALSE

-----------------------------------------------------------------------------
(* uartintr.                                                               *)

\* ReadReg(ISR) acknowledges what it reports, received characters before the
\* transmitter; those stay until they are read.
IntrBegin ==
    /\ hpc = "idle"
    /\ thre \/ rx # <<>>
    /\ thre' = (thre /\ rx # <<>>)
    /\ hpc' = "tx"
    /\ UNCHANGED <<cons, lock, tx_busy, tx, rx, shown, char, echo, locals, inputs>>

IntrTx ==
    /\ hpc = "tx"
    /\ hpc' = "getc"
    /\ IF TxIdle THEN tx_busy' = FALSE /\ Wakeup("put_asleep", "put")
                 ELSE UNCHANGED <<tx_busy, pc>>
    /\ UNCHANGED <<cons, lock, tx, thre, rx, shown, char, echo, n, target, chunk, got,
                   offered, missed, inputs>>

\* Mutant: the interrupt is acknowledged at the end of the handler, too.
IntrEndAcks ==
    /\ hpc = "getc" /\ rx = <<>>
    /\ hpc' = "idle" /\ thre' = FALSE
    /\ UNCHANGED <<cons, lock, tx_busy, tx, rx, shown, char, echo, locals, inputs>>

IntrEnd ==
    /\ hpc = "getc" /\ rx = <<>>
    /\ hpc' = "idle"
    /\ UNCHANGED <<cons, lock, uart, char, echo, locals, inputs>>

-----------------------------------------------------------------------------
(* consoleintr.                                                            *)

\* consputc(BACKSPACE), k times.
RubOut(k) == [i \in 1..(3 * k) |-> IF i % 3 = 2 THEN "blank" ELSE "back"]

\* What C('U') erases: back to the newline before the line, or to what was handed over.
LineLength ==
    LET typed == Between(w, e) IN
    Cardinality({i \in DOMAIN typed : \A j \in i..Len(typed) : typed[j] # "nl"})

Erased(c) == IF c = "kill" THEN LineLength ELSE IF c = "bs" /\ e # w THEN 1 ELSE 0

\* Mutant: the room is counted from the write index: what is not read is overwritten.
RoomPastReader == Minus(e, w) < INPUT_BUF_SIZE

Room == Minus(e, r) < INPUT_BUF_SIZE

StoredAs(c) == IF c = "cr" THEN "nl" ELSE c

ConsoleIntr ==
    LET c == Head(rx)
        stored == c \notin {"list", "kill", "bs", "nul"} /\ Room
    IN
    /\ hpc = "getc" /\ rx # <<>>
    /\ lock = Nobody
    /\ lock' = "intr"
    /\ rx' = Tail(rx)
    /\ e' = Minus(e, Erased(c))
    /\ char' = IF stored THEN StoredAs(c) ELSE NoKey
    /\ echo' = IF stored THEN <<StoredAs(c)>>
               ELSE IF c = "list" THEN <<"list">> ELSE RubOut(Erased(c))
    /\ hpc' = "echo"
    /\ UNCHANGED <<buf, r, w, tx_busy, tx, thre, shown, locals, inputs>>

\* uartputc_sync waits without tx_lock until the transmitter is idle ...
EchoWait ==
    /\ hpc = "echo" /\ echo # <<>>
    /\ TxIdle
    /\ hpc' = "thr"
    /\ UNCHANGED <<cons, lock, uart, char, echo, locals, inputs>>

\* ... and writes; uartwrite on another CPU may have been faster.
EchoPut ==
    /\ hpc = "thr"
    /\ PutTHR("intr", 0)
    /\ echo' = Tail(echo)
    /\ hpc' = "echo"
    /\ UNCHANGED <<cons, lock, tx_busy, rx, shown, char, locals, inputs>>

\* The key is stored; a line that ends, or a full buffer, is handed to the readers.
Store ==
    /\ hpc = "echo" /\ echo = <<>> /\ char # NoKey
    /\ buf' = [buf EXCEPT ![Cell(e)] = char]
    /\ e' = (e + 1) % IdxMod
    /\ IF char \in {"nl", "eof"} \/ Minus(e', r) = INPUT_BUF_SIZE
         THEN w' = e' /\ Wakeup("read_asleep", "read_lock")
         ELSE UNCHANGED <<w, pc>>
    /\ char' = NoKey
    /\ lock' = Nobody
    /\ hpc' = "getc"
    /\ UNCHANGED <<r, uart, echo, n, target, chunk, got, offered, missed, inputs>>

NotStored ==
    /\ hpc = "echo" /\ echo = <<>> /\ char = NoKey
    /\ lock' = Nobody
    /\ hpc' = "getc"
    /\ UNCHANGED <<cons, uart, char, echo, locals, inputs>>

-----------------------------------------------------------------------------
(* consoleread.                                                            *)

BeginCall(p) ==
    /\ pc[p] = "user" /\ ~killed[p]
    /\ calls[p] > 0
    /\ calls' = [calls EXCEPT ![p] = @ - 1]

ReadBegin(p) ==
    /\ BeginCall(p)
    /\ \E k \in workload.reads[p] :
          n' = [n EXCEPT ![p] = k] /\ target' = [target EXCEPT ![p] = k]
    /\ got' = [got EXCEPT ![p] = <<>>]
    /\ Goto(p, "read_lock")
    /\ UNCHANGED <<cons, lock, uart, handler, chunk, offered, missed,
                   workload, keys, kills, killed>>

\* acquire(&cons.lock), at the beginning or in sleep.
ReadLock(p) ==
    /\ pc[p] = "read_lock" /\ lock = Nobody
    /\ lock' = p
    /\ Goto(p, "read")
    /\ UNCHANGED <<cons, uart, handler, n, target, chunk, got, offered, missed, inputs>>

Unlock(p, to) == lock' = Nobody /\ Goto(p, to)

\* Nothing to read: killed?
ReadTest(p) ==
    /\ pc[p] = "read" /\ n[p] > 0 /\ r = w
    /\ IF killed[p] THEN Unlock(p, "user") ELSE Goto(p, "read_sleep") /\ UNCHANGED lock
    /\ UNCHANGED <<cons, uart, handler, n, target, chunk, got, offered, missed, inputs>>

ReadSleep(p) ==
    /\ pc[p] = "read_sleep"
    /\ Unlock(p, "read_asleep")
    /\ missed' = [missed EXCEPT ![p] = killed[p]]
    /\ UNCHANGED <<cons, uart, handler, n, target, chunk, got, offered, inputs>>

\* A read of nothing returns at once.
ReadNothing(p) ==
    /\ pc[p] = "read" /\ n[p] = 0
    /\ Unlock(p, "user")
    /\ UNCHANGED <<cons, uart, handler, n, target, chunk, got, offered, missed, inputs>>

Available(p) == pc[p] = "read" /\ n[p] > 0 /\ r # w
Next_r == (r + 1) % IdxMod

\* C('D') ends the read, and is kept for the next one if this one has read something.
ReadEof(p) ==
    /\ Available(p) /\ buf[Cell(r)] = "eof"
    /\ r' = IF n[p] < target[p] THEN r ELSE Next_r
    /\ Unlock(p, "user")
    /\ UNCHANGED <<buf, w, e, uart, handler, n, target, chunk, got, offered, missed, inputs>>

ReadByte(p) ==
    /\ Available(p) /\ buf[Cell(r)] # "eof"
    /\ r' = Next_r
    /\ got' = [got EXCEPT ![p] = Append(@, buf[Cell(r)])]
    /\ n' = [n EXCEPT ![p] = @ - 1]
    /\ IF buf[Cell(r)] = "nl" \/ n'[p] = 0 THEN Unlock(p, "user") ELSE UNCHANGED <<lock, pc>>
    /\ UNCHANGED <<buf, w, e, uart, handler, target, chunk, offered, missed, inputs>>

\* copyout fails: the character is gone.
ReadBadAddress(p) ==
    /\ workload.bad
    /\ Available(p) /\ buf[Cell(r)] # "eof"
    /\ r' = Next_r
    /\ Unlock(p, "user")
    /\ UNCHANGED <<buf, w, e, uart, handler, n, target, chunk, got, offered, missed, inputs>>

-----------------------------------------------------------------------------
(* consolewrite and uartwrite.                                             *)

WriteBegin(p) ==
    /\ BeginCall(p)
    /\ \E k \in workload.writes[p] : n' = [n EXCEPT ![p] = k]
    /\ Goto(p, "write")
    /\ UNCHANGED <<cons, lock, uart, handler, target, chunk, got, offered, missed,
                   workload, keys, kills, killed>>

\* The next part is copied in, if there is one and it can be.
WriteChunk(p) ==
    LET size == IF n[p] < ChunkSize THEN n[p] ELSE ChunkSize IN
    /\ pc[p] = "write" /\ n[p] > 0
    /\ chunk' = [chunk EXCEPT ![p] = size]
    /\ n' = [n EXCEPT ![p] = @ - size]
    /\ offered' = [offered EXCEPT ![p] = @ + size]
    /\ Goto(p, "put")
    /\ UNCHANGED <<cons, lock, uart, handler, target, got, missed, inputs>>

WriteEnd(p) ==
    /\ pc[p] = "write" /\ (n[p] = 0 \/ workload.bad)
    /\ Goto(p, "user")
    /\ UNCHANGED <<cons, lock, uart, handler, n, target, chunk, got, offered, missed, inputs>>

\* uartwrite finds the UART busy.
PutSleep(p) ==
    /\ pc[p] = "put" /\ tx_busy
    /\ Goto(p, "put_asleep")
    /\ UNCHANGED <<cons, lock, uart, handler, n, target, chunk, got, offered, missed, inputs>>

\* It sends a character, and does not look whether an echo is on its way.
Put(p) ==
    /\ pc[p] = "put" /\ ~tx_busy
    /\ PutTHR(p, offered[p] - chunk[p] + 1)
    /\ tx_busy' = TRUE
    /\ chunk' = [chunk EXCEPT ![p] = @ - 1]
    /\ Goto(p, IF chunk'[p] = 0 THEN "write" ELSE "put")
    /\ UNCHANGED <<cons, lock, rx, shown, handler, n, target, got, offered, missed, inputs>>

-----------------------------------------------------------------------------
\* kkill wakes whoever sleeps: a reader tests killed again, a writer tx_busy.
Kill(p) ==
    /\ kills > 0 /\ ~killed[p] /\ pc[p] # "user"
    /\ kills' = kills - 1
    /\ killed' = [killed EXCEPT ![p] = TRUE]
    /\ Goto(p, IF pc[p] = "read_asleep" THEN "read_lock"
               ELSE IF pc[p] = "put_asleep" THEN "put" ELSE pc[p])
    /\ UNCHANGED <<cons, lock, uart, handler, n, target, chunk, got, offered, missed,
                   workload, calls, keys>>

Interrupt ==
    \/ IntrBegin \/ IntrTx \/ IntrEnd
    \/ ConsoleIntr \/ EchoWait \/ EchoPut \/ Store \/ NotStored

Kernel(p) ==
    \/ ReadLock(p) \/ ReadNothing(p) \/ ReadTest(p) \/ ReadSleep(p)
    \/ ReadEof(p) \/ ReadByte(p) \/ ReadBadAddress(p)
    \/ WriteChunk(p) \/ WriteEnd(p) \/ PutSleep(p) \/ Put(p)

Next ==
    \/ Receive \/ Transmit \/ Interrupt
    \/ \E p \in Procs : ReadBegin(p) \/ WriteBegin(p) \/ Kernel(p) \/ Kill(p)

\* The UART sends, its interrupts are taken, and processes in the kernel get a CPU.
Spec ==
    /\ Init /\ [][Next]_vars
    /\ WF_vars(Transmit)
    /\ WF_vars(Interrupt)
    /\ \A p \in Procs : WF_vars(Kernel(p))

-----------------------------------------------------------------------------
\* Every write returns, although the interrupt that says "idle" is also raised by echoes,
\* withdrawn by other writers and shared with the input; a read returns when there is
\* a line for it, or when its process is killed, unless the kill came between the test
\* of killed and the sleep (console.c:96-100).
CallsReturn ==
    \A p \in Procs :
        /\ pc[p] \in WritePC ~> pc[p] = "user"
        /\ pc[p] \in ReadPC /\ r # w ~> pc[p] = "user" \/ r = w
        /\ pc[p] \in ReadPC /\ killed[p] ~> pc[p] = "user" \/ missed[p]

Promise == INSTANCE Terminal WITH
    Size <- INPUT_BUF_SIZE, Keys <- Stored, Newline <- "nl", Eof <- "eof",
    ready <- Between(r, w), line <- Between(w, e), written <- offered

\* The ring with its three indices, which wrap, keeps what is typed and not yet read, and
\* the UART shows every character of every write, once and in order.
ImplementsTerminal == Promise!Spec
=============================================================================

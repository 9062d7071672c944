----------------------------- MODULE SymbolPool -----------------------------
(***************************************************************************)
(* The concurrent servers that hand out symbols, with their clients        *)
(* (lab-socket/task-04: processes, task-05: threads).                      *)
(*                                                                         *)
(* A shared array holds symbols; '-' marks one that is taken.  A client    *)
(* loops: it connects as a reader and gets a copy of the array, finds the  *)
(* first symbol in it, connects as a writer, sends that index and gets the *)
(* symbol or an error.  The server runs one handler for every connection,  *)
(* a child process (task-04) or a thread (task-05), and the handlers       *)
(* synchronise with four semaphores.  `threaded', chosen once in Init,     *)
(* says which of the two programs runs.                                    *)
(*                                                                         *)
(* Handlers are named by their client and by what they do: at most one     *)
(* reading and one writing handler of a client are alive (HandlersEnd).    *)
(* connect, accept, fork or pthread_create, and the handler's recv of the  *)
(* operation happen in one step: nothing shared is touched before the      *)
(* first semop.                                                            *)
(***************************************************************************)
EXTENDS SysVSem, FiniteSets

CONSTANTS
    Clients,    \* CHILD_COUNT processes or THREAD_COUNT threads
    Size,       \* the length of the array (52)
    Shared      \* names the one idx the threads of a client process share

ASSUME ClientsAssumption ==
    IsFiniteSet(Clients) /\ Clients # {} /\ Shared \notin Clients

ASSUME SizeAssumption == Size \in Nat \ {0}

VARIABLES
    threaded,  \* task-05 if TRUE, task-04 if FALSE
    shm_buf,   \* the array: shm_buf[i] is TRUE while symbol i is not '-'
    sem,       \* the four semaphores
    server,    \* where main is; "failed", "crashed": it ended, the IPC objects left
    rpc,       \* where the reading handler of each client is
    copied,    \* how many cells it has copied
    copy,      \* its copy
    wpc,       \* where the writing handler of each client is
    widx,      \* the index it was sent
    cpc,       \* where each client is
    idx,       \* first_unoccupied_idx
    got,       \* the symbols each client was given
    left       \* history: the units that handlers have left behind in each semaphore

vars == <<threaded, shm_buf, sem, server, rpc, copied, copy, wpc, widx, cpc, idx, got,
          left>>

Cells == 0 .. Size - 1
Sems == 0 .. 3

\* The variable first_unoccupied_idx that client c uses.
Own(c) == IF threaded THEN Shared ELSE c

SEM_WAITING_READERS == 0
SEM_ACTIVE_READERS  == 1
SEM_ACTIVE_WRITER   == 2
SEM_WAITING_WRITERS == 3

\* A slip: the closing P is forgotten.
start_read_NoLastP ==
    << SemOp(SEM_WAITING_READERS, 1), SemOp(SEM_ACTIVE_WRITER, 0),
       SemOp(SEM_WAITING_WRITERS, 0), SemOp(SEM_ACTIVE_READERS, 1) >>

start_read ==
    << SemOp(SEM_WAITING_READERS, 1), SemOp(SEM_ACTIVE_WRITER, 0),
       SemOp(SEM_WAITING_WRITERS, 0), SemOp(SEM_WAITING_READERS, -1),
       SemOp(SEM_ACTIVE_READERS, 1) >>

stop_read == << SemOp(SEM_ACTIVE_READERS, -1) >>

\* A slip: a writer does not wait for the readers.
start_write_NoWait ==
    << SemOp(SEM_WAITING_WRITERS, 1), SemOp(SEM_ACTIVE_WRITER, 1),
       SemOp(SEM_WAITING_WRITERS, -1) >>

start_write ==
    << SemOp(SEM_WAITING_WRITERS, 1), SemOp(SEM_ACTIVE_READERS, 0),
       SemOp(SEM_ACTIVE_WRITER, 1), SemOp(SEM_WAITING_WRITERS, -1) >>

stop_write == << SemOp(SEM_ACTIVE_WRITER, -1) >>

\* "none": no handler.
ReaderPC == {"none", "start", "copy", "stop"}
WriterPC == {"none", "start", "test", "mark", "send", "stop"}
ClientPC == {"loop", "reading", "received", "chosen", "writing", "exited"}

TypeOK ==
    /\ threaded \in BOOLEAN
    /\ shm_buf \in [Cells -> BOOLEAN]
    /\ sem \in [Sems -> Nat]
    /\ server \in {"up", "closing", "detached", "stopped", "failed", "crashed"}
    /\ rpc \in [Clients -> ReaderPC]
    /\ copied \in [Clients -> 0 .. Size]
    /\ copy \in [Clients -> [Cells -> BOOLEAN]]
    /\ wpc \in [Clients -> WriterPC]
    /\ widx \in [Clients -> -1 .. Size - 1]
    /\ cpc \in [Clients -> ClientPC]
    /\ idx \in [Clients \cup {Shared} -> -1 .. Size - 1]
    /\ got \in [Clients -> SUBSET Cells]
    /\ left \in [{SEM_ACTIVE_READERS, SEM_ACTIVE_WRITER} -> Nat]

\* main has set up the socket, filled the array and zeroed the semaphores.
Init ==
    /\ threaded \in BOOLEAN
    /\ shm_buf = [i \in Cells |-> TRUE]
    /\ sem = [n \in Sems |-> 0]
    /\ server = "up"
    /\ rpc = [c \in Clients |-> "none"]
    /\ copied = [c \in Clients |-> 0]
    /\ copy = [c \in Clients |-> [i \in Cells |-> FALSE]]
    /\ wpc = [c \in Clients |-> "none"]
    /\ widx = [c \in Clients |-> 0]
    /\ cpc = [c \in Clients |-> "loop"]
    /\ idx = [c \in Clients \cup {Shared} |-> 0]
    /\ got = [c \in Clients |-> {}]
    /\ left = [n \in {SEM_ACTIVE_READERS, SEM_ACTIVE_WRITER} |-> 0]

client == <<cpc, idx, got>>
readers == <<rpc, copied, copy>>
writers == <<wpc, widx>>

-----------------------------------------------------------------------------
\* Threads use main's attachment, child processes have their own.
Mapped == ~(threaded /\ server = "detached")

(* The reading handler: reader(). *)

ReaderGoes(c, from, to) == rpc[c] = from /\ rpc' = [rpc EXCEPT ![c] = to]

\* semop(start_read): a handler sleeps in "start" until it can be done.
StartRead(c) ==
    /\ ReaderGoes(c, "start", "copy")
    /\ server # "stopped"
    /\ Passes(sem, start_read)
    /\ sem' = After(sem, start_read)
    /\ copied' = [copied EXCEPT ![c] = 0]
    /\ UNCHANGED <<threaded, shm_buf, server, copy, writers, client, left>>

\* strncpy, one cell at a time.
CopyCell(c) ==
    /\ rpc[c] = "copy" /\ copied[c] < Size /\ Mapped
    /\ copy' = [copy EXCEPT ![c][copied[c]] = shm_buf[copied[c]]]
    /\ copied' = [copied EXCEPT ![c] = @ + 1]
    /\ UNCHANGED <<threaded, shm_buf, sem, server, rpc, writers, client, left>>

\* The first symbol of client c's copy, -1 if there is none.
find_first_unoccupied_index(c) ==
    IF \E i \in Cells : copy[c][i]
    THEN CHOOSE i \in Cells : copy[c][i] /\ \A j \in Cells : j < i => ~copy[c][j]
    ELSE -1

\* A handler ends inside: it never gives back the unit its first semop put in n.
LeavesUnit(n) == left' = [left EXCEPT ![n] = @ + 1]

\* send of the copy to the client.
SendCopy(c) ==
    /\ ReaderGoes(c, "copy", "stop") /\ copied[c] = Size
    /\ cpc' = IF cpc[c] = "reading" THEN [cpc EXCEPT ![c] = "received"] ELSE cpc
    /\ UNCHANGED <<threaded, shm_buf, sem, server, copied, copy, writers, idx, got, left>>

\* send is -1: the reader returns, or its process exits, without stop_read, and
\* nothing is sent.
SendCopyFails(c) ==
    /\ ReaderGoes(c, "copy", "none") /\ copied[c] = Size
    /\ LeavesUnit(SEM_ACTIVE_READERS)
    /\ UNCHANGED <<threaded, shm_buf, sem, server, copied, copy, writers, client>>

StopRead(c) ==
    /\ ReaderGoes(c, "stop", "none")
    /\ server # "stopped"
    /\ Passes(sem, stop_read)
    /\ sem' = After(sem, stop_read)
    /\ UNCHANGED <<threaded, shm_buf, server, copied, copy, writers, client, left>>

-----------------------------------------------------------------------------
(* The writing handler: writer(). *)

WriterGoes(c, from, to) == wpc[c] = from /\ wpc' = [wpc EXCEPT ![c] = to]

StartWrite(c) ==
    /\ WriterGoes(c, "start", "test")
    /\ server # "stopped"
    /\ Passes(sem, start_write)
    /\ sem' = After(sem, start_write)
    /\ UNCHANGED <<threaded, shm_buf, server, readers, widx, client, left>>

\* send: the client gets the writer's answer, a symbol or an error (no symbol).
Answer(c, symbols) ==
    IF cpc[c] = "writing"
    THEN /\ cpc' = [cpc EXCEPT ![c] = "loop"]
         /\ got' = [got EXCEPT ![c] = @ \cup symbols]
    ELSE UNCHANGED <<cpc, got>>

\* An index out of range: an error is sent, or the send fails, and the handler
\* ends at once, without stop_write.  The SIGINT that task-04 raises first reaches
\* the handler's own process only, which has closed its listening socket: it
\* changes nothing.
OutOfRange(c) ==
    /\ WriterGoes(c, "test", "none")
    /\ widx[c] \notin Cells
    /\ Answer(c, {}) \/ UNCHANGED <<cpc, got>>
    /\ LeavesUnit(SEM_ACTIVE_WRITER)
    /\ UNCHANGED <<threaded, shm_buf, sem, server, readers, widx, idx>>

\* ch = shm_buf[idx] is '-': the symbol is occupied.
Occupied(c) ==
    /\ WriterGoes(c, "test", "stop")
    /\ widx[c] \in Cells /\ ~shm_buf[widx[c]] /\ Mapped
    /\ Answer(c, {})
    /\ UNCHANGED <<threaded, shm_buf, sem, server, readers, widx, idx, left>>

\* ch = shm_buf[idx] is a symbol.
FindFree(c) ==
    /\ WriterGoes(c, "test", "mark")
    /\ widx[c] \in Cells /\ shm_buf[widx[c]] /\ Mapped
    /\ UNCHANGED <<threaded, shm_buf, sem, server, readers, widx, client, left>>

\* shm_buf[idx] = '-'
Mark(c) ==
    /\ WriterGoes(c, "mark", "send") /\ Mapped
    /\ shm_buf' = [shm_buf EXCEPT ![widx[c]] = FALSE]
    /\ UNCHANGED <<threaded, sem, server, readers, widx, client, left>>

SendSymbol(c) ==
    /\ WriterGoes(c, "send", "stop")
    /\ Answer(c, {widx[c]})
    /\ UNCHANGED <<threaded, shm_buf, sem, server, readers, widx, idx, left>>

\* send of the symbol or of the error is -1: the writer ends without stop_write.
SendSymbolFails(c) ==
    /\ \/ WriterGoes(c, "send", "none")
       \/ WriterGoes(c, "test", "none") /\ widx[c] \in Cells /\ ~shm_buf[widx[c]] /\ Mapped
    /\ LeavesUnit(SEM_ACTIVE_WRITER)
    /\ UNCHANGED <<threaded, shm_buf, sem, server, readers, widx, client>>

StopWrite(c) ==
    /\ WriterGoes(c, "stop", "none")
    /\ server # "stopped"
    /\ Passes(sem, stop_write)
    /\ sem' = After(sem, stop_write)
    /\ UNCHANGED <<threaded, shm_buf, server, readers, widx, client, left>>

-----------------------------------------------------------------------------
(* The clients. *)

ConnectRead(c) ==
    /\ cpc[c] = "loop" /\ server = "up"
    /\ cpc' = [cpc EXCEPT ![c] = "reading"]
    /\ rpc' = [rpc EXCEPT ![c] = "start"]
    /\ UNCHANGED <<threaded, shm_buf, sem, server, copied, copy, writers, idx, got, left>>

\* recv of the copy: the client finds its index.
TakeCopy(c) ==
    /\ cpc[c] = "received"
    /\ cpc' = [cpc EXCEPT ![c] = "chosen"]
    /\ idx' = [idx EXCEPT ![Own(c)] = find_first_unoccupied_index(c)]
    /\ UNCHANGED <<threaded, shm_buf, sem, server, readers, writers, got, left>>

\* The index is sent as it is now, which the threads of a client share.
ConnectWrite(c) ==
    /\ cpc[c] = "chosen" /\ server = "up"
    /\ cpc' = [cpc EXCEPT ![c] = "writing"]
    /\ wpc' = [wpc EXCEPT ![c] = "start"]
    /\ widx' = [widx EXCEPT ![c] = idx[Own(c)]]
    /\ UNCHANGED <<threaded, shm_buf, sem, server, readers, idx, got, left>>

\* connect fails when the server is gone, and SIGINT ends the client's loop:
\* a child process leaves after its round, a thread dies with its process.  It
\* leaves too when its recv fails, on a connection whose handler has ended.
ClientExits(c) ==
    /\ \/ cpc[c] = "loop"
       \/ cpc[c] = "chosen" /\ server # "up"
       \/ cpc[c] = "reading" /\ rpc[c] = "none"
       \/ cpc[c] = "writing" /\ wpc[c] = "none"
    /\ cpc' = [cpc EXCEPT ![c] = "exited"]
    /\ UNCHANGED <<threaded, shm_buf, sem, server, readers, writers, idx, got, left>>

ClientThreadsExit ==
    /\ threaded
    /\ \E c \in Clients : cpc[c] # "exited"
    /\ cpc' = [c \in Clients |-> "exited"]
    /\ UNCHANGED <<threaded, shm_buf, sem, server, readers, writers, idx, got, left>>

\* The handler ended without an answer and recv returns 0, which is not an error
\* to the client: the empty copy has no symbol in it, and no symbol was given.
ReadEof(c) ==
    /\ cpc[c] = "reading" /\ rpc[c] = "none"
    /\ cpc' = [cpc EXCEPT ![c] = "chosen"]
    /\ idx' = [idx EXCEPT ![Own(c)] = -1]
    /\ UNCHANGED <<threaded, shm_buf, sem, server, readers, writers, got, left>>

WriteEof(c) ==
    /\ cpc[c] = "writing" /\ wpc[c] = "none"
    /\ cpc' = [cpc EXCEPT ![c] = "loop"]
    /\ UNCHANGED <<threaded, shm_buf, sem, server, readers, writers, idx, got, left>>

-----------------------------------------------------------------------------
(* The server's main. *)

\* SIGINT: the listening socket is shut down, accept fails and the loop ends.
SigintServer ==
    /\ server = "up"
    /\ server' = "closing"
    /\ UNCHANGED <<threaded, shm_buf, sem, readers, writers, client, left>>

\* shmdt
Detach ==
    /\ server = "closing"
    /\ server' = "detached"
    /\ UNCHANGED <<threaded, shm_buf, sem, readers, writers, client, left>>

AllHandlersGone ==
    /\ rpc' = [c \in Clients |-> "none"]
    /\ wpc' = [c \in Clients |-> "none"]

\* shmctl and semctl remove the objects, then exit, which ends the threads.
Remove ==
    /\ server = "detached"
    /\ server' = "stopped"
    /\ IF threaded THEN AllHandlersGone ELSE UNCHANGED <<rpc, wpc>>
    /\ UNCHANGED <<threaded, shm_buf, sem, copied, copy, widx, client, left>>

\* A thread touches the array after shmdt: SIGSEGV ends the server before it
\* has removed the objects.
SegFault ==
    /\ ~Mapped
    /\ \E c \in Clients : \/ rpc[c] = "copy" /\ copied[c] < Size
                          \/ wpc[c] = "test" /\ widx[c] \in Cells
                          \/ wpc[c] = "mark"
    /\ server' = "crashed"
    /\ AllHandlersGone
    /\ UNCHANGED <<threaded, shm_buf, sem, copied, copy, widx, client, left>>

\* A thread sends to a client that is gone: SIGPIPE, which nobody handles, ends
\* the server with all its threads.  (A child process of task-04 dies alone: that
\* is a send that fails.)
SigPipe ==
    /\ threaded
    /\ \E c \in Clients :
          /\ cpc[c] = "exited"
          /\ \/ rpc[c] = "copy" /\ copied[c] = Size
             \/ wpc[c] = "test" /\ (widx[c] \in Cells => ~shm_buf[widx[c]] /\ Mapped)
             \/ wpc[c] = "send"
    /\ server' = "crashed"
    /\ AllHandlersGone
    /\ UNCHANGED <<threaded, shm_buf, sem, copied, copy, widx, client, left>>

\* fork fails: main exits and leaves the objects to the handlers.
ForkFails ==
    /\ server = "up" /\ ~threaded
    /\ server' = "failed"
    /\ UNCHANGED <<threaded, shm_buf, sem, readers, writers, client, left>>

\* semop fails and the handler ends where it stands: the set was removed
\* (EIDRM), or the server's SIGINT woke it in its first semop (EINTR).
SemopFails(at, ops) ==
    \/ server = "stopped" /\ at \in {"start", "stop"}
    \/ server \in {"closing", "detached"} /\ at = "start" /\ ~Passes(sem, ops)

ReaderFails(c) ==
    /\ SemopFails(rpc[c], start_read)
    /\ rpc' = [rpc EXCEPT ![c] = "none"]
    /\ UNCHANGED <<threaded, shm_buf, sem, server, copied, copy, writers, client, left>>

WriterFails(c) ==
    /\ SemopFails(wpc[c], start_write)
    /\ wpc' = [wpc EXCEPT ![c] = "none"]
    /\ UNCHANGED <<threaded, shm_buf, sem, server, readers, widx, client, left>>

-----------------------------------------------------------------------------
ReaderStep(c) ==
    \/ StartRead(c) \/ CopyCell(c) \/ SendCopy(c) \/ SendCopyFails(c) \/ StopRead(c)
    \/ ReaderFails(c)

WriterStep(c) ==
    \/ StartWrite(c) \/ OutOfRange(c) \/ Occupied(c) \/ FindFree(c) \/ Mark(c)
    \/ SendSymbol(c) \/ SendSymbolFails(c) \/ StopWrite(c) \/ WriterFails(c)

ClientStep(c) ==
    \/ ConnectRead(c) \/ TakeCopy(c) \/ ConnectWrite(c) \/ ClientExits(c)
    \/ ReadEof(c) \/ WriteEof(c)

ServerStep == SigintServer \/ Detach \/ Remove \/ SegFault \/ SigPipe \/ ForkFails

Next ==
    \/ \E c \in Clients : ReaderStep(c) \/ WriterStep(c) \/ ClientStep(c)
    \/ ServerStep \/ ClientThreadsExit

Spec == Init /\ [][Next]_vars

-----------------------------------------------------------------------------
(* Properties *)

\* The handlers and the semaphores they use are still there.
HandlersRun == server \notin {"stopped", "crashed"}

ActiveReaders == {c \in Clients : rpc[c] \in {"copy", "stop"}}
ActiveWriters == {c \in Clients : wpc[c] \in {"test", "mark", "send", "stop"}}

\* A copy that is being made or sent is the array as it is now: a client never
\* gets a mixture of two states of the array.
CopyIsCurrent ==
    HandlersRun =>
        \A c \in ActiveReaders : \A i \in 0 .. copied[c] - 1 : copy[c][i] = shm_buf[i]

\* ACTIVE_READERS and ACTIVE_WRITER count the handlers inside and, for good, one
\* unit for every handler that ended inside: after an index out of range, and
\* after a send that failed.  Units of readers and of writers are never up
\* together, and nothing is left in the two that count who waits.
SemAccounting ==
    /\ TypeOK
    /\ HandlersRun =>
           /\ sem[SEM_ACTIVE_READERS] = Cardinality(ActiveReaders) + left[SEM_ACTIVE_READERS]
           /\ sem[SEM_ACTIVE_WRITER] = Cardinality(ActiveWriters) + left[SEM_ACTIVE_WRITER]
           /\ sem[SEM_ACTIVE_READERS] = 0 \/ sem[SEM_ACTIVE_WRITER] = 0
           /\ sem[SEM_WAITING_READERS] = 0 /\ sem[SEM_WAITING_WRITERS] = 0

\* The handler of a client's last connection but one has ended before the
\* client can open another of its kind.
HandlersEnd ==
    server = "up" =>
        \A c \in Clients : /\ cpc[c] = "loop" => rpc[c] = "none"
                           /\ cpc[c] = "chosen" => wpc[c] = "none"

\* What the README asks of writers, for the symbols they hand out: nobody else
\* gets at a symbol that a writer is taking, so it is given to one client only.
SymbolGivenOnce == \A c, d \in Clients : c # d => got[c] \cap got[d] = {}
=============================================================================

---------------------------- MODULE SelectServer ----------------------------
(***************************************************************************)
(* The server that hands out symbols with select, and its client threads   *)
(* (lab-socket/task-06).                                                   *)
(*                                                                         *)
(* One thread multiplexes: after select it walks over ALL descriptors up   *)
(* to the largest one, without asking which are ready.  On the listening   *)
(* socket it calls accept, which blocks until a client connects; on every  *)
(* other descriptor, standard input and output included, it calls          *)
(* client_service, which blocks until a connected client has sent its      *)
(* request, and closes the descriptor.                                     *)
(*                                                                         *)
(* A client loops as in SymbolPool: it reads the array, takes the first    *)
(* symbol's index from the copy into a variable all threads share, and     *)
(* asks for the symbol at that index.  When no symbol is left a client     *)
(* asks for index -1 and the server ends itself with raise(SIGINT).        *)
(***************************************************************************)
EXTENDS Integers, Sequences, FiniteSets

CONSTANTS
    Clients,    \* the client threads
    Size,       \* the length of the array (52)
    StdFds      \* descriptors open before the listening socket (3)

ASSUME ClientsAssumption ==
    IsFiniteSet(Clients) /\ Clients # {} /\ Clients \cap {"free", "std", "socket"} = {}
ASSUME SizeAssumption == Size \in Nat \ {0} /\ StdFds \in Nat \ {0}

VARIABLES
    shm_buf,           \* shm_buf[i] is TRUE while symbol i is not '-'
    loop_flag,         \* cleared by SIGINT
    file,              \* what each descriptor of the server refers to
    master_set,        \* the descriptors select looks at
    active_fd_count,   \* the largest descriptor seen
    spc, fd,           \* where the server is; the descriptor it is at
    backlog,           \* the connections that wait for accept
    cpc,               \* where each client is
    sent,              \* the request on its connection: NoMessage, Read or an index
    reply,             \* the answer: NoMessage, an index, or -1 for none
    idx,               \* first_unoccupied_idx
    client_flag,       \* loop_flag of the client process
    got                \* the symbols each client was given

vars == <<shm_buf, loop_flag, file, master_set, active_fd_count, spc, fd,
          backlog, cpc, sent, reply, idx, client_flag, got>>
clients == <<cpc, idx, client_flag, got>>

Cells == 0 .. Size - 1
Indices == -1 .. Size - 1
NoMessage == -2
Read == -3
Listen == StdFds
Fds == 0 .. StdFds + 1
Waiting == {"connectR", "reading", "connectW", "writing"}

TypeOK ==
    /\ shm_buf \in [Cells -> BOOLEAN] /\ loop_flag \in BOOLEAN
    /\ file \in [Fds -> {"free", "std", "socket"} \cup Clients]
    /\ master_set \subseteq Fds /\ active_fd_count \in Fds
    /\ spc \in {"select", "scan", "ended"} /\ fd \in 0 .. StdFds + 2
    /\ \A k \in 1 .. Len(backlog) : backlog[k] \in Clients
    /\ cpc \in [Clients -> Waiting \cup {"loop", "chosen", "exited"}]
    /\ sent \in [Clients -> Indices \cup {NoMessage, Read}]
    /\ reply \in [Clients -> Indices \cup {NoMessage}]
    /\ idx \in Indices /\ client_flag \in BOOLEAN
    /\ got \in [Clients -> SUBSET Cells]

Init ==
    /\ shm_buf = [i \in Cells |-> TRUE] /\ loop_flag = TRUE
    /\ file = [f \in Fds |-> IF f < StdFds THEN "std" ELSE IF f = Listen THEN "socket" ELSE "free"]
    /\ master_set = {Listen} /\ active_fd_count = Listen
    /\ spc = "select" /\ fd = 0
    /\ backlog = <<>>
    /\ cpc = [c \in Clients |-> "loop"]
    /\ sent = [c \in Clients |-> NoMessage]
    /\ reply = [c \in Clients |-> NoMessage]
    /\ idx = 0 /\ client_flag = TRUE
    /\ got = [c \in Clients |-> {}]

-----------------------------------------------------------------------------
(* The server. *)

\* Data, or the end of the connection, can be read from descriptor f.
Ready(f) ==
    \/ f = Listen /\ backlog # <<>>
    \/ file[f] \in Clients /\ (sent[file[f]] # NoMessage \/ cpc[file[f]] = "exited")

Select ==
    /\ spc = "select" /\ loop_flag
    /\ \E f \in master_set : Ready(f)
    /\ spc' = "scan" /\ fd' = 0
    /\ UNCHANGED <<shm_buf, loop_flag, file, master_set, active_fd_count, backlog,
                   sent, reply, clients>>

\* The end of for, and of while if the flag was cleared: exit.
EndScan ==
    /\ spc = "scan" /\ fd > active_fd_count
    /\ spc' = IF loop_flag THEN "select" ELSE "ended"
    /\ UNCHANGED <<shm_buf, loop_flag, file, master_set, active_fd_count, fd, backlog,
                   sent, reply, clients>>

At(f) == spc = "scan" /\ fd = f /\ fd <= active_fd_count /\ fd' = fd + 1 /\ UNCHANGED spc

\* A slip: no FD_SET.
AcceptNoFdSet ==
    \E f \in Fds :
        /\ At(Listen) /\ file[Listen] = "socket" /\ backlog # <<>>
        /\ file[f] = "free" /\ \A e \in Fds : file[e] = "free" => f <= e
        /\ file' = [file EXCEPT ![f] = Head(backlog)]
        /\ backlog' = Tail(backlog)
        /\ active_fd_count' = IF f > active_fd_count THEN f ELSE active_fd_count
        /\ UNCHANGED <<shm_buf, loop_flag, master_set, sent, reply, clients>>

\* accept gives the lowest free descriptor; without a connection it blocks.
Accept ==
    \E f \in Fds :
        /\ At(Listen) /\ file[Listen] = "socket" /\ backlog # <<>>
        /\ file[f] = "free" /\ \A e \in Fds : file[e] = "free" => f <= e
        /\ file' = [file EXCEPT ![f] = Head(backlog)]
        /\ backlog' = Tail(backlog)
        /\ master_set' = master_set \cup {f}
        /\ active_fd_count' = IF f > active_fd_count THEN f ELSE active_fd_count
        /\ UNCHANGED <<shm_buf, loop_flag, sent, reply, clients>>

AcceptFails ==
    /\ At(Listen) /\ file[Listen] # "socket"
    /\ UNCHANGED <<shm_buf, loop_flag, file, master_set, active_fd_count, backlog,
                   sent, reply, clients>>

\* client_service ends: close and FD_CLR.
Close(f) ==
    /\ At(f) /\ f # Listen
    /\ file' = [file EXCEPT ![f] = "free"]
    /\ master_set' = master_set \ {f}
    /\ UNCHANGED <<active_fd_count, backlog, clients>>

\* recv fails: not a socket, not open, or the client has gone.
RecvFails(f) ==
    /\ \/ file[f] \in {"free", "std"}
       \/ file[f] \in Clients /\ cpc[file[f]] = "exited" /\ sent[file[f]] = NoMessage
    /\ Close(f)
    /\ UNCHANGED <<shm_buf, loop_flag, sent, reply>>

\* A slip: the search ends behind the array.
FirstUnoccupiedOrEnd ==
    IF \E i \in Cells : shm_buf[i]
    THEN CHOOSE i \in Cells : shm_buf[i] /\ \A j \in Cells : j < i => ~shm_buf[j]
    ELSE Size

\* What the client finds in its copy of the array.
FirstUnoccupied ==
    IF \E i \in Cells : shm_buf[i]
    THEN CHOOSE i \in Cells : shm_buf[i] /\ \A j \in Cells : j < i => ~shm_buf[j]
    ELSE -1

Answer(c, value) ==
    /\ sent' = [sent EXCEPT ![c] = NoMessage]
    /\ reply' = [reply EXCEPT ![c] = value]

reader(f) ==
    /\ file[f] \in Clients /\ sent[file[f]] = Read
    /\ Answer(file[f], FirstUnoccupied)
    /\ Close(f)
    /\ UNCHANGED <<shm_buf, loop_flag>>

\* A slip: the symbol is not marked.
WriterFindsFreeNoMark(f) ==
    /\ file[f] \in Clients /\ sent[file[f]] \in Cells
    /\ shm_buf[sent[file[f]]]
    /\ Answer(file[f], sent[file[f]])
    /\ Close(f)
    /\ UNCHANGED <<shm_buf, loop_flag>>

WriterFindsFree(f) ==
    /\ file[f] \in Clients /\ sent[file[f]] \in Cells
    /\ shm_buf[sent[file[f]]]
    /\ shm_buf' = [shm_buf EXCEPT ![sent[file[f]]] = FALSE]
    /\ Answer(file[f], sent[file[f]])
    /\ Close(f)
    /\ UNCHANGED loop_flag

WriterFindsOccupied(f) ==
    /\ file[f] \in Clients /\ sent[file[f]] \in Cells
    /\ ~shm_buf[sent[file[f]]]
    /\ Answer(file[f], -1)
    /\ Close(f)
    /\ UNCHANGED <<shm_buf, loop_flag>>

\* raise(SIGINT) and the answer: the listening socket is closed as well.
WriterOutOfRange(f) ==
    /\ file[f] \in Clients /\ sent[file[f]] = -1
    /\ At(f)
    /\ loop_flag' = FALSE
    /\ file' = [file EXCEPT ![f] = "free", ![Listen] = "free"]
    /\ master_set' = master_set \ {f}
    /\ Answer(file[f], -1)
    /\ UNCHANGED <<shm_buf, active_fd_count, backlog, clients>>

\* SIGINT: select fails with EINTR, which ends the loop; accept and recv are
\* restarted, accept on the closed socket.
sig_handler ==
    /\ loop_flag /\ spc # "ended"
    /\ loop_flag' = FALSE
    /\ file' = [file EXCEPT ![Listen] = "free"]
    /\ spc' = IF spc = "select" THEN "ended" ELSE spc
    /\ UNCHANGED <<shm_buf, master_set, active_fd_count, fd, backlog, sent, reply, clients>>

-----------------------------------------------------------------------------
(* The clients. *)

server == <<shm_buf, loop_flag, file, master_set, active_fd_count, spc, fd>>

Connect(c, from, to) ==
    /\ cpc[c] = from /\ file[Listen] = "socket"
    /\ cpc' = [cpc EXCEPT ![c] = to]
    /\ backlog' = Append(backlog, c)
    /\ UNCHANGED <<server, sent, reply, idx, client_flag, got>>

ConnectRead(c) == client_flag /\ Connect(c, "loop", "connectR")
ConnectWrite(c) == Connect(c, "chosen", "connectW")

\* send of the operation; a writer sends the index that is in idx by now.
Send(c) ==
    /\ \/ /\ cpc[c] = "connectR"
          /\ cpc' = [cpc EXCEPT ![c] = "reading"]
          /\ sent' = [sent EXCEPT ![c] = Read]
       \/ /\ cpc[c] = "connectW"
          /\ cpc' = [cpc EXCEPT ![c] = "writing"]
          /\ sent' = [sent EXCEPT ![c] = idx]
    /\ UNCHANGED <<server, backlog, reply, idx, client_flag, got>>

TakeCopy(c) ==
    /\ cpc[c] = "reading" /\ reply[c] # NoMessage
    /\ cpc' = [cpc EXCEPT ![c] = "chosen"]
    /\ idx' = reply[c]
    /\ reply' = [reply EXCEPT ![c] = NoMessage]
    /\ UNCHANGED <<server, backlog, sent, client_flag, got>>

TakeAnswer(c) ==
    /\ cpc[c] = "writing" /\ reply[c] # NoMessage
    /\ cpc' = [cpc EXCEPT ![c] = "loop"]
    /\ got' = [got EXCEPT ![c] = @ \cup ({reply[c]} \ {-1})]
    /\ reply' = [reply EXCEPT ![c] = NoMessage]
    /\ UNCHANGED <<server, backlog, sent, idx, client_flag>>

\* while (loop_flag) ends in a thread.
LeaveLoop(c) ==
    /\ cpc[c] = "loop" /\ ~client_flag
    /\ cpc' = [cpc EXCEPT ![c] = "exited"]
    /\ UNCHANGED <<server, backlog, sent, reply, idx, client_flag, got>>

\* connect is refused, or the connection was reset, with its listening socket
\* before accept or with the server after it: the thread ends.
CutOff(c) ==
    /\ \/ cpc[c] \in {"loop", "chosen"} /\ file[Listen] # "socket"
       \/ cpc[c] \in Waiting /\ spc = "ended" /\ reply[c] = NoMessage
       \/ /\ cpc[c] \in Waiting /\ file[Listen] # "socket"
          /\ \E k \in 1 .. Len(backlog) : backlog[k] = c
    /\ cpc' = [cpc EXCEPT ![c] = "exited"]
    /\ UNCHANGED <<server, backlog, sent, reply, idx, client_flag, got>>

\* SIGINT in the client process.
client_sig_handler ==
    /\ client_flag /\ \E c \in Clients : cpc[c] # "exited"
    /\ client_flag' = FALSE
    /\ UNCHANGED <<server, backlog, cpc, sent, reply, idx, got>>

\* main sees the cleared flag, exits and takes the threads along.
ClientsExit ==
    /\ ~client_flag /\ \E c \in Clients : cpc[c] # "exited"
    /\ cpc' = [c \in Clients |-> "exited"]
    /\ UNCHANGED <<server, backlog, sent, reply, idx, client_flag, got>>

client_service(f) ==
    RecvFails(f) \/ reader(f) \/ WriterFindsFree(f) \/ WriterFindsOccupied(f) \/ WriterOutOfRange(f)

ServerStep == Select \/ EndScan \/ Accept \/ AcceptFails \/ \E f \in Fds : client_service(f)

ClientStep(c) ==
    \/ ConnectRead(c) \/ ConnectWrite(c) \/ Send(c) \/ TakeCopy(c) \/ TakeAnswer(c)
    \/ LeaveLoop(c) \/ CutOff(c)

Next ==
    \/ ServerStep \/ sig_handler \/ client_sig_handler \/ ClientsExit
    \/ \E c \in Clients : ClientStep(c)

Spec == Init /\ [][Next]_vars

-----------------------------------------------------------------------------
(* Properties *)

\* A symbol is given to one client only, though the index a client asks for
\* may be another thread's or out of date.
SymbolGivenOnce == \A c, d \in Clients : c # d => got[c] \cap got[d] = {}

\* It comes to this although accept and recv block the only thread: all symbols are
\* given out, the server ends and its clients with it, or SIGINT has cleared the
\* clients' flag and each thread gets its answers and leaves its loop.
EveryClientEnded == \A c \in Clients : cpc[c] = "exited"
=============================================================================

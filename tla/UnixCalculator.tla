--------------------------- MODULE UnixCalculator ---------------------------
(***************************************************************************)
(* The calculator over local stream sockets (lab-socket/task-03): one      *)
(* single-threaded server that serves connection after connection, and     *)
(* client processes that ask again and again until something fails.        *)
(*                                                                         *)
(* SIGALRM only clears a flag.  signal(2) restarts a sleeping accept or    *)
(* recv, so the server takes one more connection before it sees the flag.  *)
(* When it ends, the kernel (external) closes its connections, those still *)
(* in the queue included.  A client may be killed at any moment; a send to *)
(* a closed connection kills the sender (SIGPIPE).                         *)
(*                                                                         *)
(* The four sends of a request are one step, since the server answers only *)
(* after the last; a client killed among them counts as killed before.     *)
(***************************************************************************)
EXTENDS Naturals, Sequences

CONSTANTS
    Clients,   \* the client processes
    Nobody     \* no client

VARIABLES
    server,    \* where the server is
    flag,      \* its flag
    queue,     \* connections not yet accepted
    cur,       \* the connection it serves
    client     \* where each client is

vars == <<server, flag, queue, cur, client>>

TypeOK ==
    /\ server \in {"accept", "recv", "send", "ended", "killed"}
    /\ flag \in BOOLEAN
    /\ queue \in Seq(Clients)
    /\ cur \in Clients \cup {Nobody}
    /\ client \in [Clients -> {"idle", "connected", "sent", "answered", "exited", "killed", "cut"}]

Init ==
    /\ server = "accept"
    /\ flag = TRUE
    /\ queue = <<>>
    /\ cur = Nobody
    /\ client = [c \in Clients |-> "idle"]

Up == server \in {"accept", "recv", "send"}

-----------------------------------------------------------------------------
(* server.c *)

handler ==
    /\ Up /\ flag
    /\ flag' = FALSE
    /\ UNCHANGED <<server, queue, cur, client>>

Accept ==
    /\ server = "accept" /\ queue # <<>>
    /\ cur' = Head(queue)
    /\ queue' = Tail(queue)
    /\ server' = "recv"
    /\ UNCHANGED <<flag, client>>

\* close(client_sock_fd), while (flag)
NextRound ==
    /\ cur' = Nobody
    /\ server' = IF flag THEN "accept" ELSE "ended"
    /\ UNCHANGED <<flag, queue>>

\* Four recvs; what a client has sent can be read after its death.
Recv ==
    /\ server = "recv" /\ client[cur] \in {"sent", "cut"}
    /\ server' = "send"
    /\ UNCHANGED <<flag, queue, cur, client>>

RecvFails ==
    /\ server = "recv" /\ client[cur] = "killed"
    /\ NextRound
    /\ UNCHANGED client

Send ==
    /\ server = "send" /\ client[cur] = "sent"
    /\ client' = [client EXCEPT ![cur] = "answered"]
    /\ NextRound

\* SIGPIPE
SendKills ==
    /\ server = "send" /\ client[cur] = "cut"
    /\ server' = "killed"
    /\ UNCHANGED <<flag, queue, cur, client>>

-----------------------------------------------------------------------------
(* client.c *)

Connect(c) ==
    /\ client[c] = "idle" /\ Up
    /\ queue' = Append(queue, c)
    /\ client' = [client EXCEPT ![c] = "connected"]
    /\ UNCHANGED <<server, flag, cur>>

SendRequest(c) ==
    /\ client[c] = "connected" /\ Up
    /\ client' = [client EXCEPT ![c] = "sent"]
    /\ UNCHANGED <<server, flag, queue, cur>>

\* Without a server connect and recv fail and the client exits; a send kills it.
Fails(c) ==
    /\ client[c] \in {"idle", "connected", "sent"} /\ ~Up
    /\ client' = [client EXCEPT ![c] = IF client[c] = "connected" THEN "killed" ELSE "exited"]
    /\ UNCHANGED <<server, flag, queue, cur>>

\* recv of the answer, close, and on to the next request.
Answered(c) ==
    /\ client[c] = "answered"
    /\ client' = [client EXCEPT ![c] = "idle"]
    /\ UNCHANGED <<server, flag, queue, cur>>

\* From outside: with its request sent ("cut") or not.
Killed(c) ==
    /\ client[c] \in {"idle", "connected", "sent", "answered"}
    /\ client' = [client EXCEPT ![c] = IF client[c] = "sent" THEN "cut" ELSE "killed"]
    /\ UNCHANGED <<server, flag, queue, cur>>

Server == Accept \/ Recv \/ RecvFails \/ Send \/ SendKills
Client(c) == Connect(c) \/ SendRequest(c) \/ Fails(c) \/ Answered(c)

Next == handler \/ Server \/ \E c \in Clients : Client(c) \/ Killed(c)

Spec == Init /\ [][Next]_vars

-----------------------------------------------------------------------------
(* Properties *)

\* It comes to this: every client ends, and the server too, unless all clients were
\* gone before its alarm; then nobody makes the connection that would wake it.
EverybodyEnded ==
    /\ \A c \in Clients : client[c] \in {"exited", "killed", "cut"}
    /\ ~Up \/ (server = "accept" /\ queue = <<>>)
=============================================================================

------------------------------- MODULE Bakery -------------------------------
(***************************************************************************)
(* The bakery calculator over ONC RPC (lab-rpc/bakery).                    *)
(*                                                                         *)
(* A client process gets a number from the server and then asks for its    *)
(* operation to be done, at most ATTEMPTS times, until the answer is not   *)
(* INFINITY.  The server is single-threaded (svc_run): a handler runs to   *)
(* its end before the next request is looked at, so choosing[] is false    *)
(* whenever it is read.  It refuses a request while another client holds a *)
(* smaller number; the answer of an accepted one goes through the static   *)
(* variable result, which a division by zero leaves as it was.             *)
(*                                                                         *)
(* The transport is UDP. While a call is outstanding the client sends the  *)
(* request again every few seconds with the same xid; requests and replies *)
(* can be lost, delayed and duplicated, and the server executes every copy *)
(* that arrives. A call that gets no reply in time returns NULL, which the *)
(* client dereferences. clnt_call accepts a reply only to its current xid: *)
(* a reply nobody waits for is dropped at once. `network', chosen once in  *)
(* Init, says whether any of this happens ("lossy") or every datagram      *)
(* arrives once and in time ("smooth").                                    *)
(*                                                                         *)
(* Clients are the indices main gives them.  main forks them in the order  *)
(* of their indices, so pids[i] < pids[j] is taken as i < j.               *)
(***************************************************************************)
EXTENDS Integers, FiniteSets

CONSTANTS
    CLNT_CNT,    \* the number of client processes
    ATTEMPTS,    \* how often a client asks for its operation
    DivByZero,   \* the clients whose request divides by zero
    Zero,        \* the value 0.0
    Inf,         \* the value INFINITY
    MaxNumber    \* bound: the largest number the server gives out

Clients == 0 .. CLNT_CNT - 1

ASSUME CountsAssumption ==
    /\ CLNT_CNT \in Nat \ {0}
    /\ ATTEMPTS \in Nat \ {0}
    /\ MaxNumber \in Nat
    /\ DivByZero \subseteq Clients

\* A client's index also stands for the true answer to its operation.
ASSUME AnswersAssumption == Zero \notin Nat /\ Inf \notin Nat /\ Zero # Inf

VARIABLES
    numbers,    \* server: the number each client holds, 0 if none
    result,     \* server: the static result of bakery_service_1_svc
    pc,         \* client: where it is
    call,       \* client: its current call, 0 for get_number, then 1, 2, ...
    num,        \* client: req.num
    res,        \* client: req.res
    requests,   \* request datagrams in flight
    replies,    \* reply datagrams in flight
    parent,     \* the parent of the clients
    network     \* "smooth" or "lossy"

vars == <<numbers, result, pc, call, num, res, requests, replies, parent,
          network>>

Answers == Clients \cup {Zero, Inf}
Request == [idx : Clients, call : 0 .. ATTEMPTS]

\* A client whose call is outstanding, and one that is no more.
Calling == {"number", "service"}
Ended == {"done", "exhausted", "crashed", "exited"}

TypeOK ==
    /\ numbers \in [Clients -> 0 .. MaxNumber]
    /\ result \in Answers
    /\ pc \in [Clients -> {"unborn", "pause"} \cup Calling \cup Ended]
    /\ call \in [Clients -> 0 .. ATTEMPTS]
    /\ num \in [Clients -> 0 .. MaxNumber]
    /\ res \in [Clients -> Answers]
    /\ requests \subseteq Request
    /\ \A m \in replies : /\ m.idx \in Clients /\ m.call \in 0 .. ATTEMPTS
                          /\ m.val \in (0 .. MaxNumber) \cup Answers
    /\ parent \in {"forking", "waiting", "exited", "failed"}
    /\ network \in {"smooth", "lossy"}

Init ==
    /\ numbers = [c \in Clients |-> 0]
    /\ result = Zero
    /\ pc = [c \in Clients |-> "unborn"]
    /\ call = [c \in Clients |-> 0]
    /\ num = [c \in Clients |-> 0]
    /\ res = [c \in Clients |-> Zero]
    /\ requests = {}
    /\ replies = {}
    /\ parent = "forking"
    /\ network \in {"smooth", "lossy"}

server == <<numbers, result>>

-----------------------------------------------------------------------------
(* The transport. *)

\* The reply to request m, if its client still waits for it.
Reply(m, val) ==
    replies' = IF pc[m.idx] \in Calling /\ call[m.idx] = m.call
               THEN replies \cup {[idx |-> m.idx, call |-> m.call, val |-> val]}
               ELSE replies

\* Client c starts call k: the replies to its earlier call are of no use.
Call(c, k) ==
    /\ call' = [call EXCEPT ![c] = k]
    /\ requests' = requests \cup {[idx |-> c, call |-> k]}
    /\ replies' = {m \in replies : m.idx # c}

\* Client c has no call outstanding any more.
HangUp(c) == replies' = {m \in replies : m.idx # c} /\ UNCHANGED <<requests, call>>

\* The wait between two sends of one call is over.
Retransmit(c) ==
    /\ network = "lossy"
    /\ pc[c] \in Calling
    /\ requests' = requests \cup {[idx |-> c, call |-> call[c]]}
    /\ UNCHANGED <<network, server, pc, call, num, res, replies, parent>>

LoseRequest(m) ==
    /\ network = "lossy"
    /\ requests' = requests \ {m}
    /\ UNCHANGED <<network, server, pc, call, num, res, replies, parent>>

LoseReply(m) ==
    /\ network = "lossy"
    /\ replies' = replies \ {m}
    /\ UNCHANGED <<network, server, pc, call, num, res, requests, parent>>

-----------------------------------------------------------------------------
(* The server. *)

\* max is the value of max_number().
IsMaxNumber(max) ==
    /\ \E i \in Clients : numbers[i] = max
    /\ \A i \in Clients : numbers[i] <= max

\* A slip: the number is the count of the clients that hold one, plus 1.
get_number_ByCount(m) ==
    LET n == Cardinality({i \in Clients : numbers[i] # 0}) + 1
    IN  /\ m.call = 0
        /\ numbers' = [numbers EXCEPT ![m.idx] = n]
        /\ Reply(m, n)
        /\ requests' = requests \ {m}
        /\ UNCHANGED <<network, result, pc, call, num, res, parent>>

get_number_1_svc(m) ==
    \E max \in 0 .. MaxNumber - 1 :
        /\ m.call = 0
        /\ IsMaxNumber(max)
        /\ numbers' = [numbers EXCEPT ![m.idx] = max + 1]
        /\ Reply(m, max + 1)
        /\ requests' = requests \ {m}
        /\ UNCHANGED <<network, result, pc, call, num, res, parent>>

\* A slip: the larger number goes first.
LowerPriority(i, j) ==
    /\ numbers[i] # 0
    /\ numbers[i] > numbers[j] \/ (numbers[i] = numbers[j] /\ i < j)

\* Client i goes before client j.
HigherPriority(i, j) ==
    /\ numbers[i] # 0
    /\ numbers[i] < numbers[j] \/ (numbers[i] = numbers[j] /\ i < j)

\* A slip: a refused client loses its number.
RefuseAndReset(m) ==
    /\ m.call > 0
    /\ \E i \in Clients : HigherPriority(i, m.idx)
    /\ result' = Inf
    /\ Reply(m, Inf)
    /\ requests' = requests \ {m}
    /\ numbers' = [numbers EXCEPT ![m.idx] = 0]
    /\ UNCHANGED <<network, pc, call, num, res, parent>>

Refuse(m) ==
    /\ m.call > 0
    /\ \E i \in Clients : HigherPriority(i, m.idx)
    /\ result' = Inf
    /\ Reply(m, Inf)
    /\ requests' = requests \ {m}
    /\ UNCHANGED <<network, numbers, pc, call, num, res, parent>>

\* A slip: the reply is made from result before the operation sets it.
PerformLate(m) ==
    /\ m.call > 0
    /\ \A i \in Clients : ~HigherPriority(i, m.idx)
    /\ result' = IF m.idx \in DivByZero THEN result ELSE m.idx
    /\ numbers' = [numbers EXCEPT ![m.idx] = 0]
    /\ Reply(m, result)
    /\ requests' = requests \ {m}
    /\ UNCHANGED <<network, pc, call, num, res, parent>>

Perform(m) ==
    /\ m.call > 0
    /\ \A i \in Clients : ~HigherPriority(i, m.idx)
    /\ result' = IF m.idx \in DivByZero THEN result ELSE m.idx
    /\ numbers' = [numbers EXCEPT ![m.idx] = 0]
    /\ Reply(m, result')
    /\ requests' = requests \ {m}
    /\ UNCHANGED <<network, pc, call, num, res, parent>>

bakery_service_1_svc(m) == Refuse(m) \/ Perform(m)

-----------------------------------------------------------------------------
(* The clients and their parent. *)

\* fork; the child creates its handle (or exits with 1) and calls get_number_1.
Fork(c) ==
    /\ parent = "forking"
    /\ pc[c] = "unborn"
    /\ \A d \in Clients : d < c => pc[d] # "unborn"
    /\ parent' = IF c = CLNT_CNT - 1 THEN "waiting" ELSE "forking"
    /\ \/ pc' = [pc EXCEPT ![c] = "number"] /\ Call(c, 0)
       \/ pc' = [pc EXCEPT ![c] = "exited"] /\ UNCHANGED <<call, requests, replies>>
    /\ UNCHANGED <<network, server, num, res>>

ForkFails ==
    /\ parent = "forking"
    /\ parent' = "failed"
    /\ UNCHANGED <<network, server, pc, call, num, res, requests, replies>>

\* waitpid of every client in turn.
ParentExits ==
    /\ parent = "waiting"
    /\ \A c \in Clients : pc[c] \in Ended
    /\ parent' = "exited"
    /\ UNCHANGED <<network, server, pc, call, num, res, requests, replies>>

\* get_number_1 returns: the first bakery_service_1 is called.
GetsNumber(c) ==
    \E m \in replies :
        /\ pc[c] = "number" /\ m.idx = c /\ m.call = 0
        /\ num' = [num EXCEPT ![c] = m.val]
        /\ pc' = [pc EXCEPT ![c] = "service"]
        /\ Call(c, 1)
        /\ UNCHANGED <<network, server, res, parent>>

\* bakery_service_1 returns: INFINITY sends the client to sleep.
GetsResult(c) ==
    \E m \in replies :
        /\ pc[c] = "service" /\ m.idx = c /\ m.call = call[c]
        /\ res' = [res EXCEPT ![c] = m.val]
        /\ pc' = [pc EXCEPT ![c] = IF m.val = Inf THEN "pause" ELSE "done"]
        /\ HangUp(c)
        /\ UNCHANGED <<network, server, num, parent>>

\* Slips: at is not incremented; at <= ATTEMPTS instead of at < ATTEMPTS.
WakesUpAgain(c) ==
    /\ pc[c] = "pause"
    /\ pc' = [pc EXCEPT ![c] = "service"]
    /\ Call(c, call[c])
    /\ UNCHANGED <<network, server, num, res, parent>>

WakesUpOnceMore(c) ==
    /\ pc[c] = "pause"
    /\ \/ /\ call[c] <= ATTEMPTS
          /\ pc' = [pc EXCEPT ![c] = "service"]
          /\ Call(c, call[c] + 1)
       \/ /\ call[c] > ATTEMPTS
          /\ pc' = [pc EXCEPT ![c] = "exhausted"]
          /\ UNCHANGED <<network, call, requests, replies>>
    /\ UNCHANGED <<network, server, num, res, parent>>

\* at++; the next attempt, if there is one left.
WakesUp(c) ==
    /\ pc[c] = "pause"
    /\ \/ /\ call[c] < ATTEMPTS
          /\ pc' = [pc EXCEPT ![c] = "service"]
          /\ Call(c, call[c] + 1)
       \/ /\ call[c] = ATTEMPTS
          /\ pc' = [pc EXCEPT ![c] = "exhausted"]
          /\ UNCHANGED <<network, call, requests, replies>>
    /\ UNCHANGED <<network, server, num, res, parent>>

\* clnt_call runs out of time: the stub returns NULL and the client crashes.
TimesOut(c) ==
    /\ network = "lossy"
    /\ pc[c] \in Calling
    /\ pc' = [pc EXCEPT ![c] = "crashed"]
    /\ HangUp(c)
    /\ UNCHANGED <<network, server, num, res, parent>>

-----------------------------------------------------------------------------
ServerStep == \E m \in requests : get_number_1_svc(m) \/ bakery_service_1_svc(m)

ClientStep(c) == GetsNumber(c) \/ GetsResult(c) \/ WakesUp(c)

ParentStep == (\E c \in Clients : Fork(c)) \/ ForkFails \/ ParentExits

\* What UDP and the timeouts may do at any moment.
Mishap ==
    \/ \E c \in Clients : Retransmit(c) \/ TimesOut(c)
    \/ \E m \in requests : LoseRequest(m)
    \/ \E m \in replies : LoseReply(m)

Next == ServerStep \/ ParentStep \/ (\E c \in Clients : ClientStep(c)) \/ Mishap

Spec == Init /\ [][Next]_vars

\* A client does not wait for ever: its call returns or times out.  Only on a
\* smooth network the server is sure to see a request and to answer it.
FairSpec ==
    /\ Spec
    /\ WF_vars(ParentStep)
    /\ WF_vars(network = "smooth" /\ ServerStep)
    /\ \A c \in Clients : WF_vars(ClientStep(c) \/ TimesOut(c))

-----------------------------------------------------------------------------
(* Properties *)

\* No two clients hold the same number, whatever is lost or repeated.
UniqueTickets ==
    \A i, j \in Clients : numbers[i] = numbers[j] /\ numbers[i] # 0 => i = j

\* A client that prints a result prints the result of its own operation,
\* though all answers pass through one static variable.
AnswerIsOwn ==
    \A c \in Clients \ DivByZero : pc[c] = "done" => res[c] = c

\* Every client ends and the parent with them, whatever the network does
\* (unless the parent itself failed to fork).
ParentEnds == <>(parent \in {"exited", "failed"})

\* On a smooth network a refused client keeps its place: as long as it is to
\* ask again it holds a number.
RefusedKeepsPlace ==
    network = "smooth" =>
        \A c \in Clients \ DivByZero : pc[c] = "pause" => numbers[c] # 0

\* On a smooth network clients are served in the order of the numbers they were
\* given: when the server is done with d, nobody still waits with a smaller
\* number in hand.
ServedInOrder ==
    [][\A c, d \in Clients :
         /\ network = "smooth"
         /\ numbers[d] # 0 /\ numbers'[d] = 0
         /\ pc[c] \in {"service", "pause"} /\ numbers[c] # 0
         => num[d] <= num[c]]_vars

=============================================================================

---------------------------- MODULE RpcProdCons ----------------------------
(***************************************************************************)
(* Producing and consuming over ONC RPC (lab-rpc/prodcons).                *)
(*                                                                         *)
(* A call with idx = -1 makes the server start a thread that puts a letter *)
(* into a ring of Slots cells or takes one out; the thread leaves the      *)
(* letter in resultBuffer[idx].  The client polls with its idx until the   *)
(* answer is a letter.  Requests are handled one at a time (svc_run), the  *)
(* started threads run beside them and synchronise with three semaphores.  *)
(*                                                                         *)
(* The clients are threads of one process.  The stub service_1 decodes     *)
(* every reply into one static clnt_res, which it clears before each call  *)
(* and which the callers go on reading.                                    *)
(*                                                                         *)
(* A letter is a char: the next one is one more than the last, past 'z'    *)
(* too, and after the last char comes the char 0 with which the ring and   *)
(* resultBuffer are filled.  So chars say nothing of which production they *)
(* come from; the histories made, stamp and num do.                        *)
(***************************************************************************)
EXTENDS SysVSem, FiniteSets

CONSTANTS
    Producers, Consumers,   \* the client threads, by type
    Slots,                  \* the cells of the ring (26)
    Header,                 \* bytes in front of the ring, counted by SE (3)
    Chars,                  \* the values of a char (256)
    First, Letters,         \* 'a' (97) and the letters from it to 'z' (26)
    MaxResend               \* bound: datagrams sent again

Clients == Producers \cup Consumers

ASSUME ClientsAssumption ==
    IsFiniteSet(Clients) /\ Clients # {} /\ Producers \cap Consumers = {}

ASSUME SizesAssumption ==
    /\ Slots \in Nat \ {0} /\ Header \in Nat
    /\ Chars \in Nat /\ First \in 1 .. Chars - 1
    /\ Letters \in Nat /\ First + Letters <= Chars
    /\ MaxResend \in Nat

VARIABLES
    sem, in, out, letter, cell,  \* semaphores, buffer[0], [1], [2], the ring
    idx, resultBuffer,           \* the next index and the threads' results
    thread, kind,                \* by index: where the thread is, what it does
    server,                      \* TRUE while it runs
    cpc, arg,                    \* by client: where it is, service_1_arg.idx
    clnt_res,                    \* the static result of service_1
    requests, replies, resent,   \* datagrams in flight; how many were resent
    made, stamp, num             \* histories: the chars produced so far; by cell
                                 \* and by index, which of them it is (0: none)

history == <<made, stamp, num>>
ring == <<sem, in, out, letter, cell, resultBuffer, history>>
threads == <<idx, thread, kind>>
client == <<cpc, arg, clnt_res>>
net == <<requests, replies, resent>>
vars == <<ring, threads, server, client, net>>

MaxIdx == Cardinality(Clients) + MaxResend
Indices == 0 .. MaxIdx - 1
Productions == 0 .. MaxIdx
next == Len(made) + 1         \* the number of the next production
Char == 0 .. Chars - 1
IsLetter(ch) == ch \in First .. First + Letters - 1
None == -1    \* idx = -1, result = '-'
Request == [client : Clients, idx : Indices \cup {None}]
Answer == [idx : Indices, result : Char \cup {None}]

SE == 0
SF == 1
SB == 2

\* A slip: a consumer gives a full cell back.
consumer_release_Full == << SemOp(SB, 1), SemOp(SF, 1) >>

producer_lock    == << SemOp(SE, -1), SemOp(SB, -1) >>
producer_release == << SemOp(SB, 1), SemOp(SF, 1) >>
consumer_lock    == << SemOp(SF, -1), SemOp(SB, -1) >>
consumer_release == << SemOp(SB, 1), SemOp(SE, 1) >>

ThreadPC == {"none", "lock", "access", "advance", "release", "done"}
ClientPC == {"new", "calling", "first", "test", "polled", "done"}

TypeOK ==
    /\ sem \in [0 .. 2 -> Nat]
    /\ in \in 0 .. Slots - 1 /\ out \in 0 .. Slots - 1
    /\ letter \in Char
    /\ cell \in [0 .. Slots - 1 -> Char]
    /\ idx \in 0 .. MaxIdx
    /\ resultBuffer \in [Indices -> Char]
    /\ made \in Seq(Char) /\ next \in 1 .. MaxIdx + 1
    /\ stamp \in [0 .. Slots - 1 -> Productions] /\ num \in [Indices -> Productions]
    /\ thread \in [Indices -> ThreadPC] /\ kind \in [Indices -> {"p", "c"}]
    /\ server \in BOOLEAN
    /\ cpc \in [Clients -> ClientPC]
    /\ arg \in [Clients -> Indices \cup {None}]
    /\ clnt_res \in Answer
    /\ requests \subseteq Request
    /\ \A m \in replies : m.client \in Clients /\ m.body \in Answer
    /\ resent \in 0 .. MaxResend

\* init(): SE is set to BUFFER_SIZE, which counts the header too.
Init ==
    /\ sem = [n \in 0 .. 2 |-> IF n = SE THEN Slots + Header ELSE IF n = SB THEN 1 ELSE 0]
    /\ in = 0 /\ out = 0 /\ letter = First
    /\ cell = [s \in 0 .. Slots - 1 |-> 0]
    /\ idx = 0 /\ resultBuffer = [i \in Indices |-> 0]
    /\ made = <<>> /\ stamp = cell /\ num = resultBuffer
    /\ thread = [i \in Indices |-> "none"] /\ kind = [i \in Indices |-> "c"]
    /\ server = TRUE
    /\ cpc = [c \in Clients |-> "new"] /\ arg = [c \in Clients |-> None]
    /\ clnt_res = [idx |-> 0, result |-> 0]
    /\ requests = {} /\ replies = {} /\ resent = 0

-----------------------------------------------------------------------------
(* The server's threads. *)

Goes(i, type, from, to) ==
    /\ server /\ kind[i] = type /\ thread[i] = from
    /\ thread' = [thread EXCEPT ![i] = to]

Semop(ops) == Passes(sem, ops) /\ sem' = After(sem, ops)

ProducerLocks(i) ==
    /\ Goes(i, "p", "lock", "access") /\ Semop(producer_lock)
    /\ UNCHANGED <<in, out, letter, cell, resultBuffer, history, idx, kind, server, client, net>>

ProducerStores(i) ==
    /\ Goes(i, "p", "access", "release")
    /\ cell' = [cell EXCEPT ![in] = letter]
    /\ resultBuffer' = [resultBuffer EXCEPT ![i] = letter]
    /\ letter' = (letter + 1) % Chars /\ in' = (in + 1) % Slots
    /\ made' = Append(made, letter)
    /\ stamp' = [stamp EXCEPT ![in] = next] /\ num' = [num EXCEPT ![i] = next]
    /\ UNCHANGED <<sem, out, idx, kind, server, client, net>>

ProducerReleases(i) ==
    /\ Goes(i, "p", "release", "done") /\ Semop(producer_release)
    /\ UNCHANGED <<in, out, letter, cell, resultBuffer, history, idx, kind, server, client, net>>

ConsumerLocks(i) ==
    /\ Goes(i, "c", "lock", "access") /\ Semop(consumer_lock)
    /\ UNCHANGED <<in, out, letter, cell, resultBuffer, history, idx, kind, server, client, net>>

ConsumerTakes(i) ==
    /\ Goes(i, "c", "access", "advance")
    /\ resultBuffer' = [resultBuffer EXCEPT ![i] = cell[out]]
    /\ num' = [num EXCEPT ![i] = stamp[out]]
    /\ UNCHANGED <<sem, in, out, letter, cell, made, stamp, idx, kind, server, client, net>>

\* A slip: the cell is not cleared.
ConsumerAdvancesOnly(i) ==
    /\ Goes(i, "c", "advance", "release")
    /\ out' = (out + 1) % Slots
    /\ UNCHANGED <<sem, in, letter, cell, resultBuffer, history, idx, kind, server, client, net>>

\* The cell is cleared and the cursor advanced.
ConsumerAdvances(i) ==
    /\ Goes(i, "c", "advance", "release")
    /\ cell' = [cell EXCEPT ![out] = 0] /\ stamp' = [stamp EXCEPT ![out] = 0]
    /\ out' = (out + 1) % Slots
    /\ UNCHANGED <<sem, in, letter, resultBuffer, made, num, idx, kind, server, client, net>>

ConsumerReleases(i) ==
    /\ Goes(i, "c", "release", "done") /\ Semop(consumer_release)
    /\ UNCHANGED <<in, out, letter, cell, resultBuffer, history, idx, kind, server, client, net>>

-----------------------------------------------------------------------------
(* service_1_svc *)

\* The reply to request m.  A client that no longer waits for it drops it.
Send(m, body) ==
    replies' = IF cpc[m.client] = "calling" /\ arg[m.client] = m.idx
               THEN replies \cup {[client |-> m.client, body |-> body]}
               ELSE replies

\* idx < 0: a new index and a thread.  If malloc or pthread_create fails there is
\* none: as if the thread were never scheduled and, after malloc, the reply lost.
StartThread(m) ==
    /\ server /\ m.idx = None
    /\ thread' = [thread EXCEPT ![idx] = "lock"]
    /\ kind' = [kind EXCEPT ![idx] = IF m.client \in Producers THEN "p" ELSE "c"]
    /\ idx' = idx + 1
    /\ requests' = requests \ {m}
    /\ Send(m, [idx |-> idx, result |-> None])
    /\ UNCHANGED <<ring, server, client, resent>>

\* idx >= 0: the letter if it is there, '-' otherwise.
Poll(m) ==
    /\ server /\ m.idx # None
    /\ requests' = requests \ {m}
    /\ Send(m, [idx |-> m.idx, result |-> IF IsLetter(resultBuffer[m.idx])
                                          THEN resultBuffer[m.idx] ELSE None])
    /\ UNCHANGED <<ring, threads, server, client, resent>>

\* The semaphores are removed and the buffer freed.
destroy ==
    /\ sem' = [n \in 0 .. 2 |-> 0] /\ in' = 0 /\ out' = 0 /\ letter' = First
    /\ cell' = [s \in 0 .. Slots - 1 |-> 0]

\* SIGINT: destroy() and exit; the threads and the requests nobody will look at
\* are gone.  A thread that meets the freed buffer or the removed semaphores in
\* between cannot do more than end the process as well.
handle_signal ==
    /\ server
    /\ destroy
    /\ server' = FALSE
    /\ idx' = 0 /\ resultBuffer' = [i \in Indices |-> 0]
    /\ made' = <<>> /\ stamp' = cell' /\ num' = resultBuffer'
    /\ thread' = [i \in Indices |-> "none"] /\ kind' = [i \in Indices |-> "c"]
    /\ requests' = {}
    /\ UNCHANGED <<client, replies, resent>>

-----------------------------------------------------------------------------
(* The client threads: process_request and the stub service_1. *)

\* memset(&clnt_res) and the request; index is -1 in the first call.
Call(c, from, index) ==
    /\ cpc[c] \in from
    /\ cpc' = [cpc EXCEPT ![c] = "calling"]
    /\ clnt_res' = [idx |-> 0, result |-> 0]
    /\ requests' = IF server THEN requests \cup {[client |-> c, idx |-> index]} ELSE {}
    /\ UNCHANGED <<ring, threads, server, arg, replies, resent>>

FirstCall(c) == Call(c, {"new"}, None)

\* while (result is not a letter)
PollAgain(c) == ~IsLetter(clnt_res.result) /\ Call(c, {"test", "polled"}, arg[c])

\* The reply is decoded into clnt_res.
Receive(m) ==
    /\ clnt_res' = m.body
    /\ cpc' = [cpc EXCEPT ![m.client] = IF arg[m.client] = None THEN "first" ELSE "polled"]
    /\ replies' = {n \in replies : n.client # m.client}
    /\ UNCHANGED <<ring, threads, server, arg, requests, resent>>

\* idx = result_1->idx
TakeIdx(c) ==
    /\ cpc[c] = "first"
    /\ cpc' = [cpc EXCEPT ![c] = "test"]
    /\ arg' = [arg EXCEPT ![c] = clnt_res.idx]
    /\ UNCHANGED <<ring, threads, server, clnt_res, net>>

\* The result is a letter, or 120 seconds are over.
Finish(c) ==
    /\ \/ cpc[c] \in {"test", "polled"} /\ IsLetter(clnt_res.result)
       \/ cpc[c] = "polled"
    /\ cpc' = [cpc EXCEPT ![c] = "done"]
    /\ UNCHANGED <<ring, threads, server, arg, clnt_res, net>>

\* A call without an answer returns NULL: after the first one the thread ends,
\* after a poll it dereferences NULL and the process dies.
CallFails(c) ==
    /\ cpc[c] = "calling"
    /\ cpc' = IF arg[c] = None THEN [cpc EXCEPT ![c] = "done"]
                               ELSE [d \in Clients |-> "done"]
    /\ replies' = IF arg[c] = None THEN {n \in replies : n.client # c} ELSE {}
    /\ UNCHANGED <<ring, threads, server, arg, clnt_res, requests, resent>>

-----------------------------------------------------------------------------
\* The RPC library sends the request again while the call is outstanding.  A
\* poll changes nothing in the server, so only first calls need a second copy;
\* a datagram that is lost is one that is never handled or received.
Resend(c) ==
    /\ server /\ cpc[c] = "calling" /\ arg[c] = None /\ resent < MaxResend
    /\ requests' = requests \cup {[client |-> c, idx |-> None]}
    /\ requests' # requests
    /\ resent' = resent + 1
    /\ UNCHANGED <<ring, threads, server, client, replies>>

ThreadStep(i) ==
    \/ ProducerLocks(i) \/ ProducerStores(i) \/ ProducerReleases(i)
    \/ ConsumerLocks(i) \/ ConsumerTakes(i) \/ ConsumerAdvances(i) \/ ConsumerReleases(i)

ClientStep(c) ==
    FirstCall(c) \/ PollAgain(c) \/ TakeIdx(c) \/ Finish(c) \/ CallFails(c) \/ Resend(c)

Next ==
    \/ \E i \in Indices : ThreadStep(i)
    \/ \E m \in requests : StartThread(m) \/ Poll(m)
    \/ \E m \in replies : Receive(m)
    \/ \E c \in Clients : ClientStep(c)
    \/ handle_signal

Spec == Init /\ [][Next]_vars

-----------------------------------------------------------------------------
(* Properties *)

Past(type, places) == Cardinality({i \in Indices : kind[i] = type /\ thread[i] \in places})
Inside == {"access", "advance", "release"}

\* SB is the lock of the ring, and SE and SF count what they are named for: SE
\* loses a unit when a producer gets in and gains one when a consumer is through,
\* SF the other way round, however many threads a doubled request has started.
SemAccounting ==
    /\ TypeOK
    /\ server =>
          /\ Past("p", Inside) + Past("c", Inside) = 1 - sem[SB]
          /\ sem[SE] = Slots + Header - Past("p", Inside \cup {"done"}) + Past("c", {"done"})
          /\ sem[SF] = Past("p", {"done"}) - Past("c", Inside \cup {"done"})

\* What a thread leaves in resultBuffer is the char of one production, or the char
\* 0 of a cell with none, and no production is taken by two consumers, even when
\* producers have run over cells that were not consumed.
ConsumedOnce ==
    /\ \A i \in Indices : resultBuffer[i] = IF num[i] = 0 THEN 0 ELSE made[num[i]]
    /\ \A i, j \in Indices :
          (kind[i] = "c" /\ kind[j] = "c" /\ i # j /\ num[i] # 0) => num[i] # num[j]
=============================================================================

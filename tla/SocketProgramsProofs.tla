------------------------ MODULE SocketProgramsProofs ------------------------
(***************************************************************************)
(* Proofs about the two servers with a single thread, for any number of    *)
(* clients, symbols and descriptors.                                       *)
(*                                                                         *)
(* That a symbol is given once is not inductive: it may still be on its    *)
(* way to the client.  The invariant counts it as held from the moment it  *)
(* is marked, and follows the one request or answer a client can have on   *)
(* its connection.                                                         *)
(***************************************************************************)
EXTENDS MCSocketPrograms, SequenceTheorems, WellFoundedInduction, TLAPS

\* A client that has nothing to wait for has nothing on its connection; a request waits
\* for its own answer, and there is never both.
OneMessage ==
    \A c \in Clients :
        /\ sent[c] = Read => cpc[c] \in {"reading", "exited"}
        /\ sent[c] \in Indices => cpc[c] \in {"writing", "exited"}
        /\ reply[c] # NoMessage =>
              sent[c] = NoMessage /\ cpc[c] \in {"reading", "writing", "exited"}

\* The symbols client c was given, with the one on its way.
Held(c) ==
    got[c] \cup (IF cpc[c] = "writing" THEN {reply[c]} \ {NoMessage, -1} ELSE {})

HeldOnce == \A c, d \in Clients : c # d => Held(c) \cap Held(d) = {}
HeldMarked == \A c \in Clients : \A k \in Held(c) : k \in Cells /\ ~shm_buf[k]

SelectInv ==
    /\ TypeOK
    /\ backlog \in Seq(Clients)
    /\ OneMessage
    /\ HeldOnce
    /\ HeldMarked

(* The two halves of the types. *)
ServerTypes ==
    /\ loop_flag \in BOOLEAN
    /\ file \in [Fds -> {"free", "std", "socket"} \cup Clients]
    /\ master_set \subseteq Fds /\ active_fd_count \in Fds
    /\ spc \in {"select", "scan", "ended"} /\ fd \in 0 .. StdFds + 2
    /\ backlog \in Seq(Clients)

MessageTypes ==
    /\ shm_buf \in [Cells -> BOOLEAN]
    /\ cpc \in [Clients -> Waiting \cup {"loop", "chosen", "exited"}]
    /\ sent \in [Clients -> Indices \cup {NoMessage, Read}]
    /\ reply \in [Clients -> Indices \cup {NoMessage}]
    /\ idx \in Indices /\ client_flag \in BOOLEAN
    /\ got \in [Clients -> SUBSET Cells]

\* Together they are the types, with a backlog that is a sequence.
LEMMA Halves == TypeOK /\ backlog \in Seq(Clients) <=> ServerTypes /\ MessageTypes
<1>1. backlog \in Seq(Clients) => \A k \in 1 .. Len(backlog) : backlog[k] \in Clients
  OBVIOUS
<1> QED
  BY <1>1 DEF TypeOK, ServerTypes, MessageTypes

\* The numbers behind the names.
LEMMA SelectFacts ==
    /\ Size \in Nat \ {0} /\ StdFds \in Nat \ {0}
    /\ Cells \subseteq Nat /\ Cells \subseteq Indices /\ -1 \in Indices
    /\ Read \notin Indices /\ NoMessage \notin Indices /\ Read # NoMessage
    /\ \A k \in Indices : k # -1 => k \in Cells
    /\ Listen \in Fds
    /\ NoMessage # -1 /\ NoMessage \notin Cells /\ -1 \notin Cells
BY SizeAssumption DEF Cells, Indices, Read, NoMessage, Listen, Fds

\* A set of natural numbers has a least one.
LEMMA LeastNumber ==
    ASSUME NEW T, T \subseteq Nat, T # {}
    PROVE  \E k \in T : \A j \in T : k <= j
<1>1. PICK k \in T : \A j \in T : ~(<<j, k>> \in OpToRel(<, Nat))
  BY WFMin, NatLessThanWellFounded
<1>2. \A j \in T : ~(j < k)
  BY <1>1 DEF OpToRel
<1> QED
  BY <1>2

\* What the client finds in its copy is an index or -1.
LEMMA FoundIsIndex == FirstUnoccupied \in Indices
<1>1. CASE \E k \in Cells : shm_buf[k]
  <2>1. PICK T : T = {k \in Cells : shm_buf[k]}
    OBVIOUS
  <2>2. T # {} /\ T \subseteq Nat
    BY <1>1, <2>1, SelectFacts
  <2>3. PICK k \in T : \A j \in T : k <= j
    BY <2>2, LeastNumber
  <2>4. k \in Cells /\ shm_buf[k]
    BY <2>1, <2>3
  <2>5. ASSUME NEW j \in Cells, j < k PROVE ~shm_buf[j]
    <3>1. j \in Nat /\ k \in Nat /\ ~(k <= j)
      BY <2>4, <2>5, SelectFacts
    <3> QED
      BY <2>1, <2>3, <3>1
  <2>6. FirstUnoccupied \in Cells
    BY <1>1, <2>4, <2>5, Zenon DEF FirstUnoccupied
  <2> QED
    BY <2>6, SelectFacts
<1>2. CASE ~\E k \in Cells : shm_buf[k]
  BY <1>2, SelectFacts DEF FirstUnoccupied
<1> QED
  BY <1>1, <1>2

\* The initial states satisfy the invariant.
LEMMA SelectInit == Init => SelectInv
<1> SUFFICES ASSUME Init PROVE SelectInv
  OBVIOUS
<1>1. ServerTypes
  BY SelectFacts DEF Init, ServerTypes, Fds
<1>2. MessageTypes
  <2>1. idx \in Indices
    BY SelectFacts DEF Init, Cells, Indices
  <2>2. /\ shm_buf \in [Cells -> BOOLEAN] /\ client_flag \in BOOLEAN
        /\ cpc \in [Clients -> Waiting \cup {"loop", "chosen", "exited"}]
        /\ sent \in [Clients -> Indices \cup {NoMessage, Read}]
        /\ reply \in [Clients -> Indices \cup {NoMessage}]
        /\ got \in [Clients -> SUBSET Cells]
    BY DEF Init
  <2> QED
    BY <2>1, <2>2 DEF MessageTypes
<1>3. OneMessage
  BY SelectFacts DEF Init, OneMessage
<1>4. \A c \in Clients : Held(c) = {}
  BY DEF Init, Held
<1>5. HeldOnce /\ HeldMarked
  BY <1>4 DEF HeldOnce, HeldMarked
<1> QED
  BY <1>1, <1>2, <1>3, <1>5, Halves DEF SelectInv

\* A step that leaves array, clients and messages alone.
LEMMA ServerOnly ==
    ASSUME SelectInv, ServerTypes', UNCHANGED <<shm_buf, sent, reply, cpc, idx, got>>,
           client_flag' \in BOOLEAN
    PROVE  SelectInv'
<1>1. MessageTypes'
  BY Halves DEF SelectInv, MessageTypes
<1>2. TypeOK' /\ (backlog \in Seq(Clients))'
  <2>1. (TypeOK /\ backlog \in Seq(Clients))' <=> (ServerTypes /\ MessageTypes)'
    BY Halves, PTL
  <2> QED
    BY <1>1, <2>1
<1>3. OneMessage'
  BY DEF SelectInv, OneMessage
<1>4. \A c \in Clients : Held(c)' = Held(c)
  BY DEF Held
<1>5. HeldOnce' /\ HeldMarked'
  BY <1>4 DEF SelectInv, HeldOnce, HeldMarked
<1> QED
  BY <1>2, <1>3, <1>5 DEF SelectInv

\* The descriptor the scan comes to next.
LEMMA ScanGoesOn ==
    ASSUME ServerTypes, NEW f, At(f)
    PROVE  spc' \in {"select", "scan", "ended"} /\ fd' \in 0 .. StdFds + 2
<1>1. fd \in 0 .. StdFds + 2 /\ active_fd_count \in 0 .. StdFds + 1 /\ StdFds \in Nat
  BY SelectFacts DEF ServerTypes, Fds
<1>2. fd' \in 0 .. StdFds + 2
  BY <1>1 DEF At
<1> QED
  BY <1>2 DEF At, ServerTypes

\* select, the end of the scan, accept and SIGINT.
LEMMA ScanStep ==
    ASSUME SelectInv, Select \/ EndScan \/ Accept \/ AcceptFails \/ sig_handler
    PROVE  SelectInv'
<1>1. UNCHANGED <<shm_buf, sent, reply, cpc, idx, got, client_flag>>
  BY DEF Select, EndScan, Accept, AcceptFails, sig_handler, clients
<1>2. ServerTypes /\ client_flag \in BOOLEAN
  BY Halves DEF SelectInv, MessageTypes
<1>3. CASE Select \/ EndScan
  <2>1. 0 \in 0 .. StdFds + 2
    BY SelectFacts
  <2> QED
    BY <1>1, <1>2, <1>3, <2>1, ServerOnly DEF Select, EndScan, ServerTypes
<1>4. CASE Accept
  <2>1. PICK f \in Fds :
          /\ At(Listen) /\ backlog # <<>>
          /\ file' = [file EXCEPT ![f] = Head(backlog)]
          /\ backlog' = Tail(backlog)
          /\ master_set' = master_set \cup {f}
          /\ active_fd_count' = IF f > active_fd_count THEN f ELSE active_fd_count
          /\ UNCHANGED loop_flag
    BY <1>4 DEF Accept
  <2>2. Head(backlog) \in Clients /\ Tail(backlog) \in Seq(Clients)
    BY <1>2, <2>1, HeadTailProperties DEF ServerTypes
  <2>3. file' \in [Fds -> {"free", "std", "socket"} \cup Clients]
    BY <1>2, <2>1, <2>2 DEF ServerTypes
  <2>4. ServerTypes'
    BY <1>2, <2>1, <2>2, <2>3, ScanGoesOn DEF ServerTypes
  <2> QED
    BY <1>1, <1>2, <2>4, ServerOnly
<1>5. CASE AcceptFails
  <2>1. ServerTypes'
    BY <1>2, <1>5, ScanGoesOn DEF AcceptFails, ServerTypes
  <2> QED
    BY <1>1, <1>2, <2>1, ServerOnly
<1>6. CASE sig_handler
  <2>1. file' \in [Fds -> {"free", "std", "socket"} \cup Clients]
    BY <1>2, <1>6, SelectFacts DEF sig_handler, ServerTypes
  <2>2. ServerTypes'
    BY <1>2, <1>6, <2>1 DEF sig_handler, ServerTypes
  <2> QED
    BY <1>1, <1>2, <2>2, ServerOnly
<1> QED
  BY <1>3, <1>4, <1>5, <1>6

\* client_service closes the descriptor.
LEMMA CloseTypes ==
    ASSUME ServerTypes, NEW f \in Fds, Close(f), loop_flag' \in BOOLEAN
    PROVE  ServerTypes' /\ UNCHANGED <<cpc, idx, got, client_flag>>
<1>1. At(f) /\ UNCHANGED <<active_fd_count, backlog, clients>>
  BY DEF Close
<1>2. file' \in [Fds -> {"free", "std", "socket"} \cup Clients] /\ master_set' \subseteq Fds
  BY DEF Close, ServerTypes
<1> QED
  BY <1>1, <1>2, ScanGoesOn DEF ServerTypes, clients

\* An answer to client c: a symbol that was marked for it in the same step, or an index or
\* -1 that is no symbol to it.
LEMMA Answered ==
    ASSUME SelectInv, ServerTypes', UNCHANGED <<cpc, idx, got, client_flag>>,
           NEW c \in Clients, NEW value \in Indices, Answer(c, value),
           sent[c] # NoMessage,
           \/ /\ sent[c] = Read \/ value = -1
              /\ UNCHANGED shm_buf
           \/ /\ value \in Cells /\ shm_buf[value]
              /\ shm_buf' = [shm_buf EXCEPT ![value] = FALSE]
    PROVE  SelectInv'
<1>1. MessageTypes
  BY Halves DEF SelectInv
<1>2. /\ sent' \in [Clients -> Indices \cup {NoMessage, Read}] /\ sent'[c] = NoMessage
      /\ \A d \in Clients : d # c => sent'[d] = sent[d]
  BY <1>1 DEF MessageTypes, Answer
<1>3. /\ reply' \in [Clients -> Indices \cup {NoMessage}] /\ reply'[c] = value
      /\ \A d \in Clients : d # c => reply'[d] = reply[d]
  BY <1>1 DEF MessageTypes, Answer
<1>4. /\ shm_buf' \in [Cells -> BOOLEAN]
      /\ \A k \in Cells : ~shm_buf[k] => ~shm_buf'[k]
  BY <1>1 DEF MessageTypes
<1>5. MessageTypes'
  BY <1>1, <1>2, <1>3, <1>4 DEF MessageTypes
<1>6. TypeOK' /\ (backlog \in Seq(Clients))'
  <2>1. (TypeOK /\ backlog \in Seq(Clients))' <=> (ServerTypes /\ MessageTypes)'
    BY Halves, PTL
  <2> QED
    BY <1>5, <2>1
<1>7. cpc[c] \in {"reading", "writing", "exited"} /\ reply[c] = NoMessage
      /\ (sent[c] = Read => cpc[c] # "writing")
  BY <1>1 DEF SelectInv, OneMessage, MessageTypes
<1>8. OneMessage'
  <2>1. NoMessage # Read /\ NoMessage \notin Indices
    BY SelectFacts
  <2> QED
    BY <1>2, <1>3, <1>7, <2>1 DEF SelectInv, OneMessage
<1>9. \A d \in Clients : d # c => Held(d)' = Held(d)
  BY <1>3 DEF Held
<1>10. Held(c) = got[c]
  BY <1>7 DEF Held
<1>11. CASE (sent[c] = Read \/ value = -1) /\ UNCHANGED shm_buf
  <2>1. Held(c)' = Held(c)
    BY <1>3, <1>7, <1>10, <1>11 DEF Held
  <2>2. HeldOnce' /\ HeldMarked'
    BY <1>9, <1>11, <2>1 DEF SelectInv, HeldOnce, HeldMarked
  <2> QED
    BY <1>6, <1>8, <2>2 DEF SelectInv
<1>12. CASE /\ value \in Cells /\ shm_buf[value]
            /\ shm_buf' = [shm_buf EXCEPT ![value] = FALSE]
  <2>1. Held(c)' \subseteq Held(c) \cup {value}
    BY <1>3, <1>10 DEF Held
  <2>2. ~shm_buf'[value]
    BY <1>1, <1>12 DEF MessageTypes
  <2>3. \A d \in Clients : value \notin Held(d)
    BY <1>12 DEF SelectInv, HeldMarked
  <2>4. HeldOnce'
    BY <1>9, <2>1, <2>3 DEF SelectInv, HeldOnce
  <2>5. HeldMarked'
    BY <1>4, <1>9, <1>12, <2>1, <2>2 DEF SelectInv, HeldMarked
  <2> QED
    BY <1>6, <1>8, <2>4, <2>5 DEF SelectInv
<1> QED
  BY <1>11, <1>12

\* client_service.
LEMMA ServiceStep ==
    ASSUME SelectInv, NEW f \in Fds, client_service(f)
    PROVE  SelectInv'
<1>1. ServerTypes /\ client_flag \in BOOLEAN
  BY Halves DEF SelectInv, MessageTypes
<1>2. CASE RecvFails(f)
  <2>1. ServerTypes' /\ UNCHANGED <<cpc, idx, got, client_flag>>
    BY <1>1, <1>2, CloseTypes DEF RecvFails, ServerTypes
  <2> QED
    BY <1>1, <1>2, <2>1, ServerOnly DEF RecvFails
<1>3. CASE reader(f)
  <2>1. ServerTypes' /\ UNCHANGED <<cpc, idx, got, client_flag>>
    BY <1>1, <1>3, CloseTypes DEF reader, ServerTypes
  <2>2. PICK c \in Clients : /\ c = file[f] /\ sent[c] = Read
                             /\ Answer(c, FirstUnoccupied)
                             /\ UNCHANGED shm_buf
    BY <1>3 DEF reader
  <2>3. sent[c] # NoMessage
    BY <2>2, SelectFacts
  <2> QED
    BY <2>1, <2>2, <2>3, FoundIsIndex, Answered
<1>4. CASE WriterFindsFree(f)
  <2>1. ServerTypes' /\ UNCHANGED <<cpc, idx, got, client_flag>>
    BY <1>1, <1>4, CloseTypes DEF WriterFindsFree, ServerTypes
  <2>2. PICK c \in Clients :
          /\ c = file[f] /\ sent[c] \in Cells /\ shm_buf[sent[c]]
          /\ shm_buf' = [shm_buf EXCEPT ![sent[c]] = FALSE]
          /\ Answer(c, sent[c])
    BY <1>4 DEF WriterFindsFree
  <2>3. sent[c] # NoMessage /\ sent[c] \in Indices
    BY <2>2, SelectFacts
  <2> QED
    BY <2>1, <2>2, <2>3, Answered
<1>5. CASE WriterFindsOccupied(f)
  <2>1. ServerTypes' /\ UNCHANGED <<cpc, idx, got, client_flag>>
    BY <1>1, <1>5, CloseTypes DEF WriterFindsOccupied, ServerTypes
  <2>2. PICK c \in Clients :
          c = file[f] /\ sent[c] \in Cells /\ Answer(c, -1) /\ UNCHANGED shm_buf
    BY <1>5 DEF WriterFindsOccupied
  <2>3. sent[c] # NoMessage /\ -1 \in Indices
    BY <2>2, SelectFacts
  <2> QED
    BY <2>1, <2>2, <2>3, Answered
<1>6. CASE WriterOutOfRange(f)
  <2>1. UNCHANGED <<shm_buf, cpc, idx, got, client_flag>>
    BY <1>6 DEF WriterOutOfRange, clients
  <2>2. file' \in [Fds -> {"free", "std", "socket"} \cup Clients]
    BY <1>1, <1>6, SelectFacts DEF WriterOutOfRange, ServerTypes
  <2>3. ServerTypes'
    BY <1>1, <1>6, <2>2, ScanGoesOn DEF WriterOutOfRange, ServerTypes
  <2>4. PICK c \in Clients : c = file[f] /\ sent[c] = -1 /\ Answer(c, -1)
    BY <1>6 DEF WriterOutOfRange
  <2>5. sent[c] # NoMessage /\ -1 \in Indices
    BY <2>4, SelectFacts
  <2> QED
    BY <2>1, <2>3, <2>4, <2>5, Answered
<1> QED
  BY <1>2, <1>3, <1>4, <1>5, <1>6 DEF client_service

\* A client that moves on without sending or receiving has no symbol on its way to it,
\* or gives up the one that is.
LEMMA ClientMoves ==
    ASSUME SelectInv, NEW c \in Clients,
           NEW to \in Waiting \cup {"loop", "chosen", "exited"},
           cpc' = [cpc EXCEPT ![c] = to],
           to = "exited" \/ cpc[c] \in {"loop", "chosen"}, to \notin {"reading", "writing"},
           UNCHANGED <<server, sent, reply, idx, client_flag, got>>,
           backlog' \in Seq(Clients)
    PROVE  SelectInv'
<1>1. ServerTypes /\ MessageTypes
  BY Halves DEF SelectInv
<1>2. UNCHANGED <<shm_buf, loop_flag, file, master_set, active_fd_count, spc, fd>>
  BY DEF server
<1>3. /\ cpc' \in [Clients -> Waiting \cup {"loop", "chosen", "exited"}] /\ cpc'[c] = to
      /\ \A d \in Clients : d # c => cpc'[d] = cpc[d]
  BY <1>1 DEF MessageTypes
<1>4. ServerTypes' /\ MessageTypes'
  BY <1>1, <1>2, <1>3 DEF ServerTypes, MessageTypes
<1>5. TypeOK' /\ (backlog \in Seq(Clients))'
  <2>1. (TypeOK /\ backlog \in Seq(Clients))' <=> (ServerTypes /\ MessageTypes)'
    BY Halves, PTL
  <2> QED
    BY <1>4, <2>1
<1>6. OneMessage'
  <2>1. cpc[c] \in {"loop", "chosen"} => sent[c] \notin Indices /\ sent[c] # Read
                                         /\ reply[c] = NoMessage
    BY DEF SelectInv, OneMessage
  <2> QED
    BY <1>3, <2>1 DEF SelectInv, OneMessage
<1>7. Held(c)' \subseteq Held(c) /\ \A d \in Clients : d # c => Held(d)' = Held(d)
  BY <1>3 DEF Held
<1>8. HeldOnce' /\ HeldMarked'
  BY <1>2, <1>7 DEF SelectInv, HeldOnce, HeldMarked
<1> QED
  BY <1>5, <1>6, <1>8 DEF SelectInv

\* The steps of a client.
LEMMA SelectClientStep ==
    ASSUME SelectInv, NEW c \in Clients, ClientStep(c)
    PROVE  SelectInv'
<1>1. ServerTypes /\ MessageTypes
  BY Halves DEF SelectInv
<1>2. CASE ConnectRead(c) \/ ConnectWrite(c)
  <2>1. PICK to \in {"connectR", "connectW"} :
          /\ cpc[c] \in {"loop", "chosen"} /\ cpc' = [cpc EXCEPT ![c] = to]
          /\ backlog' = Append(backlog, c)
          /\ UNCHANGED <<server, sent, reply, idx, client_flag, got>>
    BY <1>2 DEF ConnectRead, ConnectWrite, Connect
  <2>2. backlog' \in Seq(Clients)
    BY <1>1, <2>1 DEF ServerTypes
  <2>3. to \in Waiting
    BY DEF Waiting
  <2> QED
    BY <2>1, <2>2, <2>3, ClientMoves
<1>3. CASE LeaveLoop(c) \/ CutOff(c)
  BY <1>1, <1>3, ClientMoves DEF LeaveLoop, CutOff, ServerTypes
<1>4. CASE Send(c)
  <2>1. PICK to, value :
          /\ \/ cpc[c] = "connectR" /\ to = "reading" /\ value = Read
             \/ cpc[c] = "connectW" /\ to = "writing" /\ value = idx
          /\ cpc' = [cpc EXCEPT ![c] = to] /\ sent' = [sent EXCEPT ![c] = value]
          /\ UNCHANGED <<server, backlog, reply, idx, client_flag, got>>
    BY <1>4 DEF Send
  <2>2. UNCHANGED <<shm_buf, loop_flag, file, master_set, active_fd_count, spc, fd>>
    BY <2>1 DEF server
  <2>3. value \in Indices \cup {NoMessage, Read} /\ to \in Waiting
    BY <1>1, <2>1 DEF MessageTypes, Waiting
  <2>4. /\ cpc' \in [Clients -> Waiting \cup {"loop", "chosen", "exited"}] /\ cpc'[c] = to
        /\ \A d \in Clients : d # c => cpc'[d] = cpc[d]
    BY <1>1, <2>1, <2>3 DEF MessageTypes
  <2>5. /\ sent' \in [Clients -> Indices \cup {NoMessage, Read}] /\ sent'[c] = value
        /\ \A d \in Clients : d # c => sent'[d] = sent[d]
    BY <1>1, <2>1, <2>3 DEF MessageTypes
  <2>6. ServerTypes' /\ MessageTypes'
    BY <1>1, <2>1, <2>2, <2>4, <2>5 DEF ServerTypes, MessageTypes
  <2>7. TypeOK' /\ (backlog \in Seq(Clients))'
    <3>1. (TypeOK /\ backlog \in Seq(Clients))' <=> (ServerTypes /\ MessageTypes)'
      BY Halves, PTL
    <3> QED
      BY <2>6, <3>1
  <2>8. reply[c] = NoMessage
    BY <2>1 DEF SelectInv, OneMessage
  <2>9. idx \in Indices /\ Read \notin Indices
    BY <1>1, SelectFacts DEF MessageTypes
  <2>10. OneMessage'
    BY <2>1, <2>4, <2>5, <2>8, <2>9 DEF SelectInv, OneMessage
  <2>11. \A d \in Clients : Held(d)' = Held(d)
    BY <2>1, <2>4, <2>8 DEF Held
  <2>12. HeldOnce' /\ HeldMarked'
    BY <2>2, <2>11 DEF SelectInv, HeldOnce, HeldMarked
  <2> QED
    BY <2>7, <2>10, <2>12 DEF SelectInv
<1>5. CASE TakeCopy(c) \/ TakeAnswer(c)
  <2>1. /\ UNCHANGED <<shm_buf, loop_flag, file, master_set, active_fd_count, spc, fd>>
        /\ UNCHANGED <<backlog, sent, client_flag>>
        /\ cpc[c] \in {"reading", "writing"} /\ reply[c] # NoMessage
        /\ reply' = [reply EXCEPT ![c] = NoMessage]
    BY <1>5 DEF TakeCopy, TakeAnswer, server
  <2>2. PICK to \in {"loop", "chosen"} : cpc' = [cpc EXCEPT ![c] = to]
    BY <1>5 DEF TakeCopy, TakeAnswer
  <2>3. /\ cpc' \in [Clients -> Waiting \cup {"loop", "chosen", "exited"}] /\ cpc'[c] = to
        /\ \A d \in Clients : d # c => cpc'[d] = cpc[d]
    BY <1>1, <2>2 DEF MessageTypes
  <2>4. /\ reply' \in [Clients -> Indices \cup {NoMessage}] /\ reply'[c] = NoMessage
        /\ \A d \in Clients : d # c => reply'[d] = reply[d]
    BY <1>1, <2>1 DEF MessageTypes
  <2>5. reply[c] \in Indices /\ {reply[c]} \ {-1} \subseteq Cells
    BY <1>1, <2>1, SelectFacts DEF MessageTypes
  <2>6. idx' \in Indices
    BY <1>1, <1>5, <2>5 DEF TakeCopy, TakeAnswer, MessageTypes
  <2>7. /\ got' \in [Clients -> SUBSET Cells]
        /\ got'[c] \subseteq Held(c)
        /\ \A d \in Clients : d # c => got'[d] = got[d]
    <3>1. CASE TakeCopy(c)
      BY <1>1, <3>1 DEF TakeCopy, MessageTypes, Held
    <3>2. CASE TakeAnswer(c)
      <4>1. got' = [got EXCEPT ![c] = got[c] \cup ({reply[c]} \ {-1})] /\ cpc[c] = "writing"
        BY <3>2 DEF TakeAnswer
      <4>2. got'[c] = got[c] \cup ({reply[c]} \ {-1})
        BY <1>1, <4>1 DEF MessageTypes
      <4>3. got'[c] \subseteq Held(c)
        BY <2>1, <4>1, <4>2 DEF Held
      <4> QED
        BY <1>1, <2>5, <4>1, <4>3 DEF MessageTypes
    <3> QED
      BY <1>5, <3>1, <3>2
  <2>8. ServerTypes' /\ MessageTypes'
    BY <1>1, <2>1, <2>3, <2>4, <2>6, <2>7 DEF ServerTypes, MessageTypes
  <2>9. TypeOK' /\ (backlog \in Seq(Clients))'
    <3>1. (TypeOK /\ backlog \in Seq(Clients))' <=> (ServerTypes /\ MessageTypes)'
      BY Halves, PTL
    <3> QED
      BY <2>8, <3>1
  <2>10. sent[c] = NoMessage /\ NoMessage \notin Indices /\ NoMessage # Read
    BY <2>1, SelectFacts DEF SelectInv, OneMessage
  <2>11. OneMessage'
    BY <2>1, <2>3, <2>4, <2>10 DEF SelectInv, OneMessage
  <2>12. Held(c)' \subseteq Held(c) /\ \A d \in Clients : d # c => Held(d)' = Held(d)
    BY <2>3, <2>4, <2>7 DEF Held
  <2>13. HeldOnce' /\ HeldMarked'
    BY <2>1, <2>12 DEF SelectInv, HeldOnce, HeldMarked
  <2> QED
    BY <2>9, <2>11, <2>13 DEF SelectInv
<1> QED
  BY <1>2, <1>3, <1>4, <1>5 DEF ClientStep

\* SIGINT in the client process, and its end.
LEMMA ClientProcessStep ==
    ASSUME SelectInv, client_sig_handler \/ ClientsExit
    PROVE  SelectInv'
<1>1. ServerTypes /\ MessageTypes
  BY Halves DEF SelectInv
<1>2. UNCHANGED <<shm_buf, loop_flag, file, master_set, active_fd_count, spc, fd, backlog>>
  BY DEF client_sig_handler, ClientsExit, server
<1>3. ServerTypes'
  BY <1>1, <1>2 DEF ServerTypes
<1>4. CASE client_sig_handler
  BY <1>3, <1>4, ServerOnly DEF client_sig_handler, server
<1>5. CASE ClientsExit
  <2>1. /\ cpc' = [c \in Clients |-> "exited"]
        /\ UNCHANGED <<sent, reply, idx, client_flag, got>>
    BY <1>5 DEF ClientsExit
  <2>2. MessageTypes'
    BY <1>1, <1>2, <2>1 DEF MessageTypes
  <2>3. TypeOK' /\ (backlog \in Seq(Clients))'
    <3>1. (TypeOK /\ backlog \in Seq(Clients))' <=> (ServerTypes /\ MessageTypes)'
      BY Halves, PTL
    <3> QED
      BY <1>3, <2>2, <3>1
  <2>4. OneMessage'
    BY <2>1 DEF SelectInv, OneMessage
  <2>5. \A c \in Clients : Held(c)' \subseteq Held(c)
    BY <2>1 DEF Held
  <2>6. HeldOnce' /\ HeldMarked'
    BY <1>2, <2>5 DEF SelectInv, HeldOnce, HeldMarked
  <2> QED
    BY <2>3, <2>4, <2>6 DEF SelectInv
<1> QED
  BY <1>4, <1>5

\* Every step of the select server and its clients preserves the invariant.
LEMMA SelectNext == SelectInv /\ [Next]_vars => SelectInv'
<1> SUFFICES ASSUME SelectInv, [Next]_vars PROVE SelectInv'
  OBVIOUS
<1>1. CASE Next
  BY <1>1, ScanStep, ServiceStep, SelectClientStep, ClientProcessStep
  DEF Next, ServerStep
<1>2. CASE UNCHANGED vars
  <2>1. ServerTypes' /\ client_flag' \in BOOLEAN
    BY <1>2, Halves DEF SelectInv, vars, ServerTypes, MessageTypes
  <2> QED
    BY <1>2, <2>1, ServerOnly DEF vars
<1> QED
  BY <1>1, <1>2

-----------------------------------------------------------------------------
(* The calculator, whose types are inductive. *)

\* The initial states have their types.
LEMMA CalculatorInit == Calculator!Init => Calculator!TypeOK
BY DEF Calculator!Init, Calculator!TypeOK

\* Every step keeps them.
LEMMA CalculatorNext ==
    Calculator!TypeOK /\ [Calculator!Next]_(Calculator!vars) => Calculator!TypeOK'
<1> SUFFICES ASSUME Calculator!TypeOK, [Calculator!Next]_(Calculator!vars)
             PROVE  Calculator!TypeOK'
  OBVIOUS
<1> USE DEF Calculator!TypeOK
<1>1. CASE Calculator!handler
  BY <1>1 DEF Calculator!handler
<1>2. CASE Calculator!Accept
  <2>1. Head(queue) \in Clients /\ Tail(queue) \in Seq(Clients)
    BY <1>2, HeadTailProperties DEF Calculator!Accept
  <2> QED
    BY <1>2, <2>1 DEF Calculator!Accept
<1>3. CASE Calculator!Recv \/ Calculator!SendKills
  BY <1>3 DEF Calculator!Recv, Calculator!SendKills
<1>4. CASE Calculator!RecvFails \/ Calculator!Send
  <2>1. client' \in [Clients -> {"idle", "connected", "sent", "answered", "exited", "killed",
                                 "cut"}]
    BY <1>4 DEF Calculator!RecvFails, Calculator!Send
  <2> QED
    BY <1>4, <2>1 DEF Calculator!RecvFails, Calculator!Send, Calculator!NextRound
<1>5. ASSUME NEW c \in Clients, Calculator!Connect(c) PROVE Calculator!TypeOK'
  <2>1. queue' \in Seq(Clients)
    BY <1>5 DEF Calculator!Connect
  <2> QED
    BY <1>5, <2>1 DEF Calculator!Connect
<1>6. ASSUME NEW c \in Clients,
             \/ Calculator!SendRequest(c) \/ Calculator!Fails(c) \/ Calculator!Answered(c)
             \/ Calculator!Killed(c)
      PROVE  Calculator!TypeOK'
  BY <1>6 DEF Calculator!SendRequest, Calculator!Fails, Calculator!Answered,
              Calculator!Killed
<1>7. CASE UNCHANGED Calculator!vars
  BY <1>7 DEF Calculator!vars
<1> QED
  BY <1>1, <1>2, <1>3, <1>4, <1>5, <1>6, <1>7
  DEF Calculator!Next, Calculator!Server, Calculator!Client

-----------------------------------------------------------------------------
(* Both. *)

\* A step of the whole is a step of each program or none.
LEMMA OneRuns ==
    ASSUME [SocketNext]_allVars
    PROVE  [Next]_vars /\ [Calculator!Next]_(Calculator!vars)
BY DEF SocketNext, allVars, Sel, Cal, calculatorVars, Calculator!vars

\* Both invariants hold throughout.
LEMMA SocketInvariant == FairSpec => [](SelectInv /\ Calculator!TypeOK)
<1>1. SocketInit => SelectInv /\ Calculator!TypeOK
  BY SelectInit, CalculatorInit DEF SocketInit
<1>2. SelectInv /\ Calculator!TypeOK /\ [SocketNext]_allVars
        => SelectInv' /\ Calculator!TypeOK'
  BY OneRuns, SelectNext, CalculatorNext
<1> QED
  BY <1>1, <1>2, PTL DEF FairSpec

\* The types of both servers and their clients: every descriptor the scan comes to is one
\* of the table, and every index on a connection one of the array or -1.
THEOREM SocketTypes == FairSpec => []SocketTypeOK
<1>1. SelectInv /\ Calculator!TypeOK => SocketTypeOK
  BY DEF SelectInv, SocketTypeOK
<1> QED
  BY <1>1, SocketInvariant, PTL

\* The select server gives a symbol to one client only, for any number of clients and
\* symbols, though the index it is asked for may be another thread's or out of date
\* (client_service, writer).
THEOREM GivenOnce == FairSpec => []SymbolGivenOnce
<1>1. SelectInv => SymbolGivenOnce
  BY DEF SelectInv, HeldOnce, Held, SymbolGivenOnce
<1> QED
  BY <1>1, SocketInvariant, PTL

-----------------------------------------------------------------------------
(* Who waits for whom.  The only thread of a server sleeps in accept and in recv; the
   connections that were made and not answered are in a queue or being served, each once,
   and the server sleeps in accept only when there are none. *)

Queued(q, x) == \E k \in 1 .. Len(q) : q[k] = x
Distinct(q) == \A k, l \in 1 .. Len(q) : k # l => q[k] # q[l]

\* A queue that a client joins.
LEMMA QueueJoined ==
    ASSUME NEW S, NEW q \in Seq(S), NEW c \in S, NEW r, r = Append(q, c)
    PROVE  /\ \A x : Queued(r, x) <=> Queued(q, x) \/ x = c
           /\ Distinct(q) /\ ~Queued(q, c) => Distinct(r)
<1>1. /\ Len(q) \in Nat /\ Len(r) = Len(q) + 1 /\ r[Len(q) + 1] = c
      /\ \A k \in 1 .. Len(q) : r[k] = q[k]
  BY AppendProperties, LenProperties
<1>2. 1 .. Len(r) = (1 .. Len(q)) \cup {Len(q) + 1} /\ Len(q) + 1 \notin 1 .. Len(q)
  BY <1>1
<1>3. \A x : Queued(r, x) <=> Queued(q, x) \/ x = c
  BY <1>1, <1>2 DEF Queued
<1>4. ASSUME Distinct(q), ~Queued(q, c) PROVE Distinct(r)
  <2> SUFFICES ASSUME NEW k \in 1 .. Len(r), NEW l \in 1 .. Len(r), k # l PROVE r[k] # r[l]
    BY DEF Distinct
  <2> QED
    BY <1>1, <1>2, <1>4 DEF Distinct, Queued
<1> QED
  BY <1>3, <1>4

\* And one whose first is taken.
LEMMA QueueLeft ==
    ASSUME NEW S, NEW q \in Seq(S), q # <<>>, NEW r, r = Tail(q), NEW h, h = Head(q)
    PROVE  /\ h \in S /\ r \in Seq(S)
           /\ \A x : Queued(q, x) <=> Queued(r, x) \/ x = h
           /\ Distinct(q) => Distinct(r) /\ ~Queued(r, h)
<1>1. /\ Len(q) \in Nat /\ Len(q) > 0 /\ Len(r) = Len(q) - 1 /\ h = q[1] /\ h \in S
      /\ r \in Seq(S) /\ \A k \in 1 .. Len(r) : r[k] = q[k + 1]
  BY HeadTailProperties, LenProperties, EmptySeq
<1>2. /\ 1 \in 1 .. Len(q)
      /\ \A k \in 1 .. Len(r) : k + 1 \in 1 .. Len(q) /\ k + 1 # 1
      /\ \A k \in 1 .. Len(q) : k # 1 => k - 1 \in 1 .. Len(r) /\ (k - 1) + 1 = k
  BY <1>1
<1>3. \A x : Queued(q, x) => Queued(r, x) \/ x = h
  BY <1>1, <1>2 DEF Queued
<1>4. \A x : Queued(r, x) \/ x = h => Queued(q, x)
  BY <1>1, <1>2 DEF Queued
<1>5. ASSUME Distinct(q) PROVE Distinct(r) /\ ~Queued(r, h)
  <2>1. ASSUME NEW k \in 1 .. Len(r), NEW l \in 1 .. Len(r), k # l PROVE r[k] # r[l]
    <3>1. k + 1 # l + 1 /\ k + 1 \in 1 .. Len(q) /\ l + 1 \in 1 .. Len(q)
      BY <1>2, <2>1
    <3> QED
      BY <1>1, <1>5, <3>1 DEF Distinct
  <2>2. ASSUME NEW k \in 1 .. Len(r) PROVE r[k] # h
    BY <1>1, <1>2, <1>5 DEF Distinct
  <2> QED
    BY <2>1, <2>2 DEF Distinct, Queued
<1> QED
  BY <1>1, <1>3, <1>4, <1>5

(* The calculator. *)

Served(c) == server_at \in {"recv", "send"} /\ cur = c
Connected(c) == Served(c) \/ Queued(queue, c)

\* While the server is up, the connections are those of the clients that have made one and
\* have no answer, alive or not; the one it answers has sent its request.
CalculatorInv ==
    /\ Distinct(queue) /\ \A c \in Clients : Queued(queue, c) => ~Served(c)
    /\ Calculator!Up =>
          /\ server_at # "accept" => cur \in Clients
          /\ \A c \in Clients :
                /\ Connected(c) => client[c] \in {"connected", "sent", "killed", "cut"}
                /\ client[c] \in {"connected", "sent"} => Connected(c)
          /\ server_at = "send" => client[cur] \in {"sent", "cut"}

\* A step of the server.
LEMMA CalculatorServer ==
    ASSUME Calculator!TypeOK, CalculatorInv, Calculator!Server
    PROVE  CalculatorInv'
<1>1. /\ queue \in Seq(Clients) /\ server_at \in {"accept", "recv", "send", "ended", "killed"}
      /\ DOMAIN client = Clients
  BY DEF Calculator!TypeOK
<1>2. CASE Calculator!Accept
  <2>1. /\ server_at = "accept" /\ server_at' = "recv" /\ UNCHANGED <<flag, client>>
        /\ queue # <<>> /\ queue' = Tail(queue) /\ cur' = Head(queue)
    BY <1>2 DEF Calculator!Accept
  <2>2. /\ cur' \in Clients /\ \A x : Queued(queue, x) <=> Queued(queue', x) \/ x = cur'
        /\ Distinct(queue') /\ ~Queued(queue', cur')
    BY <1>1, <2>1, QueueLeft DEF CalculatorInv
  <2>3. \A c \in Clients : Connected(c)' <=> Connected(c)
    BY <2>1, <2>2 DEF Connected, Served
  <2> QED
    BY <2>1, <2>2, <2>3 DEF CalculatorInv, Calculator!Up, Served
<1>3. CASE Calculator!Recv
  <2>1. /\ server_at = "recv" /\ server_at' = "send" /\ UNCHANGED <<queue, cur, client>>
        /\ client[cur] \in {"sent", "cut"}
    BY <1>3 DEF Calculator!Recv
  <2>2. \A c : (Connected(c)' <=> Connected(c)) /\ (Served(c)' <=> Served(c))
    BY <2>1 DEF Connected, Served
  <2> QED
    BY <2>1, <2>2 DEF CalculatorInv, Calculator!Up
<1>4. CASE Calculator!SendKills
  BY <1>4 DEF Calculator!SendKills, CalculatorInv, Calculator!Up, Served
<1>5. ASSUME Calculator!RecvFails \/ Calculator!Send PROVE CalculatorInv'
  <2>1. /\ server_at \in {"recv", "send"} /\ server_at' \in {"accept", "ended"}
        /\ UNCHANGED queue
        /\ \/ client[cur] = "killed" /\ client' = client
           \/ client' = [client EXCEPT ![cur] = "answered"]
    BY <1>5 DEF Calculator!RecvFails, Calculator!Send, Calculator!NextRound
  <2>2. cur \in Clients /\ ~Queued(queue, cur) /\ \A c : ~Served(c)'
    BY <2>1 DEF CalculatorInv, Calculator!Up, Served
  <2>3. \A c \in Clients : Connected(c)' <=> Connected(c) /\ c # cur
    BY <2>1, <2>2 DEF Connected, Served
  <2>4. /\ \A c \in Clients : c # cur => client'[c] = client[c]
        /\ client'[cur] \notin {"connected", "sent"}
    BY <1>1, <2>1, <2>2
  <2> QED
    BY <2>1, <2>2, <2>3, <2>4 DEF CalculatorInv, Calculator!Up
<1> QED
  BY <1>2, <1>3, <1>4, <1>5 DEF Calculator!Server

\* A client that goes on, or is killed, with its connection as it is.
LEMMA CalculatorSame ==
    ASSUME Calculator!TypeOK, CalculatorInv, NEW c \in Clients, NEW to,
           UNCHANGED <<server_at, queue, cur>>, client' = [client EXCEPT ![c] = to],
           Calculator!Up =>
               \/ client[c] = "connected" /\ to \in {"sent", "killed"}
               \/ client[c] = "sent" /\ to = "cut"
               \/ client[c] \in {"idle", "answered"} /\ to \in {"idle", "killed"}
    PROVE  CalculatorInv'
<1>1. \A d : (Connected(d)' <=> Connected(d)) /\ (Served(d)' <=> Served(d))
  BY DEF Connected, Served
<1>2. client'[c] = to /\ \A d \in Clients : d # c => client'[d] = client[d]
  BY DEF Calculator!TypeOK
<1>3. ASSUME Calculator!Up, server_at = "send" PROVE client'[cur] \in {"sent", "cut"}
  BY <1>2, <1>3 DEF CalculatorInv
<1>4. ASSUME Calculator!Up, NEW d \in Clients
      PROVE  /\ Connected(d) => client'[d] \in {"connected", "sent", "killed", "cut"}
             /\ client'[d] \in {"connected", "sent"} => Connected(d)
  BY <1>2, <1>4 DEF CalculatorInv
<1> QED
  BY <1>1, <1>3, <1>4 DEF CalculatorInv, Calculator!Up

\* Every step preserves the invariant.
LEMMA CalculatorQueue ==
    ASSUME Calculator!TypeOK, CalculatorInv, [Calculator!Next]_(Calculator!vars)
    PROVE  CalculatorInv'
<1>1. CASE Calculator!handler \/ UNCHANGED Calculator!vars
  <2>1. UNCHANGED <<server_at, queue, cur, client>>
    BY <1>1 DEF Calculator!handler, Calculator!vars
  <2> QED
    BY <2>1 DEF CalculatorInv, Calculator!Up, Served, Connected
<1>2. ASSUME NEW c \in Clients, Calculator!Connect(c) PROVE CalculatorInv'
  <2>1. /\ client[c] = "idle" /\ Calculator!Up /\ queue' = Append(queue, c)
        /\ client' = [client EXCEPT ![c] = "connected"] /\ UNCHANGED <<server_at, cur>>
    BY <1>2 DEF Calculator!Connect
  <2>2. ~Connected(c)
    BY <2>1 DEF CalculatorInv
  <2>3. queue \in Seq(Clients)
    BY DEF Calculator!TypeOK
  <2>4. Distinct(queue') /\ \A x : Queued(queue', x) <=> Queued(queue, x) \/ x = c
    <3>1. Distinct(queue) /\ ~Queued(queue, c)
      BY <2>2 DEF CalculatorInv, Connected
    <3> QED
      BY <2>1, <2>3, <3>1, QueueJoined
  <2>5. client'[c] = "connected" /\ \A d \in Clients : d # c => client'[d] = client[d]
    BY <2>1 DEF Calculator!TypeOK
  <2>6. /\ \A d \in Clients : Served(d)' <=> Served(d)
        /\ \A d \in Clients : Connected(d)' <=> Connected(d) \/ d = c
    BY <2>1, <2>4 DEF Served, Connected
  <2>7. server_at = "send" => cur # c
    BY <2>1, <2>2 DEF Connected, Served
  <2>8. server_at' = "send" => client'[cur'] \in {"sent", "cut"}
    BY <2>1, <2>5, <2>7 DEF CalculatorInv
  <2>9. \A d \in Clients : Queued(queue', d) => ~Served(d)'
    BY <2>2, <2>4, <2>6 DEF CalculatorInv, Connected
  <2>10. \A d \in Clients :
            /\ Connected(d)' => client'[d] \in {"connected", "sent", "killed", "cut"}
            /\ client'[d] \in {"connected", "sent"} => Connected(d)'
    BY <2>1, <2>5, <2>6 DEF CalculatorInv
  <2> QED
    BY <2>1, <2>4, <2>8, <2>9, <2>10 DEF CalculatorInv
<1>3. ASSUME NEW c \in Clients,
             \/ Calculator!SendRequest(c) \/ Calculator!Fails(c) \/ Calculator!Answered(c)
             \/ Calculator!Killed(c)
      PROVE  CalculatorInv'
  <2>1. CASE Calculator!SendRequest(c)
    BY <2>1, CalculatorSame DEF Calculator!SendRequest
  <2>2. CASE Calculator!Fails(c)
    BY <2>2, CalculatorSame DEF Calculator!Fails
  <2>3. CASE Calculator!Answered(c)
    BY <2>3, CalculatorSame DEF Calculator!Answered
  <2>4. CASE Calculator!Killed(c)
    BY <2>4, CalculatorSame DEF Calculator!Killed
  <2> QED
    BY <1>3, <2>1, <2>2, <2>3, <2>4
<1> QED
  BY <1>1, <1>2, <1>3, CalculatorServer DEF Calculator!Next, Calculator!Client

\* The server has something to do: its accept or its recv returns.
CalculatorGoes ==
    \/ server_at = "accept" /\ queue # <<>>
    \/ server_at = "recv" /\ client[cur] \in {"sent", "cut", "killed"}
    \/ server_at = "send"

\* When it sleeps nobody waits for it but the client it waits for.
CalculatorWaits ==
    Calculator!Up /\ ~CalculatorGoes =>
        \/ server_at = "accept" /\ \A c \in Clients : client[c] \notin {"connected", "sent"}
        \/ server_at = "recv" /\ cur \in Clients /\ client[cur] = "connected"

\* The single thread of the calculator sleeps only where it should: in accept when no
\* connection waits, or in recv for a client that is alive and has yet to send its request,
\* whatever clients were killed with their connections in the queue (server.c of task-03).
THEOREM CalculatorServes == FairSpec => []CalculatorWaits
<1>1. SocketInit => CalculatorInv
  <2>1. ASSUME SocketInit PROVE CalculatorInv
    <3>1. queue = <<>> /\ server_at = "accept" /\ client = [c \in Clients |-> "idle"]
      BY <2>1 DEF SocketInit, Calculator!Init
    <3>2. Len(queue) = 0 /\ \A c : ~Queued(queue, c)
      BY <3>1 DEF Queued
    <3> QED
      BY <3>1, <3>2 DEF CalculatorInv, Distinct, Served, Connected
  <2> QED
    BY <2>1
<1>2. CalculatorInv /\ Calculator!TypeOK /\ [SocketNext]_allVars => CalculatorInv'
  BY OneRuns, CalculatorQueue
<1>3. CalculatorInv /\ Calculator!TypeOK => CalculatorWaits
  <2> SUFFICES ASSUME CalculatorInv, Calculator!TypeOK, Calculator!Up, ~CalculatorGoes
               PROVE  \/ server_at = "accept"
                         /\ \A c \in Clients : client[c] \notin {"connected", "sent"}
                      \/ server_at = "recv" /\ cur \in Clients /\ client[cur] = "connected"
    BY DEF CalculatorWaits
  <2>1. CASE server_at = "accept"
    <3>1. queue = <<>>
      BY <2>1 DEF CalculatorGoes
    <3>2. \A c : ~Connected(c)
      BY <2>1, <3>1 DEF Connected, Served, Queued
    <3> QED
      BY <2>1, <3>2 DEF CalculatorInv
  <2>2. CASE server_at = "recv"
    <3>1. cur \in Clients /\ Connected(cur)
      BY <2>2 DEF CalculatorInv, Connected, Served
    <3>2. client[cur] \in {"connected", "sent", "killed", "cut"}
      BY <3>1 DEF CalculatorInv
    <3> QED
      BY <2>2, <3>1, <3>2 DEF CalculatorGoes
  <2> QED
    BY <2>1, <2>2 DEF Calculator!Up, CalculatorGoes
<1> QED
  BY <1>1, <1>2, <1>3, SocketInvariant, PTL DEF FairSpec

(* The select server.  Its first scan closes the standard descriptors, so that every
   connection is accepted as descriptor 0, and the next scan serves it before it comes to
   accept again: there is one at a time. *)

ScanInv ==
    /\ active_fd_count = Listen
    /\ \A f \in Fds : (file[f] \in Clients => f = 0) /\ (file[f] = "socket" => f = Listen)
    /\ spc = "scan" /\ fd <= Listen => \A f \in Fds : f < fd => file[f] = "free"
    /\ Listen \in master_set /\ (file[0] \in Clients => 0 \in master_set)
    /\ spc = "select" => loop_flag
    /\ loop_flag <=> file[Listen] = "socket"

\* The clients that have made a connection and have no answer, alive or not.
InLine(c) == Queued(backlog, c) \/ file[0] = c

LineInv ==
    /\ Distinct(backlog) /\ ~Queued(backlog, file[0])
    /\ \A c \in Clients : InLine(c) =>
          \/ cpc[c] = "exited"
          \/ /\ cpc[c] \in Waiting /\ reply[c] = NoMessage
             /\ cpc[c] \in {"reading", "writing"} => sent[c] # NoMessage
    /\ \A c \in Clients : cpc[c] \in Waiting /\ reply[c] = NoMessage => InLine(c)

\* Descriptors are numbers, and what they refer to is one thing.
LEMMA FdFacts ==
    /\ 0 \in Fds /\ Listen \in Fds /\ 0 < Listen /\ Listen \in Nat /\ Fds \subseteq Nat
    /\ "free" \notin Clients /\ "std" \notin Clients /\ "socket" \notin Clients
<1>1. StdFds \in Nat /\ StdFds > 0
  BY SizeAssumption
<1>2. 0 \in Fds /\ Listen \in Fds /\ 0 < Listen /\ Listen \in Nat /\ Fds \subseteq Nat
  BY <1>1 DEF Fds, Listen
<1> QED
  BY <1>2, ClientsAssumption

\* The initial states.
LEMMA LineInit == Init => ScanInv /\ LineInv
<1> SUFFICES ASSUME Init PROVE ScanInv /\ LineInv
  OBVIOUS
<1>1. /\ \A f \in Fds : file[f] = IF f < StdFds THEN "std"
                                  ELSE IF f = Listen THEN "socket" ELSE "free"
      /\ backlog = <<>> /\ \A c \in Clients : cpc[c] = "loop"
      /\ master_set = {Listen} /\ active_fd_count = Listen /\ spc = "select" /\ loop_flag = TRUE
  BY DEF Init
<1>2. /\ \A f \in Fds : file[f] \notin Clients /\ (file[f] = "socket" => f = Listen)
      /\ file[Listen] = "socket"
  BY <1>1, FdFacts, SizeAssumption DEF Listen
<1>3. \A x : ~Queued(backlog, x)
  BY <1>1 DEF Queued
<1>4. Distinct(backlog)
  BY <1>1 DEF Distinct
<1>5. ScanInv
  BY <1>1, <1>2, FdFacts DEF ScanInv
<1>6. LineInv
  BY <1>1, <1>2, <1>3, <1>4, FdFacts DEF LineInv, InLine, Waiting
<1> QED
  BY <1>5, <1>6

\* Nothing on the connections changes.
LEMMA LineSame ==
    ASSUME LineInv, UNCHANGED <<backlog, cpc, reply, sent>>, file'[0] = file[0]
    PROVE  LineInv'
BY DEF LineInv, InLine

\* select, the end of a scan, an accept that fails and SIGINT.
LEMMA ScanMoves ==
    ASSUME SelectInv, ScanInv, LineInv, Select \/ EndScan \/ AcceptFails \/ sig_handler
    PROVE  ScanInv' /\ LineInv'
<1>0. /\ file \in [Fds -> {"free", "std", "socket"} \cup Clients] /\ fd \in 0 .. StdFds + 2
      /\ StdFds \in Nat /\ loop_flag \in BOOLEAN
  BY SizeAssumption DEF SelectInv, TypeOK
<1>1. UNCHANGED <<backlog, cpc, reply, sent, master_set, active_fd_count>>
  BY DEF Select, EndScan, AcceptFails, sig_handler, clients
<1>2. CASE Select
  <2>1. UNCHANGED <<file, loop_flag>> /\ spc' = "scan" /\ fd' = 0
    BY <1>2 DEF Select
  <2>2. \A f \in Fds : ~(f < 0)
    BY FdFacts
  <2> QED
    BY <1>1, <2>1, <2>2, LineSame DEF ScanInv
<1>3. CASE EndScan
  <2>1. UNCHANGED <<file, loop_flag, fd>> /\ spc' = IF loop_flag THEN "select" ELSE "ended"
    BY <1>3 DEF EndScan
  <2> QED
    BY <1>1, <2>1, LineSame DEF ScanInv
<1>4. CASE AcceptFails
  <2>1. UNCHANGED <<file, loop_flag, spc>> /\ fd = Listen /\ fd' = fd + 1
    BY <1>4 DEF AcceptFails, At
  <2>2. ~(fd' <= Listen)
    BY <2>1, FdFacts
  <2> QED
    BY <1>1, <2>1, <2>2, LineSame DEF ScanInv
<1>5. CASE sig_handler
  <2>1. /\ loop_flag' = FALSE /\ file' = [file EXCEPT ![Listen] = "free"] /\ UNCHANGED fd
        /\ spc' = IF spc = "select" THEN "ended" ELSE spc
    BY <1>5 DEF sig_handler
  <2>2. /\ file'[Listen] = "free" /\ file'[0] = file[0]
        /\ \A f \in Fds : file'[f] \in {file[f], "free"}
    BY <1>0, <2>1, FdFacts
  <2>3. ScanInv'
    BY <1>1, <2>1, <2>2, FdFacts DEF ScanInv
  <2> QED
    BY <1>1, <2>2, <2>3, LineSame
<1> QED
  BY <1>2, <1>3, <1>4, <1>5

\* accept.
LEMMA LineAccept ==
    ASSUME SelectInv, ScanInv, LineInv, Accept
    PROVE  ScanInv' /\ LineInv'
<1>0. file \in [Fds -> {"free", "std", "socket"} \cup Clients] /\ backlog \in Seq(Clients)
  BY DEF SelectInv, TypeOK
<1>1. PICK f \in Fds :
        /\ At(Listen) /\ backlog # <<>> /\ file[f] = "free"
        /\ \A e \in Fds : file[e] = "free" => f <= e
        /\ file' = [file EXCEPT ![f] = Head(backlog)] /\ backlog' = Tail(backlog)
        /\ master_set' = master_set \cup {f}
        /\ active_fd_count' = IF f > active_fd_count THEN f ELSE active_fd_count
        /\ UNCHANGED <<loop_flag, sent, reply, cpc>>
  BY DEF Accept, clients
<1>2. spc = "scan" /\ fd = Listen /\ fd' = fd + 1 /\ UNCHANGED spc
  BY <1>1 DEF At
<1>3. file[0] = "free"
  BY <1>2, FdFacts DEF ScanInv
<1>4. f = 0
  <2>1. f <= 0 /\ f \in Nat
    BY <1>1, <1>3, FdFacts
  <2> QED
    BY <2>1
<1>5. active_fd_count' = Listen /\ ~(fd' <= Listen)
  BY <1>1, <1>2, <1>4, FdFacts DEF ScanInv
<1>6. file'[0] = Head(backlog) /\ \A e \in Fds : e # 0 => file'[e] = file[e]
  BY <1>0, <1>1, <1>4, FdFacts
<1>7. /\ file'[0] \in Clients /\ \A x : Queued(backlog, x) <=> Queued(backlog', x) \/ x = file'[0]
      /\ Distinct(backlog') /\ ~Queued(backlog', file'[0])
  <2>1. Distinct(backlog) /\ backlog \in Seq(Clients) /\ backlog # <<>>
    BY <1>0, <1>1 DEF LineInv
  <2>2. backlog' = Tail(backlog) /\ file'[0] = Head(backlog)
    BY <1>1, <1>6
  <2>3. PICK q, r, h, S : q = backlog /\ r = backlog' /\ h = file'[0] /\ S = Clients
    OBVIOUS
  <2>4. q \in Seq(S) /\ q # <<>> /\ r = Tail(q) /\ h = Head(q) /\ Distinct(q)
    BY <2>1, <2>2, <2>3
  <2>5. /\ h \in S /\ \A x : Queued(q, x) <=> Queued(r, x) \/ x = h
        /\ Distinct(r) /\ ~Queued(r, h)
    BY <2>4, QueueLeft
  <2> QED
    BY <2>3, <2>5
<1>8. ScanInv'
  BY <1>1, <1>2, <1>4, <1>5, <1>6, <1>7, FdFacts DEF ScanInv
<1>9. \A c \in Clients : InLine(c)' <=> InLine(c)
  BY <1>3, <1>7, FdFacts DEF InLine
<1>10. LineInv'
  BY <1>1, <1>7, <1>9 DEF LineInv
<1> QED
  BY <1>8, <1>10

\* A descriptor is closed by client_service; the one the listening socket has may be, too.
LEMMA ScanCloses ==
    ASSUME SelectInv, ScanInv, NEW f \in Fds, f # Listen, At(f),
           UNCHANGED active_fd_count, master_set' = master_set \ {f},
           \/ file' = [file EXCEPT ![f] = "free"] /\ UNCHANGED loop_flag
           \/ file' = [file EXCEPT ![f] = "free", ![Listen] = "free"] /\ loop_flag' = FALSE
    PROVE  ScanInv'
<1>0. file \in [Fds -> {"free", "std", "socket"} \cup Clients]
  BY DEF SelectInv, TypeOK
<1>1. spc = "scan" /\ fd = f /\ f <= Listen /\ fd' = f + 1 /\ UNCHANGED spc
  BY DEF At, ScanInv
<1>2. /\ file'[f] = "free" /\ \A e \in Fds : file'[e] \in {file[e], "free"}
      /\ \A e \in Fds : e # f /\ e # Listen => file'[e] = file[e]
  BY <1>0, FdFacts
<1>3. loop_flag' <=> file'[Listen] = "socket"
  BY <1>0, FdFacts DEF ScanInv
<1>4. \A e \in Fds : e < f + 1 => e < f \/ e = f
  BY FdFacts
<1>5. \A e \in Fds : e < fd' => file'[e] = "free"
  BY <1>1, <1>2, <1>4 DEF ScanInv
<1>6. Listen \in master_set' /\ (file'[0] \in Clients => 0 \in master_set')
  BY <1>2, FdFacts DEF ScanInv
<1>7. \A e \in Fds : (file'[e] \in Clients => e = 0) /\ (file'[e] = "socket" => e = Listen)
  BY <1>2, FdFacts DEF ScanInv
<1> QED
  BY <1>1, <1>3, <1>5, <1>6, <1>7 DEF ScanInv

\* client_service of a descriptor without a client that waits.
LEMMA LineRecvFails ==
    ASSUME SelectInv, ScanInv, LineInv, NEW f \in Fds, RecvFails(f)
    PROVE  ScanInv' /\ LineInv'
<1>0. file \in [Fds -> {"free", "std", "socket"} \cup Clients]
  BY DEF SelectInv, TypeOK
<1>1. /\ f # Listen /\ At(f) /\ file' = [file EXCEPT ![f] = "free"]
      /\ master_set' = master_set \ {f}
      /\ UNCHANGED <<active_fd_count, loop_flag, backlog, cpc, reply, sent>>
      /\ \/ file[f] \in {"free", "std"}
         \/ file[f] \in Clients /\ cpc[file[f]] = "exited"
  BY DEF RecvFails, Close, clients
<1>2. ScanInv'
  BY <1>1, ScanCloses
<1>3. CASE f # 0
  <2>1. file'[0] = file[0]
    BY <1>0, <1>1, <1>3, FdFacts
  <2> QED
    BY <1>1, <1>2, <2>1, LineSame
<1>4. CASE f = 0
  <2>1. file'[0] = "free" /\ \A c \in Clients : file[0] = c => cpc[c] = "exited"
    BY <1>0, <1>1, <1>4, FdFacts
  <2>2. ~Queued(backlog, "free")
    BY FdFacts DEF Queued, SelectInv
  <2>3. \A c \in Clients : InLine(c)' <=> Queued(backlog, c)
    BY <1>1, <2>1, FdFacts DEF InLine
  <2>4. "exited" \notin Waiting
    BY DEF Waiting
  <2>5. \A c \in Clients : cpc[c] \in Waiting /\ reply[c] = NoMessage => Queued(backlog, c)
    BY <2>1, <2>4 DEF LineInv, InLine
  <2>6. LineInv'
    BY <1>1, <2>1, <2>2, <2>3, <2>5 DEF LineInv, InLine
  <2> QED
    BY <1>2, <2>6
<1> QED
  BY <1>3, <1>4

\* client_service answers.
LEMMA LineAnswered ==
    ASSUME SelectInv, ScanInv, LineInv, NEW f \in Fds,
           reader(f) \/ WriterFindsFree(f) \/ WriterFindsOccupied(f) \/ WriterOutOfRange(f)
    PROVE  ScanInv' /\ LineInv'
<1>0. /\ file \in [Fds -> {"free", "std", "socket"} \cup Clients]
      /\ sent \in [Clients -> Indices \cup {NoMessage, Read}]
      /\ reply \in [Clients -> Indices \cup {NoMessage}]
  BY DEF SelectInv, TypeOK
<1>1. PICK v \in Indices :
        /\ file[f] \in Clients
        /\ sent' = [sent EXCEPT ![file[f]] = NoMessage]
        /\ reply' = [reply EXCEPT ![file[f]] = v]
  BY FoundIsIndex, SelectFacts
     DEF reader, WriterFindsFree, WriterFindsOccupied, WriterOutOfRange, Answer
<1>2. f = 0 /\ f # Listen
  BY <1>1, FdFacts DEF ScanInv
<1>3. /\ At(f) /\ master_set' = master_set \ {f} /\ UNCHANGED <<active_fd_count, backlog, cpc>>
      /\ \/ file' = [file EXCEPT ![f] = "free"] /\ UNCHANGED loop_flag
         \/ file' = [file EXCEPT ![f] = "free", ![Listen] = "free"] /\ loop_flag' = FALSE
  BY DEF reader, WriterFindsFree, WriterFindsOccupied, WriterOutOfRange, Close, clients
<1>4. ScanInv'
  BY <1>2, <1>3, ScanCloses
<1>5. PICK c \in Clients : c = file[0]
  BY <1>1, <1>2
<1>6. file'[0] = "free"
  BY <1>0, <1>2, <1>3, FdFacts
<1>7. /\ reply'[c] # NoMessage
      /\ \A d \in Clients : d # c => reply'[d] = reply[d] /\ sent'[d] = sent[d]
  BY <1>0, <1>1, <1>2, <1>5, SelectFacts
<1>8. ~Queued(backlog, "free") /\ ~Queued(backlog, c) /\ Distinct(backlog)
  BY <1>5, FdFacts DEF Queued, SelectInv, LineInv
<1>9. \A d \in Clients : InLine(d)' <=> InLine(d) /\ d # c
  BY <1>3, <1>5, <1>6, <1>8, FdFacts DEF InLine
<1>10. LineInv'
  BY <1>3, <1>6, <1>7, <1>8, <1>9 DEF LineInv
<1> QED
  BY <1>4, <1>10

\* A step of a client that changes nothing but its own place and messages.
LEMMA LineClientMoves ==
    ASSUME SelectInv, LineInv, NEW c \in Clients, NEW to,
           cpc' = [cpc EXCEPT ![c] = to], UNCHANGED <<file, backlog>>,
           \A d \in Clients : d # c => reply'[d] = reply[d] /\ sent'[d] = sent[d],
           \/ to = "exited"
           \/ to \notin Waiting /\ ~InLine(c)
           \/ /\ to \in {"reading", "writing"} /\ cpc[c] \in Waiting
              /\ reply[c] = NoMessage /\ reply'[c] = NoMessage /\ sent'[c] # NoMessage
    PROVE  LineInv'
<1>1. cpc'[c] = to /\ \A d \in Clients : d # c => cpc'[d] = cpc[d]
  BY DEF SelectInv, TypeOK
<1>2. \A d : InLine(d)' <=> InLine(d)
  BY DEF InLine
<1>3. "exited" \notin Waiting /\ {"reading", "writing"} \subseteq Waiting
  BY DEF Waiting
<1>4. ASSUME NEW d \in Clients, InLine(d)
      PROVE  \/ cpc'[d] = "exited"
             \/ /\ cpc'[d] \in Waiting /\ reply'[d] = NoMessage
                /\ cpc'[d] \in {"reading", "writing"} => sent'[d] # NoMessage
  <2>1. CASE d = c
    BY <1>1, <1>3, <1>4, <2>1
  <2>2. CASE d # c
    BY <1>1, <1>4, <2>2 DEF LineInv
  <2> QED
    BY <2>1, <2>2
<1>5. ASSUME NEW d \in Clients, cpc'[d] \in Waiting, reply'[d] = NoMessage PROVE InLine(d)
  <2>1. CASE d = c
    BY <1>1, <1>3, <1>5, <2>1 DEF LineInv
  <2>2. CASE d # c
    BY <1>1, <1>5, <2>2 DEF LineInv
  <2> QED
    BY <2>1, <2>2
<1> QED
  BY <1>2, <1>4, <1>5 DEF LineInv

\* A client joins the backlog.
LEMMA BacklogJoined ==
    ASSUME SelectInv, NEW c \in Clients, backlog' = Append(backlog, c), Distinct(backlog),
           ~Queued(backlog, c)
    PROVE  Distinct(backlog') /\ \A x : Queued(backlog', x) <=> Queued(backlog, x) \/ x = c
<1>1. backlog \in Seq(Clients)
  BY DEF SelectInv
<1> QED
  BY <1>1, QueueJoined

\* The steps of a client.
LEMMA LineClient ==
    ASSUME SelectInv, ScanInv, LineInv, NEW c \in Clients, ClientStep(c)
    PROVE  ScanInv' /\ LineInv'
<1>0. /\ cpc \in [Clients -> Waiting \cup {"loop", "chosen", "exited"}]
      /\ reply \in [Clients -> Indices \cup {NoMessage}]
      /\ sent \in [Clients -> Indices \cup {NoMessage, Read}]
      /\ backlog \in Seq(Clients) /\ idx \in Indices
  BY DEF SelectInv, TypeOK
<1>1. UNCHANGED <<file, master_set, active_fd_count, spc, fd, loop_flag>>
  BY DEF ClientStep, ConnectRead, ConnectWrite, Connect, Send, TakeCopy, TakeAnswer,
         LeaveLoop, CutOff, server
<1>2. ScanInv'
  BY <1>1 DEF ScanInv
<1>3. ASSUME NEW from \in {"loop", "chosen"}, NEW to \in {"connectR", "connectW"},
             Connect(c, from, to)
      PROVE  LineInv'
  <2>1. /\ cpc[c] = from /\ cpc' = [cpc EXCEPT ![c] = to]
        /\ backlog' = Append(backlog, c) /\ UNCHANGED <<sent, reply>>
    BY <1>3 DEF Connect
  <2>2. from \notin Waiting /\ from # "exited" /\ to \in Waiting /\ to \notin {"reading", "writing"}
    BY <1>3 DEF Waiting
  <2>3. ~InLine(c) /\ reply[c] = NoMessage
    BY <2>1, <2>2 DEF LineInv, SelectInv, OneMessage, Waiting
  <2>4. Distinct(backlog') /\ \A x : Queued(backlog', x) <=> Queued(backlog, x) \/ x = c
    <3>1. Distinct(backlog) /\ ~Queued(backlog, c)
      BY <2>3 DEF LineInv, InLine
    <3> QED
      BY <2>1, <3>1, BacklogJoined
  <2>5. cpc'[c] = to /\ \A d \in Clients : d # c => cpc'[d] = cpc[d]
    BY <1>0, <2>1
  <2>6. \A d \in Clients : InLine(d)' <=> InLine(d) \/ d = c
    BY <1>1, <2>4 DEF InLine
  <2>7. ~Queued(backlog', file'[0])
    BY <1>1, <2>3, <2>4 DEF LineInv, InLine
  <2>8. ASSUME NEW d \in Clients, InLine(d)'
        PROVE  \/ cpc'[d] = "exited"
               \/ /\ cpc'[d] \in Waiting /\ reply'[d] = NoMessage
                  /\ cpc'[d] \in {"reading", "writing"} => sent'[d] # NoMessage
    <3>1. CASE d = c
      BY <2>1, <2>2, <2>3, <2>5, <3>1
    <3>2. CASE d # c
      BY <2>1, <2>5, <2>6, <2>8, <3>2 DEF LineInv
    <3> QED
      BY <3>1, <3>2
  <2>9. \A d \in Clients : cpc'[d] \in Waiting /\ reply'[d] = NoMessage => InLine(d)'
    BY <2>1, <2>5, <2>6 DEF LineInv
  <2> QED
    BY <2>4, <2>7, <2>8, <2>9 DEF LineInv
<1>4. CASE ConnectRead(c) \/ ConnectWrite(c)
  BY <1>2, <1>3, <1>4 DEF ConnectRead, ConnectWrite
<1>5. CASE Send(c)
  <2>1. /\ cpc[c] \in {"connectR", "connectW"} /\ UNCHANGED <<backlog, reply>>
        /\ \E to \in {"reading", "writing"}, v \in Indices \cup {Read} :
              cpc' = [cpc EXCEPT ![c] = to] /\ sent' = [sent EXCEPT ![c] = v]
    BY <1>0, <1>5 DEF Send
  <2>2. PICK to \in {"reading", "writing"}, v \in Indices \cup {Read} :
              cpc' = [cpc EXCEPT ![c] = to] /\ sent' = [sent EXCEPT ![c] = v]
    BY <2>1
  <2>3. cpc[c] \in Waiting /\ reply[c] = NoMessage
    BY <2>1 DEF SelectInv, OneMessage, Waiting
  <2>4. sent'[c] # NoMessage /\ \A d \in Clients : d # c => sent'[d] = sent[d]
    BY <1>0, <2>2, SelectFacts
  <2> QED
    BY <1>1, <1>2, <2>1, <2>2, <2>3, <2>4, LineClientMoves
<1>6. CASE TakeCopy(c) \/ TakeAnswer(c)
  <2>1. /\ cpc[c] \in {"reading", "writing"} /\ reply[c] # NoMessage
        /\ UNCHANGED <<backlog, sent>> /\ reply' = [reply EXCEPT ![c] = NoMessage]
        /\ \E to \in {"loop", "chosen"} : cpc' = [cpc EXCEPT ![c] = to]
    BY <1>6 DEF TakeCopy, TakeAnswer
  <2>2. PICK to \in {"loop", "chosen"} : cpc' = [cpc EXCEPT ![c] = to]
    BY <2>1
  <2>3. to \notin Waiting /\ cpc[c] # "exited"
    BY <2>1, <2>2 DEF Waiting
  <2>4. ~InLine(c)
    BY <2>1, <2>3 DEF LineInv
  <2>5. \A d \in Clients : d # c => reply'[d] = reply[d] /\ sent'[d] = sent[d]
    BY <1>0, <2>1
  <2> QED
    BY <1>1, <1>2, <2>1, <2>2, <2>3, <2>4, <2>5, LineClientMoves
<1>7. CASE LeaveLoop(c) \/ CutOff(c)
  <2>1. cpc' = [cpc EXCEPT ![c] = "exited"] /\ UNCHANGED <<backlog, sent, reply>>
    BY <1>7 DEF LeaveLoop, CutOff
  <2> QED
    BY <1>1, <1>2, <2>1, LineClientMoves
<1> QED
  BY <1>4, <1>5, <1>6, <1>7 DEF ClientStep

\* Every step preserves both.
LEMMA LineNext ==
    ASSUME SelectInv, ScanInv, LineInv, [Next]_vars
    PROVE  ScanInv' /\ LineInv'
<1>1. CASE ServerStep
  BY <1>1, ScanMoves, LineAccept, LineRecvFails, LineAnswered DEF ServerStep, client_service
<1>2. CASE client_sig_handler \/ UNCHANGED vars
  <2>1. /\ UNCHANGED <<file, master_set, active_fd_count, spc, fd, loop_flag>>
        /\ UNCHANGED <<backlog, cpc, reply, sent>>
    BY <1>2 DEF client_sig_handler, vars, server
  <2> QED
    BY <2>1, LineSame DEF ScanInv
<1>3. CASE ClientsExit
  <2>1. /\ UNCHANGED <<file, master_set, active_fd_count, spc, fd, loop_flag, backlog>>
        /\ \A c \in Clients : cpc'[c] = "exited"
    BY <1>3 DEF ClientsExit, server
  <2>2. "exited" \notin Waiting
    BY DEF Waiting
  <2> QED
    BY <2>1, <2>2 DEF ScanInv, LineInv
<1> QED
  BY <1>1, <1>2, <1>3, ScanMoves, LineClient DEF Next

\* The server has something to do: its select, accept or recv returns, or it is between
\* them.
ServerGoes ==
    \/ spc = "select" /\ loop_flag /\ \E f \in master_set : Ready(f)
    \/ spc = "scan" /\ fd > active_fd_count
    \/ spc = "scan" /\ fd = Listen /\
          (file[Listen] = "socket" => backlog # <<>> /\ \E f \in Fds : file[f] = "free")
    \/ spc = "scan" /\ fd # Listen /\ fd <= active_fd_count /\
          (file[fd] \in {"free", "std"} \/ Ready(fd))

\* So has a client: it is not in a recv, or its recv returns.
ClientGoes(c) ==
    \/ cpc[c] \in {"loop", "chosen", "connectR", "connectW"}
    \/ cpc[c] \in {"reading", "writing"} /\ (reply[c] # NoMessage \/ spc = "ended")

SomebodyGoes == EveryClientEnded \/ ServerGoes \/ \E c \in Clients : ClientGoes(c)

\* Everyone never waits for everyone at the select server: although its only thread blocks
\* in accept and in recv on descriptors that are not ready, as long as a client is there
\* the server or a client goes on, for any number of clients and descriptors.
THEOREM SelectRunsOn == FairSpec => []SomebodyGoes
<1>1. SocketInit => ScanInv /\ LineInv
  BY LineInit DEF SocketInit
<1>2. SelectInv /\ ScanInv /\ LineInv /\ [SocketNext]_allVars => ScanInv' /\ LineInv'
  BY OneRuns, LineNext
<1>3. SelectInv /\ ScanInv /\ LineInv => SomebodyGoes
  <2> SUFFICES ASSUME SelectInv, ScanInv, LineInv, NEW c \in Clients, cpc[c] # "exited",
                      \A d \in Clients : ~ClientGoes(d)
               PROVE  ServerGoes
    BY DEF SomebodyGoes, EveryClientEnded
  <2>0. /\ cpc \in [Clients -> Waiting \cup {"loop", "chosen", "exited"}]
        /\ spc \in {"select", "scan", "ended"} /\ fd \in 0 .. StdFds + 2
        /\ file \in [Fds -> {"free", "std", "socket"} \cup Clients] /\ backlog \in Seq(Clients)
        /\ StdFds \in Nat
    BY SizeAssumption DEF SelectInv, TypeOK
  <2>1. \A d \in Clients : cpc[d] # "exited" =>
            cpc[d] \in {"reading", "writing"} /\ reply[d] = NoMessage /\ spc # "ended"
    BY <2>0 DEF ClientGoes, Waiting
  <2>2. InLine(c) /\ spc # "ended"
    BY <2>1 DEF LineInv, Waiting
  <2>3. file[0] \in Clients => Ready(0)
    BY <2>1 DEF LineInv, InLine, Ready
  <2>4. file[0] \notin Clients => backlog # <<>>
    BY <2>2 DEF InLine, Queued
  <2>5. CASE spc = "select"
    <3>1. Listen \in master_set /\ loop_flag /\ (file[0] \in Clients => 0 \in master_set)
      BY <2>5 DEF ScanInv
    <3>2. file[0] \notin Clients => Ready(Listen)
      BY <2>4 DEF Ready
    <3> QED
      BY <2>3, <2>5, <3>1, <3>2 DEF ServerGoes
  <2>6. CASE spc = "scan" /\ fd = Listen
    <3>1. file[0] = "free"
      BY <2>6, FdFacts DEF ScanInv
    <3>2. backlog # <<>>
      BY <2>4, <3>1, FdFacts
    <3> QED
      BY <2>6, <3>1, <3>2, FdFacts DEF ServerGoes
  <2>7. CASE spc = "scan" /\ fd # Listen /\ fd <= Listen
    <3>1. fd \in Fds /\ fd < Listen
      BY <2>0, <2>7 DEF Fds, Listen
    <3>2. CASE file[fd] \in Clients
      <4>1. fd = 0
        BY <3>1, <3>2 DEF ScanInv
      <4> QED
        BY <2>3, <2>7, <3>2, <4>1 DEF ServerGoes, ScanInv
    <3>3. CASE file[fd] \in {"free", "std"}
      BY <2>7, <3>3 DEF ServerGoes, ScanInv
    <3>4. file[fd] # "socket"
      BY <2>7, <3>1 DEF ScanInv
    <3> QED
      BY <2>0, <3>1, <3>2, <3>3, <3>4
  <2>8. CASE spc = "scan" /\ ~(fd <= Listen)
    <3>1. fd > active_fd_count
      BY <2>0, <2>8 DEF ScanInv, Listen
    <3> QED
      BY <2>8, <3>1 DEF ServerGoes
  <2> QED
    BY <2>0, <2>2, <2>5, <2>6, <2>7, <2>8
<1> QED
  BY <1>1, <1>2, <1>3, SocketInvariant, PTL DEF FairSpec
=============================================================================

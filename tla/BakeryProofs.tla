---------------------------- MODULE BakeryProofs ----------------------------
(***************************************************************************)
(* Proofs about the bakery calculator, for any number of clients and       *)
(* attempts and any choice of the clients that divide by zero.             *)
(*                                                                         *)
(* Unique numbers are inductive as they stand.  The other properties are   *)
(* about what a datagram may say, and for that the invariant follows each  *)
(* call from its request to its reply: a reply in flight belongs to the    *)
(* call its client waits for and carries a number or an answer of its own; *)
(* on a smooth network a call has one datagram at a time, so that the      *)
(* number the server holds is the one the client was given.                *)
(***************************************************************************)
EXTENDS MCBakery, TLAPS

\* The first call is get_number, every later one asks for the operation.
CallsInOrder ==
    \A c \in Clients :
        /\ pc[c] \in {"unborn", "number"} => call[c] = 0
        /\ pc[c] \in {"service", "pause"} => call[c] > 0

\* What a reply says, to a client that waits for it.
RepliesAwaited ==
    \A m \in replies :
        /\ m.idx \in Clients /\ pc[m.idx] \in Calling /\ m.call = call[m.idx]
        /\ pc[m.idx] = "number" => m.val \in 1 .. MaxNumber
        /\ pc[m.idx] = "service" =>
              /\ m.val \in Answers
              /\ m.idx \notin DivByZero => m.val \in {m.idx, Inf}

\* On a smooth network.
OneDatagram ==
    \A m \in requests :
        /\ pc[m.idx] \in Calling /\ m.call = call[m.idx]
        /\ \A r \in replies : r.idx # m.idx

NumberOnItsWay == \A m \in replies : pc[m.idx] = "number" => numbers[m.idx] = m.val

NumberKnown ==
    \A c \in Clients : pc[c] \in {"service", "pause"} /\ numbers[c] # 0 => num[c] = numbers[c]

NumberKept ==
    /\ \A c \in Clients \ DivByZero : pc[c] = "pause" => numbers[c] # 0
    /\ \A m \in requests : m.idx \notin DivByZero /\ m.call > 0 => numbers[m.idx] # 0
    /\ \A m \in replies :
          m.idx \notin DivByZero /\ m.val = Inf /\ pc[m.idx] = "service" => numbers[m.idx] # 0

Smooth == OneDatagram /\ NumberOnItsWay /\ NumberKnown /\ NumberKept

IInv ==
    /\ TypeOK
    /\ UniqueTickets
    /\ AnswerIsOwn
    /\ CallsInOrder
    /\ RepliesAwaited
    /\ network = "smooth" => Smooth

-----------------------------------------------------------------------------
(* A lemma for each kind of step. *)

\* What the proofs need of the constants.
LEMMA BakeryFacts ==
    /\ Clients \subseteq Nat /\ MaxNumber \in Nat /\ ATTEMPTS \in Nat \ {0}
    /\ Clients \subseteq Answers /\ Inf \in Answers /\ Zero \in Answers
    /\ \A c \in Clients : c # Inf
BY CountsAssumption, AnswersAssumption DEF Clients, Answers

\* The initial states satisfy the invariant.
LEMMA InitIInv == Init => IInv
<1> SUFFICES ASSUME Init PROVE IInv
  OBVIOUS
<1>1. TypeOK
  <2>1. /\ numbers \in [Clients -> 0 .. MaxNumber] /\ num \in [Clients -> 0 .. MaxNumber]
        /\ call \in [Clients -> 0 .. ATTEMPTS]
    BY BakeryFacts DEF Init
  <2>2. result \in Answers /\ res \in [Clients -> Answers]
    BY BakeryFacts DEF Init
  <2>3. /\ pc \in [Clients -> {"unborn", "pause"} \cup Calling \cup Ended]
        /\ requests \subseteq Request /\ replies = {}
        /\ parent \in {"forking", "waiting", "exited", "failed"}
        /\ network \in {"smooth", "lossy"}
    BY DEF Init
  <2> QED
    BY <2>1, <2>2, <2>3 DEF TypeOK
<1>2. UniqueTickets /\ AnswerIsOwn /\ CallsInOrder /\ RepliesAwaited /\ Smooth
  BY DEF Init, UniqueTickets, AnswerIsOwn, CallsInOrder, RepliesAwaited, Smooth,
         OneDatagram, NumberOnItsWay, NumberKnown, NumberKept
<1> QED
  BY <1>1, <1>2 DEF IInv

\* The server answers request m with val and leaves its client the number n.
LEMMA Answered ==
    ASSUME IInv, NEW m \in requests, NEW val, NEW n \in 0 .. MaxNumber,
           Reply(m, val), numbers' = [numbers EXCEPT ![m.idx] = n],
           requests' = requests \ {m}, UNCHANGED <<network, pc, call, num, res, parent>>,
           result' \in Answers, UniqueTickets',
           m.call = 0 => val \in 1 .. MaxNumber /\ n = val,
           m.call > 0 => /\ val \in Answers /\ n \in {0, numbers[m.idx]}
                         /\ m.idx \notin DivByZero => val \in {m.idx, Inf}
                         /\ m.idx \notin DivByZero /\ val = Inf => n = numbers[m.idx]
    PROVE  IInv'
<1>1. PICK c \in Clients : c = m.idx
  BY DEF IInv, TypeOK, Request
<1>2. PICK k \in 0 .. ATTEMPTS : k = m.call
  BY DEF IInv, TypeOK, Request
<1>3. /\ numbers' \in [Clients -> 0 .. MaxNumber] /\ numbers'[c] = n
      /\ \A d \in Clients : d # c => numbers'[d] = numbers[d]
  BY <1>1 DEF IInv, TypeOK
<1>4. PICK a : a = [idx |-> c, call |-> k, val |-> val]
  OBVIOUS
<1>5. a.idx = c /\ a.call = k /\ a.val = val
  BY <1>4
<1>6. \A r \in replies' : \/ r \in replies
                          \/ r = a /\ pc[c] \in Calling /\ call[c] = k
  <2>1. replies' = IF pc[c] \in Calling /\ call[c] = k THEN replies \cup {a} ELSE replies
    BY <1>1, <1>2, <1>4 DEF Reply
  <2> QED
    BY <2>1
<1>7. /\ pc[c] = "number" /\ call[c] = k => k = 0
      /\ pc[c] = "service" /\ call[c] = k => k > 0
  BY DEF IInv, CallsInOrder
<1>8. TypeOK'
  <2>1. k = 0 \/ k > 0
    BY <1>2, BakeryFacts
  <2>2. val \in (0 .. MaxNumber) \cup Answers
    BY <1>2, <2>1, BakeryFacts
  <2>3. ASSUME NEW r \in replies'
        PROVE  /\ r.idx \in Clients /\ r.call \in 0 .. ATTEMPTS
               /\ r.val \in (0 .. MaxNumber) \cup Answers
    <3>1. CASE r \in replies
      BY <3>1 DEF IInv, TypeOK
    <3>2. CASE r = a
      BY <1>5, <2>2, <3>2
    <3> QED
      BY <1>6, <3>1, <3>2
  <2> QED
    BY <1>3, <2>3 DEF IInv, TypeOK
<1>9. AnswerIsOwn' /\ CallsInOrder'
  BY DEF IInv, AnswerIsOwn, CallsInOrder
<1>10. RepliesAwaited'
  <2> SUFFICES ASSUME NEW r \in replies'
               PROVE  /\ r.idx \in Clients /\ pc[r.idx] \in Calling /\ r.call = call[r.idx]
                      /\ pc[r.idx] = "number" => r.val \in 1 .. MaxNumber
                      /\ pc[r.idx] = "service" =>
                            /\ r.val \in Answers
                            /\ r.idx \notin DivByZero => r.val \in {r.idx, Inf}
    BY DEF RepliesAwaited
  <2>1. CASE r \in replies
    BY <2>1 DEF IInv, RepliesAwaited
  <2>2. CASE r = a /\ pc[c] \in Calling /\ call[c] = k
    BY <1>1, <1>2, <1>5, <1>7, <2>2
  <2> QED
    BY <1>6, <2>1, <2>2
<1>11. ASSUME network' = "smooth" PROVE Smooth'
  <2>1. Smooth /\ network = "smooth"
    BY <1>11 DEF IInv
  <2>2. pc[c] \in Calling /\ k = call[c] /\ \A r \in replies : r.idx # c
    BY <1>1, <1>2, <2>1 DEF Smooth, OneDatagram
  <2>3. ASSUME NEW q \in requests' PROVE q \in requests /\ q.idx # c
    <3>1. q \in Request /\ m \in Request /\ q \in requests /\ q # m
      BY DEF IInv, TypeOK
    <3>2. ASSUME q.idx = c PROVE FALSE
      <4>1. q.call = k
        BY <2>1, <2>2, <3>1, <3>2 DEF Smooth, OneDatagram
      <4>2. q.idx = m.idx /\ q.call = m.call
        BY <1>1, <1>2, <3>2, <4>1
      <4> QED
        BY <3>1, <4>2 DEF Request
    <3> QED
      BY <3>1, <3>2
  <2>4. OneDatagram'
    BY <1>5, <1>6, <2>1, <2>3 DEF Smooth, OneDatagram
  <2>5. NumberOnItsWay'
    <3> SUFFICES ASSUME NEW r \in replies', pc[r.idx] = "number"
                 PROVE  numbers'[r.idx] = r.val
      BY DEF NumberOnItsWay
    <3>1. CASE r \in replies
      BY <1>3, <2>1, <2>2, <3>1 DEF Smooth, NumberOnItsWay, IInv, RepliesAwaited
    <3>2. CASE r = a
      BY <1>2, <1>3, <1>5, <1>7, <2>2, <3>2
    <3> QED
      BY <1>6, <3>1, <3>2
  <2>6. NumberKnown'
    <3> SUFFICES ASSUME NEW d \in Clients, pc[d] \in {"service", "pause"}, numbers'[d] # 0
                 PROVE  num[d] = numbers'[d]
      BY DEF NumberKnown
    <3>1. CASE d # c
      BY <1>3, <2>1, <3>1 DEF Smooth, NumberKnown
    <3>2. CASE d = c
      <4>1. k > 0
        BY <1>7, <2>2, <3>2 DEF Calling
      <4>2. n = numbers[c]
        BY <1>1, <1>2, <1>3, <3>2, <4>1
      <4> QED
        BY <1>3, <2>1, <3>2, <4>2 DEF Smooth, NumberKnown
    <3> QED
      BY <3>1, <3>2
  <2>7. NumberKept'
    <3>1. \A d \in Clients \ DivByZero : pc[d] = "pause" => numbers'[d] # 0
      BY <1>3, <2>1, <2>2 DEF Smooth, NumberKept, Calling
    <3>2. ASSUME NEW q \in requests', q.idx \notin DivByZero, q.call > 0
          PROVE  numbers'[q.idx] # 0
      BY <1>3, <2>1, <2>3, <3>2 DEF Smooth, NumberKept, IInv, TypeOK, Request
    <3>3. ASSUME NEW r \in replies', r.idx \notin DivByZero, r.val = Inf,
                 pc[r.idx] = "service"
          PROVE  numbers'[r.idx] # 0
      <4>1. CASE r \in replies
        BY <1>3, <2>1, <2>2, <3>3, <4>1 DEF Smooth, NumberKept, IInv, RepliesAwaited
      <4>2. CASE r = a
        <5>1. k > 0 /\ c \notin DivByZero /\ val = Inf
          BY <1>5, <1>7, <2>2, <3>3, <4>2
        <5>2. n = numbers[c] /\ numbers[c] # 0
          BY <1>1, <1>2, <2>1, <5>1 DEF Smooth, NumberKept
        <5> QED
          BY <1>3, <1>5, <4>2, <5>2
      <4> QED
        BY <1>6, <4>1, <4>2
    <3> QED
      BY <3>1, <3>2, <3>3 DEF NumberKept
  <2> QED
    BY <2>4, <2>5, <2>6, <2>7 DEF Smooth
<1> QED
  BY <1>8, <1>9, <1>10, <1>11 DEF IInv

\* get_number_1_svc, and bakery_service_1_svc that refuses or performs.
LEMMA ServerIInv == ASSUME IInv, ServerStep PROVE IInv'
<1>1. PICK m \in requests : get_number_1_svc(m) \/ Refuse(m) \/ Perform(m)
  BY DEF ServerStep, bakery_service_1_svc
<1>2. m.idx \in Clients /\ m.call \in Nat /\ numbers \in [Clients -> 0 .. MaxNumber]
  BY BakeryFacts DEF IInv, TypeOK, Request
<1>3. \A d \in Clients : numbers[d] \in Nat
  BY <1>2, BakeryFacts
<1>4. CASE get_number_1_svc(m)
  <2>1. PICK max \in 0 .. MaxNumber - 1 :
          /\ m.call = 0 /\ IsMaxNumber(max)
          /\ numbers' = [numbers EXCEPT ![m.idx] = max + 1]
          /\ Reply(m, max + 1)
          /\ requests' = requests \ {m}
          /\ UNCHANGED <<network, result, pc, call, num, res, parent>>
    BY <1>4 DEF get_number_1_svc
  <2>2. max + 1 \in 1 .. MaxNumber /\ max + 1 \in 0 .. MaxNumber
    BY BakeryFacts
  <2>3. \A d \in Clients : numbers'[d] = IF d = m.idx THEN max + 1 ELSE numbers[d]
    BY <1>2, <2>1
  <2>4. \A d \in Clients : numbers[d] # max + 1
    BY <1>3, <2>1, BakeryFacts DEF IsMaxNumber
  <2>5. UniqueTickets'
    BY <2>3, <2>4 DEF IInv, UniqueTickets
  <2>6. result' \in Answers
    BY <2>1 DEF IInv, TypeOK
  <2>7. PICK n \in 0 .. MaxNumber : n = max + 1 /\ n \in 1 .. MaxNumber
    BY <2>2
  <2>8. ~(m.call > 0) /\ Reply(m, n) /\ numbers' = [numbers EXCEPT ![m.idx] = n]
    BY <2>1, <2>7
  <2> QED
    BY <2>1, <2>5, <2>6, <2>7, <2>8, Answered
<1>5. CASE Refuse(m)
  <2>1. /\ m.call > 0 /\ result' = Inf /\ Reply(m, Inf) /\ requests' = requests \ {m}
        /\ UNCHANGED <<network, numbers, pc, call, num, res, parent>>
    BY <1>5 DEF Refuse
  <2>2. numbers' = [numbers EXCEPT ![m.idx] = numbers[m.idx]]
    BY <1>2, <2>1
  <2>3. UniqueTickets' /\ result' \in Answers
    BY <2>1, BakeryFacts DEF IInv, UniqueTickets
  <2>4. m.call # 0 /\ numbers[m.idx] \in 0 .. MaxNumber
    BY <1>2, <2>1
  <2> QED
    BY <2>1, <2>2, <2>3, <2>4, BakeryFacts, Answered
<1>6. CASE Perform(m)
  <2>1. /\ m.call > 0 /\ result' = IF m.idx \in DivByZero THEN result ELSE m.idx
        /\ numbers' = [numbers EXCEPT ![m.idx] = 0]
        /\ Reply(m, result') /\ requests' = requests \ {m}
        /\ UNCHANGED <<network, pc, call, num, res, parent>>
    BY <1>6 DEF Perform
  <2>2. \A d \in Clients : numbers'[d] = IF d = m.idx THEN 0 ELSE numbers[d]
    BY <1>2, <2>1
  <2>3. UniqueTickets'
    BY <2>2 DEF IInv, UniqueTickets
  <2>4. PICK v \in Answers : v = result'
    BY <1>2, <2>1, BakeryFacts DEF IInv, TypeOK
  <2>5. m.idx \notin DivByZero => v = m.idx /\ v # Inf
    BY <1>2, <2>1, <2>4, BakeryFacts
  <2>6. m.call # 0 /\ 0 \in 0 .. MaxNumber
    BY <1>2, <2>1, BakeryFacts
  <2>7. Reply(m, v)
    BY <2>1, <2>4
  <2> QED
    BY <2>1, <2>3, <2>4, <2>5, <2>6, <2>7, Answered
<1> QED
  BY <1>1, <1>4, <1>5, <1>6

\* Client c starts call k, having no datagram of its own in flight on a smooth network.
LEMMA CallStarted ==
    ASSUME IInv, NEW c \in Clients, NEW k \in 0 .. ATTEMPTS, NEW to \in Calling,
           Call(c, k), pc' = [pc EXCEPT ![c] = to], k = 0 <=> to = "number",
           UNCHANGED <<network, server, res>>,
           num' \in [Clients -> 0 .. MaxNumber],
           \A d \in Clients : d # c => num'[d] = num[d],
           parent' \in {"forking", "waiting", "exited", "failed"},
           network = "smooth" =>
              /\ \A q \in requests : q.idx # c
              /\ to = "service" /\ numbers[c] # 0 => num'[c] = numbers[c]
              /\ to = "service" /\ c \notin DivByZero => numbers[c] # 0
    PROVE  IInv'
<1>1. UNCHANGED <<numbers, result>>
  BY DEF server
<1>2. /\ pc' \in [Clients -> {"unborn", "pause"} \cup Calling \cup Ended] /\ pc'[c] = to
      /\ \A d \in Clients : d # c => pc'[d] = pc[d]
  BY DEF IInv, TypeOK
<1>3. /\ call' \in [Clients -> 0 .. ATTEMPTS] /\ call'[c] = k
      /\ \A d \in Clients : d # c => call'[d] = call[d]
  BY DEF IInv, TypeOK, Call
<1>4. PICK q : q = [idx |-> c, call |-> k]
  OBVIOUS
<1>5. q.idx = c /\ q.call = k /\ q \in Request /\ requests' = requests \cup {q}
  BY <1>4 DEF Call, Request
<1>6. \A r \in replies' : r \in replies /\ r.idx \in Clients /\ r.idx # c
  BY DEF Call, IInv, TypeOK
<1>7. TypeOK'
  BY <1>1, <1>2, <1>3, <1>5, <1>6 DEF IInv, TypeOK
<1>8. UniqueTickets' /\ AnswerIsOwn'
  BY <1>1, <1>2 DEF IInv, UniqueTickets, AnswerIsOwn, Calling
<1>9. CallsInOrder'
  <2>1. k = 0 \/ k > 0
    BY BakeryFacts
  <2> QED
    BY <1>2, <1>3, <2>1 DEF IInv, CallsInOrder, Calling
<1>10. RepliesAwaited'
  BY <1>2, <1>3, <1>6 DEF IInv, RepliesAwaited
<1>11. ASSUME network' = "smooth" PROVE Smooth'
  <2>1. Smooth /\ network = "smooth"
    BY <1>11 DEF IInv
  <2>2. \A p \in requests : p.idx # c /\ p.idx \in Clients
    BY <2>1 DEF IInv, TypeOK, Request
  <2>3. OneDatagram'
    BY <1>2, <1>3, <1>5, <1>6, <2>1, <2>2 DEF Smooth, OneDatagram
  <2>4. NumberOnItsWay'
    BY <1>1, <1>2, <1>6, <2>1 DEF Smooth, NumberOnItsWay
  <2>5. NumberKnown'
    BY <1>1, <1>2, <2>1 DEF Smooth, NumberKnown, Calling
  <2>6. NumberKept'
    <3>1. k > 0 => to = "service"
      BY DEF Calling
    <3> QED
      BY <1>1, <1>2, <1>5, <1>6, <2>1, <2>2, <3>1 DEF Smooth, NumberKept, Calling
  <2> QED
    BY <2>3, <2>4, <2>5, <2>6 DEF Smooth
<1> QED
  BY <1>7, <1>8, <1>9, <1>10, <1>11 DEF IInv

\* Client c has no call outstanding any more, or ends.
LEMMA CallOver ==
    ASSUME IInv, NEW c \in Clients, NEW to \in {"pause"} \cup Ended,
           pc' = [pc EXCEPT ![c] = to],
           to = "pause" => pc[c] = "service",
           to = "done" /\ c \notin DivByZero => res'[c] = c,
           UNCHANGED <<network, server, num, call, requests>>,
           res' \in [Clients -> Answers],
           \A d \in Clients : d # c => res'[d] = res[d],
           replies' \subseteq replies, \A r \in replies' : r.idx # c,
           parent' \in {"forking", "waiting", "exited", "failed"},
           network = "smooth" =>
              /\ \A q \in requests : q.idx # c
              /\ to = "pause" /\ c \notin DivByZero => numbers[c] # 0
    PROVE  IInv'
<1>1. UNCHANGED <<numbers, result>>
  BY DEF server
<1>2. /\ pc' \in [Clients -> {"unborn", "pause"} \cup Calling \cup Ended] /\ pc'[c] = to
      /\ \A d \in Clients : d # c => pc'[d] = pc[d]
  BY DEF IInv, TypeOK
<1>3. \A r \in replies' : r \in replies /\ r.idx \in Clients /\ r.idx # c
  BY DEF IInv, TypeOK
<1>4. to \notin Calling /\ to # "unborn" /\ to # "number" /\ to # "service"
  BY DEF Calling, Ended
<1>5. TypeOK'
  BY <1>1, <1>2, <1>3 DEF IInv, TypeOK
<1>6. UniqueTickets'
  BY <1>1 DEF IInv, UniqueTickets
<1>7. AnswerIsOwn'
  BY <1>2 DEF IInv, AnswerIsOwn
<1>8. CallsInOrder'
  BY <1>2, <1>4 DEF IInv, CallsInOrder
<1>9. RepliesAwaited'
  BY <1>2, <1>3 DEF IInv, RepliesAwaited
<1>10. ASSUME network' = "smooth" PROVE Smooth'
  <2>1. Smooth /\ network = "smooth"
    BY <1>10 DEF IInv
  <2>2. \A p \in requests : p.idx # c /\ p.idx \in Clients
    BY <2>1 DEF IInv, TypeOK, Request
  <2>3. OneDatagram'
    BY <1>2, <1>3, <2>1, <2>2 DEF Smooth, OneDatagram
  <2>4. NumberOnItsWay'
    BY <1>1, <1>2, <1>3, <2>1 DEF Smooth, NumberOnItsWay
  <2>5. NumberKnown'
    BY <1>1, <1>2, <1>4, <2>1 DEF Smooth, NumberKnown
  <2>6. NumberKept'
    BY <1>1, <1>2, <1>3, <2>1, <2>2 DEF Smooth, NumberKept
  <2> QED
    BY <2>3, <2>4, <2>5, <2>6 DEF Smooth
<1> QED
  BY <1>5, <1>6, <1>7, <1>8, <1>9, <1>10 DEF IInv

\* A step of the transport that loses a datagram, and one of the parent that does not
\* fork, change nothing of this.
LEMMA Fewer ==
    ASSUME IInv, UNCHANGED <<network, server, pc, call, num, res>>,
           requests' \subseteq requests, replies' \subseteq replies,
           parent' \in {"forking", "waiting", "exited", "failed"}
    PROVE  IInv'
<1>1. UNCHANGED <<numbers, result>>
  BY DEF server
<1>2. TypeOK'
  BY <1>1 DEF IInv, TypeOK
<1>3. UniqueTickets' /\ AnswerIsOwn' /\ CallsInOrder'
  BY <1>1 DEF IInv, UniqueTickets, AnswerIsOwn, CallsInOrder
<1>4. RepliesAwaited'
  BY DEF IInv, RepliesAwaited
<1>5. ASSUME network' = "smooth" PROVE Smooth'
  <2>1. Smooth
    BY <1>5 DEF IInv
  <2>2. OneDatagram' /\ NumberOnItsWay'
    BY <1>1, <2>1 DEF Smooth, OneDatagram, NumberOnItsWay
  <2>3. NumberKnown' /\ NumberKept'
    BY <1>1, <2>1 DEF Smooth, NumberKnown, NumberKept
  <2> QED
    BY <2>2, <2>3 DEF Smooth
<1> QED
  BY <1>2, <1>3, <1>4, <1>5 DEF IInv

\* A client that waits for no reply has no datagram in flight on a smooth network, and one
\* that gets its reply has no request in flight.
LEMMA NoRequest ==
    ASSUME IInv, network = "smooth", NEW c \in Clients,
           pc[c] \notin Calling \/ \E r \in replies : r.idx = c
    PROVE  \A q \in requests : q.idx # c
BY DEF IInv, Smooth, OneDatagram

\* The parent.
LEMMA ParentIInv == ASSUME IInv, ParentStep PROVE IInv'
<1>1. ASSUME NEW c \in Clients, Fork(c) PROVE IInv'
  <2>1. /\ pc[c] = "unborn" /\ UNCHANGED <<network, server, num, res>>
        /\ parent' \in {"forking", "waiting", "exited", "failed"}
    BY <1>1 DEF Fork
  <2>2. /\ pc[c] \notin Calling /\ num' \in [Clients -> 0 .. MaxNumber]
        /\ res' \in [Clients -> Answers]
    BY <2>1 DEF Calling, IInv, TypeOK
  <2>3. network = "smooth" => \A q \in requests : q.idx # c
    BY <2>2, NoRequest
  <2>4. CASE pc' = [pc EXCEPT ![c] = "number"] /\ Call(c, 0)
    <3>1. 0 \in 0 .. ATTEMPTS /\ "number" \in Calling /\ "number" # "service"
      BY BakeryFacts DEF Calling
    <3> QED
      BY <2>1, <2>2, <2>3, <2>4, <3>1, CallStarted
  <2>5. CASE pc' = [pc EXCEPT ![c] = "exited"] /\ UNCHANGED <<call, requests, replies>>
    <3>1. \A r \in replies' : r.idx # c
      BY <2>2, <2>5 DEF IInv, RepliesAwaited
    <3>2. "exited" \in Ended /\ "exited" # "pause" /\ "exited" # "done"
      BY DEF Ended
    <3> QED
      BY <2>1, <2>2, <2>3, <2>5, <3>1, <3>2, CallOver
  <2> QED
    BY <1>1, <2>4, <2>5 DEF Fork
<1>2. CASE ForkFails \/ ParentExits
  BY <1>2, Fewer DEF ForkFails, ParentExits
<1> QED
  BY <1>1, <1>2 DEF ParentStep

\* The clients.
LEMMA ClientIInv ==
    ASSUME IInv, NEW c \in Clients, ClientStep(c) \/ TimesOut(c)
    PROVE  IInv'
<1>1. /\ parent \in {"forking", "waiting", "exited", "failed"}
      /\ res \in [Clients -> Answers] /\ num \in [Clients -> 0 .. MaxNumber]
  BY DEF IInv, TypeOK
<1>2. CASE GetsNumber(c)
  <2>1. PICK m \in replies :
          /\ pc[c] = "number" /\ m.idx = c
          /\ num' = [num EXCEPT ![c] = m.val]
          /\ pc' = [pc EXCEPT ![c] = "service"]
          /\ Call(c, 1)
          /\ UNCHANGED <<network, server, res, parent>>
    BY <1>2 DEF GetsNumber
  <2>2. m.val \in 1 .. MaxNumber /\ m.val \in 0 .. MaxNumber /\ m.val # 0
    BY <2>1, BakeryFacts DEF IInv, RepliesAwaited
  <2>3. /\ num' \in [Clients -> 0 .. MaxNumber] /\ num'[c] = m.val
        /\ \A d \in Clients : d # c => num'[d] = num[d]
    BY <1>1, <2>1, <2>2
  <2>4. network = "smooth" => (\A q \in requests : q.idx # c) /\ numbers[c] = m.val
    BY <2>1, NoRequest DEF IInv, Smooth, NumberOnItsWay
  <2>5. 1 \in 0 .. ATTEMPTS /\ "service" \in Calling /\ "service" # "number" /\ 1 # 0
    BY BakeryFacts DEF Calling
  <2> QED
    BY <1>1, <2>1, <2>2, <2>3, <2>4, <2>5, CallStarted
<1>3. CASE GetsResult(c)
  <2>1. PICK m \in replies :
          /\ pc[c] = "service" /\ m.idx = c
          /\ res' = [res EXCEPT ![c] = m.val]
          /\ pc' = [pc EXCEPT ![c] = IF m.val = Inf THEN "pause" ELSE "done"]
          /\ HangUp(c)
          /\ UNCHANGED <<network, server, num, parent>>
    BY <1>3 DEF GetsResult
  <2>2. m.val \in Answers /\ (c \notin DivByZero => m.val \in {c, Inf})
    BY <2>1 DEF IInv, RepliesAwaited
  <2>3. /\ res' \in [Clients -> Answers] /\ res'[c] = m.val
        /\ \A d \in Clients : d # c => res'[d] = res[d]
    BY <1>1, <2>1, <2>2
  <2>4. /\ UNCHANGED <<call, requests>> /\ replies' \subseteq replies
        /\ \A r \in replies' : r.idx # c
    BY <2>1 DEF HangUp
  <2>5. network = "smooth" =>
          /\ \A q \in requests : q.idx # c
          /\ m.val = Inf /\ c \notin DivByZero => numbers[c] # 0
    BY <2>1, NoRequest DEF IInv, Smooth, NumberKept
  <2>6. PICK to \in {"pause"} \cup Ended :
          /\ to = IF m.val = Inf THEN "pause" ELSE "done"
          /\ to = "pause" => m.val = Inf
          /\ to = "done" => m.val # Inf
    BY DEF Ended
  <2>7. pc' = [pc EXCEPT ![c] = to]
    BY <2>1, <2>6
  <2> QED
    BY <1>1, <2>1, <2>2, <2>3, <2>4, <2>5, <2>6, <2>7, CallOver
<1>4. CASE WakesUp(c)
  <2>1. pc[c] = "pause" /\ pc[c] \notin Calling /\ UNCHANGED <<network, server, num, res, parent>>
    BY <1>4 DEF WakesUp, Calling
  <2>2. network = "smooth" =>
          /\ \A q \in requests : q.idx # c
          /\ numbers[c] # 0 => num[c] = numbers[c]
          /\ c \notin DivByZero => numbers[c] # 0
    BY <2>1, NoRequest DEF IInv, Smooth, NumberKnown, NumberKept
  <2>3. CASE call[c] < ATTEMPTS /\ pc' = [pc EXCEPT ![c] = "service"] /\ Call(c, call[c] + 1)
    <3>1. call[c] + 1 \in 0 .. ATTEMPTS /\ call[c] + 1 # 0
      BY <2>3, BakeryFacts DEF IInv, TypeOK
    <3>2. "service" \in Calling /\ "service" # "number"
      BY DEF Calling
    <3> QED
      BY <1>1, <2>1, <2>2, <2>3, <3>1, <3>2, CallStarted
  <2>4. CASE pc' = [pc EXCEPT ![c] = "exhausted"] /\ UNCHANGED <<call, requests, replies>>
    <3>1. \A r \in replies' : r.idx # c
      BY <2>1, <2>4 DEF IInv, RepliesAwaited
    <3>2. "exhausted" \in Ended /\ "exhausted" # "pause" /\ "exhausted" # "done"
      BY DEF Ended
    <3> QED
      BY <1>1, <2>1, <2>2, <2>4, <3>1, <3>2, CallOver
  <2> QED
    BY <1>4, <2>3, <2>4 DEF WakesUp
<1>5. CASE TimesOut(c)
  <2>1. /\ network # "smooth" /\ pc' = [pc EXCEPT ![c] = "crashed"] /\ HangUp(c)
        /\ UNCHANGED <<network, server, num, res, parent>>
    BY <1>5 DEF TimesOut
  <2>2. /\ UNCHANGED <<call, requests>> /\ replies' \subseteq replies
        /\ \A r \in replies' : r.idx # c
    BY <2>1 DEF HangUp
  <2>3. "crashed" \in Ended /\ "crashed" # "pause" /\ "crashed" # "done"
    BY DEF Ended
  <2> QED
    BY <1>1, <2>1, <2>2, <2>3, CallOver
<1> QED
  BY <1>2, <1>3, <1>4, <1>5 DEF ClientStep

\* The transport.
LEMMA MishapIInv == ASSUME IInv, Mishap PROVE IInv'
<1>1. ASSUME NEW c \in Clients, Retransmit(c) PROVE IInv'
  <2>1. /\ network' # "smooth" /\ requests' = requests \cup {[idx |-> c, call |-> call[c]]}
        /\ UNCHANGED <<network, server, pc, call, num, res, replies, parent>>
    BY <1>1 DEF Retransmit
  <2>2. [idx |-> c, call |-> call[c]] \in Request
    BY DEF IInv, TypeOK, Request
  <2>3. UNCHANGED <<numbers, result>>
    BY <2>1 DEF server
  <2>4. TypeOK'
    BY <2>1, <2>2, <2>3 DEF IInv, TypeOK
  <2>5. UniqueTickets' /\ AnswerIsOwn' /\ CallsInOrder'
    BY <2>1, <2>3 DEF IInv, UniqueTickets, AnswerIsOwn, CallsInOrder
  <2>6. RepliesAwaited'
    BY <2>1 DEF IInv, RepliesAwaited
  <2> QED
    BY <2>1, <2>4, <2>5, <2>6 DEF IInv
<1>2. ASSUME NEW m, LoseRequest(m) \/ LoseReply(m) PROVE IInv'
  <2>1. parent' \in {"forking", "waiting", "exited", "failed"}
    BY <1>2 DEF LoseRequest, LoseReply, IInv, TypeOK
  <2> QED
    BY <1>2, <2>1, Fewer DEF LoseRequest, LoseReply
<1> QED
  BY <1>1, <1>2, ClientIInv DEF Mishap

\* The invariant holds throughout.
LEMMA BakeryInvariant == Spec => []IInv
<1>1. IInv /\ [Next]_vars => IInv'
  <2> SUFFICES ASSUME IInv, [Next]_vars PROVE IInv'
    OBVIOUS
  <2>1. CASE Next
    BY <2>1, ServerIInv, ParentIInv, ClientIInv, MishapIInv DEF Next
  <2>2. CASE UNCHANGED vars
    BY <2>2, Fewer DEF vars, server, IInv, TypeOK
  <2> QED
    BY <2>1, <2>2
<1> QED
  BY <1>1, InitIInv, PTL DEF Spec

-----------------------------------------------------------------------------
(* The theorems. *)

\* Every variable keeps its type: a client's number is one the server gave, and every
\* answer is a client's result, zero or infinity.
THEOREM Types == Spec => []TypeOK
<1>1. IInv => TypeOK
  BY DEF IInv
<1> QED
  BY <1>1, BakeryInvariant, PTL

\* Two clients never hold the same number, whatever the transport loses or repeats
\* (max_number, get_number_1_svc).
THEOREM TicketsUnique == Spec => []UniqueTickets
<1>1. IInv => UniqueTickets
  BY DEF IInv
<1> QED
  BY <1>1, BakeryInvariant, PTL

\* A client that does not divide by zero and ends with a result has its own, though all
\* results pass through one static variable (bakery_service_1_svc).
THEOREM OwnAnswer == Spec => []AnswerIsOwn
<1>1. IInv => AnswerIsOwn
  BY DEF IInv
<1> QED
  BY <1>1, BakeryInvariant, PTL

\* On a smooth network a client that was refused holds its number until it asks again.
THEOREM PlaceKept == Spec => []RefusedKeepsPlace
<1>1. IInv => RefusedKeepsPlace
  BY DEF IInv, Smooth, NumberKept, RefusedKeepsPlace
<1> QED
  BY <1>1, BakeryInvariant, PTL

\* On a smooth network the clients are served in the order of the numbers they were given.
THEOREM InOrder == Spec => ServedInOrder
<1>1. ASSUME IInv, Next, NEW c \in Clients, NEW d \in Clients, network = "smooth",
             numbers[d] # 0, numbers'[d] = 0, pc[c] \in {"service", "pause"}, numbers[c] # 0
      PROVE  num[d] <= num[c]
  <2>1. numbers \in [Clients -> 0 .. MaxNumber]
    BY <1>1 DEF IInv, TypeOK
  <2>2. PICK m \in requests : Perform(m)
    <3>1. ServerStep
      BY <1>1 DEF Next, ParentStep, Fork, ForkFails, ParentExits, ClientStep,
                  GetsNumber,
                  GetsResult, WakesUp, Mishap, Retransmit, TimesOut, LoseRequest,
                  LoseReply,
                  server
    <3>2. PICK m \in requests : get_number_1_svc(m) \/ Refuse(m) \/ Perform(m)
      BY <3>1 DEF ServerStep, bakery_service_1_svc
    <3>3. ~Refuse(m)
      BY <1>1 DEF Refuse
    <3>4. ~get_number_1_svc(m)
      <4>1. ASSUME get_number_1_svc(m) PROVE FALSE
        <5>1. PICK max \in 0 .. MaxNumber - 1 : numbers' = [numbers EXCEPT ![m.idx] = max + 1]
          BY <4>1 DEF get_number_1_svc
        <5>2. numbers'[d] \in {numbers[d], max + 1} /\ max + 1 # 0
          BY <2>1, <5>1
        <5> QED
          BY <1>1, <5>2
      <4> QED
        BY <4>1
    <3> QED
      BY <3>2, <3>3, <3>4
  <2>3. m.idx = d
    BY <1>1, <2>1, <2>2 DEF Perform
  <2>4. ~HigherPriority(c, d)
    BY <2>2, <2>3 DEF Perform
  <2>5. numbers[d] <= numbers[c]
    BY <1>1, <2>1, <2>4, BakeryFacts DEF HigherPriority
  <2>6. pc[d] = "service"
    <3>1. Smooth /\ m.call > 0 /\ m \in Request
      BY <1>1, <2>2 DEF IInv, TypeOK, Perform
    <3>2. pc[d] \in Calling /\ call[d] > 0
      BY <2>3, <3>1 DEF Smooth, OneDatagram
    <3> QED
      BY <1>1, <3>2 DEF IInv, CallsInOrder, Calling
  <2>7. num[d] = numbers[d] /\ num[c] = numbers[c]
    BY <1>1, <2>6 DEF IInv, Smooth, NumberKnown
  <2> QED
    BY <2>5, <2>7
<1>2. IInv /\ [Next]_vars =>
        [\A c, d \in Clients :
           /\ network = "smooth"
           /\ numbers[d] # 0 /\ numbers'[d] = 0
           /\ pc[c] \in {"service", "pause"} /\ numbers[c] # 0
           => num[d] <= num[c]]_vars
  BY <1>1
<1> QED
  BY <1>2, BakeryInvariant, PTL DEF Spec, ServedInOrder

-----------------------------------------------------------------------------
(* Why the clients end: each of their steps brings them nearer to the last attempt, and
   none of them waits for an answer that cannot come. *)

\* The steps a client has before it.
StepsLeft(c) ==
    CASE pc[c] = "unborn"  -> 2 * ATTEMPTS + 2
      [] pc[c] = "number"  -> 2 * ATTEMPTS + 1
      [] pc[c] = "service" -> 2 * (ATTEMPTS - call[c]) + 2
      [] pc[c] = "pause"   -> 2 * (ATTEMPTS - call[c]) + 1
      [] OTHER             -> 0

\* They are a number.
LEMMA StepsAreNumbers ==
    ASSUME IInv, NEW c \in Clients
    PROVE  /\ StepsLeft(c) \in Nat
           /\ pc[c] \in {"unborn", "pause"} \cup Calling => StepsLeft(c) > 0
           /\ call[c] \in Nat /\ call[c] <= ATTEMPTS
<1>1. call[c] \in 0 .. ATTEMPTS /\ ATTEMPTS \in Nat /\ ATTEMPTS > 0
  BY BakeryFacts DEF IInv, TypeOK
<1>2. /\ 2 * ATTEMPTS \in Nat /\ 2 * (ATTEMPTS - call[c]) \in Nat
      /\ call[c] \in Nat /\ call[c] <= ATTEMPTS
  BY <1>1
<1>3. PICK a \in Nat : a = 2 * ATTEMPTS
  BY <1>2
<1>4. PICK b \in Nat : b = 2 * (ATTEMPTS - call[c])
  BY <1>2
<1>5. StepsLeft(c) = CASE pc[c] = "unborn"  -> a + 2
                       [] pc[c] = "number"  -> a + 1
                       [] pc[c] = "service" -> b + 2
                       [] pc[c] = "pause"   -> b + 1
                       [] OTHER             -> 0
  BY <1>3, <1>4 DEF StepsLeft
<1> QED
  BY <1>2, <1>5 DEF Calling

\* Only a client's own steps, its birth and its timeouts change where it is.
LEMMA StaysPut ==
    ASSUME IInv, [Next]_vars, NEW c \in Clients, ~ClientStep(c), ~TimesOut(c), ~Fork(c)
    PROVE  pc'[c] = pc[c] /\ call'[c] = call[c]
<1>0. pc \in [Clients -> {"unborn", "pause"} \cup Calling \cup Ended]
      /\ call \in [Clients -> 0 .. ATTEMPTS]
  BY DEF IInv, TypeOK
<1>1. CASE ServerStep
  BY <1>1 DEF ServerStep, get_number_1_svc, bakery_service_1_svc, Refuse, Perform
<1>2. CASE \E d \in Clients : Fork(d)
  <2>1. PICK d \in Clients : Fork(d)
    BY <1>2
  <2>2. d # c
    BY <2>1
  <2> QED
    BY <1>0, <2>1, <2>2 DEF Fork, Call
<1>3. CASE ForkFails \/ ParentExits
  BY <1>3 DEF ForkFails, ParentExits
<1>4. ASSUME NEW d \in Clients, ClientStep(d) PROVE pc'[c] = pc[c] /\ call'[c] = call[c]
  <2>1. d # c
    BY <1>4
  <2> QED
    BY <1>0, <1>4, <2>1 DEF ClientStep, GetsNumber, GetsResult, WakesUp, Call, HangUp
<1>5. ASSUME NEW d \in Clients, TimesOut(d) PROVE pc'[c] = pc[c] /\ call'[c] = call[c]
  <2>1. d # c
    BY <1>5
  <2> QED
    BY <1>0, <1>5, <2>1 DEF TimesOut, HangUp
<1>6. CASE \/ \E d \in Clients : Retransmit(d)
           \/ (\E m \in requests : LoseRequest(m)) \/ (\E m \in replies : LoseReply(m))
  BY <1>6 DEF Retransmit, LoseRequest, LoseReply
<1>7. CASE UNCHANGED vars
  BY <1>7 DEF vars
<1> QED
  BY <1>1, <1>2, <1>3, <1>4, <1>5, <1>6, <1>7 DEF Next, ParentStep, Mishap

\* A step of a client leaves it fewer.
LEMMA StepCounts ==
    ASSUME IInv, NEW c \in Clients, ClientStep(c) \/ TimesOut(c) \/ Fork(c)
    PROVE  StepsLeft(c)' < StepsLeft(c)
<1>0. /\ pc \in [Clients -> {"unborn", "pause"} \cup Calling \cup Ended]
      /\ call \in [Clients -> 0 .. ATTEMPTS] /\ ATTEMPTS \in Nat /\ ATTEMPTS > 0
  BY BakeryFacts DEF IInv, TypeOK
<1>1. /\ StepsLeft(c) \in Nat /\ call[c] \in Nat /\ call[c] <= ATTEMPTS
      /\ pc[c] \in {"unborn", "pause"} \cup Calling => StepsLeft(c) > 0
  BY StepsAreNumbers
<1>2. ASSUME pc[c] \in {"unborn", "pause"} \cup Calling, pc'[c] \in Ended
      PROVE  StepsLeft(c)' < StepsLeft(c)
  <2>1. StepsLeft(c)' = 0
    BY <1>2 DEF StepsLeft, Ended
  <2> QED
    BY <1>1, <1>2, <2>1
<1>3. CASE Fork(c)
  <2>1. pc[c] = "unborn" /\ (pc'[c] = "number" \/ pc'[c] = "exited")
    BY <1>0, <1>3 DEF Fork
  <2>2. pc'[c] = "number" => StepsLeft(c)' = 2 * ATTEMPTS + 1 /\ StepsLeft(c) = 2 * ATTEMPTS + 2
    BY <2>1 DEF StepsLeft
  <2> QED
    BY <1>0, <1>2, <2>1, <2>2 DEF Ended
<1>4. CASE TimesOut(c)
  <2>1. pc[c] \in Calling /\ pc'[c] = "crashed"
    BY <1>0, <1>4 DEF TimesOut
  <2> QED
    BY <1>2, <2>1 DEF Ended
<1>5. CASE GetsNumber(c)
  <2>1. pc[c] = "number" /\ pc'[c] = "service" /\ call'[c] = 1
    BY <1>0, <1>5 DEF GetsNumber, Call
  <2>2. StepsLeft(c) = 2 * ATTEMPTS + 1 /\ StepsLeft(c)' = 2 * (ATTEMPTS - 1) + 2
    BY <2>1 DEF StepsLeft
  <2> QED
    BY <1>0, <2>2
<1>6. CASE GetsResult(c)
  <2>1. /\ pc[c] = "service" /\ (pc'[c] = "pause" \/ pc'[c] = "done")
        /\ call'[c] = call[c]
    BY <1>0, <1>6 DEF GetsResult, HangUp
  <2>2. pc'[c] = "pause" => /\ StepsLeft(c)' = 2 * (ATTEMPTS - call[c]) + 1
                            /\ StepsLeft(c) = 2 * (ATTEMPTS - call[c]) + 2
    BY <2>1 DEF StepsLeft
  <2> QED
    BY <1>0, <1>1, <1>2, <2>1, <2>2 DEF Ended, Calling
<1>7. CASE WakesUp(c)
  <2>1. /\ pc[c] = "pause"
        /\ \/ pc'[c] = "service" /\ call'[c] = call[c] + 1
           \/ pc'[c] = "exhausted"
    BY <1>0, <1>7 DEF WakesUp, Call
  <2>2. pc'[c] = "service" => /\ StepsLeft(c)' = 2 * (ATTEMPTS - (call[c] + 1)) + 2
                              /\ StepsLeft(c) = 2 * (ATTEMPTS - call[c]) + 1
    BY <2>1 DEF StepsLeft
  <2> QED
    BY <1>0, <1>1, <1>2, <2>1, <2>2 DEF Ended
<1> QED
  BY <1>3, <1>4, <1>5, <1>6, <1>7 DEF ClientStep

\* A client, whatever the network does, has finitely many steps before it: its birth,
\* every answer, every end of a pause and a timeout leave it fewer, and nothing that the
\* server, the parent, the other clients and the network do gives it more.  So the loop
\* over at < ATTEMPTS cannot go on for ever, although get_number is repeated and refusals
\* come late.
THEOREM ClientsRunDown ==
    Spec => [][\A c \in Clients :
                  /\ StepsLeft(c) \in Nat
                  /\ IF ClientStep(c) \/ TimesOut(c) \/ Fork(c)
                     THEN StepsLeft(c)' < StepsLeft(c)
                     ELSE StepsLeft(c)' = StepsLeft(c)]_vars
<1>1. ASSUME IInv, [Next]_vars, NEW c \in Clients
      PROVE  /\ StepsLeft(c) \in Nat
             /\ IF ClientStep(c) \/ TimesOut(c) \/ Fork(c)
                THEN StepsLeft(c)' < StepsLeft(c)
                ELSE StepsLeft(c)' = StepsLeft(c)
  <2>1. StepsLeft(c) \in Nat
    BY <1>1, StepsAreNumbers
  <2>2. CASE ClientStep(c) \/ TimesOut(c) \/ Fork(c)
    BY <1>1, <2>1, <2>2, StepCounts
  <2>3. CASE ~(ClientStep(c) \/ TimesOut(c) \/ Fork(c))
    <3>1. pc'[c] = pc[c] /\ call'[c] = call[c]
      BY <1>1, <2>3, StaysPut
    <3>2. StepsLeft(c)' = StepsLeft(c)
      BY <3>1 DEF StepsLeft
    <3> QED
      BY <2>1, <2>3, <3>2
  <2> QED
    BY <2>2, <2>3
<1>2. ASSUME IInv, [Next]_vars
      PROVE  \A c \in Clients :
                /\ StepsLeft(c) \in Nat
                /\ IF ClientStep(c) \/ TimesOut(c) \/ Fork(c)
                   THEN StepsLeft(c)' < StepsLeft(c)
                   ELSE StepsLeft(c)' = StepsLeft(c)
  BY <1>1, <1>2
<1> QED
  BY <1>2, BakeryInvariant, PTL DEF Spec

\* The request of the client's call, or the reply to it, is under way.
UnderWay(c) ==
    \/ \E m \in requests : m.idx = c /\ m.call = call[c]
    \/ \E m \in replies : m.idx = c

AnswerComes ==
    network = "smooth" => \A c \in Clients : pc[c] \in Calling => UnderWay(c)

\* The server turns a request into a reply.
LEMMA ServerAnswers ==
    ASSUME IInv, AnswerComes, network = "smooth", NEW m \in requests, NEW val,
           Reply(m, val), requests' = requests \ {m}, UNCHANGED <<network, pc, call>>
    PROVE  AnswerComes'
<1>1. pc[m.idx] \in Calling /\ m.call = call[m.idx]
  BY DEF IInv, Smooth, OneDatagram
<1>2. replies' = replies \cup {[idx |-> m.idx, call |-> m.call, val |-> val]}
  BY <1>1 DEF Reply
<1>3. ASSUME NEW c \in Clients, pc[c] \in Calling PROVE UnderWay(c)'
  <2>1. CASE c = m.idx
    <3>1. [idx |-> m.idx, call |-> m.call, val |-> val].idx = c
      BY <2>1
    <3> QED
      BY <1>2, <3>1 DEF UnderWay
  <2>2. CASE c # m.idx
    <3>1. UnderWay(c)
      BY <1>3 DEF AnswerComes
    <3> QED
      BY <1>2, <2>2, <3>1 DEF UnderWay
  <2> QED
    BY <2>1, <2>2
<1> QED
  BY <1>3 DEF AnswerComes

\* A client calls, or has no call any more; the others are not concerned.
LEMMA ClientCalls ==
    ASSUME IInv, AnswerComes, network = "smooth", UNCHANGED network, NEW c \in Clients, NEW k,
           pc' = [pc EXCEPT ![c] = k],
           \/ \E n : Call(c, n) /\ n \in 0 .. ATTEMPTS
           \/ HangUp(c) /\ k \notin Calling
           \/ UNCHANGED <<call, requests, replies>> /\ k \notin Calling
    PROVE  AnswerComes'
<1>1. /\ pc \in [Clients -> {"unborn", "pause"} \cup Calling \cup Ended]
      /\ call \in [Clients -> 0 .. ATTEMPTS]
  BY DEF IInv, TypeOK
<1>2. ASSUME NEW d \in Clients, d # c, pc'[d] \in Calling PROVE UnderWay(d)'
  <2>1. UnderWay(d) /\ call'[d] = call[d]
    BY <1>1, <1>2 DEF AnswerComes, Call, HangUp
  <2>2. /\ requests \subseteq requests'
        /\ \A m \in replies : m.idx = d => m \in replies'
    BY <1>2 DEF Call, HangUp
  <2> QED
    BY <2>1, <2>2 DEF UnderWay
<1>3. ASSUME pc'[c] \in Calling PROVE UnderWay(c)'
  <2>1. k \in Calling
    BY <1>1, <1>3
  <2>2. PICK n \in 0 .. ATTEMPTS : Call(c, n)
    BY <2>1
  <2>3. call'[c] = n /\ [idx |-> c, call |-> n] \in requests'
    BY <1>1, <2>2 DEF Call
  <2>4. [idx |-> c, call |-> n].idx = c /\ [idx |-> c, call |-> n].call = n
    OBVIOUS
  <2> QED
    BY <2>3, <2>4 DEF UnderWay
<1> QED
  BY <1>2, <1>3 DEF AnswerComes

\* On a smooth network a client that waits for an answer has its request or the reply to
\* it under way, through every refusal and repeated attempt: the server drops none, and
\* no other client's call takes it away.  So nobody is left in clnt_call for ever.
THEOREM NobodyStranded == Spec => []AnswerComes
<1>1. Init => AnswerComes
  BY DEF Init, AnswerComes, Calling
<1>2. ASSUME IInv, AnswerComes, [Next]_vars PROVE AnswerComes'
  <2>0. UNCHANGED network
    BY <1>2 DEF Next, vars, ServerStep, get_number_1_svc, bakery_service_1_svc, Refuse, Perform,
           ParentStep, Fork, ForkFails, ParentExits, ClientStep, GetsNumber, GetsResult, WakesUp,
           Mishap, Retransmit, TimesOut, LoseRequest, LoseReply
  <2>1. CASE network # "smooth"
    BY <2>0, <2>1 DEF AnswerComes
  <2> SUFFICES ASSUME network = "smooth" PROVE AnswerComes'
    BY <2>1
  <2>2. CASE ServerStep
    <3>1. PICK m \in requests : get_number_1_svc(m) \/ Refuse(m) \/ Perform(m)
      BY <2>2 DEF ServerStep, bakery_service_1_svc
    <3>2. /\ \E val : Reply(m, val)
          /\ requests' = requests \ {m} /\ UNCHANGED <<network, pc, call>>
      BY <3>1 DEF get_number_1_svc, Refuse, Perform
    <3> QED
      BY <1>2, <3>2, ServerAnswers
  <2>3. ASSUME NEW c \in Clients, Fork(c) PROVE AnswerComes'
    <3>1. 0 \in 0 .. ATTEMPTS
      BY BakeryFacts
    <3>2. \/ pc' = [pc EXCEPT ![c] = "number"] /\ Call(c, 0)
          \/ pc' = [pc EXCEPT ![c] = "exited"] /\ UNCHANGED <<call, requests, replies>>
      BY <2>3 DEF Fork
    <3>3. "exited" \notin Calling
      BY DEF Calling
    <3>4. CASE pc' = [pc EXCEPT ![c] = "number"] /\ Call(c, 0)
      BY <1>2, <2>0, <3>1, <3>4, ClientCalls
    <3>5. CASE pc' = [pc EXCEPT ![c] = "exited"] /\ UNCHANGED <<call, requests, replies>>
      BY <1>2, <2>0, <3>3, <3>5, ClientCalls
    <3> QED
      BY <3>2, <3>4, <3>5
  <2>4. CASE ForkFails \/ ParentExits
    BY <1>2, <2>0, <2>4 DEF ForkFails, ParentExits, AnswerComes, UnderWay
  <2>5. ASSUME NEW c \in Clients, GetsNumber(c) PROVE AnswerComes'
    <3>1. 1 \in 0 .. ATTEMPTS
      BY BakeryFacts
    <3>2. pc' = [pc EXCEPT ![c] = "service"] /\ Call(c, 1)
      BY <2>5 DEF GetsNumber
    <3> QED
      BY <1>2, <2>0, <3>1, <3>2, ClientCalls
  <2>6. ASSUME NEW c \in Clients, GetsResult(c) PROVE AnswerComes'
    <3>1. PICK k \in {"pause", "done"} : pc' = [pc EXCEPT ![c] = k] /\ HangUp(c)
      BY <2>6 DEF GetsResult
    <3>2. k \notin Calling
      BY <3>1 DEF Calling
    <3> QED
      BY <1>2, <2>0, <3>1, <3>2, ClientCalls
  <2>7. ASSUME NEW c \in Clients, WakesUp(c) PROVE AnswerComes'
    <3>1. call[c] \in 0 .. ATTEMPTS /\ ATTEMPTS \in Nat
      BY <1>2, BakeryFacts DEF IInv, TypeOK
    <3>2. CASE call[c] < ATTEMPTS /\ pc' = [pc EXCEPT ![c] = "service"] /\ Call(c, call[c] + 1)
      <4>1. call[c] + 1 \in 0 .. ATTEMPTS
        BY <3>1, <3>2
      <4> QED
        BY <1>2, <2>0, <3>2, <4>1, ClientCalls
    <3>3. CASE pc' = [pc EXCEPT ![c] = "exhausted"] /\ UNCHANGED <<call, requests, replies>>
      <4>1. "exhausted" \notin Calling
        BY DEF Calling
      <4> QED
        BY <1>2, <2>0, <3>3, <4>1, ClientCalls
    <3> QED
      BY <2>7, <3>2, <3>3 DEF WakesUp
  <2>8. ~Mishap
    BY DEF Mishap, Retransmit, TimesOut, LoseRequest, LoseReply
  <2>9. CASE UNCHANGED vars
    BY <1>2, <2>9 DEF vars, AnswerComes, UnderWay
  <2> QED
    BY <1>2, <2>2, <2>3, <2>4, <2>5, <2>6, <2>7, <2>8, <2>9 DEF Next, ParentStep, ClientStep
<1> QED
  BY <1>1, <1>2, BakeryInvariant, PTL DEF Spec
=============================================================================

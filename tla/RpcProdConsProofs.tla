-------------------------- MODULE RpcProdConsProofs --------------------------
(***************************************************************************)
(* Proofs about producing and consuming over RPC, for any finite set of    *)
(* clients, any size of the ring and any number of repeated datagrams.     *)
(*                                                                         *)
(* The semaphores admit one thread at a time to the ring, and there every  *)
(* letter is stored in one cell and taken out of it once.  Indices do not  *)
(* run out because each thread is paid for by a first call or a repeated   *)
(* datagram.                                                               *)
(***************************************************************************)
EXTENDS MCRpcProdCons, FiniteSetTheorems, TLAPS

-----------------------------------------------------------------------------
(***************************************************************************)
(* The inductive invariant, in two halves that are changed by different    *)
(* steps: RingInv about the ring and the server's threads, NetInv about    *)
(* the clients and the datagrams.  RingInv speaks of the numbers of the    *)
(* productions, CharInv of the chars that go with them.  The types are     *)
(* divided likewise.                                                       *)
(***************************************************************************)
RingTypes ==
    /\ sem \in [0 .. 2 -> Nat]
    /\ in \in 0 .. Slots - 1 /\ out \in 0 .. Slots - 1
    /\ next \in 1 .. MaxIdx + 1
    /\ stamp \in [0 .. Slots - 1 -> Productions]
    /\ idx \in 0 .. MaxIdx
    /\ num \in [Indices -> Productions]
    /\ thread \in [Indices -> ThreadPC] /\ kind \in [Indices -> {"p", "c"}]
    /\ server \in BOOLEAN

NetTypes ==
    /\ cpc \in [Clients -> ClientPC]
    /\ arg \in [Clients -> Indices \cup {None}]
    /\ clnt_res \in Answer
    /\ requests \subseteq Request
    /\ \A m \in replies : m.client \in Clients /\ m.body \in Answer
    /\ resent \in 0 .. MaxResend

\* An index past the last one given out has no thread.
Unstarted == \A i \in Indices : i >= idx => thread[i] = "none"

SemsCount ==
    server =>
        /\ Past("p", Inside) + Past("c", Inside) = 1 - sem[2]
        /\ sem[0] = Slots + Header - Past("p", Inside \cup {"done"}) + Past("c", {"done"})
        /\ sem[1] = Past("p", {"done"}) - Past("c", Inside \cup {"done"})

\* At most one thread is between its two semops.
AloneInside ==
    \A i, j \in Indices : thread[i] \in Inside /\ thread[j] \in Inside => i = j

\* The productions are numbered by the producers that have stored one.
Numbered == server => next = 1 + Past("p", {"release", "done"})

NoResultYet ==
    \A i \in Indices : thread[i] \in {"none", "lock", "access"} => num[i] = 0

\* What lies in the ring and what was stored or taken out has an earlier number.
NumbersOld ==
    /\ \A s \in 0 .. Slots - 1 : stamp[s] < next
    /\ \A i \in Indices : num[i] < next

CellsDiffer ==
    \A s, t \in 0 .. Slots - 1 : s # t /\ stamp[s] # 0 => stamp[s] # stamp[t]

\* A consumer that has read its cell but not cleared it has what lies there;
\* otherwise what it has is in no cell any more.
TakenIsOut ==
    \A i \in Indices : kind[i] = "c" =>
        /\ thread[i] = "advance" => num[i] = stamp[out]
        /\ thread[i] # "advance" /\ num[i] # 0 =>
              \A s \in 0 .. Slots - 1 : stamp[s] # num[i]

\* No production is taken by two consumers: the second part of ConsumedOnce.
TakenOnce ==
    \A i, j \in Indices :
        (kind[i] = "c" /\ kind[j] = "c" /\ i # j /\ num[i] # 0) => num[i] # num[j]

RingInv ==
    /\ RingTypes /\ Unstarted
    /\ SemsCount /\ AloneInside /\ Numbered
    /\ NoResultYet /\ NumbersOld /\ CellsDiffer /\ TakenIsOut /\ TakenOnce

\* The requests that will start a thread, and the clients still to send one.
Opening == {m \in requests : m.idx = None}
NewClients == {c \in Clients : cpc[c] = "new"}

\* Every index given out is paid for by a first call or a repeated datagram.
PaidFor ==
    idx + Cardinality(Opening) + Cardinality(NewClients) <= Cardinality(Clients) + resent

IdxKnown == \A c \in Clients : cpc[c] \in {"test", "polled"} => arg[c] # None

NetInv == NetTypes /\ IsFiniteSet(requests) /\ PaidFor /\ IdxKnown

CharTypes ==
    /\ letter \in Char /\ made \in Seq(Char)
    /\ cell \in [0 .. Slots - 1 -> Char] /\ resultBuffer \in [Indices -> Char]

\* The char of a production; 0 is also what stands where there is none.
CharOf(n) == IF n = 0 THEN 0 ELSE made[n]

CharsMatch ==
    /\ \A s \in 0 .. Slots - 1 : cell[s] = CharOf(stamp[s])
    /\ \A i \in Indices : resultBuffer[i] = CharOf(num[i])

CharInv == CharTypes /\ CharsMatch

IInv == RingInv /\ CharInv /\ NetInv

-----------------------------------------------------------------------------
(* What the four operation arrays need and do. *)

\* A lock takes one unit of semaphore a and SB, whichever of SE and SF a is; it
\* waits until both are there.
LEMMA LockArray ==
    ASSUME NEW s \in [0 .. 2 -> Nat], NEW a \in {0, 1},
           NEW ops, ops = << SemOp(a, -1), SemOp(SB, -1) >>
    PROVE  /\ Passes(s, ops) <=> s[a] > 0 /\ s[2] > 0
           /\ After(s, ops) = [n \in 0 .. 2 |-> IF n = a \/ n = 2 THEN s[n] - 1 ELSE s[n]]
<1>1. Len(ops) = 2
  OBVIOUS
<1>2. ops[1].num = a /\ ops[2].num = 2 /\ ops[1].op = -1 /\ ops[2].op = -1
  BY DEF SemOp, SB
<1>3. \A n \in 0 .. 2 : s[n] \in Nat
  OBVIOUS
<1>4. Delta(ops, 0, a) = 0 /\ Delta(ops, 1, 2) = 0
  BY <1>1, <1>2 DEF Delta, Share
<1>5. \A n \in 0 .. 2 : Delta(ops, 5, n) = IF n = a \/ n = 2 THEN -1 ELSE 0
  BY <1>1, <1>2 DEF Delta, Share
<1>6. Met(s, ops, 1) = s[a] /\ Met(s, ops, 2) = s[2]
  BY <1>2, <1>3, <1>4 DEF Met
<1>7. Passes(s, ops) <=> Met(s, ops, 1) + (-1) >= 0 /\ Met(s, ops, 2) + (-1) >= 0
  BY <1>1, <1>2, <1>3, <1>6 DEF Passes
<1>8. Passes(s, ops) <=> s[a] > 0 /\ s[2] > 0
  BY <1>3, <1>6, <1>7
<1>9. \A n \in 0 .. 2 : s[n] + Delta(ops, 5, n) = IF n = a \/ n = 2 THEN s[n] - 1 ELSE s[n]
  BY <1>3, <1>5
<1>10. After(s, ops) = [n \in 0 .. 2 |-> IF n = a \/ n = 2 THEN s[n] - 1 ELSE s[n]]
  BY <1>9 DEF After, MaxOps
<1> QED
  BY <1>8, <1>10

\* A release gives SB back and one unit of semaphore a.
LEMMA ReleaseArray ==
    ASSUME NEW s \in [0 .. 2 -> Nat], NEW a \in {0, 1},
           NEW ops, ops = << SemOp(SB, 1), SemOp(a, 1) >>
    PROVE  After(s, ops) = [n \in 0 .. 2 |-> IF n = a \/ n = 2 THEN s[n] + 1 ELSE s[n]]
<1>1. Len(ops) = 2
  OBVIOUS
<1>2. ops[1].num = 2 /\ ops[2].num = a /\ ops[1].op = 1 /\ ops[2].op = 1
  BY DEF SemOp, SB
<1>3. \A n \in 0 .. 2 : Delta(ops, 5, n) = IF n = a \/ n = 2 THEN 1 ELSE 0
  BY <1>1, <1>2 DEF Delta, Share
<1>4. \A n \in 0 .. 2 : s[n] + Delta(ops, 5, n) = IF n = a \/ n = 2 THEN s[n] + 1 ELSE s[n]
  BY <1>3
<1> QED
  BY <1>4 DEF After, MaxOps

-----------------------------------------------------------------------------
(* Counting. *)

\* The numbers behind the names.
LEMMA Numbers ==
    /\ Cardinality(Clients) \in Nat /\ Cardinality(Clients) > 0
    /\ MaxResend \in Nat /\ MaxIdx \in Nat /\ MaxIdx > 0
    /\ Slots \in Nat /\ Slots > 0 /\ Header \in Nat
    /\ Indices \subseteq Nat /\ 0 \in Indices /\ None \notin Indices
    /\ Productions \subseteq Nat /\ 0 \in Productions
    /\ Chars \in Nat /\ Chars > 0 /\ Char \subseteq Nat /\ 0 \in Char /\ First \in Char
    /\ IsFiniteSet(Indices) /\ Cardinality(Indices) = MaxIdx
<1>1. Cardinality(Clients) \in Nat /\ Cardinality(Clients) # 0
  BY ClientsAssumption, FS_CardinalityType, FS_EmptySet
<1>2. MaxIdx \in Nat /\ MaxIdx > 0
  BY <1>1, SizesAssumption DEF MaxIdx
<1>3. IsFiniteSet(Indices) /\ Cardinality(Indices) = MaxIdx
  <2>1. PICK n \in Nat : n = MaxIdx
    BY <1>2
  <2>2. IsFiniteSet(0 .. n - 1) /\ Cardinality(0 .. n - 1) = n
    <3>1. 0 \in Int /\ n - 1 \in Int /\ ~(0 > n - 1)
      BY <1>2, <2>1
    <3>2. /\ IsFiniteSet(0 .. n - 1)
          /\ Cardinality(0 .. n - 1) = IF 0 > n - 1 THEN 0 ELSE (n - 1) - 0 + 1
      BY <3>1, FS_Interval
    <3> QED
      BY <3>1, <3>2
  <2> QED
    BY <2>1, <2>2 DEF Indices
<1>4. Chars \in Nat /\ Chars > 0 /\ Char \subseteq Nat /\ 0 \in Char /\ First \in Char
  BY SizesAssumption DEF Char
<1> QED
  BY <1>1, <1>2, <1>3, <1>4, SizesAssumption DEF Indices, Productions, None

\* The threads of one type that are in some places.
ThreadsAt(type, places) == {i \in Indices : kind[i] = type /\ thread[i] \in places}

\* They are finitely many, and Past counts them.
LEMMA PastCounts ==
    ASSUME NEW type, NEW places
    PROVE  /\ Past(type, places) = Cardinality(ThreadsAt(type, places))
           /\ IsFiniteSet(ThreadsAt(type, places)) /\ Past(type, places) \in Nat
           /\ Past(type, places) <= MaxIdx
<1>1. ThreadsAt(type, places) \subseteq Indices
  BY DEF ThreadsAt
<1>2. Past(type, places) = Cardinality(ThreadsAt(type, places))
  BY DEF Past, ThreadsAt
<1>3. IsFiniteSet(ThreadsAt(type, places))
      /\ Cardinality(ThreadsAt(type, places)) <= Cardinality(Indices)
  BY <1>1, Numbers, FS_Subset
<1> QED
  BY <1>2, <1>3, Numbers, FS_CardinalityType

\* What a move of thread i adds to a count.
Shift(type, i, places) ==
    IF kind[i] # type THEN 0
    ELSE (IF thread'[i] \in places THEN 1 ELSE 0) - (IF thread[i] \in places THEN 1 ELSE 0)

\* That is so for every count.
LEMMA Crossing ==
    ASSUME thread \in [Indices -> ThreadPC], NEW i \in Indices, UNCHANGED kind,
           \A k \in Indices \ {i} : thread'[k] = thread[k], NEW type, NEW places
    PROVE  Past(type, places)' = Past(type, places) + Shift(type, i, places)
<1> DEFINE A == ThreadsAt(type, places)
<1> DEFINE B == {k \in Indices : kind[k] = type /\ thread'[k] \in places}
<1>1. Past(type, places)' = Cardinality(B)
  BY DEF Past
<1>2. Past(type, places) = Cardinality(A) /\ IsFiniteSet(A) /\ Cardinality(A) \in Nat
  BY PastCounts
<1>3. kind[i] = type /\ thread[i] \notin places /\ thread'[i] \in places
        => B = A \cup {i} /\ i \notin A
  BY DEF ThreadsAt
<1>4. kind[i] = type /\ thread[i] \in places /\ thread'[i] \notin places
        => B = A \ {i} /\ i \in A
  BY DEF ThreadsAt
<1>5. kind[i] # type \/ (thread[i] \in places <=> thread'[i] \in places) => B = A
  BY DEF ThreadsAt
<1> HIDE DEF A, B
<1>6. /\ B = A \cup {i} /\ i \notin A => Cardinality(B) = Cardinality(A) + 1
      /\ B = A \ {i} /\ i \in A => Cardinality(B) = Cardinality(A) - 1
  BY <1>2, FS_AddElement, FS_RemoveElement
<1>7. /\ kind[i] = type /\ thread[i] \notin places /\ thread'[i] \in places
           => Shift(type, i, places) = 1
      /\ kind[i] = type /\ thread[i] \in places /\ thread'[i] \notin places
           => Shift(type, i, places) = -1
      /\ kind[i] # type \/ (thread[i] \in places <=> thread'[i] \in places)
           => Shift(type, i, places) = 0
  BY DEF Shift
<1> QED
  BY <1>1, <1>2, <1>3, <1>4, <1>5, <1>6, <1>7

\* What it adds to the counts the invariant is about.
Shifted(i) ==
    /\ Past("p", Inside)' = Past("p", Inside) + Shift("p", i, Inside)
    /\ Past("p", Inside \cup {"done"})'
         = Past("p", Inside \cup {"done"}) + Shift("p", i, Inside \cup {"done"})
    /\ Past("p", {"done"})' = Past("p", {"done"}) + Shift("p", i, {"done"})
    /\ Past("p", {"release", "done"})'
         = Past("p", {"release", "done"}) + Shift("p", i, {"release", "done"})
    /\ Past("c", Inside)' = Past("c", Inside) + Shift("c", i, Inside)
    /\ Past("c", Inside \cup {"done"})'
         = Past("c", Inside \cup {"done"}) + Shift("c", i, Inside \cup {"done"})
    /\ Past("c", {"done"})' = Past("c", {"done"}) + Shift("c", i, {"done"})

\* A move of thread i shifts them.
LEMMA Ledger ==
    ASSUME thread \in [Indices -> ThreadPC], NEW i \in Indices, UNCHANGED kind,
           \A k \in Indices \ {i} : thread'[k] = thread[k]
    PROVE  Shifted(i)
<1>1. \A type, places : Past(type, places)' = Past(type, places) + Shift(type, i, places)
  BY Crossing
<1> QED
  BY <1>1 DEF Shifted

\* The counts are numbers.
LEMMA CountsAreNumbers ==
    /\ Past("p", Inside) \in Nat /\ Past("p", Inside \cup {"done"}) \in Nat
    /\ Past("p", {"done"}) \in Nat /\ Past("p", {"release", "done"}) \in Nat
    /\ Past("c", Inside) \in Nat /\ Past("c", Inside \cup {"done"}) \in Nat
    /\ Past("c", {"done"}) \in Nat
  BY PastCounts

-----------------------------------------------------------------------------
(* The server's threads keep RingInv. *)

\* What lies in the ring and what was taken.
ContentInv == NoResultYet /\ NumbersOld /\ CellsDiffer /\ TakenIsOut /\ TakenOnce

\* A thread that was started and does not enter keeps who is where.
LEMMA Moves ==
    ASSUME RingInv, NEW i \in Indices, NEW to \in ThreadPC,
           thread' = [thread EXCEPT ![i] = to], UNCHANGED idx, thread[i] # "none",
           to \in Inside => thread[i] \in Inside \/ \A j \in Indices : thread[j] \notin Inside
    PROVE  Unstarted' /\ AloneInside' /\ thread' \in [Indices -> ThreadPC]
<1>1. thread \in [Indices -> ThreadPC]
  BY DEF RingInv, RingTypes
<1>2. thread' \in [Indices -> ThreadPC]
  BY <1>1
<1>3. Unstarted'
  BY <1>1 DEF RingInv, Unstarted
<1>4. AloneInside'
  BY <1>1 DEF RingInv, AloneInside
<1> QED
  BY <1>2, <1>3, <1>4

\* Nobody is inside when SB can be taken.
LEMMA NobodyInside ==
    ASSUME RingInv, server, sem[2] > 0
    PROVE  \A j \in Indices : thread[j] \notin Inside
<1>1. Past("p", Inside) + Past("c", Inside) = 1 - sem[2] /\ sem[2] \in Nat
  BY DEF RingInv, RingTypes, SemsCount
<1>2. Past("p", Inside) \in Nat /\ Past("c", Inside) \in Nat
  BY PastCounts
<1>3. Past("p", Inside) = 0 /\ Past("c", Inside) = 0
  BY <1>1, <1>2
<1>4. ThreadsAt("p", Inside) = {} /\ ThreadsAt("c", Inside) = {}
  BY <1>3, PastCounts, FS_EmptySet
<1> QED
  BY <1>4 DEF ThreadsAt, RingInv, RingTypes

\* A semop of a thread changes nothing in the ring.
LEMMA ContentStays ==
    ASSUME RingInv, NEW i \in Indices, NEW to,
           thread' = [thread EXCEPT ![i] = to],
           UNCHANGED <<out, next, stamp, num, kind>>,
           thread[i] \notin {"none", "advance"}, to # "advance",
           to \in {"none", "lock", "access"} => thread[i] = "lock"
    PROVE  ContentInv'
<1>1. thread \in [Indices -> ThreadPC]
  BY DEF RingInv, RingTypes
<1>2. NoResultYet' /\ TakenIsOut'
  BY <1>1 DEF RingInv, NoResultYet, TakenIsOut
<1>3. NumbersOld' /\ CellsDiffer' /\ TakenOnce'
  BY DEF RingInv, NumbersOld, CellsDiffer, TakenOnce
<1> QED
  BY <1>2, <1>3 DEF ContentInv

\* A producer's lock.
LEMMA ProducerLocksInv ==
    ASSUME RingInv, NEW i \in Indices, ProducerLocks(i)
    PROVE  RingInv'
<1>1. /\ kind[i] = "p" /\ thread[i] = "lock" /\ thread' = [thread EXCEPT ![i] = "access"]
      /\ UNCHANGED <<in, out, next, stamp, num, idx, kind, server>>
      /\ server
  BY DEF ProducerLocks, Goes, history, next
<1>2. sem \in [0 .. 2 -> Nat] /\ thread \in [Indices -> ThreadPC]
  BY DEF RingInv, RingTypes
<1>3. /\ sem[0] > 0 /\ sem[2] > 0
      /\ sem' = [n \in 0 .. 2 |-> IF n = 0 \/ n = 2 THEN sem[n] - 1 ELSE sem[n]]
  BY <1>2, LockArray DEF ProducerLocks, Semop, producer_lock, SE
<1>4. Unstarted' /\ AloneInside' /\ thread' \in [Indices -> ThreadPC]
  BY <1>1, <1>3, NobodyInside, Moves DEF ThreadPC
<1>5. sem' \in [0 .. 2 -> Nat] /\ sem'[0] = sem[0] - 1 /\ sem'[1] = sem[1]
      /\ sem'[2] = sem[2] - 1
  BY <1>2, <1>3
<1>6. RingTypes'
  BY <1>1, <1>4, <1>5 DEF RingInv, RingTypes
<1>7. /\ Shift("p", i, Inside) = 1
      /\ Shift("p", i, Inside \cup {"done"}) = 1
      /\ Shift("p", i, {"done"}) = 0
      /\ Shift("p", i, {"release", "done"}) = 0
      /\ Shift("c", i, Inside) = 0
      /\ Shift("c", i, Inside \cup {"done"}) = 0
      /\ Shift("c", i, {"done"}) = 0
  BY <1>1, <1>2 DEF Shift, Inside
<1>8. /\ Past("p", Inside)' = Past("p", Inside) + 1
      /\ Past("p", Inside \cup {"done"})' = Past("p", Inside \cup {"done"}) + 1
      /\ Past("p", {"done"})' = Past("p", {"done"})
      /\ Past("p", {"release", "done"})' = Past("p", {"release", "done"})
      /\ Past("c", Inside)' = Past("c", Inside)
      /\ Past("c", Inside \cup {"done"})' = Past("c", Inside \cup {"done"})
      /\ Past("c", {"done"})' = Past("c", {"done"})
  <2>1. \A k \in Indices \ {i} : thread'[k] = thread[k]
    BY <1>1, <1>2
  <2>2. Shifted(i)
    BY <1>1, <1>2, <2>1, Ledger
  <2> QED
    BY <1>7, <2>2, CountsAreNumbers DEF Shifted
<1>9. SemsCount' /\ Numbered'
  <2>0. sem[0] \in Nat /\ sem[1] \in Nat /\ sem[2] \in Nat
    BY <1>2
  <2>1. Past("p", Inside)' + Past("c", Inside)' = 1 - sem'[2]
    BY <1>1, <1>5, <1>8, <2>0, CountsAreNumbers DEF RingInv, SemsCount
  <2>2. sem'[0] = Slots + Header - Past("p", Inside \cup {"done"})' + Past("c", {"done"})'
    BY <1>1, <1>5, <1>8, <2>0, CountsAreNumbers, Numbers DEF RingInv, SemsCount
  <2>3. sem'[1] = Past("p", {"done"})' - Past("c", Inside \cup {"done"})'
    BY <1>1, <1>5, <1>8, <2>0, CountsAreNumbers DEF RingInv, SemsCount
  <2> QED
    BY <1>1, <1>8, <2>1, <2>2, <2>3 DEF RingInv, SemsCount, Numbered
<1>10. ContentInv'
  BY <1>1, ContentStays
<1> QED
  BY <1>4, <1>6, <1>9, <1>10 DEF RingInv, ContentInv

\* A consumer's lock.
LEMMA ConsumerLocksInv ==
    ASSUME RingInv, NEW i \in Indices, ConsumerLocks(i)
    PROVE  RingInv'
<1>1. /\ kind[i] = "c" /\ thread[i] = "lock" /\ thread' = [thread EXCEPT ![i] = "access"]
      /\ UNCHANGED <<in, out, next, stamp, num, idx, kind, server>>
      /\ server
  BY DEF ConsumerLocks, Goes, history, next
<1>2. sem \in [0 .. 2 -> Nat] /\ thread \in [Indices -> ThreadPC]
  BY DEF RingInv, RingTypes
<1>3. /\ sem[1] > 0 /\ sem[2] > 0
      /\ sem' = [n \in 0 .. 2 |-> IF n = 1 \/ n = 2 THEN sem[n] - 1 ELSE sem[n]]
  BY <1>2, LockArray DEF ConsumerLocks, Semop, consumer_lock, SF
<1>4. Unstarted' /\ AloneInside' /\ thread' \in [Indices -> ThreadPC]
  BY <1>1, <1>3, NobodyInside, Moves DEF ThreadPC
<1>5. sem' \in [0 .. 2 -> Nat] /\ sem'[1] = sem[1] - 1 /\ sem'[0] = sem[0]
      /\ sem'[2] = sem[2] - 1
  BY <1>2, <1>3
<1>6. RingTypes'
  BY <1>1, <1>4, <1>5 DEF RingInv, RingTypes
<1>7. /\ Shift("p", i, Inside) = 0
      /\ Shift("p", i, Inside \cup {"done"}) = 0
      /\ Shift("p", i, {"done"}) = 0
      /\ Shift("p", i, {"release", "done"}) = 0
      /\ Shift("c", i, Inside) = 1
      /\ Shift("c", i, Inside \cup {"done"}) = 1
      /\ Shift("c", i, {"done"}) = 0
  BY <1>1, <1>2 DEF Shift, Inside
<1>8. /\ Past("p", Inside)' = Past("p", Inside)
      /\ Past("p", Inside \cup {"done"})' = Past("p", Inside \cup {"done"})
      /\ Past("p", {"done"})' = Past("p", {"done"})
      /\ Past("p", {"release", "done"})' = Past("p", {"release", "done"})
      /\ Past("c", Inside)' = Past("c", Inside) + 1
      /\ Past("c", Inside \cup {"done"})' = Past("c", Inside \cup {"done"}) + 1
      /\ Past("c", {"done"})' = Past("c", {"done"})
  <2>1. \A k \in Indices \ {i} : thread'[k] = thread[k]
    BY <1>1, <1>2
  <2>2. Shifted(i)
    BY <1>1, <1>2, <2>1, Ledger
  <2> QED
    BY <1>7, <2>2, CountsAreNumbers DEF Shifted
<1>9. SemsCount' /\ Numbered'
  <2>0. sem[0] \in Nat /\ sem[1] \in Nat /\ sem[2] \in Nat
    BY <1>2
  <2>1. Past("p", Inside)' + Past("c", Inside)' = 1 - sem'[2]
    BY <1>1, <1>5, <1>8, <2>0, CountsAreNumbers DEF RingInv, SemsCount
  <2>2. sem'[0] = Slots + Header - Past("p", Inside \cup {"done"})' + Past("c", {"done"})'
    BY <1>1, <1>5, <1>8, <2>0, CountsAreNumbers, Numbers DEF RingInv, SemsCount
  <2>3. sem'[1] = Past("p", {"done"})' - Past("c", Inside \cup {"done"})'
    BY <1>1, <1>5, <1>8, <2>0, CountsAreNumbers DEF RingInv, SemsCount
  <2> QED
    BY <1>1, <1>8, <2>1, <2>2, <2>3 DEF RingInv, SemsCount, Numbered
<1>10. ContentInv'
  BY <1>1, ContentStays
<1> QED
  BY <1>4, <1>6, <1>9, <1>10 DEF RingInv, ContentInv

\* A producer's release: the cell it filled is counted by SF.
LEMMA ProducerReleasesInv ==
    ASSUME RingInv, NEW i \in Indices, ProducerReleases(i)
    PROVE  RingInv'
<1>1. /\ kind[i] = "p" /\ thread[i] = "release" /\ thread' = [thread EXCEPT ![i] = "done"]
      /\ UNCHANGED <<in, out, next, stamp, num, idx, kind, server>>
      /\ server
  BY DEF ProducerReleases, Goes, history, next
<1>2. sem \in [0 .. 2 -> Nat] /\ thread \in [Indices -> ThreadPC]
  BY DEF RingInv, RingTypes
<1>3. sem' = [n \in 0 .. 2 |-> IF n = 1 \/ n = 2 THEN sem[n] + 1 ELSE sem[n]]
  BY <1>2, ReleaseArray DEF ProducerReleases, Semop, producer_release, SF
<1>4. Unstarted' /\ AloneInside' /\ thread' \in [Indices -> ThreadPC]
  BY <1>1, Moves DEF ThreadPC, Inside
<1>5. sem' \in [0 .. 2 -> Nat] /\ sem'[1] = sem[1] + 1 /\ sem'[0] = sem[0]
      /\ sem'[2] = sem[2] + 1
  BY <1>2, <1>3
<1>6. RingTypes'
  BY <1>1, <1>4, <1>5 DEF RingInv, RingTypes
<1>7. /\ Shift("p", i, Inside) = -1
      /\ Shift("p", i, Inside \cup {"done"}) = 0
      /\ Shift("p", i, {"done"}) = 1
      /\ Shift("p", i, {"release", "done"}) = 0
      /\ Shift("c", i, Inside) = 0
      /\ Shift("c", i, Inside \cup {"done"}) = 0
      /\ Shift("c", i, {"done"}) = 0
  BY <1>1, <1>2 DEF Shift, Inside
<1>8. /\ Past("p", Inside)' = Past("p", Inside) - 1
      /\ Past("p", Inside \cup {"done"})' = Past("p", Inside \cup {"done"})
      /\ Past("p", {"done"})' = Past("p", {"done"}) + 1
      /\ Past("p", {"release", "done"})' = Past("p", {"release", "done"})
      /\ Past("c", Inside)' = Past("c", Inside)
      /\ Past("c", Inside \cup {"done"})' = Past("c", Inside \cup {"done"})
      /\ Past("c", {"done"})' = Past("c", {"done"})
  <2>1. \A k \in Indices \ {i} : thread'[k] = thread[k]
    BY <1>1, <1>2
  <2>2. Shifted(i)
    BY <1>1, <1>2, <2>1, Ledger
  <2> QED
    BY <1>7, <2>2, CountsAreNumbers DEF Shifted
<1>9. SemsCount' /\ Numbered'
  <2>0. sem[0] \in Nat /\ sem[1] \in Nat /\ sem[2] \in Nat
    BY <1>2
  <2>1. Past("p", Inside)' + Past("c", Inside)' = 1 - sem'[2]
    BY <1>1, <1>5, <1>8, <2>0, CountsAreNumbers DEF RingInv, SemsCount
  <2>2. sem'[0] = Slots + Header - Past("p", Inside \cup {"done"})' + Past("c", {"done"})'
    BY <1>1, <1>5, <1>8, <2>0, CountsAreNumbers, Numbers DEF RingInv, SemsCount
  <2>3. sem'[1] = Past("p", {"done"})' - Past("c", Inside \cup {"done"})'
    BY <1>1, <1>5, <1>8, <2>0, CountsAreNumbers DEF RingInv, SemsCount
  <2> QED
    BY <1>1, <1>8, <2>1, <2>2, <2>3 DEF RingInv, SemsCount, Numbered
<1>10. ContentInv'
  BY <1>1, ContentStays
<1> QED
  BY <1>4, <1>6, <1>9, <1>10 DEF RingInv, ContentInv

\* A consumer's release: the cell it emptied is counted by SE.
LEMMA ConsumerReleasesInv ==
    ASSUME RingInv, NEW i \in Indices, ConsumerReleases(i)
    PROVE  RingInv'
<1>1. /\ kind[i] = "c" /\ thread[i] = "release" /\ thread' = [thread EXCEPT ![i] = "done"]
      /\ UNCHANGED <<in, out, next, stamp, num, idx, kind, server>>
      /\ server
  BY DEF ConsumerReleases, Goes, history, next
<1>2. sem \in [0 .. 2 -> Nat] /\ thread \in [Indices -> ThreadPC]
  BY DEF RingInv, RingTypes
<1>3. sem' = [n \in 0 .. 2 |-> IF n = 0 \/ n = 2 THEN sem[n] + 1 ELSE sem[n]]
  BY <1>2, ReleaseArray DEF ConsumerReleases, Semop, consumer_release, SE
<1>4. Unstarted' /\ AloneInside' /\ thread' \in [Indices -> ThreadPC]
  BY <1>1, Moves DEF ThreadPC, Inside
<1>5. sem' \in [0 .. 2 -> Nat] /\ sem'[0] = sem[0] + 1 /\ sem'[1] = sem[1]
      /\ sem'[2] = sem[2] + 1
  BY <1>2, <1>3
<1>6. RingTypes'
  BY <1>1, <1>4, <1>5 DEF RingInv, RingTypes
<1>7. /\ Shift("p", i, Inside) = 0
      /\ Shift("p", i, Inside \cup {"done"}) = 0
      /\ Shift("p", i, {"done"}) = 0
      /\ Shift("p", i, {"release", "done"}) = 0
      /\ Shift("c", i, Inside) = -1
      /\ Shift("c", i, Inside \cup {"done"}) = 0
      /\ Shift("c", i, {"done"}) = 1
  BY <1>1, <1>2 DEF Shift, Inside
<1>8. /\ Past("p", Inside)' = Past("p", Inside)
      /\ Past("p", Inside \cup {"done"})' = Past("p", Inside \cup {"done"})
      /\ Past("p", {"done"})' = Past("p", {"done"})
      /\ Past("p", {"release", "done"})' = Past("p", {"release", "done"})
      /\ Past("c", Inside)' = Past("c", Inside) - 1
      /\ Past("c", Inside \cup {"done"})' = Past("c", Inside \cup {"done"})
      /\ Past("c", {"done"})' = Past("c", {"done"}) + 1
  <2>1. \A k \in Indices \ {i} : thread'[k] = thread[k]
    BY <1>1, <1>2
  <2>2. Shifted(i)
    BY <1>1, <1>2, <2>1, Ledger
  <2> QED
    BY <1>7, <2>2, CountsAreNumbers DEF Shifted
<1>9. SemsCount' /\ Numbered'
  <2>0. sem[0] \in Nat /\ sem[1] \in Nat /\ sem[2] \in Nat
    BY <1>2
  <2>1. Past("p", Inside)' + Past("c", Inside)' = 1 - sem'[2]
    BY <1>1, <1>5, <1>8, <2>0, CountsAreNumbers DEF RingInv, SemsCount
  <2>2. sem'[0] = Slots + Header - Past("p", Inside \cup {"done"})' + Past("c", {"done"})'
    BY <1>1, <1>5, <1>8, <2>0, CountsAreNumbers, Numbers DEF RingInv, SemsCount
  <2>3. sem'[1] = Past("p", {"done"})' - Past("c", Inside \cup {"done"})'
    BY <1>1, <1>5, <1>8, <2>0, CountsAreNumbers DEF RingInv, SemsCount
  <2> QED
    BY <1>1, <1>8, <2>1, <2>2, <2>3 DEF RingInv, SemsCount, Numbered
<1>10. ContentInv'
  BY <1>1, ContentStays
<1> QED
  BY <1>4, <1>6, <1>9, <1>10 DEF RingInv, ContentInv

\* A producer's store: the letter is new, and there is an index for it.
LEMMA ProducerStoresInv ==
    ASSUME RingInv, CharInv, NEW i \in Indices, ProducerStores(i)
    PROVE  RingInv'
<1>1. /\ kind[i] = "p" /\ thread[i] = "access" /\ thread' = [thread EXCEPT ![i] = "release"]
      /\ stamp' = [stamp EXCEPT ![in] = next]
      /\ num' = [num EXCEPT ![i] = next]
      /\ next' = next + 1 /\ in' = (in + 1) % Slots
      /\ UNCHANGED <<sem, out, idx, kind, server>> /\ server
  <2>1. made \in Seq(Char) /\ made' = Append(made, letter) /\ letter \in Char
    BY DEF ProducerStores, CharInv, CharTypes
  <2>2. Len(made') = Len(made) + 1 /\ Len(made) \in Nat
    BY <2>1
  <2> QED
    BY <2>2 DEF ProducerStores, Goes, next
<1>2. /\ thread \in [Indices -> ThreadPC] /\ in \in 0 .. Slots - 1
      /\ stamp \in [0 .. Slots - 1 -> Productions] /\ num \in [Indices -> Productions]
      /\ next \in 1 .. MaxIdx + 1
  BY DEF RingInv, RingTypes
<1>3. Unstarted' /\ AloneInside' /\ thread' \in [Indices -> ThreadPC]
  BY <1>1, Moves DEF ThreadPC, Inside
<1>4. next \in Productions /\ next # 0 /\ next' \in 1 .. MaxIdx + 1
  <2> DEFINE R == ThreadsAt("p", {"release", "done"})
  <2>1. IsFiniteSet(R) /\ next = 1 + Cardinality(R) /\ Cardinality(R) \in Nat
    BY <1>1, PastCounts DEF RingInv, Numbered
  <2>2. i \notin R /\ R \cup {i} \subseteq Indices
    BY <1>1 DEF ThreadsAt
  <2> HIDE DEF R
  <2>3. Cardinality(R \cup {i}) = Cardinality(R) + 1
    BY <2>1, <2>2, FS_AddElement
  <2>4. Cardinality(R \cup {i}) <= MaxIdx
    BY <2>2, Numbers, FS_Subset
  <2> QED
    BY <1>1, <2>1, <2>3, <2>4, Numbers DEF Productions
<1>5. RingTypes'
  <2>1. in' \in 0 .. Slots - 1
    BY <1>1, <1>2, Numbers
  <2>2. stamp' \in [0 .. Slots - 1 -> Productions] /\ num' \in [Indices -> Productions]
    BY <1>1, <1>2, <1>4
  <2> QED
    BY <1>1, <1>3, <1>4, <2>1, <2>2 DEF RingInv, RingTypes
<1>6. /\ Shift("p", i, Inside) = 0
      /\ Shift("p", i, Inside \cup {"done"}) = 0
      /\ Shift("p", i, {"done"}) = 0
      /\ Shift("p", i, {"release", "done"}) = 1
      /\ Shift("c", i, Inside) = 0
      /\ Shift("c", i, Inside \cup {"done"}) = 0
      /\ Shift("c", i, {"done"}) = 0
  BY <1>1, <1>2 DEF Shift, Inside
<1>7. /\ Past("p", Inside)' = Past("p", Inside)
      /\ Past("p", Inside \cup {"done"})' = Past("p", Inside \cup {"done"})
      /\ Past("p", {"done"})' = Past("p", {"done"})
      /\ Past("p", {"release", "done"})' = Past("p", {"release", "done"}) + 1
      /\ Past("c", Inside)' = Past("c", Inside)
      /\ Past("c", Inside \cup {"done"})' = Past("c", Inside \cup {"done"})
      /\ Past("c", {"done"})' = Past("c", {"done"})
  <2>1. \A k \in Indices \ {i} : thread'[k] = thread[k]
    BY <1>1, <1>2
  <2>2. Shifted(i)
    BY <1>1, <1>2, <2>1, Ledger
  <2> QED
    BY <1>6, <2>2, CountsAreNumbers DEF Shifted
<1>8. SemsCount'
  BY <1>1, <1>7 DEF RingInv, SemsCount
<1>9. Numbered'
  <2>1. server' = server /\ next' = next + 1
    BY <1>1
  <2>2. Past("p", {"release", "done"}) \in Nat
    BY CountsAreNumbers
  <2>3. server => next = 1 + Past("p", {"release", "done"})
    BY DEF RingInv, Numbered
  <2>4. Past("p", {"release", "done"})' = Past("p", {"release", "done"}) + 1
    BY <1>7
  <2> QED
    BY <2>1, <2>2, <2>3, <2>4 DEF Numbered
<1>10. NoResultYet'
  BY <1>1, <1>2 DEF RingInv, NoResultYet
<1>11. NumbersOld'
  <2>1. \A s \in 0 .. Slots - 1 : stamp[s] \in Nat /\ stamp[s] < next
    BY <1>2, Numbers DEF RingInv, NumbersOld
  <2>2. \A s \in 0 .. Slots - 1 : stamp'[s] < next'
    BY <1>1, <1>2, <2>1
  <2>3. \A j \in Indices : num[j] \in Nat /\ num[j] < next
    BY <1>2, Numbers DEF RingInv, NumbersOld
  <2>4. \A j \in Indices : num'[j] < next'
    BY <1>1, <1>2, <2>3
  <2> QED
    BY <1>1, <2>2, <2>4 DEF NumbersOld
<1>12. \A s \in 0 .. Slots - 1 : stamp[s] # next
  <2>1. \A s \in 0 .. Slots - 1 : stamp[s] \in Nat /\ stamp[s] < next
    BY <1>2, Numbers DEF RingInv, NumbersOld
  <2> QED
    BY <1>2, <2>1
<1>13. CellsDiffer'
  BY <1>1, <1>2, <1>12 DEF RingInv, CellsDiffer
<1>14. \A j \in Indices : kind[j] = "c" => num'[j] = num[j] /\ j # i
                                          /\ thread'[j] = thread[j]
  BY <1>1, <1>2
<1>15. TakenIsOut'
  <2>1. ASSUME NEW j \in Indices, kind[j] = "c"
        PROVE  /\ thread[j] # "advance"
               /\ num[j] # 0 => \A s \in 0 .. Slots - 1 : stamp'[s] # num[j]
    <3>1. thread[j] # "advance"
      BY <1>1, <1>14, <2>1 DEF RingInv, AloneInside, Inside
    <3>2. num[j] # next
      <4>1. num[j] \in Nat /\ num[j] < next
        BY <1>2, <2>1, Numbers DEF RingInv, NumbersOld
      <4> QED
        BY <1>2, <4>1
    <3> QED
      BY <1>1, <1>2, <2>1, <3>1, <3>2 DEF RingInv, TakenIsOut
  <2> QED
    BY <1>1, <1>14, <2>1 DEF TakenIsOut
<1>16. TakenOnce'
  BY <1>1, <1>14 DEF RingInv, TakenOnce
<1> QED
  BY <1>3, <1>5, <1>8, <1>9, <1>10, <1>11, <1>13, <1>15, <1>16 DEF RingInv

\* A move between two places inside leaves every count as it is.
LEMMA InsideMove ==
    ASSUME RingInv, NEW i \in Indices, NEW to \in {"advance", "release"}, kind[i] = "c",
           thread[i] \in {"access", "advance"}, thread' = [thread EXCEPT ![i] = to],
           UNCHANGED <<sem, next, idx, kind, server>>
    PROVE  Unstarted' /\ AloneInside' /\ SemsCount' /\ Numbered'
           /\ thread' \in [Indices -> ThreadPC]
<1>1. thread \in [Indices -> ThreadPC]
  BY DEF RingInv, RingTypes
<1>2. Unstarted' /\ AloneInside' /\ thread' \in [Indices -> ThreadPC]
  BY Moves DEF ThreadPC, Inside
<1>3. /\ Shift("p", i, Inside) = 0
      /\ Shift("p", i, Inside \cup {"done"}) = 0
      /\ Shift("p", i, {"done"}) = 0
      /\ Shift("p", i, {"release", "done"}) = 0
      /\ Shift("c", i, Inside) = 0
      /\ Shift("c", i, Inside \cup {"done"}) = 0
      /\ Shift("c", i, {"done"}) = 0
  BY <1>1 DEF Shift, Inside
<1>4. /\ Past("p", Inside)' = Past("p", Inside)
      /\ Past("p", Inside \cup {"done"})' = Past("p", Inside \cup {"done"})
      /\ Past("p", {"done"})' = Past("p", {"done"})
      /\ Past("p", {"release", "done"})' = Past("p", {"release", "done"})
      /\ Past("c", Inside)' = Past("c", Inside)
      /\ Past("c", Inside \cup {"done"})' = Past("c", Inside \cup {"done"})
      /\ Past("c", {"done"})' = Past("c", {"done"})
  <2>1. \A k \in Indices \ {i} : thread'[k] = thread[k]
    BY <1>1
  <2>2. Shifted(i)
    BY <1>1, <2>1, Ledger
  <2> QED
    BY <1>3, <2>2, CountsAreNumbers DEF Shifted
<1>5. SemsCount' /\ Numbered'
  BY <1>4 DEF RingInv, SemsCount, Numbered
<1> QED
  BY <1>2, <1>5

\* A consumer takes what lies at out: nobody else has it, because nobody else is
\* between reading and clearing a cell.
LEMMA ConsumerTakesInv ==
    ASSUME RingInv, NEW i \in Indices, ConsumerTakes(i)
    PROVE  RingInv'
<1>1. /\ kind[i] = "c" /\ thread[i] = "access" /\ thread' = [thread EXCEPT ![i] = "advance"]
      /\ num' = [num EXCEPT ![i] = stamp[out]]
      /\ UNCHANGED <<sem, in, out, next, stamp, idx, kind, server>>
  BY DEF ConsumerTakes, Goes, next
<1>2. /\ thread \in [Indices -> ThreadPC] /\ out \in 0 .. Slots - 1
      /\ stamp \in [0 .. Slots - 1 -> Productions] /\ num \in [Indices -> Productions]
  BY DEF RingInv, RingTypes
<1>3. Unstarted' /\ AloneInside' /\ SemsCount' /\ Numbered'
      /\ thread' \in [Indices -> ThreadPC]
  BY <1>1, InsideMove
<1>4. RingTypes'
  <2>1. num' \in [Indices -> Productions]
    BY <1>1, <1>2
  <2> QED
    BY <1>1, <1>3, <2>1 DEF RingInv, RingTypes
<1>5. \A j \in Indices \ {i} : /\ num'[j] = num[j]
                               /\ thread'[j] = thread[j] /\ thread[j] # "advance"
  BY <1>1, <1>2 DEF RingInv, AloneInside, Inside
<1>6. num'[i] = stamp[out] /\ thread'[i] = "advance"
  BY <1>1, <1>2
<1>7. NoResultYet'
  BY <1>5, <1>6 DEF RingInv, NoResultYet
<1>8. NumbersOld' /\ CellsDiffer'
  BY <1>1, <1>2, <1>5, <1>6 DEF RingInv, NumbersOld, CellsDiffer
<1>9. TakenIsOut'
  BY <1>1, <1>5, <1>6 DEF RingInv, TakenIsOut
<1>10. TakenOnce'
  <2>1. \A j \in Indices \ {i} : kind[j] = "c" /\ num[j] # 0 => num[j] # stamp[out]
    BY <1>2, <1>5 DEF RingInv, TakenIsOut
  <2>2. ASSUME NEW j \in Indices, NEW k \in Indices, j # k, kind[j] = "c", kind[k] = "c",
               num'[j] # 0
        PROVE  num'[j] # num'[k]
    <3>1. CASE j = i
      BY <1>5, <1>6, <2>1, <2>2, <3>1
    <3>2. CASE k = i
      BY <1>5, <1>6, <2>1, <2>2, <3>2
    <3>3. CASE j # i /\ k # i
      BY <1>5, <2>2, <3>3 DEF RingInv, TakenOnce
    <3> QED
      BY <3>1, <3>2, <3>3
  <2> QED
    BY <1>1, <2>2 DEF TakenOnce
<1> QED
  BY <1>3, <1>4, <1>7, <1>8, <1>9, <1>10 DEF RingInv

\* It clears the cell: what it has is in no cell any more.
LEMMA ConsumerAdvancesInv ==
    ASSUME RingInv, NEW i \in Indices, ConsumerAdvances(i)
    PROVE  RingInv'
<1>1. /\ kind[i] = "c" /\ thread[i] = "advance" /\ thread' = [thread EXCEPT ![i] = "release"]
      /\ stamp' = [stamp EXCEPT ![out] = 0] /\ out' = (out + 1) % Slots
      /\ UNCHANGED <<sem, in, next, num, idx, kind, server>>
  BY DEF ConsumerAdvances, Goes, next
<1>2. /\ thread \in [Indices -> ThreadPC] /\ out \in 0 .. Slots - 1
      /\ stamp \in [0 .. Slots - 1 -> Productions] /\ num \in [Indices -> Productions]
      /\ next \in 1 .. MaxIdx + 1
  BY DEF RingInv, RingTypes
<1>3. Unstarted' /\ AloneInside' /\ SemsCount' /\ Numbered'
      /\ thread' \in [Indices -> ThreadPC]
  BY <1>1, InsideMove
<1>4. RingTypes'
  <2>1. out' \in 0 .. Slots - 1
    BY <1>1, <1>2, Numbers
  <2>2. stamp' \in [0 .. Slots - 1 -> Productions]
    BY <1>1, <1>2, Numbers
  <2> QED
    BY <1>1, <1>3, <2>1, <2>2 DEF RingInv, RingTypes
<1>5. /\ thread'[i] = "release"
      /\ \A j \in Indices \ {i} : thread'[j] = thread[j] /\ thread[j] # "advance"
  BY <1>1, <1>2 DEF RingInv, AloneInside, Inside
<1>6. NoResultYet'
  BY <1>1, <1>5 DEF RingInv, NoResultYet
<1>7. NumbersOld'
  <2>1. 0 < next
    BY <1>2
  <2> QED
    BY <1>1, <1>2, <2>1 DEF RingInv, NumbersOld
<1>8. CellsDiffer'
  BY <1>1, <1>2 DEF RingInv, CellsDiffer
<1>9. TakenIsOut'
  <2>1. num[i] = stamp[out]
    BY <1>1 DEF RingInv, TakenIsOut
  <2>2. stamp[out] # 0 => \A s \in 0 .. Slots - 1 : stamp'[s] # stamp[out]
    BY <1>1, <1>2 DEF RingInv, CellsDiffer
  <2>3. ASSUME NEW j \in Indices \ {i}, kind[j] = "c", num[j] # 0
        PROVE  \A s \in 0 .. Slots - 1 : stamp'[s] # num[j]
    BY <1>1, <1>2, <1>5, <2>3 DEF RingInv, TakenIsOut
  <2> QED
    BY <1>1, <1>5, <2>1, <2>2, <2>3 DEF TakenIsOut
<1>10. TakenOnce'
  BY <1>1 DEF RingInv, TakenOnce
<1> QED
  BY <1>3, <1>4, <1>6, <1>7, <1>8, <1>9, <1>10 DEF RingInv

\* A step that leaves the ring, the threads and the server alone.
LEMMA RingSame ==
    ASSUME RingInv, UNCHANGED <<ring, threads, server>>
    PROVE  RingInv'
<1>1. UNCHANGED <<sem, in, out, next, stamp, idx, num, thread, kind, server>>
  BY DEF ring, history, threads, next
<1>2. \A type, places : Past(type, places)' = Past(type, places)
  BY <1>1 DEF Past
<1>3. RingTypes' /\ Unstarted' /\ AloneInside'
  BY <1>1 DEF RingInv, RingTypes, Unstarted, AloneInside
<1>4. SemsCount' /\ Numbered'
  BY <1>1, <1>2 DEF RingInv, SemsCount, Numbered
<1>5. NoResultYet' /\ NumbersOld' /\ CellsDiffer' /\ TakenIsOut' /\ TakenOnce'
  BY <1>1 DEF RingInv, NoResultYet, NumbersOld, CellsDiffer, TakenIsOut, TakenOnce
<1> QED
  BY <1>3, <1>4, <1>5 DEF RingInv

\* Starting a thread: its index is free and has no result.
LEMMA StartThreadRing ==
    ASSUME RingInv, idx \in Indices, NEW m, StartThread(m)
    PROVE  RingInv'
<1>1. PICK type \in {"p", "c"} : kind' = [kind EXCEPT ![idx] = type]
  BY DEF StartThread
<1>2. /\ thread' = [thread EXCEPT ![idx] = "lock"] /\ idx' = idx + 1
      /\ UNCHANGED <<sem, in, out, next, stamp, num, server>>
  BY DEF StartThread, ring, history, next
<1>3. /\ thread \in [Indices -> ThreadPC] /\ kind \in [Indices -> {"p", "c"}]
      /\ next \in 1 .. MaxIdx + 1 /\ idx \in Nat /\ idx < MaxIdx
  BY Numbers DEF RingInv, RingTypes, Indices
<1>4. thread[idx] = "none"
  BY <1>3 DEF RingInv, Unstarted
<1>5. num[idx] = 0
  BY <1>4 DEF RingInv, NoResultYet
<1>6. /\ thread'[idx] = "lock" /\ kind'[idx] = type
      /\ \A j \in Indices \ {idx} : thread'[j] = thread[j] /\ kind'[j] = kind[j]
  BY <1>1, <1>2, <1>3
<1>7. RingTypes'
  <2>1. idx' \in 0 .. MaxIdx
    BY <1>2, <1>3, Numbers
  <2>2. thread' \in [Indices -> ThreadPC] /\ kind' \in [Indices -> {"p", "c"}]
    BY <1>1, <1>2, <1>3 DEF ThreadPC
  <2> QED
    BY <1>2, <2>1, <2>2 DEF RingInv, RingTypes
<1>8. Unstarted'
  <2>1. ASSUME NEW j \in Indices, j >= idx + 1 PROVE j # idx /\ j >= idx
    BY <1>3, <2>1, Numbers
  <2> QED
    BY <1>2, <1>6, <2>1 DEF RingInv, Unstarted
<1>9. AloneInside'
  BY <1>4, <1>6 DEF RingInv, AloneInside, Inside
<1>10. ASSUME NEW kd, NEW places, "none" \notin places, "lock" \notin places
       PROVE  Past(kd, places)' = Past(kd, places)
  <2>1. {k \in Indices : kind'[k] = kd /\ thread'[k] \in places}
          = {k \in Indices : kind[k] = kd /\ thread[k] \in places}
    BY <1>4, <1>6, <1>10
  <2> QED
    BY <2>1 DEF Past
<1>11. SemsCount' /\ Numbered'
  <2>1. /\ "none" \notin Inside /\ "lock" \notin Inside
        /\ "none" \notin Inside \cup {"done"} /\ "lock" \notin Inside \cup {"done"}
        /\ "none" \notin {"done"} /\ "lock" \notin {"done"}
        /\ "none" \notin {"release", "done"} /\ "lock" \notin {"release", "done"}
    BY DEF Inside
  <2> QED
    BY <1>2, <1>10, <2>1 DEF RingInv, SemsCount, Numbered
<1>12. NoResultYet'
  BY <1>2, <1>5, <1>6 DEF RingInv, NoResultYet
<1>13. NumbersOld'
  <2>1. num[idx] < next
    BY <1>3, <1>5
  <2> QED
    BY <1>2, <1>6, <2>1 DEF RingInv, NumbersOld
<1>14. CellsDiffer' /\ TakenIsOut'
  BY <1>2, <1>5, <1>6 DEF RingInv, CellsDiffer, TakenIsOut
<1>15. TakenOnce'
  BY <1>2, <1>5, <1>6 DEF RingInv, TakenOnce
<1> QED
  BY <1>7, <1>8, <1>9, <1>11, <1>12, <1>13, <1>14, <1>15 DEF RingInv

\* The signal handler frees the ring, and the process takes the threads with it.
LEMMA SignalRing ==
    ASSUME RingInv, handle_signal
    PROVE  RingInv'
<1>1. /\ sem' = [n \in 0 .. 2 |-> 0] /\ in' = 0 /\ out' = 0 /\ next' = 1
      /\ stamp' = [s \in 0 .. Slots - 1 |-> 0]
      /\ server' = FALSE /\ idx' = 0 /\ num' = [i \in Indices |-> 0]
      /\ thread' = [i \in Indices |-> "none"] /\ kind' = [i \in Indices |-> "c"]
  <2>1. made' = <<>> /\ stamp' = cell' /\ num' = resultBuffer'
    BY DEF handle_signal
  <2> QED
    BY <2>1 DEF handle_signal, destroy, next
<1>2. RingTypes'
  <2>1. sem' \in [0 .. 2 -> Nat] /\ in' \in 0 .. Slots - 1 /\ out' \in 0 .. Slots - 1
        /\ next' \in 1 .. MaxIdx + 1 /\ idx' \in 0 .. MaxIdx
    BY <1>1, Numbers
  <2>2. stamp' \in [0 .. Slots - 1 -> Productions] /\ num' \in [Indices -> Productions]
    BY <1>1, Numbers
  <2>3. thread' \in [Indices -> ThreadPC] /\ kind' \in [Indices -> {"p", "c"}]
    BY <1>1 DEF ThreadPC
  <2> QED
    BY <1>1, <2>1, <2>2, <2>3 DEF RingTypes
<1>3. Unstarted' /\ AloneInside' /\ SemsCount' /\ Numbered'
  BY <1>1 DEF Unstarted, AloneInside, SemsCount, Numbered, Inside
<1>4. NoResultYet' /\ NumbersOld' /\ CellsDiffer'
  BY <1>1 DEF NoResultYet, NumbersOld, CellsDiffer
<1>5. TakenIsOut' /\ TakenOnce'
  BY <1>1 DEF TakenIsOut, TakenOnce
<1> QED
  BY <1>2, <1>3, <1>4, <1>5 DEF RingInv

\* The ring starts empty.
LEMMA RingInit == Init => RingInv
<1> SUFFICES ASSUME Init PROVE RingInv
  OBVIOUS
<1>0. next = 1
  BY DEF Init, next
<1>1. RingTypes
  <2>1. sem \in [0 .. 2 -> Nat] /\ in \in 0 .. Slots - 1 /\ out \in 0 .. Slots - 1
        /\ next \in 1 .. MaxIdx + 1 /\ idx \in 0 .. MaxIdx
    BY <1>0, Numbers DEF Init, SE, SB
  <2>2. stamp \in [0 .. Slots - 1 -> Productions] /\ num \in [Indices -> Productions]
    BY Numbers DEF Init
  <2>3. thread \in [Indices -> ThreadPC] /\ kind \in [Indices -> {"p", "c"}]
        /\ server \in BOOLEAN
    BY DEF Init, ThreadPC
  <2> QED
    BY <2>1, <2>2, <2>3 DEF RingTypes
<1>2. ASSUME NEW type, NEW places, "none" \notin places
      PROVE  Past(type, places) = 0
  <2>1. {i \in Indices : kind[i] = type /\ thread[i] \in places} = {}
    BY <1>2 DEF Init
  <2> QED
    BY <2>1, FS_EmptySet DEF Past
<1>3. SemsCount /\ Numbered
  <2>1. /\ "none" \notin Inside /\ "none" \notin Inside \cup {"done"}
        /\ "none" \notin {"done"} /\ "none" \notin {"release", "done"}
    BY DEF Inside
  <2>2. sem[0] = Slots + Header /\ sem[1] = 0 /\ sem[2] = 1 /\ next = 1
    BY <1>0 DEF Init, SE, SB
  <2>3. /\ Past("p", Inside) = 0 /\ Past("p", Inside \cup {"done"}) = 0
        /\ Past("p", {"done"}) = 0 /\ Past("p", {"release", "done"}) = 0
        /\ Past("c", Inside) = 0 /\ Past("c", Inside \cup {"done"}) = 0
        /\ Past("c", {"done"}) = 0
    BY <1>2, <2>1
  <2> QED
    BY <2>2, <2>3, Numbers DEF SemsCount, Numbered
<1>4. Unstarted /\ AloneInside
  BY DEF Init, Unstarted, AloneInside, Inside
<1>5. NoResultYet /\ NumbersOld /\ CellsDiffer
  BY <1>0 DEF Init, NoResultYet, NumbersOld, CellsDiffer
<1>6. TakenIsOut /\ TakenOnce
  BY DEF Init, TakenIsOut, TakenOnce
<1> QED
  BY <1>1, <1>3, <1>4, <1>5, <1>6 DEF RingInv

-----------------------------------------------------------------------------
(* The chars keep to the productions. *)

LEMMA CharsSame ==
    ASSUME CharInv, UNCHANGED <<letter, cell, resultBuffer, history>>
    PROVE  CharInv'
BY DEF CharInv, CharTypes, CharsMatch, CharOf, history

\* A producer stores the letter and counts it on, past 'z' and round to 0.
LEMMA ProducerStoresChars ==
    ASSUME RingInv, CharInv, NEW i \in Indices, ProducerStores(i)
    PROVE  CharInv'
<1>1. /\ cell' = [cell EXCEPT ![in] = letter] /\ stamp' = [stamp EXCEPT ![in] = next]
      /\ resultBuffer' = [resultBuffer EXCEPT ![i] = letter] /\ num' = [num EXCEPT ![i] = next]
      /\ letter' = (letter + 1) % Chars /\ made' = Append(made, letter)
  BY DEF ProducerStores
<1>2. /\ letter \in Char /\ made \in Seq(Char)
      /\ cell \in [0 .. Slots - 1 -> Char] /\ resultBuffer \in [Indices -> Char]
  BY DEF CharInv, CharTypes
<1>3. /\ stamp \in [0 .. Slots - 1 -> Productions] /\ num \in [Indices -> Productions]
      /\ \A s \in 0 .. Slots - 1 : stamp[s] \in Nat /\ stamp[s] < next
      /\ \A j \in Indices : num[j] \in Nat /\ num[j] < next
  BY Numbers DEF RingInv, RingTypes, NumbersOld
<1>4. letter' \in Char
  <2>1. letter + 1 \in Nat
    BY <1>2, Numbers
  <2>2. (letter + 1) % Chars \in 0 .. Chars - 1
    BY <2>1, Numbers
  <2> QED
    BY <1>1, <2>2 DEF Char
<1>5. PICK q \in Nat : q = next /\ q = Len(made) + 1
  BY <1>2 DEF next
<1>6. made' \in Seq(Char) /\ made'[q] = letter
  BY <1>1, <1>2, <1>5
<1>7. \A n \in Nat : n < q => CharOf(n)' = CharOf(n)
  BY <1>1, <1>2, <1>5 DEF CharOf
<1>8. CharOf(q)' = letter
  BY <1>5, <1>6 DEF CharOf
<1>9. \A s \in 0 .. Slots - 1 : cell'[s] = (CharOf(stamp[s]))'
  <2>1. ASSUME NEW s \in 0 .. Slots - 1 PROVE cell'[s] = (CharOf(stamp[s]))'
    <3>1. CASE s = in
      <4>1. cell'[s] = letter /\ stamp'[s] = q
        BY <1>1, <1>2, <1>3, <1>5, <3>1
      <4> QED
        BY <1>8, <4>1 DEF CharOf
    <3>2. CASE s # in
      <4>1. cell'[s] = cell[s] /\ stamp'[s] = stamp[s] /\ stamp[s] \in Nat /\ stamp[s] < q
        BY <1>1, <1>2, <1>3, <1>5, <3>2
      <4>2. PICK n \in Nat : n = stamp[s] /\ n = stamp'[s] /\ n < q
        BY <4>1
      <4>3. cell[s] = CharOf(n)
        BY <4>2 DEF CharInv, CharsMatch
      <4> QED
        BY <1>7, <4>1, <4>2, <4>3 DEF CharOf
    <3> QED
      BY <3>1, <3>2
  <2> QED
    BY <2>1
<1>10. \A j \in Indices : resultBuffer'[j] = (CharOf(num[j]))'
  <2>1. ASSUME NEW j \in Indices PROVE resultBuffer'[j] = (CharOf(num[j]))'
    <3>1. CASE j = i
      <4>1. resultBuffer'[j] = letter /\ num'[j] = q
        BY <1>1, <1>2, <1>3, <1>5, <3>1
      <4> QED
        BY <1>8, <4>1 DEF CharOf
    <3>2. CASE j # i
      <4>1. resultBuffer'[j] = resultBuffer[j] /\ num'[j] = num[j] /\ num[j] \in Nat /\ num[j] < q
        BY <1>1, <1>2, <1>3, <1>5, <3>2
      <4>2. PICK n \in Nat : n = num[j] /\ n = num'[j] /\ n < q
        BY <4>1
      <4>3. resultBuffer[j] = CharOf(n)
        BY <4>2 DEF CharInv, CharsMatch
      <4> QED
        BY <1>7, <4>1, <4>2, <4>3 DEF CharOf
    <3> QED
      BY <3>1, <3>2
  <2> QED
    BY <2>1
<1>11. CharTypes'
  <2>1. cell' \in [0 .. Slots - 1 -> Char] /\ resultBuffer' \in [Indices -> Char]
    BY <1>1, <1>2
  <2> QED
    BY <1>4, <1>6, <2>1 DEF CharTypes
<1> QED
  BY <1>9, <1>10, <1>11 DEF CharInv, CharsMatch

\* A consumer takes the char of the production that lies at out.
LEMMA ConsumerTakesChars ==
    ASSUME RingInv, CharInv, NEW i \in Indices, ConsumerTakes(i)
    PROVE  CharInv'
<1>1. /\ resultBuffer' = [resultBuffer EXCEPT ![i] = cell[out]]
      /\ num' = [num EXCEPT ![i] = stamp[out]]
      /\ UNCHANGED <<letter, cell, made, stamp>>
  BY DEF ConsumerTakes
<1>2. /\ out \in 0 .. Slots - 1 /\ num \in [Indices -> Productions]
      /\ cell \in [0 .. Slots - 1 -> Char] /\ resultBuffer \in [Indices -> Char]
  BY DEF RingInv, RingTypes, CharInv, CharTypes
<1>3. CharTypes'
  BY <1>1, <1>2 DEF CharInv, CharTypes
<1>4. CharsMatch'
  BY <1>1, <1>2 DEF CharInv, CharsMatch, CharOf
<1> QED
  BY <1>3, <1>4 DEF CharInv

\* It leaves a 0, the char of no production.
LEMMA ConsumerAdvancesChars ==
    ASSUME RingInv, CharInv, NEW i \in Indices, ConsumerAdvances(i)
    PROVE  CharInv'
<1>1. /\ cell' = [cell EXCEPT ![out] = 0] /\ stamp' = [stamp EXCEPT ![out] = 0]
      /\ UNCHANGED <<letter, resultBuffer, made, num>>
  BY DEF ConsumerAdvances
<1>2. /\ out \in 0 .. Slots - 1 /\ stamp \in [0 .. Slots - 1 -> Productions]
      /\ cell \in [0 .. Slots - 1 -> Char] /\ 0 \in Char
  BY Numbers DEF RingInv, RingTypes, CharInv, CharTypes
<1>3. CharTypes'
  BY <1>1, <1>2 DEF CharInv, CharTypes
<1>4. CharsMatch'
  BY <1>1, <1>2 DEF CharInv, CharsMatch, CharOf
<1> QED
  BY <1>3, <1>4 DEF CharInv

LEMMA ThreadChars ==
    ASSUME RingInv, CharInv, NEW i \in Indices, ThreadStep(i)
    PROVE  CharInv'
<1>1. CASE ProducerStores(i) \/ ConsumerTakes(i) \/ ConsumerAdvances(i)
  BY <1>1, ProducerStoresChars, ConsumerTakesChars, ConsumerAdvancesChars
<1>2. CASE ~(ProducerStores(i) \/ ConsumerTakes(i) \/ ConsumerAdvances(i))
  <2>1. UNCHANGED <<letter, cell, resultBuffer, history>>
    BY <1>2 DEF ThreadStep, ProducerLocks, ProducerReleases, ConsumerLocks, ConsumerReleases
  <2> QED
    BY <2>1, CharsSame
<1> QED
  BY <1>1, <1>2

\* An empty ring and no results.
LEMMA CharsReset ==
    /\ Init => CharInv
    /\ handle_signal => CharInv'
<1>1. Init => CharInv
  BY Numbers DEF Init, CharInv, CharTypes, CharsMatch, CharOf
<1>2. ASSUME handle_signal PROVE CharInv'
  <2>1. /\ letter' = First /\ made' = <<>>
        /\ cell' = [s \in 0 .. Slots - 1 |-> 0] /\ stamp' = [s \in 0 .. Slots - 1 |-> 0]
        /\ resultBuffer' = [j \in Indices |-> 0] /\ num' = [j \in Indices |-> 0]
    BY <1>2 DEF handle_signal, destroy
  <2>2. CharTypes'
    BY <2>1, Numbers DEF CharTypes
  <2>3. CharsMatch'
    BY <2>1 DEF CharsMatch, CharOf
  <2> QED
    BY <2>2, <2>3 DEF CharInv
<1> QED
  BY <1>1, <1>2

-----------------------------------------------------------------------------
(* The clients and the datagrams. *)

\* The counted sets are finite.
LEMMA NetCounts ==
    ASSUME IsFiniteSet(requests)
    PROVE  /\ IsFiniteSet(Opening) /\ Cardinality(Opening) \in Nat
           /\ IsFiniteSet(NewClients) /\ Cardinality(NewClients) \in Nat
<1>1. Opening \subseteq requests /\ NewClients \subseteq Clients
  BY DEF Opening, NewClients
<1> QED
  BY <1>1, ClientsAssumption, FS_Subset, FS_CardinalityType

\* One more element adds at most one.
LEMMA AddOne ==
    ASSUME NEW S, IsFiniteSet(S), NEW x
    PROVE  /\ IsFiniteSet(S \cup {x}) /\ Cardinality(S \cup {x}) \in Nat
           /\ Cardinality(S \cup {x}) <= Cardinality(S) + 1
<1>1. Cardinality(S) \in Nat
  BY FS_CardinalityType
<1>2. CASE x \in S
  <2>1. PICK T : T = S \cup {x}
    OBVIOUS
  <2>2. T = S
    BY <1>2, <2>1
  <2>3. IsFiniteSet(T) /\ Cardinality(T) \in Nat /\ Cardinality(T) <= Cardinality(S) + 1
    BY <1>1, <2>2
  <2> QED
    BY <2>1, <2>3
<1>3. CASE x \notin S
  BY <1>1, <1>3, FS_AddElement
<1> QED
  BY <1>2, <1>3

\* A step that opens nothing is still paid for.
LEMMA PaidStill ==
    ASSUME NetInv, idx \in Nat, IsFiniteSet(requests'), idx' = idx, resent' = resent,
           Opening' \subseteq Opening, NewClients' \subseteq NewClients
    PROVE  PaidFor'
<1>1. /\ IsFiniteSet(Opening) /\ Cardinality(Opening) \in Nat
      /\ IsFiniteSet(NewClients) /\ Cardinality(NewClients) \in Nat
  BY NetCounts DEF NetInv
<1>2. /\ Cardinality(Opening') <= Cardinality(Opening) /\ IsFiniteSet(Opening')
      /\ Cardinality(NewClients') <= Cardinality(NewClients) /\ IsFiniteSet(NewClients')
  BY <1>1, FS_Subset
<1>3. Cardinality(Opening') \in Nat /\ Cardinality(NewClients') \in Nat
  BY <1>2, FS_CardinalityType
<1>4. resent \in Nat /\ Cardinality(Clients) \in Nat
  BY Numbers DEF NetInv, NetTypes
<1> QED
  BY <1>1, <1>2, <1>3, <1>4 DEF NetInv, PaidFor

\* A step that leaves the clients, the network and the indices alone.
LEMMA NetSame ==
    ASSUME NetInv, UNCHANGED <<client, net, idx>>
    PROVE  NetInv'
<1>1. UNCHANGED <<cpc, arg, clnt_res, requests, replies, resent, idx>>
  BY DEF client, net
<1>2. Opening' = Opening /\ NewClients' = NewClients
  BY <1>1 DEF Opening, NewClients
<1>3. NetTypes' /\ IdxKnown'
  BY <1>1 DEF NetInv, NetTypes, IdxKnown
<1>4. PaidFor' /\ IsFiniteSet(requests')
  BY <1>1, <1>2 DEF NetInv, PaidFor
<1> QED
  BY <1>3, <1>4 DEF NetInv

\* A reply holds an index and a result.
LEMMA SendTypes ==
    ASSUME NetInv, NEW m \in requests, NEW body \in Answer, Send(m, body)
    PROVE  \A n \in replies' : n.client \in Clients /\ n.body \in Answer
<1>1. m.client \in Clients
  BY DEF NetInv, NetTypes, Request
<1>2. \A n \in replies : n.client \in Clients /\ n.body \in Answer
  BY DEF NetInv, NetTypes
<1>3. \A n \in replies' : n \in replies \/ n = [client |-> m.client, body |-> body]
  BY DEF Send
<1> QED
  BY <1>1, <1>2, <1>3

\* An index is left for a request that opens a thread, and the thread is paid for
\* by the request that is gone.
LEMMA StartThreadNet ==
    ASSUME RingTypes, NetInv, NEW m \in requests, StartThread(m)
    PROVE  idx \in Indices /\ NetInv'
<1>1. /\ m.idx = None /\ idx' = idx + 1 /\ requests' = requests \ {m}
      /\ Send(m, [idx |-> idx, result |-> None])
      /\ UNCHANGED <<cpc, arg, clnt_res, resent>>
  BY DEF StartThread, client
<1>2. /\ IsFiniteSet(Opening) /\ Cardinality(Opening) \in Nat
      /\ IsFiniteSet(NewClients) /\ Cardinality(NewClients) \in Nat
  BY NetCounts DEF NetInv
<1>3. Opening' = Opening \ {m} /\ m \in Opening /\ NewClients' = NewClients
  BY <1>1 DEF Opening, NewClients
<1>4. Cardinality(Opening') = Cardinality(Opening) - 1
  BY <1>2, <1>3, FS_RemoveElement
<1>5. Cardinality(Opening') \in Nat
  BY <1>2, <1>3, FS_RemoveElement, FS_CardinalityType
<1>6. resent \in Nat /\ resent <= MaxResend /\ idx \in Nat
  BY Numbers DEF NetInv, NetTypes, RingTypes
<1>7. PaidFor'
  BY <1>1, <1>2, <1>3, <1>4, <1>6, Numbers DEF NetInv, PaidFor
<1>8. idx \in Indices
  <2>1. idx + 1 <= Cardinality(Clients) + resent
    BY <1>2, <1>4, <1>5, <1>6, Numbers DEF NetInv, PaidFor
  <2>2. idx + 1 <= MaxIdx
    BY <1>6, <2>1, Numbers DEF MaxIdx
  <2> QED
    BY <1>6, <2>2, Numbers DEF Indices
<1>9. [idx |-> idx, result |-> None] \in Answer
  BY <1>8 DEF Answer
<1>10. \A n \in replies' : n.client \in Clients /\ n.body \in Answer
  BY <1>1, <1>9, SendTypes
<1>11. NetTypes' /\ IdxKnown'
  BY <1>1, <1>10 DEF NetInv, NetTypes, IdxKnown
<1>12. IsFiniteSet(requests')
  BY <1>1, FS_RemoveElement, FS_Subset DEF NetInv
<1> QED
  BY <1>7, <1>8, <1>11, <1>12 DEF NetInv

\* A poll reads and answers.
LEMMA PollNet ==
    ASSUME RingTypes, CharInv, NetInv, NEW m \in requests, Poll(m)
    PROVE  NetInv'
<1> DEFINE r == IF IsLetter(resultBuffer[m.idx]) THEN resultBuffer[m.idx] ELSE None
<1>1. /\ m.idx # None /\ requests' = requests \ {m}
      /\ Send(m, [idx |-> m.idx, result |-> r])
      /\ UNCHANGED <<cpc, arg, clnt_res, resent, idx>>
  BY DEF Poll, client, threads
<1>2. m.idx \in Indices
  BY <1>1 DEF NetInv, NetTypes, Request
<1>3. r \in Char \cup {None}
  BY <1>2 DEF CharInv, CharTypes
<1> HIDE DEF r
<1>4. [idx |-> m.idx, result |-> r] \in Answer
  BY <1>2, <1>3 DEF Answer
<1>5. \A n \in replies' : n.client \in Clients /\ n.body \in Answer
  BY <1>1, <1>4, SendTypes
<1>6. NetTypes' /\ IdxKnown'
  BY <1>1, <1>5 DEF NetInv, NetTypes, IdxKnown
<1>7. IsFiniteSet(requests')
  BY <1>1, FS_Subset DEF NetInv
<1>8. Opening' \subseteq Opening /\ NewClients' \subseteq NewClients
  BY <1>1 DEF Opening, NewClients
<1>9. idx \in Nat
  BY Numbers DEF RingTypes
<1> QED
  BY <1>1, <1>6, <1>7, <1>8, <1>9, PaidStill DEF NetInv

\* The end of the server drops the requests.
LEMMA SignalNet ==
    ASSUME RingTypes, NetInv, handle_signal
    PROVE  NetInv'
<1>1. idx' = 0 /\ requests' = {} /\ UNCHANGED <<cpc, arg, clnt_res, replies, resent>>
  BY DEF handle_signal, client
<1>2. NetTypes' /\ IdxKnown'
  BY <1>1 DEF NetInv, NetTypes, IdxKnown
<1>3. Opening' = {} /\ NewClients' = NewClients
  BY <1>1 DEF Opening, NewClients
<1>4. IsFiniteSet(requests') /\ Cardinality(Opening') = 0
  BY <1>1, <1>3, FS_EmptySet
<1>5. Cardinality(NewClients) <= Cardinality(Clients) /\ Cardinality(NewClients) \in Nat
  BY NetCounts, ClientsAssumption, FS_Subset DEF NetInv, NewClients
<1>6. resent \in Nat
  BY Numbers DEF NetInv, NetTypes
<1>7. PaidFor'
  BY <1>1, <1>3, <1>4, <1>5, <1>6, Numbers DEF PaidFor
<1> QED
  BY <1>2, <1>4, <1>7 DEF NetInv

\* The clients' first calls: one client fewer is new, one request more at most.
LEMMA FirstCallNet ==
    ASSUME RingTypes, NetInv, NEW c \in Clients, FirstCall(c)
    PROVE  NetInv'
<1> DEFINE q == [client |-> c, idx |-> None]
<1>1. /\ cpc[c] = "new" /\ cpc' = [cpc EXCEPT ![c] = "calling"]
      /\ clnt_res' = [idx |-> 0, result |-> 0]
      /\ requests' = requests \cup {q} \/ requests' = {}
      /\ UNCHANGED <<arg, replies, resent, idx>>
  BY DEF FirstCall, Call, threads
<1>2. q \in Request /\ clnt_res' \in Answer
  BY <1>1, Numbers DEF Request, Answer
<1>3. /\ IsFiniteSet(Opening) /\ Cardinality(Opening) \in Nat
      /\ IsFiniteSet(NewClients) /\ Cardinality(NewClients) \in Nat
  BY NetCounts DEF NetInv
<1>4. NewClients' = NewClients \ {c} /\ c \in NewClients
  BY <1>1 DEF NewClients, NetInv, NetTypes
<1>5. Cardinality(NewClients') = Cardinality(NewClients) - 1
  BY <1>3, <1>4, FS_RemoveElement
<1> HIDE DEF q
<1>6. IsFiniteSet(requests')
  <2>1. IsFiniteSet({})
    BY FS_EmptySet
  <2>2. IsFiniteSet(requests \cup {q})
    BY AddOne DEF NetInv
  <2> QED
    BY <1>1, <2>1, <2>2
<1>7. Opening' \subseteq Opening \cup {q}
  BY <1>1 DEF Opening
<1>8. Cardinality(Opening') \in Nat /\ Cardinality(Opening') <= Cardinality(Opening) + 1
  <2>1. IsFiniteSet(Opening \cup {q}) /\ Cardinality(Opening \cup {q}) \in Nat
        /\ Cardinality(Opening \cup {q}) <= Cardinality(Opening) + 1
    BY <1>3, AddOne
  <2>2. IsFiniteSet(Opening') /\ Cardinality(Opening') <= Cardinality(Opening \cup {q})
    BY <1>7, <2>1, FS_Subset
  <2>3. Cardinality(Opening') \in Nat
    BY <2>2, FS_CardinalityType
  <2> QED
    BY <1>3, <2>1, <2>2, <2>3
<1>9. resent \in Nat /\ idx \in Nat
  BY Numbers DEF NetInv, NetTypes, RingTypes
<1>10. PaidFor'
  BY <1>1, <1>3, <1>5, <1>8, <1>9, Numbers DEF NetInv, PaidFor
<1>11. NetTypes'
  <2>1. cpc' \in [Clients -> ClientPC]
    BY <1>1 DEF NetInv, NetTypes, ClientPC
  <2>2. requests' \subseteq Request
    BY <1>1, <1>2 DEF NetInv, NetTypes
  <2> QED
    BY <1>1, <1>2, <2>1, <2>2 DEF NetInv, NetTypes
<1>12. IdxKnown'
  BY <1>1 DEF NetInv, NetTypes, IdxKnown
<1> QED
  BY <1>6, <1>10, <1>11, <1>12 DEF NetInv

\* A request that is sent again is paid for by the bound on resending.
LEMMA ResendNet ==
    ASSUME RingTypes, NetInv, NEW c \in Clients, Resend(c)
    PROVE  NetInv'
<1> DEFINE q == [client |-> c, idx |-> None]
<1>1. /\ requests' = requests \cup {q} /\ resent' = resent + 1 /\ resent < MaxResend
      /\ UNCHANGED <<cpc, arg, clnt_res, replies, idx>>
  BY DEF Resend, client, threads
<1>2. q \in Request
  BY DEF Request
<1>3. /\ IsFiniteSet(Opening) /\ Cardinality(Opening) \in Nat
      /\ IsFiniteSet(NewClients) /\ Cardinality(NewClients) \in Nat
  BY NetCounts DEF NetInv
<1>4. NewClients' = NewClients /\ Opening' = Opening \cup {q}
  BY <1>1 DEF NewClients, Opening
<1> HIDE DEF q
<1>5. Cardinality(Opening') \in Nat /\ Cardinality(Opening') <= Cardinality(Opening) + 1
  BY <1>3, <1>4, AddOne
<1>6. IsFiniteSet(requests')
  BY <1>1, AddOne DEF NetInv
<1>7. resent \in Nat /\ idx \in Nat
  BY Numbers DEF NetInv, NetTypes, RingTypes
<1>8. PaidFor'
  BY <1>1, <1>3, <1>4, <1>5, <1>7, Numbers DEF NetInv, PaidFor
<1>9. NetTypes'
  <2>1. resent' \in 0 .. MaxResend
    BY <1>1, <1>7, Numbers
  <2> QED
    BY <1>1, <1>2, <2>1 DEF NetInv, NetTypes
<1>10. IdxKnown'
  BY <1>1 DEF NetInv, IdxKnown
<1> QED
  BY <1>6, <1>8, <1>9, <1>10 DEF NetInv

\* The other steps of a client open no thread.
LEMMA ClientNet ==
    ASSUME RingTypes, NetInv, NEW c \in Clients,
           PollAgain(c) \/ TakeIdx(c) \/ Finish(c) \/ CallFails(c)
    PROVE  NetInv'
<1>1. UNCHANGED <<resent, idx>> /\ idx \in Nat
  BY Numbers DEF PollAgain, Call, TakeIdx, Finish, CallFails, threads, net, RingTypes
<1>2. /\ cpc \in [Clients -> ClientPC] /\ arg \in [Clients -> Indices \cup {None}]
      /\ clnt_res \in Answer /\ clnt_res.idx \in Indices
  BY DEF NetInv, NetTypes, Answer
<1>3. CASE PollAgain(c)
  <2>1. PICK q : /\ q = [client |-> c, idx |-> arg[c]]
                 /\ requests' = requests \cup {q} \/ requests' = {}
    BY <1>3 DEF PollAgain, Call
  <2>2. /\ cpc[c] \in {"test", "polled"} /\ cpc' = [cpc EXCEPT ![c] = "calling"]
        /\ clnt_res' = [idx |-> 0, result |-> 0] /\ UNCHANGED <<arg, replies>>
    BY <1>3 DEF PollAgain, Call
  <2>3. arg[c] # None /\ arg[c] \in Indices
    BY <1>2, <2>2 DEF NetInv, IdxKnown
  <2>4. q \in Request /\ q.idx # None
    BY <2>1, <2>3 DEF Request
  <2>5. IsFiniteSet(requests')
    <3>1. IsFiniteSet(requests) /\ IsFiniteSet({})
      BY FS_EmptySet DEF NetInv
    <3>2. IsFiniteSet(requests \cup {q})
      BY <3>1, AddOne
    <3> QED
      BY <2>1, <3>1, <3>2
  <2>6. Opening' \subseteq Opening /\ NewClients' \subseteq NewClients
    <3>1. Opening' \subseteq Opening
      BY <2>1, <2>4 DEF Opening
    <3>2. NewClients' \subseteq NewClients
      BY <1>2, <2>2 DEF NewClients
    <3> QED
      BY <3>1, <3>2
  <2>7. clnt_res' \in Answer
    BY <2>2, Numbers DEF Answer
  <2>8. cpc' \in [Clients -> ClientPC] /\ requests' \subseteq Request
    <3>1. cpc' \in [Clients -> ClientPC]
      BY <1>2, <2>2 DEF ClientPC
    <3>2. requests' \subseteq Request
      BY <2>1, <2>4 DEF NetInv, NetTypes
    <3> QED
      BY <3>1, <3>2
  <2>9. NetTypes'
    BY <1>1, <2>2, <2>7, <2>8 DEF NetInv, NetTypes
  <2>10. IdxKnown'
    BY <1>2, <2>2 DEF NetInv, IdxKnown
  <2> QED
    BY <1>1, <2>5, <2>6, <2>9, <2>10, PaidStill DEF NetInv
<1>4. CASE TakeIdx(c) \/ Finish(c) \/ CallFails(c)
  <2>1. UNCHANGED <<clnt_res, requests>> /\ replies' \subseteq replies
    BY <1>4 DEF TakeIdx, Finish, CallFails, net
  <2>2. \A d \in Clients : /\ cpc'[d] \in ClientPC
                           /\ cpc'[d] = cpc[d] \/ cpc'[d] \in {"test", "done"}
    BY <1>2, <1>4 DEF TakeIdx, Finish, CallFails, ClientPC
  <2>3. cpc' \in [Clients -> ClientPC]
    BY <1>2, <1>4 DEF TakeIdx, Finish, CallFails, ClientPC
  <2>4. arg' \in [Clients -> Indices \cup {None}]
    BY <1>2, <1>4 DEF TakeIdx, Finish, CallFails
  <2>5. Opening' \subseteq Opening /\ NewClients' \subseteq NewClients
    BY <2>1, <2>2 DEF Opening, NewClients
  <2>6. NetTypes'
    BY <1>1, <2>1, <2>3, <2>4 DEF NetInv, NetTypes
  <2>7. IdxKnown'
    <3>1. CASE TakeIdx(c)
      BY <1>2, <3>1, Numbers DEF TakeIdx, NetInv, IdxKnown
    <3>2. CASE Finish(c) \/ CallFails(c)
      BY <1>2, <3>2 DEF Finish, CallFails, NetInv, IdxKnown
    <3> QED
      BY <1>4, <3>1, <3>2
  <2> QED
    BY <1>1, <2>1, <2>5, <2>6, <2>7, PaidStill DEF NetInv
<1> QED
  BY <1>3, <1>4

\* A reply is decoded.
LEMMA ReceiveNet ==
    ASSUME RingTypes, NetInv, NEW m \in replies, Receive(m)
    PROVE  NetInv'
<1>1. /\ clnt_res' = m.body /\ replies' \subseteq replies
      /\ cpc' = [cpc EXCEPT ![m.client] = IF arg[m.client] = None THEN "first" ELSE "polled"]
      /\ UNCHANGED <<arg, requests, resent, idx>>
  BY DEF Receive, threads
<1>2. m.client \in Clients /\ m.body \in Answer /\ cpc \in [Clients -> ClientPC]
  BY DEF NetInv, NetTypes
<1>3. cpc' \in [Clients -> ClientPC]
  BY <1>1, <1>2 DEF ClientPC
<1>4. NetTypes'
  BY <1>1, <1>2, <1>3 DEF NetInv, NetTypes
<1>5. IdxKnown'
  BY <1>1, <1>2 DEF NetInv, IdxKnown
<1>6. Opening' \subseteq Opening /\ NewClients' \subseteq NewClients
  BY <1>1, <1>2 DEF Opening, NewClients
<1>7. idx \in Nat
  BY Numbers DEF RingTypes
<1> QED
  BY <1>1, <1>4, <1>5, <1>6, <1>7, PaidStill DEF NetInv

\* Nothing is on the way and every client is new.
LEMMA NetInit == Init => NetInv
<1> SUFFICES ASSUME Init PROVE NetInv
  OBVIOUS
<1>1. NetTypes
  <2>1. clnt_res \in Answer
    BY Numbers DEF Init, Answer
  <2>2. resent \in 0 .. MaxResend
    BY Numbers DEF Init
  <2> QED
    BY <2>1, <2>2 DEF Init, NetTypes, ClientPC
<1>2. Opening = {} /\ NewClients = Clients
  BY DEF Init, Opening, NewClients
<1>3. Cardinality(Opening) = 0 /\ IsFiniteSet(requests)
  BY <1>2, FS_EmptySet DEF Init
<1>4. PaidFor
  BY <1>2, <1>3, Numbers DEF Init, PaidFor
<1>5. IdxKnown
  BY DEF Init, IdxKnown
<1> QED
  BY <1>1, <1>3, <1>4, <1>5 DEF NetInv

-----------------------------------------------------------------------------
\* Every step preserves the invariant, and so it holds in every reachable state.
LEMMA SpecIInv == Spec => []IInv
<1>1. Init => IInv
  BY RingInit, CharsReset, NetInit DEF IInv
<1>2. ASSUME IInv, [Next]_vars PROVE IInv'
  <2>1. RingInv /\ CharInv /\ NetInv /\ RingTypes
    BY <1>2 DEF IInv, RingInv
  <2>2. ASSUME NEW i \in Indices, ThreadStep(i) PROVE IInv'
    <3>1. UNCHANGED <<client, net, idx>>
      BY <2>2 DEF ThreadStep, ProducerLocks, ProducerStores, ProducerReleases,
                  ConsumerLocks, ConsumerTakes, ConsumerAdvances, ConsumerReleases
    <3>2. RingInv'
      BY <2>1, <2>2, ProducerLocksInv, ProducerStoresInv, ProducerReleasesInv,
         ConsumerLocksInv, ConsumerTakesInv, ConsumerAdvancesInv, ConsumerReleasesInv
      DEF ThreadStep
    <3>3. CharInv'
      BY <2>1, <2>2, ThreadChars
    <3> QED
      BY <2>1, <3>1, <3>2, <3>3, NetSame DEF IInv
  <2>3. ASSUME NEW m \in requests, StartThread(m) PROVE IInv'
    <3>1. CharInv'
      BY <2>1, <2>3, CharsSame DEF StartThread, ring
    <3> QED
      BY <2>1, <2>3, <3>1, StartThreadNet, StartThreadRing DEF IInv
  <2>4. ASSUME NEW m \in requests, Poll(m) PROVE IInv'
    <3>1. CharInv'
      BY <2>1, <2>4, CharsSame DEF Poll, ring
    <3> QED
      BY <2>1, <2>4, <3>1, PollNet, RingSame DEF IInv, Poll
  <2>5. ASSUME NEW m \in replies, Receive(m) PROVE IInv'
    <3>1. CharInv'
      BY <2>1, <2>5, CharsSame DEF Receive, ring
    <3> QED
      BY <2>1, <2>5, <3>1, ReceiveNet, RingSame DEF IInv, Receive
  <2>6. ASSUME NEW c \in Clients, ClientStep(c) PROVE IInv'
    <3>1. UNCHANGED <<ring, threads, server>>
      BY <2>6 DEF ClientStep, FirstCall, PollAgain, Call, TakeIdx, Finish, CallFails, Resend
    <3>2. NetInv'
      BY <2>1, <2>6, FirstCallNet, ClientNet, ResendNet DEF ClientStep
    <3>3. CharInv'
      BY <2>1, <3>1, CharsSame DEF ring
    <3> QED
      BY <2>1, <3>1, <3>2, <3>3, RingSame DEF IInv
  <2>7. CASE handle_signal
    BY <2>1, <2>7, SignalRing, CharsReset, SignalNet DEF IInv
  <2>8. CASE UNCHANGED vars
    <3>1. CharInv'
      BY <2>1, <2>8, CharsSame DEF vars, ring
    <3> QED
      BY <2>1, <2>8, <3>1, RingSame, NetSame DEF IInv, vars, threads
  <2> QED
    BY <1>2, <2>2, <2>3, <2>4, <2>5, <2>6, <2>7, <2>8 DEF Next
<1> QED
  BY <1>1, <1>2, PTL DEF Spec

\* The semaphores count what they are named for, however many threads repeated
\* datagrams have started.
THEOREM SemaphoresCount == Spec => []SemAccounting
<1>1. IInv => SemAccounting
  <2>1. IInv => TypeOK
    BY DEF IInv, RingInv, RingTypes, CharInv, CharTypes, NetInv, NetTypes, TypeOK
  <2> QED
    BY <2>1 DEF IInv, RingInv, SemsCount, SemAccounting, SE, SF, SB
<1> QED
  BY <1>1, SpecIInv, PTL

\* No production is taken by two consumers, although SE lets the producers run over
\* cells that were not consumed, and what a thread leaves is the char of the
\* production it is from; this for any number of productions, also when the letter
\* has passed 'z' and come round to 'a' again.
THEOREM EachConsumedOnce == Spec => []ConsumedOnce
<1>1. IInv => ConsumedOnce
  BY DEF IInv, RingInv, TakenOnce, CharInv, CharsMatch, CharOf, ConsumedOnce
<1> QED
  BY <1>1, SpecIInv, PTL

-----------------------------------------------------------------------------
(* Where the threads can come to a standstill, and what a poll may see. *)

\* A thread that its semaphores let go on.
GoesOn(i) ==
    \/ thread[i] \in Inside
    \/ thread[i] = "lock" /\ kind[i] = "p" /\ Passes(sem, producer_lock)
    \/ thread[i] = "lock" /\ kind[i] = "c" /\ Passes(sem, consumer_lock)

Waits(type) == \E i \in Indices : kind[i] = type /\ thread[i] = "lock"

\* When no thread of the running server can go on, producers that wait have stored
\* Slots + Header letters more than were taken, and consumers that wait have taken
\* all there were; so never do both wait.
StandstillExplained ==
    server /\ (\A i \in Indices : ~GoesOn(i)) =>
        /\ Waits("p") => Past("p", {"done"}) = Past("c", {"done"}) + Slots + Header
        /\ Waits("c") => Past("p", {"done"}) = Past("c", {"done"})
        /\ ~(Waits("p") /\ Waits("c"))

\* The threads of the server wait for each other only when the ring, as SE counts
\* it, is full or empty: a producer and a consumer never both wait for ever.
THEOREM StandstillOnlyThen == Spec => []StandstillExplained
<1>1. ASSUME IInv, server, \A i \in Indices : ~GoesOn(i)
      PROVE  /\ Waits("p") => Past("p", {"done"}) = Past("c", {"done"}) + Slots + Header
             /\ Waits("c") => Past("p", {"done"}) = Past("c", {"done"})
  <2>1. sem \in [0 .. 2 -> Nat] /\ SemsCount
    BY <1>1 DEF IInv, RingInv, RingTypes
  <2>2. sem[0] \in Nat /\ sem[1] \in Nat /\ sem[2] \in Nat
    BY <2>1
  <2>3. \A i \in Indices : thread[i] \notin Inside
    BY <1>1 DEF GoesOn
  <2>4. /\ ThreadsAt("p", Inside) = {} /\ ThreadsAt("c", Inside) = {}
        /\ ThreadsAt("p", Inside \cup {"done"}) = ThreadsAt("p", {"done"})
        /\ ThreadsAt("c", Inside \cup {"done"}) = ThreadsAt("c", {"done"})
    BY <2>3 DEF ThreadsAt
  <2>5. /\ Past("p", Inside) = 0 /\ Past("c", Inside) = 0
        /\ Past("p", Inside \cup {"done"}) = Past("p", {"done"})
        /\ Past("c", Inside \cup {"done"}) = Past("c", {"done"})
    BY <2>4, PastCounts, FS_EmptySet
  <2>6. /\ sem[2] = 1
        /\ sem[0] = Slots + Header - Past("p", {"done"}) + Past("c", {"done"})
        /\ sem[1] = Past("p", {"done"}) - Past("c", {"done"})
    BY <1>1, <2>1, <2>2, <2>5 DEF SemsCount
  <2>7. Waits("p") => sem[0] = 0
    <3>1. Passes(sem, producer_lock) <=> sem[0] > 0 /\ sem[2] > 0
      BY <2>1, LockArray DEF producer_lock, SE
    <3>2. Waits("p") => ~Passes(sem, producer_lock)
      BY <1>1 DEF Waits, GoesOn
    <3> QED
      BY <2>2, <2>6, <3>1, <3>2
  <2>8. Waits("c") => sem[1] = 0
    <3>1. Passes(sem, consumer_lock) <=> sem[1] > 0 /\ sem[2] > 0
      BY <2>1, LockArray DEF consumer_lock, SF
    <3>2. Waits("c") => ~Passes(sem, consumer_lock)
      BY <1>1 DEF Waits, GoesOn
    <3> QED
      BY <2>2, <2>6, <3>1, <3>2
  <2>9. Past("p", {"done"}) \in Nat /\ Past("c", {"done"}) \in Nat
    BY CountsAreNumbers
  <2>10. Slots \in Nat /\ Header \in Nat
    BY Numbers
  <2>11. Waits("p") => Past("p", {"done"}) = Past("c", {"done"}) + Slots + Header
    BY <2>6, <2>7, <2>9, <2>10
  <2>12. Waits("c") => Past("p", {"done"}) = Past("c", {"done"})
    BY <2>6, <2>8, <2>9
  <2> QED
    BY <2>11, <2>12
<1>2. Past("c", {"done"}) \in Nat /\ Slots \in Nat /\ Slots > 0 /\ Header \in Nat
  BY CountsAreNumbers, Numbers
<1>3. Past("c", {"done"}) + Slots + Header # Past("c", {"done"})
  BY <1>2
<1>4. IInv => StandstillExplained
  BY <1>1, <1>3 DEF StandstillExplained
<1> QED
  BY <1>4, SpecIInv, PTL

\* While the server runs, a result that a thread has left in resultBuffer is not
\* changed by any thread: every later poll with that index, the repeated ones
\* too, gets the same answer.
THEOREM ResultsStay ==
    Spec => [][server' => \A i \in Indices :
                   resultBuffer[i] # 0 => resultBuffer'[i] = resultBuffer[i]]_vars
<1> DEFINE Kept == server' => \A i \in Indices :
                       resultBuffer[i] # 0 => resultBuffer'[i] = resultBuffer[i]
<1>1. ASSUME IInv, [Next]_vars PROVE Kept \/ UNCHANGED vars
  <2>0. resultBuffer \in [Indices -> Char] /\ NoResultYet
    BY <1>1 DEF IInv, RingInv, CharInv, CharTypes
  <2>1. ASSUME NEW i \in Indices, ThreadStep(i) PROVE Kept
    <3>1. ASSUME ProducerStores(i) \/ ConsumerTakes(i) PROVE Kept
      <4>1. thread[i] = "access"
        BY <3>1 DEF ProducerStores, ConsumerTakes, Goes
      <4>2. resultBuffer[i] = 0
        BY <1>1, <2>0, <4>1 DEF NoResultYet, IInv, CharInv, CharsMatch, CharOf
      <4>3. \A k \in Indices \ {i} : resultBuffer'[k] = resultBuffer[k]
        BY <2>0, <3>1 DEF ProducerStores, ConsumerTakes
      <4> QED
        BY <4>2, <4>3
    <3>2. ASSUME ~ProducerStores(i), ~ConsumerTakes(i) PROVE UNCHANGED resultBuffer
      BY <2>1, <3>2 DEF ThreadStep, ProducerLocks, ProducerReleases, ConsumerLocks,
                        ConsumerAdvances, ConsumerReleases
    <3> QED
      BY <3>1, <3>2
  <2>2. ASSUME NEW m \in requests, StartThread(m) \/ Poll(m) PROVE Kept
    BY <2>2 DEF StartThread, Poll, ring
  <2>3. ASSUME NEW m \in replies, Receive(m) PROVE Kept
    BY <2>3 DEF Receive, ring
  <2>4. ASSUME NEW c \in Clients, ClientStep(c) PROVE Kept
    BY <2>4 DEF ClientStep, FirstCall, PollAgain, Call, TakeIdx, Finish, CallFails, Resend, ring
  <2>5. ASSUME handle_signal PROVE Kept
    BY <2>5 DEF handle_signal
  <2> QED
    BY <1>1, <2>1, <2>2, <2>3, <2>4, <2>5 DEF Next
<1> QED
  BY <1>1, SpecIInv, PTL DEF Spec
=============================================================================

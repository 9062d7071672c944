-------------------------- MODULE SymbolPoolProofs --------------------------
(***************************************************************************)
(* Proofs about the concurrent symbol servers, for any finite set of       *)
(* clients and any length of the array, with processes and with threads.   *)
(*                                                                         *)
(* Three facts carry the proof.  The semaphores count the handlers inside  *)
(* and the units left behind, and never those of readers and of writers    *)
(* together, as long as the set exists.  An index that was found free is one of the array.   *)
(* And while the server is up each client is somewhere in its round, which *)
(* says where its two handlers can be.                                     *)
(***************************************************************************)
EXTENDS MCSymbolPool, FiniteSetTheorems, WellFoundedInduction, TLAPS

Counted ==
    HandlersRun =>
        /\ sem[1] = Cardinality(ActiveReaders) + left[1]
        /\ sem[2] = Cardinality(ActiveWriters) + left[2]
        /\ sem[0] = 0 /\ sem[3] = 0

Apart == HandlersRun => sem[1] = 0 \/ sem[2] = 0

Gone == server = "crashed" => \A c \in Clients : rpc[c] = "none" /\ wpc[c] = "none"

InRange == \A c \in Clients : wpc[c] \in {"mark", "send"} => widx[c] \in Cells

Round(c) ==
    /\ cpc[c] = "loop" => rpc[c] = "none" /\ wpc[c] \in {"none", "stop"}
    /\ cpc[c] = "reading" => /\ rpc[c] \in {"none", "start", "copy"}
                             /\ wpc[c] \in {"none", "stop"}
                             /\ rpc[c] = "none" => wpc[c] = "none"
    /\ cpc[c] \in {"received", "chosen"} => rpc[c] \in {"stop", "none"} /\ wpc[c] = "none"
    /\ cpc[c] = "writing" => /\ rpc[c] \in {"stop", "none"}
                             /\ wpc[c] \in {"none", "start", "test", "mark", "send"}
                             /\ wpc[c] = "none" => rpc[c] = "none"

Rounds == server = "up" => \A c \in Clients : Round(c)

IInv ==
    /\ TypeOK
    /\ Counted
    /\ Apart
    /\ Gone
    /\ InRange
    /\ CopyIsCurrent
    /\ Rounds

-----------------------------------------------------------------------------
(* What the four operation arrays need and do. *)

\* start_read waits for ACTIVE_WRITER and WAITING_WRITERS to be 0, and its net
\* effect is one more active reader.
LEMMA StartReadOps ==
    ASSUME NEW s \in [Sems -> Nat], s[0] = 0
    PROVE  /\ Passes(s, start_read) <=> s[2] = 0 /\ s[3] = 0
           /\ After(s, start_read) = [n \in Sems |-> IF n = 1 THEN s[1] + 1 ELSE s[n]]
<1> DEFINE ops == start_read
<1>1. Len(ops) = 5
  BY DEF start_read
<1>2. /\ ops[1].num = 0 /\ ops[2].num = 2 /\ ops[3].num = 3 /\ ops[4].num = 0
      /\ ops[5].num = 1
      /\ ops[1].op = 1 /\ ops[2].op = 0 /\ ops[3].op = 0 /\ ops[4].op = -1
      /\ ops[5].op = 1
  BY DEF start_read, SemOp, SEM_WAITING_READERS, SEM_ACTIVE_WRITER,
         SEM_WAITING_WRITERS, SEM_ACTIVE_READERS
<1> HIDE DEF ops
<1>3. \A n \in Sems : s[n] \in Nat
  OBVIOUS
<1>4. /\ Delta(ops, 0, 0) = 0 /\ Delta(ops, 1, 2) = 0 /\ Delta(ops, 2, 3) = 0
      /\ Delta(ops, 3, 0) = 1 /\ Delta(ops, 4, 1) = 0
  BY <1>1, <1>2 DEF Delta, Share
<1>5. \A n \in Sems : Delta(ops, 5, n) = IF n = 1 THEN 1 ELSE 0
  BY <1>1, <1>2 DEF Delta, Share, Sems
<1>6. /\ Met(s, ops, 1) = s[0] /\ Met(s, ops, 2) = s[2] /\ Met(s, ops, 3) = s[3]
      /\ Met(s, ops, 4) = s[0] + 1 /\ Met(s, ops, 5) = s[1]
  BY <1>2, <1>3, <1>4 DEF Met, Sems
<1>7. Passes(s, ops) <=>
        /\ Met(s, ops, 1) + 1 >= 0 /\ Met(s, ops, 2) = 0 /\ Met(s, ops, 3) = 0
        /\ Met(s, ops, 4) + (-1) >= 0 /\ Met(s, ops, 5) + 1 >= 0
  BY <1>1, <1>2, <1>3, <1>6 DEF Passes, Sems
<1>8. Passes(s, ops) <=> s[2] = 0 /\ s[3] = 0
  BY <1>3, <1>6, <1>7 DEF Sems
<1>9. \A n \in Sems : s[n] + Delta(ops, 5, n) = IF n = 1 THEN s[1] + 1 ELSE s[n]
  BY <1>3, <1>5 DEF Sems
<1>10. After(s, ops) = [n \in Sems |-> IF n = 1 THEN s[1] + 1 ELSE s[n]]
  BY <1>9 DEF After, MaxOps
<1> QED
  BY <1>8, <1>10 DEF ops

\* stop_read takes one active reader off.
LEMMA StopReadOps ==
    ASSUME NEW s \in [Sems -> Nat]
    PROVE  /\ Passes(s, stop_read) <=> s[1] > 0
           /\ After(s, stop_read) = [n \in Sems |-> IF n = 1 THEN s[1] - 1 ELSE s[n]]
<1> DEFINE ops == stop_read
<1>1. Len(ops) = 1
  BY DEF stop_read
<1>2. ops[1].num = 1 /\ ops[1].op = -1
  BY DEF stop_read, SemOp, SEM_ACTIVE_READERS
<1> HIDE DEF ops
<1>3. \A n \in Sems : s[n] \in Nat
  OBVIOUS
<1>4. Delta(ops, 0, 1) = 0
  BY <1>1, <1>2 DEF Delta, Share
<1>5. \A n \in Sems : Delta(ops, 5, n) = IF n = 1 THEN -1 ELSE 0
  BY <1>1, <1>2 DEF Delta, Share, Sems
<1>6. Met(s, ops, 1) = s[1]
  BY <1>2, <1>3, <1>4 DEF Met, Sems
<1>7. Passes(s, ops) <=> Met(s, ops, 1) + (-1) >= 0
  BY <1>1, <1>2, <1>3, <1>6 DEF Passes, Sems
<1>8. Passes(s, ops) <=> s[1] > 0
  BY <1>3, <1>6, <1>7 DEF Sems
<1>9. \A n \in Sems : s[n] + Delta(ops, 5, n) = IF n = 1 THEN s[1] - 1 ELSE s[n]
  BY <1>3, <1>5 DEF Sems
<1>10. After(s, ops) = [n \in Sems |-> IF n = 1 THEN s[1] - 1 ELSE s[n]]
  BY <1>9 DEF After, MaxOps
<1> QED
  BY <1>8, <1>10 DEF ops

\* start_write waits for ACTIVE_READERS to be 0 but not for another writer, and
\* its net effect is one more active writer.
LEMMA StartWriteOps ==
    ASSUME NEW s \in [Sems -> Nat], s[3] = 0
    PROVE  /\ Passes(s, start_write) <=> s[1] = 0
           /\ After(s, start_write) = [n \in Sems |-> IF n = 2 THEN s[2] + 1 ELSE s[n]]
<1> DEFINE ops == start_write
<1>1. Len(ops) = 4
  BY DEF start_write
<1>2. /\ ops[1].num = 3 /\ ops[2].num = 1 /\ ops[3].num = 2 /\ ops[4].num = 3
      /\ ops[1].op = 1 /\ ops[2].op = 0 /\ ops[3].op = 1 /\ ops[4].op = -1
  BY DEF start_write, SemOp, SEM_ACTIVE_WRITER, SEM_WAITING_WRITERS,
         SEM_ACTIVE_READERS
<1> HIDE DEF ops
<1>3. \A n \in Sems : s[n] \in Nat
  OBVIOUS
<1>4. /\ Delta(ops, 0, 3) = 0 /\ Delta(ops, 1, 1) = 0 /\ Delta(ops, 2, 2) = 0
      /\ Delta(ops, 3, 3) = 1
  BY <1>1, <1>2 DEF Delta, Share
<1>5. \A n \in Sems : Delta(ops, 5, n) = IF n = 2 THEN 1 ELSE 0
  BY <1>1, <1>2 DEF Delta, Share, Sems
<1>6. /\ Met(s, ops, 1) = s[3] /\ Met(s, ops, 2) = s[1] /\ Met(s, ops, 3) = s[2]
      /\ Met(s, ops, 4) = s[3] + 1
  BY <1>2, <1>3, <1>4 DEF Met, Sems
<1>7. Passes(s, ops) <=>
        /\ Met(s, ops, 1) + 1 >= 0 /\ Met(s, ops, 2) = 0
        /\ Met(s, ops, 3) + 1 >= 0 /\ Met(s, ops, 4) + (-1) >= 0
  BY <1>1, <1>2, <1>3, <1>6 DEF Passes, Sems
<1>8. Passes(s, ops) <=> s[1] = 0
  BY <1>3, <1>6, <1>7 DEF Sems
<1>9. \A n \in Sems : s[n] + Delta(ops, 5, n) = IF n = 2 THEN s[2] + 1 ELSE s[n]
  BY <1>3, <1>5 DEF Sems
<1>10. After(s, ops) = [n \in Sems |-> IF n = 2 THEN s[2] + 1 ELSE s[n]]
  BY <1>9 DEF After, MaxOps
<1> QED
  BY <1>8, <1>10 DEF ops

\* stop_write takes one active writer off.
LEMMA StopWriteOps ==
    ASSUME NEW s \in [Sems -> Nat]
    PROVE  /\ Passes(s, stop_write) <=> s[2] > 0
           /\ After(s, stop_write) = [n \in Sems |-> IF n = 2 THEN s[2] - 1 ELSE s[n]]
<1> DEFINE ops == stop_write
<1>1. Len(ops) = 1
  BY DEF stop_write
<1>2. ops[1].num = 2 /\ ops[1].op = -1
  BY DEF stop_write, SemOp, SEM_ACTIVE_WRITER
<1> HIDE DEF ops
<1>3. \A n \in Sems : s[n] \in Nat
  OBVIOUS
<1>4. Delta(ops, 0, 2) = 0
  BY <1>1, <1>2 DEF Delta, Share
<1>5. \A n \in Sems : Delta(ops, 5, n) = IF n = 2 THEN -1 ELSE 0
  BY <1>1, <1>2 DEF Delta, Share, Sems
<1>6. Met(s, ops, 1) = s[2]
  BY <1>2, <1>3, <1>4 DEF Met, Sems
<1>7. Passes(s, ops) <=> Met(s, ops, 1) + (-1) >= 0
  BY <1>1, <1>2, <1>3, <1>6 DEF Passes, Sems
<1>8. Passes(s, ops) <=> s[2] > 0
  BY <1>3, <1>6, <1>7 DEF Sems
<1>9. \A n \in Sems : s[n] + Delta(ops, 5, n) = IF n = 2 THEN s[2] - 1 ELSE s[n]
  BY <1>3, <1>5 DEF Sems
<1>10. After(s, ops) = [n \in Sems |-> IF n = 2 THEN s[2] - 1 ELSE s[n]]
  BY <1>9 DEF After, MaxOps
<1> QED
  BY <1>8, <1>10 DEF ops

-----------------------------------------------------------------------------
(* Facts about the array, the client's search and the counted sets. *)

\* The cells are the numbers below Size.
LEMMA CellFacts ==
    /\ Size \in Nat /\ Size > 0
    /\ Cells \subseteq Nat /\ Cells \subseteq -1 .. Size - 1
    /\ \A i \in Cells : 0 <= i /\ i < Size
    /\ -1 \in -1 .. Size - 1 /\ 0 \in -1 .. Size - 1
  BY SizeAssumption DEF Cells

\* A set of natural numbers that is not empty has a least member.
LEMMA LeastNumber ==
    ASSUME NEW T, T \subseteq Nat, T # {}
    PROVE  \E k \in T : \A j \in T : k <= j
<1>1. PICK k \in T : \A j \in T : ~(<<j, k>> \in OpToRel(<, Nat))
  BY WFMin, NatLessThanWellFounded
<1>2. \A j \in T : ~(j < k)
  BY <1>1 DEF OpToRel
<1> QED
  BY <1>2

\* What the client finds in its copy is an index or -1.
LEMMA FoundIsIndex ==
    ASSUME TypeOK, NEW c \in Clients
    PROVE  find_first_unoccupied_index(c) \in -1 .. Size - 1
<1>1. CASE \E k \in Cells : copy[c][k]
  <2>1. PICK T : T = {k \in Cells : copy[c][k]}
    OBVIOUS
  <2>2. T # {} /\ T \subseteq Nat
    BY <1>1, <2>1, CellFacts
  <2>3. PICK k \in T : \A j \in T : k <= j
    BY <2>2, LeastNumber
  <2>4. k \in Cells /\ copy[c][k]
    BY <2>1, <2>3
  <2>5. ASSUME NEW j \in Cells, j < k PROVE ~copy[c][j]
    <3>1. j \in Nat /\ k \in Nat /\ ~(k <= j)
      BY <2>4, <2>5, CellFacts
    <3> QED
      BY <2>1, <2>3, <3>1
  <2>6. find_first_unoccupied_index(c) \in Cells
    BY <1>1, <2>4, <2>5, Zenon DEF find_first_unoccupied_index
  <2> QED
    BY <2>6, CellFacts
<1>2. CASE ~\E k \in Cells : copy[c][k]
  BY <1>2, CellFacts DEF find_first_unoccupied_index
<1> QED
  BY <1>1, <1>2

\* The two counted sets are finite.
LEMMA ActiveFinite ==
    /\ IsFiniteSet(ActiveReaders) /\ Cardinality(ActiveReaders) \in Nat
    /\ IsFiniteSet(ActiveWriters) /\ Cardinality(ActiveWriters) \in Nat
<1>1. ActiveReaders \subseteq Clients /\ ActiveWriters \subseteq Clients
  BY DEF ActiveReaders, ActiveWriters
<1> QED
  BY <1>1, ClientsAssumption, FS_Subset, FS_CardinalityType

\* What is left behind in the two semaphores is a number of units.
LEMMA LeftIsNat == TypeOK => left[1] \in Nat /\ left[2] \in Nat
  BY DEF TypeOK, SEM_ACTIVE_READERS, SEM_ACTIVE_WRITER

\* As long as the set exists, reading and writing handlers are not inside together.
LEMMA NeverTogether ==
    ASSUME IInv, HandlersRun
    PROVE  ActiveReaders = {} \/ ActiveWriters = {}
<1>1. \/ Cardinality(ActiveReaders) = 0
      \/ Cardinality(ActiveWriters) = 0
  BY ActiveFinite, LeftIsNat DEF IInv, Counted, Apart
<1> QED
  BY <1>1, ActiveFinite, FS_EmptySet

\* The initial states satisfy the invariant.
LEMMA InitIInv == Init => IInv
<1> SUFFICES ASSUME Init PROVE IInv
  OBVIOUS
<1>1. TypeOK
  <2>1. /\ sem \in [Sems -> Nat] /\ copied \in [Clients -> 0 .. Size]
        /\ widx \in [Clients -> -1 .. Size - 1]
        /\ idx \in [Clients \cup {Shared} -> -1 .. Size - 1]
    BY CellFacts DEF Init
  <2>2. /\ shm_buf \in [Cells -> BOOLEAN] /\ copy \in [Clients -> [Cells -> BOOLEAN]]
        /\ threaded \in BOOLEAN /\ left \in [{SEM_ACTIVE_READERS, SEM_ACTIVE_WRITER} -> Nat]
    BY DEF Init
  <2>3. /\ server \in {"up", "closing", "detached", "stopped", "failed", "crashed"}
        /\ rpc \in [Clients -> ReaderPC] /\ wpc \in [Clients -> WriterPC]
        /\ cpc \in [Clients -> ClientPC] /\ got \in [Clients -> SUBSET Cells]
    BY DEF Init, ReaderPC, WriterPC, ClientPC
  <2> QED
    BY <2>1, <2>2, <2>3 DEF TypeOK
<1>2. ActiveReaders = {} /\ ActiveWriters = {}
  BY DEF Init, ActiveReaders, ActiveWriters
<1>3. Counted
  <2>1. Cardinality(ActiveReaders) = 0 /\ Cardinality(ActiveWriters) = 0
    BY <1>2, FS_EmptySet
  <2>2. left[1] = 0 /\ left[2] = 0
    BY DEF Init, SEM_ACTIVE_READERS, SEM_ACTIVE_WRITER
  <2> QED
    BY <2>1, <2>2 DEF Init, Counted, Sems
<1>4. Apart /\ CopyIsCurrent
  BY <1>2 DEF Init, Apart, CopyIsCurrent, Sems
<1>5. Gone /\ InRange /\ Rounds
  BY DEF Init, Gone, InRange, Rounds, Round
<1> QED
  BY <1>1, <1>3, <1>4, <1>5 DEF IInv

-----------------------------------------------------------------------------
(* The reading handler. *)

\* A step that leaves the semaphores and the handlers inside as they are keeps
\* the counts.
LEMMA StaysPut ==
    ASSUME IInv, UNCHANGED <<sem, left>>, HandlersRun' => HandlersRun,
           ActiveReaders' = ActiveReaders, ActiveWriters' = ActiveWriters
    PROVE  Counted' /\ Apart'
  BY DEF IInv, Counted, Apart

\* A handler that is there has a server that did not crash.
LEMMA StillRuns ==
    ASSUME IInv, NEW c \in Clients, rpc[c] # "none" \/ wpc[c] # "none",
           server # "stopped"
    PROVE  HandlersRun
  BY DEF IInv, Gone, HandlersRun

\* start_read preserves the invariant: the reader comes in when no writer is
\* inside, and it has copied nothing yet.
LEMMA StartReadIInv ==
    ASSUME IInv, NEW c \in Clients, StartRead(c)
    PROVE  IInv'
<1>1. HandlersRun /\ rpc[c] = "start" /\ rpc' = [rpc EXCEPT ![c] = "copy"]
  BY StillRuns DEF StartRead, ReaderGoes
<1>2. UNCHANGED <<threaded, shm_buf, server, copy, wpc, widx, cpc, idx, got, left>>
  BY DEF StartRead, writers, client
<1>3. /\ sem[1] = Cardinality(ActiveReaders) + left[1] /\ left[1] \in Nat
      /\ sem[2] = Cardinality(ActiveWriters) + left[2] /\ left[2] \in Nat
      /\ sem[0] = 0 /\ sem[3] = 0 /\ sem \in [Sems -> Nat]
  BY <1>1, LeftIsNat DEF IInv, Counted, TypeOK
<1>4. sem[2] = 0 /\ sem' = [n \in Sems |-> IF n = 1 THEN sem[1] + 1 ELSE sem[n]]
  BY <1>3, StartReadOps DEF StartRead
<1>5. ActiveWriters = {} /\ ActiveWriters' = ActiveWriters
  <2>1. Cardinality(ActiveWriters) = 0
    BY <1>3, <1>4, ActiveFinite DEF IInv
  <2> QED
    BY <1>2, <2>1, ActiveFinite, FS_EmptySet DEF ActiveWriters
<1>6. ActiveReaders' = ActiveReaders \cup {c} /\ c \notin ActiveReaders
  BY <1>1 DEF IInv, TypeOK, ActiveReaders
<1>7. Cardinality(ActiveReaders') = Cardinality(ActiveReaders) + 1
  BY <1>6, ActiveFinite, FS_AddElement
<1>8. Counted' /\ Apart'
  <2>1. sem'[1] = sem[1] + 1 /\ sem'[2] = sem[2] /\ sem'[0] = sem[0] /\ sem'[3] = sem[3]
    BY <1>4 DEF Sems
  <2>2. sem'[1] = Cardinality(ActiveReaders') + left[1]
    BY <1>3, <1>7, <2>1, ActiveFinite
  <2> QED
    BY <1>2, <1>3, <1>4, <1>5, <2>1, <2>2 DEF Counted, Apart
<1>9. TypeOK'
  <2>1. sem' \in [Sems -> Nat]
    BY <1>3, <1>4 DEF Sems
  <2>2. copied' \in [Clients -> 0 .. Size]
    BY CellFacts DEF IInv, TypeOK, StartRead
  <2>3. rpc' \in [Clients -> ReaderPC]
    BY <1>1 DEF IInv, TypeOK, ReaderPC
  <2> QED
    BY <1>2, <2>1, <2>2, <2>3 DEF IInv, TypeOK
<1>10. CopyIsCurrent'
  <2>1. copied' = [copied EXCEPT ![c] = 0] /\ copied \in [Clients -> 0 .. Size]
    BY DEF StartRead, IInv, TypeOK
  <2>2. ASSUME NEW d \in Clients, d \in ActiveReaders', NEW i \in 0 .. copied'[d] - 1
        PROVE  copy'[d][i] = shm_buf'[i]
    <3>1. d # c
      BY <2>1, <2>2
    <3>2. d \in ActiveReaders /\ i \in 0 .. copied[d] - 1
      BY <1>6, <2>1, <2>2, <3>1
    <3>3. copy[d][i] = shm_buf[i]
      BY <1>1, <3>2 DEF IInv, CopyIsCurrent
    <3> QED
      BY <1>2, <3>3
  <2> QED
    BY <2>2 DEF CopyIsCurrent, ActiveReaders
<1>11. Gone' /\ InRange'
  BY <1>1, <1>2 DEF IInv, Gone, InRange, HandlersRun
<1>12. Rounds'
  BY <1>1, <1>2 DEF IInv, TypeOK, Rounds, Round
<1> QED
  BY <1>8, <1>9, <1>10, <1>11, <1>12 DEF IInv

\* stop_read preserves the invariant.
LEMMA StopReadIInv ==
    ASSUME IInv, NEW c \in Clients, StopRead(c)
    PROVE  IInv'
<1>1. HandlersRun /\ rpc[c] = "stop" /\ rpc' = [rpc EXCEPT ![c] = "none"]
  BY StillRuns DEF StopRead, ReaderGoes
<1>2. UNCHANGED <<threaded, shm_buf, server, copied, copy, wpc, widx, cpc, idx, got, left>>
  BY DEF StopRead, writers, client
<1>3. /\ sem[1] = Cardinality(ActiveReaders) + left[1] /\ left[1] \in Nat
      /\ sem[2] = Cardinality(ActiveWriters) + left[2] /\ left[2] \in Nat
      /\ sem[0] = 0 /\ sem[3] = 0 /\ sem \in [Sems -> Nat]
  BY <1>1, LeftIsNat DEF IInv, Counted, TypeOK
<1>4. sem[1] > 0 /\ sem' = [n \in Sems |-> IF n = 1 THEN sem[1] - 1 ELSE sem[n]]
  BY <1>3, StopReadOps DEF StopRead
<1>5. ActiveWriters' = ActiveWriters
  BY <1>2 DEF ActiveWriters
<1>6. ActiveReaders' = ActiveReaders \ {c} /\ c \in ActiveReaders
  BY <1>1 DEF IInv, TypeOK, ActiveReaders
<1>7. Cardinality(ActiveReaders') = Cardinality(ActiveReaders) - 1
  BY <1>6, ActiveFinite, FS_RemoveElement
<1>8. Counted'
  <2>1. sem'[1] = sem[1] - 1 /\ sem'[2] = sem[2] /\ sem'[0] = sem[0] /\ sem'[3] = sem[3]
    BY <1>4 DEF Sems
  <2>2. sem'[1] = Cardinality(ActiveReaders') + left[1]
    BY <1>3, <1>7, <2>1, ActiveFinite
  <2> QED
    BY <1>2, <1>3, <1>5, <2>1, <2>2 DEF Counted
<1>9. Apart' /\ CopyIsCurrent'
  <2>1. sem[2] = 0
    BY <1>1, <1>4 DEF IInv, Apart
  <2>2. sem'[2] = 0
    BY <1>4, <2>1 DEF Sems
  <2> QED
    BY <1>1, <1>2, <1>6, <2>2 DEF IInv, Apart, CopyIsCurrent
<1>10. TypeOK'
  <2>1. sem' \in [Sems -> Nat]
    BY <1>3, <1>4 DEF Sems
  <2>2. rpc' \in [Clients -> ReaderPC]
    BY <1>1 DEF IInv, TypeOK, ReaderPC
  <2> QED
    BY <1>2, <2>1, <2>2 DEF IInv, TypeOK
<1>11. Gone' /\ InRange'
  BY <1>1, <1>2 DEF IInv, Gone, InRange, HandlersRun
<1>12. Rounds'
  BY <1>1, <1>2 DEF IInv, TypeOK, Rounds, Round
<1> QED
  BY <1>8, <1>9, <1>10, <1>11, <1>12 DEF IInv

\* Copying a cell preserves the invariant: it makes the copy agree there too.
LEMMA CopyCellIInv ==
    ASSUME IInv, NEW c \in Clients, CopyCell(c)
    PROVE  IInv'
<1>1. UNCHANGED <<threaded, shm_buf, sem, server, rpc, wpc, widx, cpc, idx, got, left>>
  BY DEF CopyCell, writers, client
<1>2. /\ rpc[c] = "copy" /\ copied[c] < Size
      /\ copy' = [copy EXCEPT ![c][copied[c]] = shm_buf[copied[c]]]
      /\ copied' = [copied EXCEPT ![c] = @ + 1]
      /\ copied \in [Clients -> 0 .. Size]
      /\ copy \in [Clients -> [Cells -> BOOLEAN]] /\ shm_buf \in [Cells -> BOOLEAN]
  BY DEF CopyCell, IInv, TypeOK
<1>3. copied[c] \in Cells /\ copied[c] \in Nat
  BY <1>2, CellFacts DEF Cells
<1>4. ActiveReaders' = ActiveReaders /\ ActiveWriters' = ActiveWriters
      /\ HandlersRun' = HandlersRun
  BY <1>1 DEF ActiveReaders, ActiveWriters, HandlersRun
<1>5. Counted' /\ Apart'
  BY <1>1, <1>4, StaysPut
<1>6. TypeOK'
  <2>1. copied' \in [Clients -> 0 .. Size]
    BY <1>2, CellFacts
  <2>2. copy' \in [Clients -> [Cells -> BOOLEAN]]
    BY <1>2, <1>3
  <2> QED
    BY <1>1, <2>1, <2>2 DEF IInv, TypeOK
<1>7. CopyIsCurrent'
  <2>0. copied \in [Clients -> 0 .. Size] /\ copied' = [copied EXCEPT ![c] = @ + 1]
    BY <1>2
  <2>1. ASSUME HandlersRun, NEW d \in ActiveReaders, NEW i \in 0 .. copied'[d] - 1
        PROVE  copy'[d][i] = shm_buf[i]
    <3>1. d \in Clients
      BY DEF ActiveReaders
    <3>2. CASE d = c /\ i = copied[c]
      BY <1>2, <1>3, <3>2
    <3>3. CASE ~(d = c /\ i = copied[c])
      <4>0. copied[d] \in 0 .. Size /\ i \in Nat /\ i < copied'[d]
            /\ copied'[d] = IF d = c THEN copied[d] + 1 ELSE copied[d]
        BY <2>0, <3>1, CellFacts
      <4>1. i \in 0 .. copied[d] - 1
        BY <3>3, <4>0, CellFacts
      <4>2. copy[d][i] = shm_buf[i]
        BY <2>1, <4>1 DEF IInv, CopyIsCurrent
      <4>3. CASE d # c
        <5>1. copy'[d] = copy[d]
          BY <1>2, <3>1, <4>3
        <5> QED
          BY <4>2, <5>1, Zenon
      <4>4. CASE d = c
        <5>1. copy'[c] = [copy[c] EXCEPT ![copied[c]] = shm_buf[copied[c]]]
          BY <1>2
        <5>2. i # copied[c] /\ i \in Cells
          BY <3>3, <4>0, <4>1, <4>4, CellFacts DEF Cells
        <5>3. copy'[c][i] = copy[c][i]
          BY <1>2, <5>1, <5>2
        <5> QED
          BY <4>2, <4>4, <5>3, Zenon
      <4> QED
        BY <4>3, <4>4
    <3> QED
      BY <3>2, <3>3
  <2> QED
    BY <1>1, <1>4, <2>1 DEF CopyIsCurrent
<1>8. Gone' /\ InRange' /\ Rounds'
  BY <1>1 DEF IInv, Gone, InRange, Rounds, Round
<1> QED
  BY <1>5, <1>6, <1>7, <1>8 DEF IInv

\* Sending the copy preserves the invariant: the handler is inside, so while the
\* server is up its client has no writing handler.
LEMMA SendCopyIInv ==
    ASSUME IInv, NEW c \in Clients, SendCopy(c)
    PROVE  IInv'
<1>1. rpc[c] = "copy" /\ rpc' = [rpc EXCEPT ![c] = "stop"]
  BY DEF SendCopy, ReaderGoes
<1>2. UNCHANGED <<threaded, shm_buf, sem, server, copied, copy, wpc, widx, idx, got, left>>
  BY DEF SendCopy, writers
<1>3. ActiveReaders' = ActiveReaders /\ ActiveWriters' = ActiveWriters
      /\ HandlersRun' = HandlersRun
  BY <1>1, <1>2 DEF IInv, TypeOK, ActiveReaders, ActiveWriters, HandlersRun
<1>4. Counted' /\ Apart'
  BY <1>2, <1>3, StaysPut
<1>5. CopyIsCurrent'
  BY <1>2, <1>3 DEF IInv, CopyIsCurrent
<1>6. cpc' \in [Clients -> ClientPC] /\ rpc' \in [Clients -> ReaderPC]
  BY <1>1 DEF SendCopy, IInv, TypeOK, ReaderPC, ClientPC
<1>7. TypeOK'
  BY <1>2, <1>6 DEF IInv, TypeOK
<1>8. Gone' /\ InRange'
  BY <1>1, <1>2 DEF IInv, TypeOK, Gone, InRange
<1>9. Rounds'
  <2> SUFFICES ASSUME server = "up", NEW d \in Clients PROVE Round(d)'
    BY <1>2 DEF Rounds
  <2>1. Round(d) /\ Round(c)
    BY DEF IInv, Rounds
  <2>2. ActiveWriters = {}
    BY <1>1, NeverTogether DEF HandlersRun, ActiveReaders
  <2>3. wpc[c] = "none" \/ cpc[c] # "reading"
    BY <2>1, <2>2 DEF Round, ActiveWriters
  <2> QED
    BY <1>1, <1>2, <1>6, <2>1, <2>3 DEF SendCopy, Round, IInv, TypeOK
<1> QED
  BY <1>4, <1>5, <1>7, <1>8, <1>9 DEF IInv

\* A failing send of the copy preserves the invariant: the reader goes, its unit
\* of ACTIVE_READERS is one more left behind.
LEMMA SendCopyFailsIInv ==
    ASSUME IInv, NEW c \in Clients, SendCopyFails(c)
    PROVE  IInv'
<1>1. rpc[c] = "copy" /\ rpc' = [rpc EXCEPT ![c] = "none"]
  BY DEF SendCopyFails, ReaderGoes
<1>2. UNCHANGED <<threaded, shm_buf, sem, server, copied, copy, wpc, widx, cpc, idx, got>>
  BY DEF SendCopyFails, writers, client
<1>3. ActiveWriters' = ActiveWriters /\ HandlersRun' = HandlersRun
  BY <1>2 DEF ActiveWriters, HandlersRun
<1>4. ActiveReaders' = ActiveReaders \ {c} /\ c \in ActiveReaders
  BY <1>1 DEF IInv, TypeOK, ActiveReaders
<1>5. Cardinality(ActiveReaders') = Cardinality(ActiveReaders) - 1
  BY <1>4, ActiveFinite, FS_RemoveElement
<1>6. left' = [left EXCEPT ![1] = @ + 1] /\ left \in [{1, 2} -> Nat]
  BY DEF SendCopyFails, LeavesUnit, IInv, TypeOK, SEM_ACTIVE_READERS, SEM_ACTIVE_WRITER
<1>7. Counted' /\ Apart'
  <2>1. left'[1] = left[1] + 1 /\ left'[2] = left[2] /\ left[1] \in Nat
    BY <1>6
  <2>2. Cardinality(ActiveReaders') + left'[1] = Cardinality(ActiveReaders) + left[1]
    BY <1>5, <2>1, ActiveFinite
  <2> QED
    BY <1>2, <1>3, <2>1, <2>2 DEF IInv, Counted, Apart
<1>8. CopyIsCurrent'
  BY <1>2, <1>3, <1>4 DEF IInv, CopyIsCurrent
<1>9. TypeOK'
  <2>1. rpc' \in [Clients -> ReaderPC]
    BY <1>1 DEF IInv, TypeOK, ReaderPC
  <2>2. left' \in [{1, 2} -> Nat]
    BY <1>6
  <2> QED
    BY <1>2, <2>1, <2>2 DEF IInv, TypeOK, SEM_ACTIVE_READERS, SEM_ACTIVE_WRITER
<1>10. Gone' /\ InRange'
  BY <1>1, <1>2 DEF IInv, TypeOK, Gone, InRange
<1>11. Rounds'
  <2> SUFFICES ASSUME server = "up", NEW d \in Clients PROVE Round(d)'
    BY <1>2 DEF Rounds
  <2>1. Round(d) /\ Round(c)
    BY DEF IInv, Rounds
  <2>2. ActiveWriters = {}
    BY <1>4, NeverTogether DEF HandlersRun
  <2>3. wpc[c] = "none" \/ cpc[c] # "reading"
    BY <2>1, <2>2 DEF Round, ActiveWriters
  <2> QED
    BY <1>1, <1>2, <2>1, <2>3 DEF Round, IInv, TypeOK
<1> QED
  BY <1>7, <1>8, <1>9, <1>10, <1>11 DEF IInv

\* A semop of the reader that fails preserves the invariant: the set is gone, or
\* the reader was not inside yet.
LEMMA ReaderFailsIInv ==
    ASSUME IInv, NEW c \in Clients, ReaderFails(c)
    PROVE  IInv'
<1>1. /\ rpc' = [rpc EXCEPT ![c] = "none"]
      /\ UNCHANGED <<threaded, shm_buf, sem, server, copied, copy, wpc, widx, cpc, idx, got, left>>
      /\ server # "up" /\ (HandlersRun => rpc[c] = "start")
  BY DEF ReaderFails, SemopFails, writers, client, HandlersRun
<1>2. ActiveWriters' = ActiveWriters /\ HandlersRun' = HandlersRun
  BY <1>1 DEF ActiveWriters, HandlersRun
<1>3. HandlersRun => ActiveReaders' = ActiveReaders
  BY <1>1 DEF IInv, TypeOK, ActiveReaders
<1>4. Counted' /\ Apart' /\ CopyIsCurrent'
  BY <1>1, <1>2, <1>3 DEF IInv, Counted, Apart, CopyIsCurrent
<1>5. TypeOK'
  BY <1>1 DEF IInv, TypeOK, ReaderPC
<1>6. Gone' /\ InRange' /\ Rounds'
  BY <1>1 DEF IInv, TypeOK, Gone, InRange, Rounds
<1> QED
  BY <1>4, <1>5, <1>6 DEF IInv

-----------------------------------------------------------------------------
(* The writing handler. *)

\* start_write preserves the invariant: the writer comes in when no reader is
\* inside.
LEMMA StartWriteIInv ==
    ASSUME IInv, NEW c \in Clients, StartWrite(c)
    PROVE  IInv'
<1>1. HandlersRun /\ wpc[c] = "start" /\ wpc' = [wpc EXCEPT ![c] = "test"]
  BY StillRuns DEF StartWrite, WriterGoes
<1>2. UNCHANGED <<threaded, shm_buf, server, rpc, copied, copy, widx, cpc, idx, got, left>>
  BY DEF StartWrite, readers, client
<1>3. /\ sem[1] = Cardinality(ActiveReaders) + left[1] /\ left[1] \in Nat
      /\ sem[2] = Cardinality(ActiveWriters) + left[2] /\ left[2] \in Nat
      /\ sem[0] = 0 /\ sem[3] = 0 /\ sem \in [Sems -> Nat]
  BY <1>1, LeftIsNat DEF IInv, Counted, TypeOK
<1>4. sem[1] = 0 /\ sem' = [n \in Sems |-> IF n = 2 THEN sem[2] + 1 ELSE sem[n]]
  BY <1>3, StartWriteOps DEF StartWrite
<1>5. ActiveReaders = {} /\ ActiveReaders' = ActiveReaders
  <2>1. Cardinality(ActiveReaders) = 0
    BY <1>3, <1>4, ActiveFinite
  <2> QED
    BY <1>2, <2>1, ActiveFinite, FS_EmptySet DEF ActiveReaders
<1>6. ActiveWriters' = ActiveWriters \cup {c} /\ c \notin ActiveWriters
  BY <1>1 DEF IInv, TypeOK, ActiveWriters
<1>7. Cardinality(ActiveWriters') = Cardinality(ActiveWriters) + 1
  BY <1>6, ActiveFinite, FS_AddElement
<1>8. Counted' /\ Apart'
  <2>1. sem'[2] = sem[2] + 1 /\ sem'[1] = sem[1] /\ sem'[0] = sem[0] /\ sem'[3] = sem[3]
    BY <1>4 DEF Sems
  <2>2. sem'[2] = Cardinality(ActiveWriters') + left[2]
    BY <1>3, <1>7, <2>1, ActiveFinite
  <2> QED
    BY <1>2, <1>3, <1>4, <1>5, <2>1, <2>2 DEF Counted, Apart
<1>9. TypeOK'
  <2>1. sem' \in [Sems -> Nat]
    BY <1>3, <1>4 DEF Sems
  <2>2. wpc' \in [Clients -> WriterPC]
    BY <1>1 DEF IInv, TypeOK, WriterPC
  <2> QED
    BY <1>2, <2>1, <2>2 DEF IInv, TypeOK
<1>10. CopyIsCurrent' /\ Gone'
  BY <1>1, <1>2, <1>5 DEF IInv, CopyIsCurrent, Gone, HandlersRun
<1>11. InRange' /\ Rounds'
  BY <1>1, <1>2 DEF IInv, TypeOK, InRange, Rounds, Round
<1> QED
  BY <1>8, <1>9, <1>10, <1>11 DEF IInv

\* stop_write preserves the invariant.
LEMMA StopWriteIInv ==
    ASSUME IInv, NEW c \in Clients, StopWrite(c)
    PROVE  IInv'
<1>1. HandlersRun /\ wpc[c] = "stop" /\ wpc' = [wpc EXCEPT ![c] = "none"]
  BY StillRuns DEF StopWrite, WriterGoes
<1>2. UNCHANGED <<threaded, shm_buf, server, rpc, copied, copy, widx, cpc, idx, got, left>>
  BY DEF StopWrite, readers, client
<1>3. /\ sem[1] = Cardinality(ActiveReaders) + left[1] /\ left[1] \in Nat
      /\ sem[2] = Cardinality(ActiveWriters) + left[2] /\ left[2] \in Nat
      /\ sem[0] = 0 /\ sem[3] = 0 /\ sem \in [Sems -> Nat]
  BY <1>1, LeftIsNat DEF IInv, Counted, TypeOK
<1>4. sem[2] > 0 /\ sem' = [n \in Sems |-> IF n = 2 THEN sem[2] - 1 ELSE sem[n]]
  BY <1>3, StopWriteOps DEF StopWrite
<1>5. ActiveReaders' = ActiveReaders
  BY <1>2 DEF ActiveReaders
<1>6. ActiveWriters' = ActiveWriters \ {c} /\ c \in ActiveWriters
  BY <1>1 DEF IInv, TypeOK, ActiveWriters
<1>7. Cardinality(ActiveWriters') = Cardinality(ActiveWriters) - 1
  BY <1>6, ActiveFinite, FS_RemoveElement
<1>8. Counted'
  <2>1. sem'[2] = sem[2] - 1 /\ sem'[1] = sem[1] /\ sem'[0] = sem[0] /\ sem'[3] = sem[3]
    BY <1>4 DEF Sems
  <2>2. sem'[2] = Cardinality(ActiveWriters') + left[2]
    BY <1>3, <1>7, <2>1, ActiveFinite
  <2> QED
    BY <1>2, <1>3, <1>5, <2>1, <2>2 DEF Counted
<1>9. Apart' /\ CopyIsCurrent'
  <2>1. sem[1] = 0
    BY <1>1, <1>4 DEF IInv, Apart
  <2>2. sem'[1] = 0
    BY <1>4, <2>1 DEF Sems
  <2> QED
    BY <1>1, <1>2, <1>5, <2>2 DEF IInv, Apart, CopyIsCurrent
<1>10. TypeOK'
  <2>1. sem' \in [Sems -> Nat]
    BY <1>3, <1>4 DEF Sems
  <2>2. wpc' \in [Clients -> WriterPC]
    BY <1>1 DEF IInv, TypeOK, WriterPC
  <2> QED
    BY <1>2, <2>1, <2>2 DEF IInv, TypeOK
<1>11. Gone'
  BY <1>1, <1>2 DEF Gone, HandlersRun
<1>12. InRange' /\ Rounds'
  BY <1>1, <1>2 DEF IInv, TypeOK, InRange, Rounds, Round
<1> QED
  BY <1>8, <1>9, <1>10, <1>11, <1>12 DEF IInv

\* Leaving without stop_write preserves the invariant: the writer goes, its unit of
\* ACTIVE_WRITER is one more left behind.
LEMMA LeavingIInv ==
    ASSUME IInv, NEW c \in Clients, OutOfRange(c) \/ SendSymbolFails(c)
    PROVE  IInv'
<1>1. wpc[c] \in {"test", "send"} /\ wpc' = [wpc EXCEPT ![c] = "none"]
  BY DEF OutOfRange, SendSymbolFails, WriterGoes
<1>2. UNCHANGED <<threaded, shm_buf, sem, server, rpc, copied, copy, widx, idx>>
  BY DEF OutOfRange, SendSymbolFails, readers, client
<1>3. ActiveReaders' = ActiveReaders /\ HandlersRun' = HandlersRun
  BY <1>2 DEF ActiveReaders, HandlersRun
<1>4. ActiveWriters' = ActiveWriters \ {c} /\ c \in ActiveWriters
  BY <1>1 DEF IInv, TypeOK, ActiveWriters
<1>5. Cardinality(ActiveWriters') = Cardinality(ActiveWriters) - 1
  BY <1>4, ActiveFinite, FS_RemoveElement
<1>6. left' = [left EXCEPT ![2] = @ + 1] /\ left \in [{1, 2} -> Nat]
  BY DEF OutOfRange, SendSymbolFails, LeavesUnit, IInv, TypeOK, SEM_ACTIVE_READERS,
         SEM_ACTIVE_WRITER
<1>7. Counted' /\ Apart'
  <2>1. left'[2] = left[2] + 1 /\ left'[1] = left[1] /\ left[2] \in Nat
    BY <1>6
  <2>2. Cardinality(ActiveWriters') + left'[2] = Cardinality(ActiveWriters) + left[2]
    BY <1>5, <2>1, ActiveFinite
  <2> QED
    BY <1>2, <1>3, <2>1, <2>2 DEF IInv, Counted, Apart
<1>8. CopyIsCurrent'
  BY <1>2, <1>3 DEF IInv, CopyIsCurrent
<1>9. cpc' = cpc \/ cpc' = IF cpc[c] = "writing" THEN [cpc EXCEPT ![c] = "loop"] ELSE cpc
  BY DEF OutOfRange, SendSymbolFails, Answer, client
<1>10. TypeOK'
  <2>1. cpc' \in [Clients -> ClientPC] /\ wpc' \in [Clients -> WriterPC]
    BY <1>1, <1>9 DEF IInv, TypeOK, WriterPC, ClientPC
  <2>2. got' \in [Clients -> SUBSET Cells]
    BY DEF OutOfRange, SendSymbolFails, Answer, client, IInv, TypeOK
  <2>3. left' \in [{1, 2} -> Nat]
    BY <1>6
  <2> QED
    BY <1>2, <2>1, <2>2, <2>3 DEF IInv, TypeOK, SEM_ACTIVE_READERS, SEM_ACTIVE_WRITER
<1>11. Gone' /\ InRange'
  BY <1>1, <1>2 DEF IInv, TypeOK, Gone, InRange
<1>12. Rounds'
  <2> SUFFICES ASSUME server = "up", NEW d \in Clients PROVE Round(d)'
    BY <1>2 DEF Rounds
  <2>1. Round(d) /\ Round(c)
    BY DEF IInv, Rounds
  <2>2. ActiveReaders = {}
    BY <1>4, NeverTogether DEF HandlersRun
  <2>3. rpc[c] \notin {"copy", "stop"}
    BY <2>2 DEF ActiveReaders
  <2> QED
    BY <1>1, <1>2, <1>9, <2>1, <2>3 DEF Round, IInv, TypeOK
<1> QED
  BY <1>7, <1>8, <1>10, <1>11, <1>12 DEF IInv

\* The steps of a writer that is inside preserve the invariant: there is no
\* reader inside whose copy could fall behind.
LEMMA InsideIInv ==
    ASSUME IInv, NEW c \in Clients,
           Occupied(c) \/ FindFree(c) \/ Mark(c) \/ SendSymbol(c)
    PROVE  IInv'
<1>1. PICK from, to \in WriterPC :
        /\ wpc[c] = from /\ wpc' = [wpc EXCEPT ![c] = to]
        /\ <<from, to>> \in {<<"test", "stop">>, <<"test", "mark">>,
                            <<"mark", "send">>, <<"send", "stop">>}
        /\ to # "stop" => UNCHANGED <<cpc, got>>
        /\ to = "stop" => cpc' = IF cpc[c] = "writing" THEN [cpc EXCEPT ![c] = "loop"]
                                                       ELSE cpc
        /\ to # "stop" => widx[c] \in Cells
  BY DEF Occupied, FindFree, Mark, SendSymbol, WriterGoes, Answer, client, WriterPC, IInv,
         InRange
<1>2. UNCHANGED <<threaded, sem, server, rpc, copied, copy, widx, idx, left>>
  BY DEF Occupied, FindFree, Mark, SendSymbol, readers, client
<1>3. ActiveReaders' = ActiveReaders /\ HandlersRun' = HandlersRun
  BY <1>2 DEF ActiveReaders, HandlersRun
<1>4. ActiveWriters' = ActiveWriters /\ c \in ActiveWriters
  BY <1>1 DEF IInv, TypeOK, ActiveWriters
<1>5. Counted' /\ Apart'
  BY <1>2, <1>3, <1>4, StaysPut
<1>6. HandlersRun => ActiveReaders = {}
  BY <1>4, NeverTogether
<1>7. CopyIsCurrent'
  BY <1>3, <1>6 DEF CopyIsCurrent
<1>8. cpc' \in [Clients -> ClientPC] /\ wpc' \in [Clients -> WriterPC]
  BY <1>1 DEF IInv, TypeOK, WriterPC, ClientPC
<1>9. got' \in [Clients -> SUBSET Cells]
  <2>1. CASE Occupied(c)
    BY <2>1 DEF Occupied, Answer, IInv, TypeOK
  <2>2. CASE FindFree(c) \/ Mark(c)
    BY <2>2 DEF FindFree, Mark, client, IInv, TypeOK
  <2>3. CASE SendSymbol(c)
    <3>1. widx[c] \in Cells
      BY <2>3 DEF SendSymbol, WriterGoes, IInv, InRange
    <3> QED
      BY <2>3, <3>1 DEF SendSymbol, Answer, IInv, TypeOK
  <2> QED
    BY <2>1, <2>2, <2>3
<1>10. shm_buf' \in [Cells -> BOOLEAN]
  BY DEF Occupied, FindFree, Mark, SendSymbol, IInv, TypeOK
<1>11. TypeOK'
  BY <1>2, <1>8, <1>9, <1>10 DEF IInv, TypeOK
<1>12. Gone'
  BY <1>1, <1>2 DEF IInv, TypeOK, Gone
<1>13. InRange'
  BY <1>1, <1>2 DEF IInv, TypeOK, InRange
<1>14. Rounds'
  <2> SUFFICES ASSUME server = "up", NEW d \in Clients PROVE Round(d)'
    BY <1>2 DEF Rounds
  <2>1. Round(d) /\ Round(c)
    BY DEF IInv, Rounds
  <2>2. rpc[c] \notin {"copy", "stop"}
    BY <1>6 DEF HandlersRun, ActiveReaders
  <2> QED
    BY <1>1, <1>2, <1>8, <2>1, <2>2 DEF Round, IInv, TypeOK
<1> QED
  BY <1>5, <1>7, <1>11, <1>12, <1>13, <1>14 DEF IInv

\* A semop of the writer that fails preserves the invariant.
LEMMA WriterFailsIInv ==
    ASSUME IInv, NEW c \in Clients, WriterFails(c)
    PROVE  IInv'
<1>1. /\ wpc' = [wpc EXCEPT ![c] = "none"]
      /\ UNCHANGED <<threaded, shm_buf, sem, server, rpc, copied, copy, widx, cpc, idx, got, left>>
      /\ server # "up" /\ (HandlersRun => wpc[c] = "start")
  BY DEF WriterFails, SemopFails, readers, client, HandlersRun
<1>2. ActiveReaders' = ActiveReaders /\ HandlersRun' = HandlersRun
  BY <1>1 DEF ActiveReaders, HandlersRun
<1>3. HandlersRun => ActiveWriters' = ActiveWriters
  BY <1>1 DEF IInv, TypeOK, ActiveWriters
<1>4. Counted' /\ Apart' /\ CopyIsCurrent'
  BY <1>1, <1>2, <1>3 DEF IInv, Counted, Apart, CopyIsCurrent
<1>5. TypeOK'
  BY <1>1 DEF IInv, TypeOK, WriterPC
<1>6. Gone' /\ InRange' /\ Rounds'
  BY <1>1 DEF IInv, TypeOK, Gone, InRange, Rounds
<1> QED
  BY <1>4, <1>5, <1>6 DEF IInv

-----------------------------------------------------------------------------
(* The clients and main. *)

\* A client's step preserves the invariant: it never touches the array or the
\* semaphores, and a new handler starts outside.
LEMMA ClientIInv ==
    ASSUME IInv, NEW c \in Clients, ClientStep(c)
    PROVE  IInv'
<1>1. UNCHANGED <<threaded, shm_buf, sem, server, copied, copy, got, left>>
  BY DEF ClientStep, ConnectRead, TakeCopy, ConnectWrite, ClientExits, ReadEof, WriteEof,
         readers, writers
<1>2. HandlersRun' = HandlersRun
  BY <1>1 DEF HandlersRun
<1>3. Own(c) \in Clients \cup {Shared}
  BY DEF Own
<1>4. CASE ConnectRead(c)
  <2>1. /\ server = "up" /\ cpc[c] = "loop"
        /\ cpc' = [cpc EXCEPT ![c] = "reading"] /\ rpc' = [rpc EXCEPT ![c] = "start"]
        /\ UNCHANGED <<wpc, widx, idx>>
    BY <1>4 DEF ConnectRead, writers
  <2>2. Round(c)
    BY <2>1 DEF IInv, Rounds
  <2>3. ActiveReaders' = ActiveReaders /\ ActiveWriters' = ActiveWriters
    BY <2>1, <2>2 DEF IInv, TypeOK, Round, ActiveReaders, ActiveWriters
  <2>4. Counted' /\ Apart' /\ CopyIsCurrent'
    BY <1>1, <1>2, <2>3, StaysPut DEF IInv, CopyIsCurrent
  <2>5. cpc' \in [Clients -> ClientPC] /\ rpc' \in [Clients -> ReaderPC]
    BY <2>1 DEF IInv, TypeOK, ClientPC, ReaderPC
  <2>6. TypeOK'
    BY <1>1, <2>1, <2>5 DEF IInv, TypeOK
  <2>7. Gone' /\ InRange'
    BY <1>1, <2>1 DEF IInv, Gone, InRange
  <2>8. Rounds'
    BY <1>1, <2>1 DEF IInv, TypeOK, Rounds, Round
  <2> QED
    BY <2>4, <2>6, <2>7, <2>8 DEF IInv
<1>5. CASE ConnectWrite(c)
  <2>1. /\ server = "up" /\ cpc[c] = "chosen"
        /\ cpc' = [cpc EXCEPT ![c] = "writing"] /\ wpc' = [wpc EXCEPT ![c] = "start"]
        /\ widx' = [widx EXCEPT ![c] = idx[Own(c)]] /\ UNCHANGED <<rpc, idx>>
    BY <1>5 DEF ConnectWrite, readers
  <2>2. Round(c)
    BY <2>1 DEF IInv, Rounds
  <2>3. ActiveReaders' = ActiveReaders /\ ActiveWriters' = ActiveWriters
    BY <2>1, <2>2 DEF IInv, TypeOK, Round, ActiveReaders, ActiveWriters
  <2>4. Counted' /\ Apart' /\ CopyIsCurrent'
    BY <1>1, <1>2, <2>3, StaysPut DEF IInv, CopyIsCurrent
  <2>5. cpc' \in [Clients -> ClientPC] /\ wpc' \in [Clients -> WriterPC]
    BY <2>1 DEF IInv, TypeOK, ClientPC, WriterPC
  <2>6. widx' \in [Clients -> -1 .. Size - 1]
    BY <1>3, <2>1 DEF IInv, TypeOK
  <2>7. TypeOK'
    BY <1>1, <2>1, <2>5, <2>6 DEF IInv, TypeOK
  <2>8. Gone' /\ InRange'
    BY <1>1, <2>1 DEF IInv, TypeOK, Gone, InRange
  <2>9. Rounds'
    BY <1>1, <2>1 DEF IInv, TypeOK, Rounds, Round
  <2> QED
    BY <2>4, <2>7, <2>8, <2>9 DEF IInv
<1>6. CASE TakeCopy(c) \/ ClientExits(c) \/ ReadEof(c) \/ WriteEof(c)
  <2>1. UNCHANGED <<rpc, wpc, widx>>
    BY <1>6 DEF TakeCopy, ClientExits, ReadEof, WriteEof, readers, writers
  <2>2. ActiveReaders' = ActiveReaders /\ ActiveWriters' = ActiveWriters
    BY <2>1 DEF ActiveReaders, ActiveWriters
  <2>3. Counted' /\ Apart' /\ CopyIsCurrent'
    BY <1>1, <1>2, <2>2, StaysPut DEF IInv, CopyIsCurrent
  <2>4. cpc' \in [Clients -> ClientPC]
    BY <1>6 DEF TakeCopy, ClientExits, ReadEof, WriteEof, IInv, TypeOK, ClientPC
  <2>5. idx' \in [Clients \cup {Shared} -> -1 .. Size - 1]
    <3>1. /\ find_first_unoccupied_index(c) \in -1 .. Size - 1
          /\ -1 \in -1 .. Size - 1
          /\ idx \in [Clients \cup {Shared} -> -1 .. Size - 1]
      BY FoundIsIndex, CellFacts DEF IInv, TypeOK
    <3>2. \/ UNCHANGED idx
          \/ idx' = [idx EXCEPT ![Own(c)] = find_first_unoccupied_index(c)]
          \/ idx' = [idx EXCEPT ![Own(c)] = -1]
      BY <1>6 DEF TakeCopy, ClientExits, ReadEof, WriteEof
    <3> QED
      BY <1>3, <3>1, <3>2
  <2>6. TypeOK'
    BY <1>1, <2>1, <2>4, <2>5 DEF IInv, TypeOK
  <2>7. Gone' /\ InRange'
    BY <1>1, <2>1 DEF IInv, Gone, InRange
  <2>8. Rounds'
    <3> SUFFICES ASSUME server = "up", NEW d \in Clients PROVE Round(d)'
      BY <1>1 DEF Rounds
    <3>1. Round(d) /\ Round(c) /\ cpc \in [Clients -> ClientPC]
      BY DEF IInv, Rounds, TypeOK
    <3>2. PICK from, to \in ClientPC :
            /\ cpc[c] = from /\ cpc' = [cpc EXCEPT ![c] = to]
            /\ \/ from = "received" /\ to = "chosen"
               \/ to = "exited"
               \/ from = "reading" /\ rpc[c] = "none"
               \/ from = "writing" /\ wpc[c] = "none"
      BY <1>6 DEF TakeCopy, ClientExits, ReadEof, WriteEof, ClientPC
    <3> QED
      BY <2>1, <3>1, <3>2 DEF Round
  <2> QED
    BY <2>3, <2>6, <2>7, <2>8 DEF IInv
<1> QED
  BY <1>4, <1>5, <1>6 DEF ClientStep

\* The end of the client process with its threads preserves the invariant.
LEMMA ThreadsExitIInv ==
    ASSUME IInv, ClientThreadsExit
    PROVE  IInv'
<1>1. /\ UNCHANGED <<threaded, shm_buf, sem, server, rpc, copied, copy, wpc, widx, idx, got, left>>
      /\ cpc' = [c \in Clients |-> "exited"]
  BY DEF ClientThreadsExit, readers, writers
<1>2. ActiveReaders' = ActiveReaders /\ ActiveWriters' = ActiveWriters
      /\ HandlersRun' = HandlersRun
  BY <1>1 DEF ActiveReaders, ActiveWriters, HandlersRun
<1>3. Counted' /\ Apart' /\ CopyIsCurrent'
  BY <1>1, <1>2, StaysPut DEF IInv, CopyIsCurrent
<1>4. TypeOK'
  BY <1>1 DEF IInv, TypeOK, ClientPC
<1>5. Gone' /\ InRange' /\ Rounds'
  BY <1>1 DEF IInv, Gone, InRange, Rounds, Round
<1> QED
  BY <1>3, <1>4, <1>5 DEF IInv

\* A step of main preserves the invariant: the semaphores are only given up with
\* the handlers, or with the set itself.
LEMMA ServerIInv ==
    ASSUME IInv, ServerStep
    PROVE  IInv'
<1>1. UNCHANGED <<threaded, shm_buf, sem, copied, copy, widx, cpc, idx, got, left>>
      /\ server' # "up"
  BY DEF ServerStep, SigintServer, Detach, Remove, SegFault, SigPipe, ForkFails, readers,
         writers, client
<1>2. CASE SigintServer \/ Detach \/ ForkFails
  <2>1. /\ UNCHANGED <<rpc, wpc>> /\ HandlersRun' /\ HandlersRun
        /\ server' \in {"closing", "detached", "failed"}
    BY <1>2 DEF SigintServer, Detach, ForkFails, readers, writers, HandlersRun
  <2>2. ActiveReaders' = ActiveReaders /\ ActiveWriters' = ActiveWriters
    BY <2>1 DEF ActiveReaders, ActiveWriters
  <2>3. Counted' /\ Apart' /\ CopyIsCurrent'
    BY <1>1, <2>1, <2>2, StaysPut DEF IInv, CopyIsCurrent
  <2>4. TypeOK'
    BY <1>1, <2>1 DEF IInv, TypeOK
  <2>5. Gone' /\ InRange' /\ Rounds'
    BY <1>1, <2>1 DEF IInv, Gone, InRange, Rounds
  <2> QED
    BY <2>3, <2>4, <2>5 DEF IInv
<1>3. CASE Remove \/ SegFault \/ SigPipe
  <2>1. /\ AllHandlersGone \/ UNCHANGED <<rpc, wpc>>
        /\ \/ server' = "stopped"
           \/ server' = "crashed" /\ AllHandlersGone
    <3>1. CASE Remove
      BY <3>1, Zenon DEF Remove
    <3>2. CASE SegFault \/ SigPipe
      BY <3>2 DEF SegFault, SigPipe
    <3> QED
      BY <1>3, <3>1, <3>2
  <2>2. ~HandlersRun'
    BY <2>1 DEF HandlersRun
  <2>3. Counted' /\ Apart' /\ CopyIsCurrent'
    BY <2>2 DEF Counted, Apart, CopyIsCurrent
  <2>4. TypeOK'
    BY <1>1, <2>1 DEF IInv, TypeOK, AllHandlersGone, ReaderPC, WriterPC
  <2>5. Gone' /\ InRange' /\ Rounds'
    BY <1>1, <2>1 DEF IInv, AllHandlersGone, Gone, InRange, Rounds
  <2> QED
    BY <2>3, <2>4, <2>5 DEF IInv
<1> QED
  BY <1>2, <1>3 DEF ServerStep

-----------------------------------------------------------------------------
\* Every step preserves the invariant, and so it holds in every reachable state.
LEMMA SpecIInv == Spec => []IInv
<1>1. ASSUME IInv, [Next]_vars PROVE IInv'
  <2>1. ASSUME NEW c \in Clients, ReaderStep(c) PROVE IInv'
    BY <1>1, <2>1, StartReadIInv, CopyCellIInv, SendCopyIInv, SendCopyFailsIInv,
       StopReadIInv, ReaderFailsIInv DEF ReaderStep
  <2>2. ASSUME NEW c \in Clients, WriterStep(c) PROVE IInv'
    BY <1>1, <2>2, StartWriteIInv, LeavingIInv, InsideIInv, StopWriteIInv,
       WriterFailsIInv DEF WriterStep
  <2>3. CASE UNCHANGED vars
    <3>1. ActiveReaders' = ActiveReaders /\ ActiveWriters' = ActiveWriters
      BY <2>3 DEF vars, ActiveReaders, ActiveWriters
    <3>2. Counted' /\ Apart' /\ CopyIsCurrent'
      BY <1>1, <2>3, <3>1
      DEF vars, IInv, Counted, Apart, CopyIsCurrent, HandlersRun
    <3>3. TypeOK' /\ Gone' /\ InRange' /\ Rounds'
      BY <1>1, <2>3 DEF vars, IInv, TypeOK, Gone, InRange, Rounds, Round
    <3> QED
      BY <3>2, <3>3 DEF IInv
  <2>4. ASSUME NEW c \in Clients, ClientStep(c) PROVE IInv'
    BY <1>1, <2>4, ClientIInv
  <2>5. CASE ServerStep
    BY <1>1, <2>5, ServerIInv
  <2>6. CASE ClientThreadsExit
    BY <1>1, <2>6, ThreadsExitIInv
  <2> QED
    BY <1>1, <2>1, <2>2, <2>3, <2>4, <2>5, <2>6 DEF Next
<1> QED
  BY <1>1, InitIInv, PTL DEF Spec

\* The semaphores count the handlers inside and those that ended inside, after an
\* index out of range or a failing send, as long as the set exists, whatever
\* SIGINT, EIDRM or a failing fork has ended; and units of readers and of writers
\* are never up together: what the four arrays are for.
THEOREM SemaphoresCount == Spec => []SemAccounting
<1>1. IInv => SemAccounting
  BY DEF IInv, Counted, Apart, SemAccounting, SEM_ACTIVE_READERS, SEM_ACTIVE_WRITER,
         SEM_WAITING_READERS, SEM_WAITING_WRITERS
<1> QED
  BY <1>1, SpecIInv, PTL

\* What a reading handler copies and sends is the array as it is: no writer
\* marks a symbol between two cells of the copy.
THEOREM CopiesAreCurrent == Spec => []CopyIsCurrent
<1>1. IInv => CopyIsCurrent
  BY DEF IInv
<1> QED
  BY <1>1, SpecIInv, PTL

\* A client that connects again finds its previous handler of that kind ended, so
\* one handler of each kind for a client is enough in the model.
THEOREM HandlersHaveEnded == Spec => []HandlersEnd
<1>1. IInv => HandlersEnd
  BY DEF IInv, Rounds, Round, HandlersEnd
<1> QED
  BY <1>1, SpecIInv, PTL

-----------------------------------------------------------------------------
(***************************************************************************)
(* What a handler costs that ends inside: after an index out of range, or  *)
(* after a send that failed.                                               *)
(***************************************************************************)

ReaderStarts(c) == rpc[c] = "start" /\ rpc'[c] = "copy"
WriterStarts(c) == wpc[c] = "start" /\ wpc'[c] = "test"

\* There are handlers, and all of them sleep in their first semop.
AllWait ==
    /\ HandlersRun
    /\ \A c \in Clients :
          /\ rpc[c] = "none" \/ (rpc[c] = "start" /\ ~Passes(sem, start_read))
          /\ wpc[c] = "none" \/ (wpc[c] = "start" /\ ~Passes(sem, start_write))
    /\ \E c \in Clients : rpc[c] # "none" \/ wpc[c] # "none"

\* Readers sleep alone, and a writer has left its unit behind, or the other way
\* round.
OnlyTheLeakStops ==
    AllWait => \/ left[SEM_ACTIVE_WRITER] > 0 /\ \A c \in Clients : wpc[c] = "none"
               \/ left[SEM_ACTIVE_READERS] > 0 /\ \A c \in Clients : rpc[c] = "none"

\* The four semaphores of task-04 and task-05 let readers and writers block each
\* other in one way only, for any number of clients: all handlers sleep only if
\* a handler has ended inside, after an index out of range or a failing send, and
\* those that sleep are all of the other kind.
THEOREM LeakIsTheOnlyStop == Spec => []OnlyTheLeakStops
<1>1. IInv => OnlyTheLeakStops
  <2> SUFFICES ASSUME IInv, AllWait
               PROVE  \/ left[2] > 0 /\ \A c \in Clients : wpc[c] = "none"
                      \/ left[1] > 0 /\ \A c \in Clients : rpc[c] = "none"
    BY DEF OnlyTheLeakStops, SEM_ACTIVE_READERS, SEM_ACTIVE_WRITER
  <2>1. ActiveReaders = {} /\ ActiveWriters = {}
    BY DEF AllWait, ActiveReaders, ActiveWriters
  <2>2. Cardinality(ActiveReaders) = 0 /\ Cardinality(ActiveWriters) = 0
    BY <2>1, FS_EmptySet
  <2>3. /\ sem \in [Sems -> Nat] /\ sem[0] = 0 /\ sem[3] = 0
        /\ sem[1] = left[1] /\ sem[2] = left[2] /\ left[1] \in Nat /\ left[2] \in Nat
        /\ left[1] = 0 \/ left[2] = 0
    BY <2>2, LeftIsNat DEF AllWait, IInv, Counted, Apart, TypeOK
  <2>4. ASSUME NEW c \in Clients, rpc[c] # "none" PROVE left[2] > 0
    BY <2>3, <2>4, StartReadOps DEF AllWait
  <2>5. ASSUME NEW c \in Clients, wpc[c] # "none" PROVE left[1] > 0
    BY <2>3, <2>5, StartWriteOps DEF AllWait
  <2> QED
    BY <2>3, <2>4, <2>5 DEF AllWait
<1> QED
  BY <1>1, SpecIInv, PTL

\* A handler comes in by its first semop only, which waits for the units of the
\* other kind.
LEMMA ComesIn ==
    ASSUME IInv, Next, HandlersRun, NEW c \in Clients
    PROVE  /\ ReaderStarts(c) => left[2] = 0
           /\ WriterStarts(c) => left[1] = 0
<1>1. /\ sem \in [Sems -> Nat] /\ sem[0] = 0 /\ sem[3] = 0
      /\ sem[1] = Cardinality(ActiveReaders) + left[1] /\ left[1] \in Nat
      /\ sem[2] = Cardinality(ActiveWriters) + left[2] /\ left[2] \in Nat
      /\ rpc \in [Clients -> ReaderPC] /\ wpc \in [Clients -> WriterPC]
  BY LeftIsNat DEF IInv, Counted, TypeOK
<1>2. ASSUME NEW d \in Clients, StartRead(d) PROVE left[2] = 0
  <2>1. sem[2] = 0
    BY <1>1, <1>2, StartReadOps DEF StartRead
  <2> QED
    BY <1>1, <2>1, ActiveFinite
<1>3. ASSUME NEW d \in Clients, StartWrite(d) PROVE left[1] = 0
  <2>1. sem[1] = 0
    BY <1>1, <1>3, StartWriteOps DEF StartWrite
  <2> QED
    BY <1>1, <2>1, ActiveFinite
<1>4. ASSUME NEW d \in Clients, ReaderStep(d), ~StartRead(d)
      PROVE  ~ReaderStarts(c) /\ ~WriterStarts(c)
  BY <1>1, <1>4 DEF ReaderStep, CopyCell, SendCopy, SendCopyFails, StopRead, ReaderFails,
                    ReaderGoes, writers, ReaderStarts, WriterStarts
<1>5. ASSUME NEW d \in Clients, WriterStep(d), ~StartWrite(d)
      PROVE  ~ReaderStarts(c) /\ ~WriterStarts(c)
  BY <1>1, <1>5 DEF WriterStep, OutOfRange, Occupied, FindFree, Mark, SendSymbol,
                    SendSymbolFails, StopWrite, WriterFails, WriterGoes, readers,
                    ReaderStarts, WriterStarts
<1>6. ASSUME NEW d \in Clients, ClientStep(d)
      PROVE  ~ReaderStarts(c) /\ ~WriterStarts(c)
  BY <1>1, <1>6 DEF ClientStep, ConnectRead, TakeCopy, ConnectWrite, ClientExits, ReadEof,
                    WriteEof, readers, writers, ReaderStarts, WriterStarts
<1>7. ASSUME ServerStep \/ ClientThreadsExit
      PROVE  ~ReaderStarts(c) /\ ~WriterStarts(c)
  BY <1>7 DEF ServerStep, SigintServer, Detach, Remove, SegFault, SigPipe, ForkFails,
              AllHandlersGone, ClientThreadsExit, readers, writers, ReaderStarts,
              WriterStarts
<1>8. CASE \E d \in Clients : StartRead(d)
  <2>1. ~WriterStarts(c)
    BY <1>8 DEF StartRead, writers, WriterStarts
  <2> QED
    BY <1>2, <1>8, <2>1
<1>9. CASE \E d \in Clients : StartWrite(d)
  <2>1. ~ReaderStarts(c)
    BY <1>9 DEF StartWrite, readers, ReaderStarts
  <2> QED
    BY <1>3, <1>9, <2>1
<1> QED
  BY <1>4, <1>5, <1>6, <1>7, <1>8, <1>9 DEF Next

\* Units are left behind for good: nothing takes them back.
LEMMA LeftGrows ==
    ASSUME IInv, [Next]_vars
    PROVE  left'[1] >= left[1] /\ left'[2] >= left[2]
<1>1. left \in [{1, 2} -> Nat]
  BY DEF IInv, TypeOK, SEM_ACTIVE_READERS, SEM_ACTIVE_WRITER
<1>2. \/ UNCHANGED left
      \/ left' = [left EXCEPT ![1] = @ + 1]
      \/ left' = [left EXCEPT ![2] = @ + 1]
  <2>1. ASSUME NEW c \in Clients, ReaderStep(c)
        PROVE  UNCHANGED left \/ left' = [left EXCEPT ![1] = @ + 1]
    BY <2>1 DEF ReaderStep, StartRead, CopyCell, SendCopy, SendCopyFails, StopRead,
                ReaderFails, LeavesUnit, SEM_ACTIVE_READERS
  <2>2. ASSUME NEW c \in Clients, WriterStep(c)
        PROVE  UNCHANGED left \/ left' = [left EXCEPT ![2] = @ + 1]
    BY <2>2 DEF WriterStep, StartWrite, OutOfRange, Occupied, FindFree, Mark, SendSymbol,
                SendSymbolFails, StopWrite, WriterFails, LeavesUnit, SEM_ACTIVE_WRITER
  <2>3. ASSUME NEW c \in Clients, ClientStep(c) PROVE UNCHANGED left
    BY <2>3 DEF ClientStep, ConnectRead, TakeCopy, ConnectWrite, ClientExits, ReadEof,
                WriteEof
  <2>4. CASE ServerStep \/ ClientThreadsExit
    BY <2>4 DEF ServerStep, SigintServer, Detach, Remove, SegFault, SigPipe, ForkFails,
                ClientThreadsExit
  <2>5. CASE UNCHANGED vars
    BY <2>5 DEF vars
  <2> QED
    BY <2>1, <2>2, <2>3, <2>4, <2>5 DEF Next
<1> QED
  BY <1>1, <1>2

\* From the first writer of task-04 or task-05 that ends inside on, no reading
\* handler starts again as long as the set of semaphores exists, and from the
\* first such reader on no writing handler does.  As soon as all symbols are
\* taken clients send an index out of range, and the first of the two happens.
THEOREM LeakLocksOthersOut ==
    Spec => [][/\ left'[1] >= left[1] /\ left'[2] >= left[2]
               /\ HandlersRun => \A c \in Clients :
                     /\ left[2] > 0 => ~ReaderStarts(c)
                     /\ left[1] > 0 => ~WriterStarts(c)]_vars
<1>1. ASSUME IInv, Next, HandlersRun, NEW c \in Clients
      PROVE  /\ left[2] > 0 => ~ReaderStarts(c)
             /\ left[1] > 0 => ~WriterStarts(c)
  BY <1>1, ComesIn
<1>2. IInv /\ [Next]_vars
        => [/\ left'[1] >= left[1] /\ left'[2] >= left[2]
            /\ HandlersRun => \A c \in Clients :
                  /\ left[2] > 0 => ~ReaderStarts(c)
                  /\ left[1] > 0 => ~WriterStarts(c)]_vars
  BY <1>1, LeftGrows
<1> QED
  BY <1>2, SpecIInv, PTL DEF Spec
=============================================================================

------------------------ MODULE ReadersWritersProofs ------------------------
(***************************************************************************)
(* Proofs about the two readers-and-writers programs, for any finite sets  *)
(* of readers and writers: ReadersWriters (System V semaphores) and, at    *)
(* the end, EventMonitor (a Windows monitor).                              *)
(***************************************************************************)
EXTENDS MCEventMonitor, FiniteSetTheorems, TLAPS

-----------------------------------------------------------------------------
(* What the four operation arrays need and do. *)

\* reader_lock waits for BIN_WRITER and WAITING_WRITERS to be 0, and its net
\* effect is one more active reader: the waiting counter is up and down again.
LEMMA ReaderLock ==
    ASSUME NEW s \in [Sems -> Nat], s[0] = 0
    PROVE  /\ Passes(s, reader_lock) <=> s[4] = 0 /\ s[3] = 0
           /\ After(s, reader_lock) = [n \in Sems |-> IF n = 1 THEN s[1] + 1 ELSE s[n]]
<1> DEFINE ops == reader_lock
<1>1. Len(ops) = 5
  BY DEF reader_lock
<1>2. /\ ops[1].num = 0 /\ ops[2].num = 4 /\ ops[3].num = 3 /\ ops[4].num = 1
      /\ ops[5].num = 0
      /\ ops[1].op = 1 /\ ops[2].op = 0 /\ ops[3].op = 0 /\ ops[4].op = 1
      /\ ops[5].op = -1
  BY DEF reader_lock, SemOp, WAITING_READERS, BIN_WRITER, WAITING_WRITERS,
         ACTIVE_READERS
<1> HIDE DEF ops
<1>3. \A n \in Sems : s[n] \in Nat
  OBVIOUS
<1>4. /\ Delta(ops, 0, 0) = 0 /\ Delta(ops, 1, 4) = 0 /\ Delta(ops, 2, 3) = 0
      /\ Delta(ops, 3, 1) = 0 /\ Delta(ops, 4, 0) = 1
  BY <1>1, <1>2 DEF Delta, Share
<1>5. \A n \in Sems : Delta(ops, 5, n) = IF n = 1 THEN 1 ELSE 0
  BY <1>1, <1>2 DEF Delta, Share, Sems
<1>6. /\ Met(s, ops, 1) = s[0] /\ Met(s, ops, 2) = s[4] /\ Met(s, ops, 3) = s[3]
      /\ Met(s, ops, 4) = s[1] /\ Met(s, ops, 5) = s[0] + 1
  BY <1>2, <1>3, <1>4 DEF Met, Sems
<1>7. Passes(s, ops) <=>
        /\ Met(s, ops, 1) + 1 >= 0 /\ Met(s, ops, 2) = 0 /\ Met(s, ops, 3) = 0
        /\ Met(s, ops, 4) + 1 >= 0 /\ Met(s, ops, 5) + (-1) >= 0
  BY <1>1, <1>2, <1>3, <1>6 DEF Passes, Sems
<1>8. Passes(s, ops) <=> s[4] = 0 /\ s[3] = 0
  BY <1>3, <1>6, <1>7 DEF Sems
<1>9. \A n \in Sems : s[n] + Delta(ops, 5, n) = IF n = 1 THEN s[1] + 1 ELSE s[n]
  BY <1>3, <1>5 DEF Sems
<1>10. After(s, ops) = [n \in Sems |-> IF n = 1 THEN s[1] + 1 ELSE s[n]]
  BY <1>9 DEF After, MaxOps
<1> QED
  BY <1>8, <1>10 DEF ops

\* reader_release waits for ACTIVE_WRITER to be 0 and takes one active reader off.
LEMMA ReaderRelease ==
    ASSUME NEW s \in [Sems -> Nat]
    PROVE  /\ Passes(s, reader_release) <=> s[2] = 0 /\ s[1] > 0
           /\ After(s, reader_release) = [n \in Sems |-> IF n = 1 THEN s[1] - 1 ELSE s[n]]
<1> DEFINE ops == reader_release
<1>1. Len(ops) = 2
  BY DEF reader_release
<1>2. ops[1].num = 2 /\ ops[2].num = 1 /\ ops[1].op = 0 /\ ops[2].op = -1
  BY DEF reader_release, SemOp, ACTIVE_WRITER, ACTIVE_READERS
<1> HIDE DEF ops
<1>3. \A n \in Sems : s[n] \in Nat
  OBVIOUS
<1>4. Delta(ops, 0, 2) = 0 /\ Delta(ops, 1, 1) = 0
  BY <1>1, <1>2 DEF Delta, Share
<1>5. \A n \in Sems : Delta(ops, 5, n) = IF n = 1 THEN -1 ELSE 0
  BY <1>1, <1>2 DEF Delta, Share, Sems
<1>6. Met(s, ops, 1) = s[2] /\ Met(s, ops, 2) = s[1]
  BY <1>2, <1>3, <1>4 DEF Met, Sems
<1>7. Passes(s, ops) <=> Met(s, ops, 1) = 0 /\ Met(s, ops, 2) + (-1) >= 0
  BY <1>1, <1>2, <1>3, <1>6 DEF Passes, Sems
<1>8. Passes(s, ops) <=> s[2] = 0 /\ s[1] > 0
  BY <1>3, <1>6, <1>7 DEF Sems
<1>9. \A n \in Sems : s[n] + Delta(ops, 5, n) = IF n = 1 THEN s[1] - 1 ELSE s[n]
  BY <1>3, <1>5 DEF Sems
<1>10. After(s, ops) = [n \in Sems |-> IF n = 1 THEN s[1] - 1 ELSE s[n]]
  BY <1>9 DEF After, MaxOps
<1> QED
  BY <1>8, <1>10 DEF ops

\* writer_lock waits for ACTIVE_READERS to be 0 and for BIN_WRITER.
LEMMA WriterLock ==
    ASSUME NEW s \in [Sems -> Nat], s[3] = 0
    PROVE  /\ Passes(s, writer_lock) <=> s[1] = 0 /\ s[4] > 0
           /\ After(s, writer_lock) =
                [n \in Sems |-> CASE n = 2 -> s[2] + 1 [] n = 4 -> s[4] - 1
                                  [] OTHER -> s[n]]
<1> DEFINE ops == writer_lock
<1>1. Len(ops) = 5
  BY DEF writer_lock
<1>2. /\ ops[1].num = 3 /\ ops[2].num = 1 /\ ops[3].num = 4 /\ ops[4].num = 2
      /\ ops[5].num = 3
      /\ ops[1].op = 1 /\ ops[2].op = 0 /\ ops[3].op = -1 /\ ops[4].op = 1
      /\ ops[5].op = -1
  BY DEF writer_lock, SemOp, BIN_WRITER, WAITING_WRITERS, ACTIVE_READERS,
         ACTIVE_WRITER
<1> HIDE DEF ops
<1>3. \A n \in Sems : s[n] \in Nat
  OBVIOUS
<1>4. /\ Delta(ops, 0, 3) = 0 /\ Delta(ops, 1, 1) = 0 /\ Delta(ops, 2, 4) = 0
      /\ Delta(ops, 3, 2) = 0 /\ Delta(ops, 4, 3) = 1
  BY <1>1, <1>2 DEF Delta, Share
<1>5. \A n \in Sems : Delta(ops, 5, n) = IF n = 2 THEN 1 ELSE IF n = 4 THEN -1 ELSE 0
  BY <1>1, <1>2 DEF Delta, Share, Sems
<1>6. /\ Met(s, ops, 1) = s[3] /\ Met(s, ops, 2) = s[1] /\ Met(s, ops, 3) = s[4]
      /\ Met(s, ops, 4) = s[2] /\ Met(s, ops, 5) = s[3] + 1
  BY <1>2, <1>3, <1>4 DEF Met, Sems
<1>7. Passes(s, ops) <=>
        /\ Met(s, ops, 1) + 1 >= 0 /\ Met(s, ops, 2) = 0 /\ Met(s, ops, 3) + (-1) >= 0
        /\ Met(s, ops, 4) + 1 >= 0 /\ Met(s, ops, 5) + (-1) >= 0
  BY <1>1, <1>2, <1>3, <1>6 DEF Passes, Sems
<1>8. Passes(s, ops) <=> s[1] = 0 /\ s[4] > 0
  BY <1>3, <1>6, <1>7 DEF Sems
<1>9. \A n \in Sems : s[n] + Delta(ops, 5, n) =
        CASE n = 2 -> s[2] + 1 [] n = 4 -> s[4] - 1 [] OTHER -> s[n]
  BY <1>3, <1>5 DEF Sems
<1>10. After(s, ops) = [n \in Sems |-> CASE n = 2 -> s[2] + 1 [] n = 4 -> s[4] - 1
                                         [] OTHER -> s[n]]
  BY <1>9 DEF After, MaxOps
<1> QED
  BY <1>8, <1>10 DEF ops

\* writer_release takes the active writer off and frees BIN_WRITER; the stray
\* third operation can only make it wait.
LEMMA WriterRelease ==
    ASSUME NEW s \in [Sems -> Nat], NEW w, thirdNum(w) \in {0, 1}
    PROVE  /\ Passes(s, writer_release(w)) <=> s[2] > 0 /\ s[thirdNum(w)] = 0
           /\ After(s, writer_release(w)) =
                [n \in Sems |-> CASE n = 2 -> s[2] - 1 [] n = 4 -> s[4] + 1
                                  [] OTHER -> s[n]]
<1> DEFINE ops == writer_release(w)
<1> DEFINE t == thirdNum(w)
<1>1. Len(ops) = 3
  BY DEF writer_release
<1>2. /\ ops[1].num = 2 /\ ops[2].num = 4 /\ ops[3].num = t
      /\ ops[1].op = -1 /\ ops[2].op = 1 /\ ops[3].op = 0
  BY DEF writer_release, SemOp, BIN_WRITER, ACTIVE_WRITER
<1> HIDE DEF ops, t
<1>t. t \in {0, 1}
  BY DEF t
<1>3. \A n \in Sems : s[n] \in Nat
  OBVIOUS
<1>4. Delta(ops, 0, 2) = 0 /\ Delta(ops, 1, 4) = 0 /\ Delta(ops, 2, t) = 0
  BY <1>1, <1>2, <1>t DEF Delta, Share
<1>5. \A n \in Sems : Delta(ops, 5, n) = IF n = 2 THEN -1 ELSE IF n = 4 THEN 1 ELSE 0
  BY <1>1, <1>2, <1>t DEF Delta, Share, Sems
<1>6. Met(s, ops, 1) = s[2] /\ Met(s, ops, 2) = s[4] /\ Met(s, ops, 3) = s[t]
  BY <1>2, <1>3, <1>4, <1>t DEF Met, Sems
<1>7. Passes(s, ops) <=>
        Met(s, ops, 1) + (-1) >= 0 /\ Met(s, ops, 2) + 1 >= 0 /\ Met(s, ops, 3) = 0
  BY <1>1, <1>2, <1>3, <1>6, <1>t DEF Passes, Sems
<1>8. Passes(s, ops) <=> s[2] > 0 /\ s[t] = 0
  BY <1>3, <1>6, <1>7, <1>t DEF Sems
<1>9. \A n \in Sems : s[n] + Delta(ops, 5, n) =
        CASE n = 2 -> s[2] - 1 [] n = 4 -> s[4] + 1 [] OTHER -> s[n]
  BY <1>3, <1>5 DEF Sems
<1>10. After(s, ops) = [n \in Sems |-> CASE n = 2 -> s[2] - 1 [] n = 4 -> s[4] + 1
                                         [] OTHER -> s[n]]
  BY <1>9 DEF After, MaxOps
<1> QED
  BY <1>8, <1>10 DEF ops, t

-----------------------------------------------------------------------------
(***************************************************************************)
(* The inductive invariant.  SemAccounting says what the five values are;  *)
(* it is inductive only with the facts that fix when the set is            *)
(* initialised (main forks after Setup), that make a store exact (a writer *)
(* that has loaded is alone), and that tie main's wait loop to the         *)
(* children it has reaped.                                                 *)
(***************************************************************************)
NobodyBornBeforeSetup == mpc = "setup" => \A p \in Children : pc[p] = "unborn"

LoadedIsCurrent == \A w \in Writers : pc[w] = "store" => reg[w] = shm

ReapedAreDead ==
    /\ \A p \in reaped : pc[p] \in Dead
    /\ mpc \in {"cleanup", "done"} => reaped = Children

IInv ==
    /\ TypeOK
    /\ NobodyBornBeforeSetup
    /\ SemAccounting
    /\ WritersExclusive
    /\ LoadedIsCurrent
    /\ ReapedAreDead

\* The two counted sets are finite.
LEMMA ActiveFinite ==
    ASSUME TypeOK
    PROVE  /\ IsFiniteSet(ActiveReaders) /\ Cardinality(ActiveReaders) \in Nat
           /\ IsFiniteSet(ActiveWriters) /\ Cardinality(ActiveWriters) \in Nat
<1>1. ActiveReaders \subseteq Readers /\ ActiveWriters \subseteq Writers
  BY DEF ActiveReaders, ActiveWriters
<1> QED
  BY <1>1, ProcsAssumption, FS_Subset, FS_CardinalityType

\* The initial states satisfy the invariant.
LEMMA InitIInv == Init => IInv
<1> SUFFICES ASSUME Init PROVE IInv
  OBVIOUS
<1>1. TypeOK
  BY ShmModAssumption DEF Init, TypeOK, ChildPC, MainPC
<1>2. \A p \in Children : pc[p] = "unborn"
  BY DEF Init
<1>3. ~Initialised
  BY <1>2 DEF Init, Initialised
<1>4. WritersExclusive /\ LoadedIsCurrent
  BY <1>2 DEF WritersExclusive, LoadedIsCurrent, ActiveWriters, Inside, Children
<1>5. NobodyBornBeforeSetup /\ SemAccounting /\ ReapedAreDead
  BY <1>2, <1>3 DEF Init, NobodyBornBeforeSetup, SemAccounting, ReapedAreDead
<1> QED
  BY <1>1, <1>4, <1>5 DEF IInv

\* A child that does not cross the border of Inside leaves the counts alone.
LEMMA StaysPut ==
    ASSUME TypeOK, NEW p \in Children, NEW to,
           pc' = [pc EXCEPT ![p] = to], pc[p] \in Inside <=> to \in Inside
    PROVE  ActiveReaders' = ActiveReaders /\ ActiveWriters' = ActiveWriters
  BY DEF TypeOK, Children, ActiveReaders, ActiveWriters

\* A step of main, and SIGINT in main, preserve the invariant.
LEMMA MainIInv ==
    ASSUME IInv, MainStep \/ SigintMain
    PROVE  IInv'
<1>1. CASE Setup
  <2>1. TypeOK'
    BY <1>1, ShmModAssumption
    DEF IInv, Setup, TypeOK, Sems, BIN_WRITER, MainPC
  <2>2. \A p \in Children : pc[p] = "unborn" /\ pc'[p] = "unborn"
    BY <1>1 DEF IInv, NobodyBornBeforeSetup, Setup
  <2>3. ActiveReaders' = {} /\ ActiveWriters' = {}
    BY <2>2 DEF ActiveReaders, ActiveWriters, Inside, Children
  <2>4. SemAccounting'
    BY <1>1, <2>3, FS_EmptySet
    DEF Setup, SemAccounting, Sems, ACTIVE_READERS, ACTIVE_WRITER, BIN_WRITER,
        WAITING_READERS, WAITING_WRITERS
  <2>5. WritersExclusive' /\ LoadedIsCurrent'
    BY <2>2, <2>3 DEF WritersExclusive, LoadedIsCurrent, Children
  <2>6. NobodyBornBeforeSetup' /\ ReapedAreDead'
    BY <1>1 DEF IInv, Setup, NobodyBornBeforeSetup, ReapedAreDead
  <2> QED
    BY <2>1, <2>4, <2>5, <2>6 DEF IInv
<1>2. CASE SetupFails \/ ForkFails \/ WaitFails \/ Cleanup \/ SigintMain
  <2>1. UNCHANGED <<sem, shm, pc, reg, reaped, layout>> /\ (Initialised' => Initialised)
    BY <1>2 DEF SetupFails, ForkFails, WaitFails, Cleanup, SigintMain, Initialised
  <2>2. TypeOK'
    BY <1>2 DEF IInv, TypeOK, MainPC, SetupFails, ForkFails, WaitFails, Cleanup,
                SigintMain
  <2>3. ActiveReaders' = ActiveReaders /\ ActiveWriters' = ActiveWriters
    BY <2>1 DEF ActiveReaders, ActiveWriters
  <2>4. SemAccounting' /\ WritersExclusive' /\ LoadedIsCurrent'
    BY <2>1, <2>3 DEF IInv, SemAccounting, WritersExclusive, LoadedIsCurrent
  <2>5. NobodyBornBeforeSetup' /\ ReapedAreDead'
    BY <1>2 DEF IInv, NobodyBornBeforeSetup, ReapedAreDead, SetupFails, ForkFails,
                WaitFails, Cleanup, SigintMain
  <2> QED
    BY <2>2, <2>4, <2>5 DEF IInv
<1>3. ASSUME NEW p \in Children, Fork(p) PROVE IInv'
  <2>1. TypeOK'
    BY <1>3 DEF IInv, TypeOK, Fork, MainPC, ChildPC
  <2>2. ActiveReaders' = ActiveReaders /\ ActiveWriters' = ActiveWriters
    BY <1>3, StaysPut DEF IInv, Fork, Inside
  <2>3. SemAccounting' /\ WritersExclusive'
    BY <1>3, <2>2 DEF IInv, Fork, SemAccounting, WritersExclusive, Initialised
  <2>4. LoadedIsCurrent' /\ NobodyBornBeforeSetup' /\ ReapedAreDead'
    BY <1>3 DEF IInv, TypeOK, Fork, LoadedIsCurrent, NobodyBornBeforeSetup,
                ReapedAreDead, Children, Dead
  <2> QED
    BY <2>1, <2>3, <2>4 DEF IInv
<1>4. ASSUME NEW p \in Children, Reap(p) PROVE IInv'
  <2>1. TypeOK'
    BY <1>4 DEF IInv, TypeOK, Reap, MainPC
  <2>2. ActiveReaders' = ActiveReaders /\ ActiveWriters' = ActiveWriters
    BY <1>4 DEF Reap, ActiveReaders, ActiveWriters
  <2>3. SemAccounting' /\ WritersExclusive' /\ LoadedIsCurrent'
    BY <1>4, <2>2
    DEF IInv, Reap, SemAccounting, WritersExclusive, Initialised, LoadedIsCurrent
  <2>4. NobodyBornBeforeSetup' /\ ReapedAreDead'
    BY <1>4 DEF IInv, Reap, NobodyBornBeforeSetup, ReapedAreDead
  <2> QED
    BY <2>1, <2>3, <2>4 DEF IInv
<1> QED
  BY <1>1, <1>2, <1>3, <1>4 DEF MainStep

\* A child's step that moves it without crossing the border of Inside and
\* leaves sem, main and the other children alone preserves the invariant if it
\* keeps the types and LoadedIsCurrent.
LEMMA QuietIInv ==
    ASSUME IInv, TypeOK', LoadedIsCurrent', NEW p \in Children, NEW to,
           pc' = [pc EXCEPT ![p] = to], pc[p] \in Inside <=> to \in Inside,
           pc[p] \notin Dead \cup {"unborn"}, UNCHANGED <<sem, mpc, reaped>>
    PROVE  IInv'
<1>1. ActiveReaders' = ActiveReaders /\ ActiveWriters' = ActiveWriters
  BY StaysPut DEF IInv
<1>2. Initialised
  BY DEF Initialised
<1>3. SemAccounting' /\ WritersExclusive'
  BY <1>1, <1>2 DEF IInv, SemAccounting, WritersExclusive
<1>4. NobodyBornBeforeSetup' /\ ReapedAreDead'
  BY DEF IInv, TypeOK, NobodyBornBeforeSetup, ReapedAreDead
<1> QED
  BY <1>3, <1>4 DEF IInv

\* The loop test and falling asleep in a semop preserve the invariant.
LEMMA MovesIInv ==
    ASSUME IInv, NEW p \in Children,
           \/ Loop(p)
           \/ SleepsInStartRead(p) \/ SleepsInStopRead(p)
           \/ SleepsInStartWrite(p) \/ SleepsInStopWrite(p)
           \/ ReadShm(p)
    PROVE  IInv'
<1>1. PICK from, to \in ChildPC :
        /\ Goes(p, from, to) /\ to # "store"
        /\ from \in Inside <=> to \in Inside
        /\ from \notin Dead \cup {"unborn"}
  BY DEF Loop, SleepsInStartRead, SleepsInStopRead, SleepsInStartWrite,
         SleepsInStopWrite, SemopSleeps, ReadShm, Goes, ChildPC, Inside, Dead, Asleep
<1>2. UNCHANGED <<sem, shm, flag, reg, mpc, reaped, layout>>
  BY DEF Loop, SleepsInStartRead, SleepsInStopRead, SleepsInStartWrite,
         SleepsInStopWrite, SemopSleeps, ReadShm
<1>3. TypeOK'
  BY <1>1, <1>2 DEF IInv, TypeOK, Goes
<1>4. LoadedIsCurrent'
  BY <1>1, <1>2 DEF IInv, TypeOK, LoadedIsCurrent, Goes, Children
<1> QED
  BY <1>1, <1>2, <1>3, <1>4, QuietIInv DEF Goes

\* SIGINT in a child preserves the invariant: it dies without giving anything back.
LEMMA SigintIInv ==
    ASSUME IInv, NEW p \in Children, Sigint(p)
    PROVE  IInv'
<1>1. PICK to \in ChildPC :
        /\ pc' = [pc EXCEPT ![p] = to] /\ (to = "store" => pc[p] = "store")
        /\ pc[p] \in Inside <=> to \in Inside
  <2>1. CASE pc[p] = "startAsleep"
    <3>1. pc' = [pc EXCEPT ![p] = "failedStart"]
      BY <2>1 DEF Sigint
    <3>2. "failedStart" \in ChildPC /\ "failedStart" \notin Inside /\ pc[p] \notin Inside
      BY <2>1 DEF ChildPC, Inside, Dead
    <3> QED
      BY <3>1, <3>2
  <2>2. CASE pc[p] = "stopAsleep"
    BY <2>2 DEF Sigint, ChildPC, Inside, Dead
  <2>3. CASE pc[p] \notin Asleep
    <3>1. pc' = pc /\ pc[p] \in ChildPC /\ pc = [pc EXCEPT ![p] = pc[p]]
      BY <2>3 DEF IInv, TypeOK, Sigint, Asleep
    <3> QED
      BY <3>1
  <2> QED
    BY <2>1, <2>2, <2>3 DEF Asleep
<1>2. TypeOK'
  BY <1>1 DEF IInv, TypeOK, Sigint
<1>3. LoadedIsCurrent'
  BY <1>1 DEF IInv, TypeOK, LoadedIsCurrent, Sigint, Children
<1> QED
  BY <1>1, <1>2, <1>3, QuietIInv DEF Sigint

\* start_read preserves the invariant: the reader joins those counted, and
\* BIN_WRITER = 0 means that a writer is inside.
LEMMA StartReadIInv ==
    ASSUME IInv, NEW r \in Readers, start_read(r)
    PROVE  IInv' /\ ActiveWriters # {}
<1> USE DEF ACTIVE_READERS, ACTIVE_WRITER, BIN_WRITER, WAITING_READERS, WAITING_WRITERS
<1>0. r \in Children /\ r \notin Writers
  BY ProcsAssumption DEF Children
<1>1. /\ pc[r] \in {"start", "startAsleep"} /\ pc' = [pc EXCEPT ![r] = "read"]
      /\ UNCHANGED <<shm, flag, reg, mpc, reaped, layout>>
  BY DEF start_read, SemopDone
<1>2. Initialised
  BY <1>0, <1>1 DEF Initialised
<1>3. sem \in [Sems -> Nat] /\ sem[0] = 0
  BY <1>2 DEF IInv, TypeOK, SemAccounting
<1>4. sem[4] = 0 /\ sem' = [n \in Sems |-> IF n = 1 THEN sem[1] + 1 ELSE sem[n]]
  BY <1>3, ReaderLock DEF start_read, SemopDone
<1>5. TypeOK'
  BY <1>0, <1>1, <1>3, <1>4 DEF IInv, TypeOK, ChildPC, Inside, Sems
<1>6. ActiveReaders' = ActiveReaders \cup {r} /\ r \notin ActiveReaders
  BY <1>0, <1>1 DEF IInv, TypeOK, ActiveReaders, Inside, Children
<1>7. ActiveWriters' = ActiveWriters
  BY <1>0, <1>1 DEF IInv, TypeOK, ActiveWriters, Children
<1>8. Cardinality(ActiveReaders') = Cardinality(ActiveReaders) + 1
  BY <1>6, ActiveFinite, FS_AddElement DEF IInv
<1>9. SemAccounting'
  BY <1>2, <1>4, <1>7, <1>8, <1>3 DEF IInv, SemAccounting, Sems
<1>10. WritersExclusive' /\ LoadedIsCurrent'
  BY <1>0, <1>1, <1>7 DEF IInv, TypeOK, WritersExclusive, LoadedIsCurrent, Children
<1>11. NobodyBornBeforeSetup' /\ ReapedAreDead'
  BY <1>0, <1>1 DEF IInv, TypeOK, NobodyBornBeforeSetup, ReapedAreDead, Dead
<1>12. ActiveWriters # {}
  BY <1>2, <1>4, FS_EmptySet DEF IInv, SemAccounting
<1> QED
  BY <1>5, <1>9, <1>10, <1>11, <1>12 DEF IInv

\* stop_read preserves the invariant: the reader leaves those counted.
LEMMA StopReadIInv ==
    ASSUME IInv, NEW r \in Readers, stop_read(r)
    PROVE  IInv'
<1> USE DEF ACTIVE_READERS, ACTIVE_WRITER, BIN_WRITER, WAITING_READERS, WAITING_WRITERS
<1>0. r \in Children /\ r \notin Writers
  BY ProcsAssumption DEF Children
<1>1. /\ pc[r] \in {"stop", "stopAsleep"} /\ pc' = [pc EXCEPT ![r] = "loop"]
      /\ UNCHANGED <<shm, flag, reg, mpc, reaped, layout>>
  BY DEF stop_read, SemopDone
<1>2. Initialised
  BY <1>0, <1>1 DEF Initialised
<1>3. sem \in [Sems -> Nat]
  BY DEF IInv, TypeOK
<1>4. sem[1] > 0 /\ sem' = [n \in Sems |-> IF n = 1 THEN sem[1] - 1 ELSE sem[n]]
  BY <1>3, ReaderRelease DEF stop_read, SemopDone
<1>5. TypeOK'
  BY <1>0, <1>1, <1>3, <1>4 DEF IInv, TypeOK, ChildPC, Sems
<1>6. ActiveReaders' = ActiveReaders \ {r} /\ r \in ActiveReaders
  BY <1>0, <1>1 DEF IInv, TypeOK, ActiveReaders, Inside, Children
<1>7. ActiveWriters' = ActiveWriters
  BY <1>0, <1>1 DEF IInv, TypeOK, ActiveWriters, Children
<1>8. Cardinality(ActiveReaders') = Cardinality(ActiveReaders) - 1
  BY <1>6, ActiveFinite, FS_RemoveElement DEF IInv
<1>9. SemAccounting'
  BY <1>2, <1>3, <1>4, <1>7, <1>8 DEF IInv, SemAccounting, Sems
<1>10. WritersExclusive' /\ LoadedIsCurrent'
  BY <1>0, <1>1, <1>7 DEF IInv, TypeOK, WritersExclusive, LoadedIsCurrent, Children
<1>11. NobodyBornBeforeSetup' /\ ReapedAreDead'
  BY <1>0, <1>1 DEF IInv, TypeOK, NobodyBornBeforeSetup, ReapedAreDead, Dead
<1> QED
  BY <1>5, <1>9, <1>10, <1>11 DEF IInv

\* start_write preserves the invariant: nobody was inside, one writer is now.
LEMMA StartWriteIInv ==
    ASSUME IInv, NEW w \in Writers, start_write(w)
    PROVE  IInv' /\ ActiveReaders = {}
<1> USE DEF ACTIVE_READERS, ACTIVE_WRITER, BIN_WRITER, WAITING_READERS, WAITING_WRITERS
<1>0. w \in Children /\ w \notin Readers
  BY ProcsAssumption DEF Children
<1>1. /\ pc[w] \in {"start", "startAsleep"} /\ pc' = [pc EXCEPT ![w] = "load"]
      /\ UNCHANGED <<shm, flag, reg, mpc, reaped, layout>>
  BY DEF start_write, SemopDone
<1>2. Initialised
  BY <1>0, <1>1 DEF Initialised
<1>3. sem \in [Sems -> Nat] /\ sem[3] = 0
  BY <1>2 DEF IInv, TypeOK, SemAccounting
<1>4. /\ sem[1] = 0 /\ sem[4] > 0
      /\ sem' = [n \in Sems |-> CASE n = 2 -> sem[2] + 1 [] n = 4 -> sem[4] - 1
                                  [] OTHER -> sem[n]]
  BY <1>3, WriterLock DEF start_write, SemopDone
<1>5. ActiveReaders = {} /\ ActiveWriters = {} /\ sem[2] = 0 /\ sem[4] = 1
  BY <1>2, <1>4, ActiveFinite, FS_EmptySet DEF IInv, SemAccounting
<1>6. TypeOK'
  BY <1>0, <1>1, <1>3, <1>4, <1>5 DEF IInv, TypeOK, ChildPC, Inside, Sems
<1>7. ActiveReaders' = {} /\ ActiveWriters' = {w}
  BY <1>0, <1>1, <1>5 DEF IInv, TypeOK, ActiveReaders, ActiveWriters, Inside, Children
<1>8. Cardinality(ActiveReaders') = 0 /\ Cardinality(ActiveWriters') = 1
  BY <1>7, FS_EmptySet, FS_Singleton
<1>9. SemAccounting'
  BY <1>2, <1>3, <1>4, <1>5, <1>8 DEF IInv, SemAccounting, Sems
<1>10. WritersExclusive' /\ LoadedIsCurrent'
  BY <1>0, <1>1, <1>7 DEF IInv, TypeOK, WritersExclusive, LoadedIsCurrent, Children
<1>11. NobodyBornBeforeSetup' /\ ReapedAreDead'
  BY <1>0, <1>1 DEF IInv, TypeOK, NobodyBornBeforeSetup, ReapedAreDead, Dead
<1> QED
  BY <1>5, <1>6, <1>9, <1>10, <1>11 DEF IInv

\* stop_write preserves the invariant: the only writer inside leaves.
LEMMA StopWriteIInv ==
    ASSUME IInv, NEW w \in Writers, stop_write(w)
    PROVE  IInv'
<1> USE DEF ACTIVE_READERS, ACTIVE_WRITER, BIN_WRITER, WAITING_READERS, WAITING_WRITERS
<1>0. w \in Children /\ w \notin Readers
  BY ProcsAssumption DEF Children
<1>1. /\ pc[w] \in {"stop", "stopAsleep"} /\ pc' = [pc EXCEPT ![w] = "loop"]
      /\ UNCHANGED <<shm, flag, reg, mpc, reaped, layout>>
  BY DEF stop_write, SemopDone
<1>2. Initialised
  BY <1>0, <1>1 DEF Initialised
<1>3. sem \in [Sems -> Nat]
  BY DEF IInv, TypeOK
<1>4. sem' = [n \in Sems |-> CASE n = 2 -> sem[2] - 1 [] n = 4 -> sem[4] + 1
                               [] OTHER -> sem[n]]
  BY <1>3, WriterRelease DEF stop_write, SemopDone, thirdNum
<1>5. ActiveWriters = {w}
  BY <1>1 DEF IInv, WritersExclusive, ActiveWriters, Inside
<1>6. sem[2] = 1 /\ sem[4] = 0
  BY <1>2, <1>5, FS_Singleton DEF IInv, SemAccounting
<1>7. TypeOK'
  BY <1>0, <1>1, <1>3, <1>4, <1>6 DEF IInv, TypeOK, ChildPC, Sems
<1>8. ActiveReaders' = ActiveReaders /\ ActiveWriters' = {}
  BY <1>0, <1>1, <1>5 DEF IInv, TypeOK, ActiveReaders, ActiveWriters, Inside, Children
<1>9. Cardinality(ActiveWriters') = 0
  BY <1>8, FS_EmptySet
<1>10. SemAccounting'
  BY <1>2, <1>3, <1>4, <1>6, <1>8, <1>9 DEF IInv, SemAccounting, Sems
<1>11. WritersExclusive' /\ LoadedIsCurrent'
  BY <1>0, <1>1, <1>8 DEF IInv, TypeOK, WritersExclusive, LoadedIsCurrent, Children
<1>12. NobodyBornBeforeSetup' /\ ReapedAreDead'
  BY <1>0, <1>1 DEF IInv, TypeOK, NobodyBornBeforeSetup, ReapedAreDead, Dead
<1> QED
  BY <1>7, <1>10, <1>11, <1>12 DEF IInv

\* The load preserves the invariant.
LEMMA LoadIInv ==
    ASSUME IInv, NEW w \in Writers, LoadShm(w)
    PROVE  IInv'
<1>0. w \in Children
  BY DEF Children
<1>1. TypeOK'
  BY <1>0 DEF IInv, TypeOK, LoadShm, Goes, ChildPC, Inside
<1>2. LoadedIsCurrent'
  BY <1>0 DEF IInv, TypeOK, LoadedIsCurrent, LoadShm, Goes, Children
<1>3. /\ pc' = [pc EXCEPT ![w] = "store"] /\ pc[w] \in Inside /\ "store" \in Inside
      /\ pc[w] \notin Dead \cup {"unborn"} /\ UNCHANGED <<sem, mpc, reaped>>
  BY DEF LoadShm, Goes, Inside, Dead
<1> QED
  BY <1>0, <1>1, <1>2, <1>3, QuietIInv

\* The store preserves the invariant and adds one to the current value: any
\* other writer that has loaded would be inside too.
LEMMA StoreIInv ==
    ASSUME IInv, NEW w \in Writers, StoreShm(w)
    PROVE  IInv' /\ shm' = (shm + 1) % ShmMod
<1>0. w \in Children
  BY DEF Children
<1>1. shm' = (shm + 1) % ShmMod
  BY DEF IInv, LoadedIsCurrent, StoreShm, Goes
<1>2. shm' \in 0 .. ShmMod - 1
  BY <1>1, ShmModAssumption DEF IInv, TypeOK
<1>3. TypeOK'
  BY <1>0, <1>2 DEF IInv, TypeOK, StoreShm, Goes, ChildPC, Inside
<1>4. \A v \in Writers : pc[v] = "store" => v = w
  BY DEF IInv, WritersExclusive, ActiveWriters, Inside, StoreShm, Goes
<1>5. LoadedIsCurrent'
  BY <1>0, <1>4 DEF IInv, TypeOK, LoadedIsCurrent, StoreShm, Goes, Children
<1>6. /\ pc' = [pc EXCEPT ![w] = "stop"] /\ pc[w] \in Inside /\ "stop" \in Inside
      /\ pc[w] \notin Dead \cup {"unborn"} /\ UNCHANGED <<sem, mpc, reaped>>
  BY DEF StoreShm, Goes, Inside, Dead
<1> QED
  BY <1>0, <1>1, <1>3, <1>5, <1>6, QuietIInv

\* Every step preserves the invariant.
LEMMA NextIInv == IInv /\ [Next]_vars => IInv'
<1> SUFFICES ASSUME IInv, [Next]_vars PROVE IInv'
  OBVIOUS
<1>1. CASE MainStep \/ SigintMain
  BY <1>1, MainIInv
<1>2. ASSUME NEW r \in Readers, ReaderStep(r) PROVE IInv'
  BY <1>2, MovesIInv, StartReadIInv, StopReadIInv DEF ReaderStep, Children
<1>3. ASSUME NEW w \in Writers, WriterStep(w) PROVE IInv'
  BY <1>3, MovesIInv, StartWriteIInv, StopWriteIInv, LoadIInv, StoreIInv
  DEF WriterStep, Children
<1>4. ASSUME NEW p \in Children, Sigint(p) PROVE IInv'
  BY <1>4, SigintIInv
<1>5. CASE UNCHANGED vars
  <2>1. TypeOK' /\ LoadedIsCurrent' /\ NobodyBornBeforeSetup' /\ ReapedAreDead'
    BY <1>5 DEF vars, IInv, TypeOK, LoadedIsCurrent, NobodyBornBeforeSetup, ReapedAreDead
  <2>2. /\ ActiveReaders' = ActiveReaders /\ ActiveWriters' = ActiveWriters
        /\ Initialised' <=> Initialised
    BY <1>5 DEF vars, ActiveReaders, ActiveWriters, Initialised
  <2>3. SemAccounting' /\ WritersExclusive'
    BY <1>5, <2>2 DEF vars, IInv, SemAccounting, WritersExclusive
  <2> QED
    BY <2>1, <2>3 DEF IInv
<1> QED
  BY <1>1, <1>2, <1>3, <1>4, <1>5 DEF Next, ChildStep

-----------------------------------------------------------------------------
\* The invariant holds throughout.
LEMMA InvariantHolds == Spec => []IInv
<1>1. Init => IInv
  BY InitIInv
<1>2. IInv /\ [Next]_vars => IInv'
  BY NextIInv
<1> QED
  BY <1>1, <1>2, PTL DEF Spec

\* Type correctness: no semaphore of the set, no pc and no register leaves its
\* range, whatever is interrupted where.
THEOREM TypeCorrect == Spec => []TypeOK
<1>1. IInv => TypeOK
  BY DEF IInv
<1> QED
  BY <1>1, InvariantHolds, PTL

\* The five semaphores of wr.c count exactly the processes they are named for,
\* for any number of readers and writers and any pattern of SIGINTs.
THEOREM SemaphoresAccount == Spec => []SemAccounting
<1>1. IInv => SemAccounting
  BY DEF IInv
<1> QED
  BY <1>1, InvariantHolds, PTL

\* At most one writer is between start_write and stop_write.
THEOREM WritersMutex == Spec => []WritersExclusive
<1>1. IInv => WritersExclusive
  BY DEF IInv
<1> QED
  BY <1>1, InvariantHolds, PTL

\* main removes the IPC objects only when all children are dead.
THEOREM IpcSafe == Spec => []IpcOutlivesChildren
<1>1. IInv => IpcOutlivesChildren
  BY DEF IInv, ReapedAreDead, IpcOutlivesChildren
<1> QED
  BY <1>1, InvariantHolds, PTL

\* No increment of the shared int is lost.
THEOREM UpdatesCount == Spec => NoLostUpdate
<1> DEFINE Exact == \A w \in Writers : pc[w] = "store" /\ pc'[w] = "stop"
                        => shm' = (shm + 1) % ShmMod
<1>1. IInv /\ [Next]_vars => [Exact]_vars
  <2> SUFFICES ASSUME IInv, Next, NEW w \in Writers, pc[w] = "store", pc'[w] = "stop"
               PROVE  shm' = (shm + 1) % ShmMod
    BY DEF Exact
  <2>0. w \in Children /\ pc \in [Children -> ChildPC]
    BY DEF Children, IInv, TypeOK
  <2>1. ~MainStep /\ ~SigintMain
    BY <2>0 DEF MainStep, Setup, SetupFails, Fork, ForkFails, Reap, WaitFails, Cleanup,
           SigintMain
  <2>2. \A r \in Readers : ~ReaderStep(r)
    BY <2>0, ProcsAssumption
    DEF ReaderStep, Loop, start_read, stop_read, SleepsInStartRead, SleepsInStopRead,
        ReadShm, SemopDone, SemopSleeps, Goes, Children
  <2>3. \A p \in Children : ~Sigint(p)
    BY <2>0 DEF Sigint
  <2>4. PICK v \in Writers : WriterStep(v)
    BY <2>1, <2>2, <2>3 DEF Next, ChildStep
  <2>5. v = w /\ StoreShm(v)
    BY <2>0, <2>4
    DEF WriterStep, Loop, start_write, stop_write, SleepsInStartWrite,
        SleepsInStopWrite, LoadShm, StoreShm, SemopDone, SemopSleeps, Goes, Children
  <2> QED
    BY <2>5, StoreIInv
<1> QED
  BY <1>1, InvariantHolds, PTL DEF Spec, NoLostUpdate

\* A writer starts only when no reader is inside.
THEOREM WritersWaitForReaders == Spec => WriterStartsAlone
<1> DEFINE Alone == \A w \in Writers : w \notin ActiveWriters /\ w \in ActiveWriters'
                        => ActiveReaders = {}
<1>1. IInv /\ [Next]_vars => [Alone]_vars
  <2> SUFFICES ASSUME IInv, Next, NEW w \in Writers,
                      pc[w] \notin Inside, pc'[w] \in Inside
               PROVE  ActiveReaders = {}
    BY DEF Alone, ActiveWriters
  <2>0. w \in Children /\ pc \in [Children -> ChildPC]
    BY DEF Children, IInv, TypeOK
  <2>1. ~MainStep /\ ~SigintMain
    BY <2>0 DEF MainStep, Setup, SetupFails, Fork, ForkFails, Reap, WaitFails, Cleanup,
           SigintMain, Inside
  <2>2. \A r \in Readers : ~ReaderStep(r)
    BY <2>0, ProcsAssumption
    DEF ReaderStep, Loop, start_read, stop_read, SleepsInStartRead, SleepsInStopRead,
        ReadShm, SemopDone, SemopSleeps, Goes, Children
  <2>3. \A p \in Children : ~Sigint(p)
    BY <2>0 DEF Sigint, Inside
  <2>4. PICK v \in Writers : WriterStep(v)
    BY <2>1, <2>2, <2>3 DEF Next, ChildStep
  <2>5. v = w /\ start_write(v)
    BY <2>0, <2>4
    DEF WriterStep, Loop, start_write, stop_write, SleepsInStartWrite, Inside,
        SleepsInStopWrite, LoadShm, StoreShm, SemopDone, SemopSleeps, Goes, Children
  <2> QED
    BY <2>5, StartWriteIInv
<1> QED
  BY <1>1, InvariantHolds, PTL DEF Spec, WriterStartsAlone

\* A reader starts only while a writer is inside: with wr.c's reader_lock,
\* readers are admitted by writers, the opposite of being kept out by them.
THEOREM ReadersStartBesideWriters == Spec => ReaderStartsBesideWriter
<1> DEFINE Beside == \A r \in Readers : r \notin ActiveReaders /\ r \in ActiveReaders'
                        => ActiveWriters # {}
<1>1. IInv /\ [Next]_vars => [Beside]_vars
  <2> SUFFICES ASSUME IInv, Next, NEW r \in Readers,
                      pc[r] \notin Inside, pc'[r] \in Inside
               PROVE  ActiveWriters # {}
    BY DEF Beside, ActiveReaders
  <2>0. r \in Children /\ pc \in [Children -> ChildPC]
    BY DEF Children, IInv, TypeOK
  <2>1. ~MainStep /\ ~SigintMain
    BY <2>0 DEF MainStep, Setup, SetupFails, Fork, ForkFails, Reap, WaitFails, Cleanup,
           SigintMain, Inside
  <2>2. \A w \in Writers : ~WriterStep(w)
    BY <2>0, ProcsAssumption
    DEF WriterStep, Loop, start_write, stop_write, SleepsInStartWrite,
        SleepsInStopWrite, LoadShm, StoreShm, SemopDone, SemopSleeps, Goes, Children
  <2>3. \A p \in Children : ~Sigint(p)
    BY <2>0 DEF Sigint, Inside
  <2>4. PICK q \in Readers : ReaderStep(q)
    BY <2>1, <2>2, <2>3 DEF Next, ChildStep
  <2>5. q = r /\ start_read(q)
    BY <2>0, <2>4
    DEF ReaderStep, Loop, start_read, stop_read, SleepsInStartRead, Inside,
        SleepsInStopRead, ReadShm, SemopDone, SemopSleeps, Goes, Children
  <2> QED
    BY <2>5, StartReadIInv
<1> QED
  BY <1>1, InvariantHolds, PTL DEF Spec, ReaderStartsBesideWriter

-----------------------------------------------------------------------------
(***************************************************************************)
(* How wr.c can come to a standstill.                                      *)
(***************************************************************************)
\* A counted set is empty exactly when its semaphore is 0.
LEMMA CountsSay ==
    ASSUME IInv, Initialised
    PROVE  /\ sem \in [Sems -> Nat] /\ sem[0] = 0 /\ sem[3] = 0
           /\ ActiveReaders = {} <=> sem[1] = 0
           /\ ActiveWriters = {} <=> sem[2] = 0
           /\ ActiveWriters = {} <=> sem[4] > 0
<1> USE DEF ACTIVE_READERS, ACTIVE_WRITER, BIN_WRITER, WAITING_READERS, WAITING_WRITERS
<1>1. /\ sem \in [Sems -> Nat] /\ sem[0] = 0 /\ sem[3] = 0
      /\ sem[1] = Cardinality(ActiveReaders)
      /\ sem[2] = Cardinality(ActiveWriters) /\ sem[4] = 1 - Cardinality(ActiveWriters)
  BY DEF IInv, TypeOK, SemAccounting
<1>2. /\ Cardinality(ActiveReaders) = 0 <=> ActiveReaders = {}
      /\ Cardinality(ActiveWriters) = 0 <=> ActiveWriters = {}
  BY ActiveFinite, FS_EmptySet DEF IInv
<1>3. Cardinality(ActiveWriters) \in Nat
  BY ActiveFinite DEF IInv
<1> QED
  BY <1>1, <1>2, <1>3

\* wr.c never comes to a standstill for any other reason, whatever the numbers
\* of readers and writers and wherever SIGINT strikes: in particular not with
\* zero padding behind writer_release, as long as a writer lives and nobody
\* has died between its lock and its release.
THEOREM StandstillOnlyThen == Spec => []StandstillExplained
<1>1. IInv => StandstillExplained
  <2> SUFFICES ASSUME IInv, Standstill, NEW w \in Writers, pc[w] \notin Gone,
                      \A p \in Children : pc[p] # "failedStop"
               PROVE  layout = "adjacent" /\ ActiveReaders # {} /\ ActiveWriters # {}
    BY DEF StandstillExplained
  <2>0. Readers \cap Writers = {} /\ w \in Children /\ \A p \in Readers \cup Writers : p \in Children
    BY ProcsAssumption DEF Children
  <2>1. Initialised
    BY <2>0 DEF Initialised, Gone
  <2>2. \A p \in Children : pc[p] \in Inside => pc[p] = "stopAsleep" /\ Blocked(p)
    BY DEF Standstill, Blocked, Gone, Dead, Inside
  <2>3. ActiveWriters # {}
    <3> SUFFICES ASSUME ActiveWriters = {} PROVE FALSE
      OBVIOUS
    <3>1. sem[2] = 0 /\ sem[4] > 0 /\ sem[3] = 0 /\ sem \in [Sems -> Nat]
      BY <2>1, CountsSay
    <3>2. CASE ActiveReaders # {}
      <4>1. PICK r \in Readers : pc[r] \in Inside
        BY <3>2 DEF ActiveReaders
      <4>2. ~Passes(sem, reader_release)
        BY <2>0, <2>2, <4>1 DEF Blocked
      <4>3. sem[1] > 0
        BY <2>1, <3>2, CountsSay DEF Sems
      <4> QED
        BY <3>1, <4>2, <4>3, ReaderRelease
    <3>3. CASE ActiveReaders = {}
      <4>1. ~Passes(sem, writer_lock)
        BY <2>0 DEF Standstill, Blocked, ActiveWriters, Inside
      <4> QED
        BY <2>1, <3>1, <3>3, <4>1, CountsSay, WriterLock
    <3> QED
      BY <3>2, <3>3
  <2>4. PICK v \in Writers : pc[v] \in Inside
    BY <2>3 DEF ActiveWriters
  <2>5. ~Passes(sem, writer_release(v))
    BY <2>0, <2>2, <2>4 DEF Blocked
  <2>6. sem \in [Sems -> Nat] /\ sem[0] = 0 /\ sem[2] > 0 /\ thirdNum(v) \in {0, 1}
    BY <2>1, <2>3, CountsSay DEF Sems, thirdNum
  <2>7. sem[thirdNum(v)] # 0
    BY <2>5, <2>6, WriterRelease
  <2>8. thirdNum(v) = 1 /\ sem[1] # 0
    BY <2>6, <2>7
  <2> QED
    BY <2>1, <2>3, <2>8, CountsSay DEF thirdNum
<1> QED
  BY <1>1, InvariantHolds, PTL

\* Undisturbed, with flag behind writer_release: a reader that is inside was let
\* in by a writer that is inside still.
ReaderKeepsWriter ==
    /\ \A p \in Children \cup {Main} : flag[p] = TRUE
    /\ layout = "adjacent" /\ ActiveReaders # {} => ActiveWriters # {}

\* Where a reader and a writer are inside neither can get out; so a step of an
\* undisturbed run keeps ReaderKeepsWriter, and no reader leaves.
LEMMA ReaderTrapped ==
    ASSUME IInv, ReaderKeepsWriter, [Undisturbed]_vars
    PROVE  /\ ReaderKeepsWriter'
           /\ layout = "adjacent" => ActiveReaders \subseteq ActiveReaders'
<1>0. Readers \cap Writers = {} /\ \A p \in Readers \cup Writers : p \in Children
  BY ProcsAssumption DEF Children
<1>1. CASE MainStep \/ UNCHANGED vars
  <2>1. layout' = layout /\ \A p \in Children \cup {Main} : flag'[p] = TRUE
    BY <1>1 DEF MainStep, Setup, SetupFails, Fork, ForkFails, Reap, WaitFails, Cleanup,
                vars, ReaderKeepsWriter, IInv, TypeOK
  <2>2. ActiveReaders' = ActiveReaders /\ ActiveWriters' = ActiveWriters
    <3>1. CASE \E p \in Children : Fork(p)
      BY <3>1, StaysPut DEF IInv, Fork, Inside
    <3>2. CASE pc' = pc
      BY <3>2 DEF ActiveReaders, ActiveWriters
    <3> QED
      BY <1>1, <3>1, <3>2 DEF MainStep, Setup, SetupFails, ForkFails, Reap, WaitFails,
                              Cleanup, vars
  <2> QED
    BY <2>1, <2>2 DEF ReaderKeepsWriter
<1>2. CASE ChildStep
  <2>1. UNCHANGED <<flag, layout>>
    BY <1>2 DEF ChildStep, ReaderStep, WriterStep, Loop, start_read, stop_read, start_write,
                stop_write, SleepsInStartRead, SleepsInStopRead, SleepsInStartWrite,
                SleepsInStopWrite, SemopDone, SemopSleeps, ReadShm, LoadShm, StoreShm
  <2>2. ASSUME NEW p \in Children, NEW to, pc' = [pc EXCEPT ![p] = to],
               pc[p] \in Inside <=> to \in Inside
        PROVE  ActiveReaders' = ActiveReaders /\ ActiveWriters' = ActiveWriters
    BY <2>2, StaysPut DEF IInv
  <2>3. ASSUME NEW r \in Readers, start_read(r)
        PROVE  ActiveWriters # {} /\ ActiveWriters' = ActiveWriters
               /\ ActiveReaders \subseteq ActiveReaders'
    BY <1>0, <2>3, StartReadIInv
    DEF start_read, SemopDone, IInv, TypeOK, ActiveReaders, ActiveWriters, Inside, Children
  <2>4. ASSUME NEW r \in Readers, stop_read(r)
        PROVE  ActiveReaders # {} /\ ActiveWriters = {}
    <3>1. pc[r] \in Inside /\ Passes(sem, reader_release) /\ Initialised
      BY <1>0, <2>4 DEF stop_read, SemopDone, Inside, Initialised
    <3> QED
      BY <3>1, CountsSay, ReaderRelease DEF ActiveReaders
  <2>5. ASSUME NEW w \in Writers, start_write(w)
        PROVE  ActiveReaders = {} /\ ActiveReaders' = {}
    BY <1>0, <2>5, StartWriteIInv
    DEF start_write, SemopDone, IInv, TypeOK, ActiveReaders, Children
  <2>6. ASSUME NEW w \in Writers, stop_write(w), layout = "adjacent"
        PROVE  ActiveReaders = {} /\ ActiveReaders' = {}
    <3>1. Passes(sem, writer_release(w)) /\ Initialised
      BY <1>0, <2>6 DEF stop_write, SemopDone, Initialised
    <3>2. thirdNum(w) = 1
      BY <1>0, <2>6 DEF thirdNum, ReaderKeepsWriter
    <3>3. ActiveReaders = {}
      BY <3>1, <3>2, CountsSay, WriterRelease
    <3> QED
      BY <1>0, <2>6, <3>3 DEF stop_write, SemopDone, IInv, TypeOK, ActiveReaders, Children
  <2>7. \/ \E r \in Readers : start_read(r) \/ stop_read(r)
        \/ \E w \in Writers : start_write(w) \/ stop_write(w)
        \/ ActiveReaders' = ActiveReaders /\ ActiveWriters' = ActiveWriters
    <3>1. ASSUME NEW p \in Children,
                 \/ Loop(p) \/ SleepsInStartRead(p) \/ SleepsInStopRead(p) \/ ReadShm(p)
                 \/ SleepsInStartWrite(p) \/ SleepsInStopWrite(p) \/ LoadShm(p) \/ StoreShm(p)
          PROVE  \E to : /\ pc' = [pc EXCEPT ![p] = to]
                         /\ pc[p] \in Inside <=> to \in Inside
      BY <3>1 DEF Loop, SleepsInStartRead, SleepsInStopRead, SleepsInStartWrite,
                  SleepsInStopWrite, SemopSleeps, ReadShm, LoadShm, StoreShm, Goes, Inside
    <3> QED
      BY <1>0, <1>2, <2>2, <3>1 DEF ChildStep, ReaderStep, WriterStep
  <2> QED
    BY <2>1, <2>3, <2>4, <2>5, <2>6, <2>7 DEF ReaderKeepsWriter
<1> QED
  BY <1>1, <1>2 DEF Undisturbed

\* With flag directly behind writer_release, and nobody interrupted, no reader
\* of wr.c that has passed start_read ever leaves stop_read, for any numbers of
\* readers and writers: the first reader that a writer lets in ends the work.
THEOREM AdjacentTrapsReaders ==
    FairSpec => [][layout = "adjacent" => ActiveReaders \subseteq ActiveReaders']_vars
<1>1. Init => IInv /\ ReaderKeepsWriter
  <2>1. Init => ReaderKeepsWriter
    BY DEF Init, ReaderKeepsWriter, ActiveReaders, Inside, Children
  <2> QED
    BY <2>1, InitIInv
<1>2. [Undisturbed]_vars => [Next]_vars
  BY DEF Undisturbed, Next
<1>3. IInv /\ ReaderKeepsWriter /\ [Undisturbed]_vars => IInv' /\ ReaderKeepsWriter'
  BY <1>2, NextIInv, ReaderTrapped
<1>4. IInv /\ ReaderKeepsWriter /\ [Undisturbed]_vars
        => [layout = "adjacent" => ActiveReaders \subseteq ActiveReaders']_vars
  BY ReaderTrapped
<1> QED
  BY <1>1, <1>3, <1>4, PTL DEF FairSpec

-----------------------------------------------------------------------------
(***************************************************************************)
(* The same readers and writers as Windows threads (EventMonitor).  The    *)
(* invariant needs no more than what the counters count and that an exit   *)
(* in the middle has ended every thread.                                   *)
(***************************************************************************)
ReaderWaits == {"test", "poll", "wait", "asleep", "lock", "dec"}
WriterWaits == {"testReaders", "testWriting", "wait", "asleep", "dec"}
ReaderActive == {"signal", "release", "inside"}

\* Where the threads are.
PlacesOK ==
    /\ tpc \in [Children -> Monitor!ReaderPC \cup Monitor!WriterPC]
    /\ \A r \in Readers : tpc[r] \in Monitor!ReaderPC
    /\ \A w \in Writers : tpc[w] \in Monitor!WriterPC

ValuesOK ==
    /\ {can_read, can_write, writing, tflag} \subseteq BOOLEAN
    /\ mutex \subseteq Readers /\ Cardinality(mutex) <= 1
    /\ main \in {"runs", "failed", "ended"}

NumbersOK ==
    /\ waiting_readers \in 0 .. Cardinality(Readers)
    /\ active_readers \in 0 .. Cardinality(Readers)
    /\ waiting_writers \in 0 .. Cardinality(Writers)

CountsOK ==
    main # "failed" =>
        /\ active_readers = Cardinality(Monitor!ActiveReaders)
        /\ waiting_readers = Cardinality(Monitor!WaitingReaders)
        /\ waiting_writers = Cardinality(Monitor!WaitingWriters)

AllEnded == main = "failed" => \A t \in Children : tpc[t] = "exited"

MonitorInv == ValuesOK /\ PlacesOK /\ NumbersOK /\ CountsOK /\ AllEnded

\* The instance counts as this module does.
LEMMA SameCardinality == ASSUME NEW S PROVE Monitor!Cardinality(S) = Cardinality(S)
  BY DEF Monitor!Cardinality, Cardinality

\* The counted sets are finite.
LEMMA MonitorFinite ==
    /\ Cardinality(Readers) \in Nat /\ Cardinality(Writers) \in Nat
    /\ IsFiniteSet(Monitor!ActiveReaders) /\ Cardinality(Monitor!ActiveReaders) \in Nat
    /\ IsFiniteSet(Monitor!WaitingReaders) /\ Cardinality(Monitor!WaitingReaders) \in Nat
    /\ IsFiniteSet(Monitor!WaitingWriters) /\ Cardinality(Monitor!WaitingWriters) \in Nat
<1>1. /\ Monitor!ActiveReaders \subseteq Readers /\ Monitor!WaitingReaders \subseteq Readers
      /\ Monitor!WaitingWriters \subseteq Writers
  BY DEF Monitor!ActiveReaders, Monitor!WaitingReaders, Monitor!WaitingWriters
<1> QED
  BY <1>1, ProcsAssumption, FS_Subset, FS_CardinalityType

\* The initial states satisfy the invariant.
LEMMA MonitorInitInv == Monitor!Init => MonitorInv
<1> SUFFICES ASSUME Monitor!Init PROVE MonitorInv
  OBVIOUS
<1>1. \A t \in Children : tpc[t] = "new"
  BY DEF Monitor!Init, Monitor!Threads, Children
<1>2. PlacesOK /\ AllEnded
  BY <1>1 DEF Monitor!Init, PlacesOK, AllEnded, Children, Monitor!Threads,
              Monitor!ReaderPC, Monitor!WriterPC
<1>3. Monitor!ActiveReaders = {} /\ Monitor!WaitingReaders = {} /\ Monitor!WaitingWriters = {}
  BY <1>1 DEF Monitor!ActiveReaders, Monitor!WaitingReaders, Monitor!WaitingWriters, Children
<1>4. Cardinality({}) = 0
  BY FS_EmptySet
<1>5. ValuesOK
  <2>1. {can_read, can_write, writing, tflag} \subseteq BOOLEAN
    BY DEF Monitor!Init
  <2>2. mutex \subseteq Readers /\ Cardinality(mutex) <= 1
    BY <1>4 DEF Monitor!Init
  <2>3. main \in {"runs", "failed", "ended"}
    BY DEF Monitor!Init
  <2> QED
    BY <2>1, <2>2, <2>3, Zenon DEF ValuesOK
<1>6. waiting_readers = 0 /\ waiting_writers = 0 /\ active_readers = 0
  BY DEF Monitor!Init
<1>7. NumbersOK
  BY <1>6, MonitorFinite DEF NumbersOK
<1>8. CountsOK
  BY <1>3, <1>4, <1>6 DEF CountsOK
<1> QED
  BY <1>2, <1>5, <1>7, <1>8 DEF MonitorInv

\* A thread that is not at its end has not been ended by a failure.
LEMMA NotFailed ==
    ASSUME MonitorInv, NEW t \in Children, tpc[t] # "exited"
    PROVE  main # "failed"
  BY DEF MonitorInv, AllEnded

\* A step that keeps the counters and moves nobody in or out of a counted set.
LEMMA NobodyCrosses ==
    ASSUME MonitorInv, PlacesOK', ValuesOK', main' = main, main # "failed",
           UNCHANGED <<waiting_readers, waiting_writers, active_readers>>,
           \A r \in Readers : /\ tpc[r] \in ReaderWaits <=> tpc'[r] \in ReaderWaits
                              /\ tpc[r] \in ReaderActive <=> tpc'[r] \in ReaderActive,
           \A w \in Writers : tpc[w] \in WriterWaits <=> tpc'[w] \in WriterWaits
    PROVE  MonitorInv'
<1>1. /\ Monitor!ActiveReaders' = Monitor!ActiveReaders
      /\ Monitor!WaitingReaders' = Monitor!WaitingReaders
      /\ Monitor!WaitingWriters' = Monitor!WaitingWriters
  BY DEF Monitor!ActiveReaders, Monitor!WaitingReaders, Monitor!WaitingWriters,
         ReaderWaits, ReaderActive, WriterWaits
<1>2. NumbersOK' /\ CountsOK'
  BY <1>1 DEF MonitorInv, NumbersOK, CountsOK
<1> QED
  BY <1>2 DEF MonitorInv, AllEnded

\* Setting can_read may also wake a reader, which goes on waiting for the mutex.
LEMMA SetCanReadInv ==
    ASSUME MonitorInv, NEW t \in Children, NEW from, NEW to, Monitor!SetCanRead(t, from, to),
           from \notin {"exited", "asleep"},
           t \in Readers => from = "signal" /\ to = "release",
           t \in Writers => from = "wakeReader" /\ to = "loop"
    PROVE  MonitorInv'
<1>1. PlacesOK /\ tpc[t] = from /\ main # "failed" /\ main' = main
  BY NotFailed DEF MonitorInv, Monitor!SetCanRead, Monitor!SetEvent
<1>2. UNCHANGED <<waiting_readers, waiting_writers, active_readers, writing, can_write,
                  mutex, tflag>>
  BY DEF Monitor!SetCanRead, Monitor!counters
<1>3. ValuesOK'
  <2>1. can_read' \in BOOLEAN
    BY DEF Monitor!SetCanRead, Monitor!Signalled
  <2> QED
    BY <1>1, <1>2, <2>1 DEF MonitorInv, ValuesOK
<1>4. \/ tpc' = [tpc EXCEPT ![t] = to]
      \/ \E u \in Readers : tpc[u] = "asleep" /\ tpc' = [tpc EXCEPT ![t] = to, ![u] = "lock"]
  BY DEF Monitor!SetCanRead, Monitor!SetEvent
<1>5. /\ tpc'[t] = to
      /\ \A u \in Children \ {t} :
            \/ tpc'[u] = tpc[u]
            \/ u \in Readers /\ tpc[u] = "asleep" /\ tpc'[u] = "lock"
  <2>1. ASSUME tpc' = [tpc EXCEPT ![t] = to]
        PROVE  tpc'[t] = to /\ \A u \in Children \ {t} : tpc'[u] = tpc[u]
    BY <1>1, <2>1 DEF PlacesOK
  <2>2. ASSUME NEW u \in Readers, tpc[u] = "asleep",
               tpc' = [tpc EXCEPT ![t] = to, ![u] = "lock"]
        PROVE  /\ tpc'[t] = to /\ tpc'[u] = "lock"
               /\ \A v \in Children \ {t, u} : tpc'[v] = tpc[v]
    BY <1>1, <2>2 DEF PlacesOK, Children
  <2> QED
    BY <1>4, <2>1, <2>2
<1>6. \A r \in Readers : /\ tpc'[r] \in Monitor!ReaderPC
                         /\ tpc[r] \in ReaderWaits <=> tpc'[r] \in ReaderWaits
                         /\ tpc[r] \in ReaderActive <=> tpc'[r] \in ReaderActive
  BY <1>1, <1>5 DEF PlacesOK, Children, Monitor!ReaderPC, ReaderWaits, ReaderActive
<1>7. \A w \in Writers : /\ tpc'[w] \in Monitor!WriterPC
                         /\ tpc[w] \in WriterWaits <=> tpc'[w] \in WriterWaits
  BY <1>1, <1>5, ProcsAssumption DEF PlacesOK, Children, Monitor!WriterPC, WriterWaits
<1>8. PlacesOK'
  <2>1. tpc' \in [Children -> Monitor!ReaderPC \cup Monitor!WriterPC]
    <3>1. to \in Monitor!ReaderPC \cup Monitor!WriterPC
          /\ "lock" \in Monitor!ReaderPC \cup Monitor!WriterPC
      BY DEF Children, Monitor!ReaderPC, Monitor!WriterPC
    <3> QED
      BY <1>1, <1>4, <3>1 DEF PlacesOK
  <2> QED
    BY <1>6, <1>7, <2>1 DEF PlacesOK
<1> QED
  BY <1>1, <1>2, <1>3, <1>6, <1>7, <1>8, NobodyCrosses

\* Setting can_write may also wake a writer, which is then about to be taken off
\* waiting_writers.
LEMMA SetCanWriteInv ==
    ASSUME MonitorInv, NEW t \in Children, NEW from, NEW to, Monitor!SetCanWrite(t, from, to),
           from \notin {"exited", "asleep"},
           t \in Readers => from = "wake" /\ to = "loop",
           t \in Writers => from = "wakeWriter" /\ to = "loop"
    PROVE  MonitorInv'
<1>1. PlacesOK /\ tpc[t] = from /\ main # "failed" /\ main' = main
  BY NotFailed DEF MonitorInv, Monitor!SetCanWrite, Monitor!SetEvent
<1>2. UNCHANGED <<waiting_readers, waiting_writers, active_readers, writing, can_read,
                  mutex, tflag>>
  BY DEF Monitor!SetCanWrite, Monitor!counters
<1>3. ValuesOK'
  <2>1. can_write' \in BOOLEAN
    BY DEF Monitor!SetCanWrite, Monitor!Signalled
  <2> QED
    BY <1>1, <1>2, <2>1 DEF MonitorInv, ValuesOK
<1>4. \/ tpc' = [tpc EXCEPT ![t] = to]
      \/ \E u \in Writers : tpc[u] = "asleep" /\ tpc' = [tpc EXCEPT ![t] = to, ![u] = "dec"]
  BY DEF Monitor!SetCanWrite, Monitor!SetEvent
<1>5. /\ tpc'[t] = to
      /\ \A u \in Children \ {t} :
            \/ tpc'[u] = tpc[u]
            \/ u \in Writers /\ tpc[u] = "asleep" /\ tpc'[u] = "dec"
  <2>1. ASSUME tpc' = [tpc EXCEPT ![t] = to]
        PROVE  tpc'[t] = to /\ \A u \in Children \ {t} : tpc'[u] = tpc[u]
    BY <1>1, <2>1 DEF PlacesOK
  <2>2. ASSUME NEW u \in Writers, tpc[u] = "asleep",
               tpc' = [tpc EXCEPT ![t] = to, ![u] = "dec"]
        PROVE  /\ tpc'[t] = to /\ tpc'[u] = "dec"
               /\ \A v \in Children \ {t, u} : tpc'[v] = tpc[v]
    BY <1>1, <2>2 DEF PlacesOK, Children
  <2> QED
    BY <1>4, <2>1, <2>2
<1>6. \A r \in Readers : /\ tpc'[r] \in Monitor!ReaderPC
                         /\ tpc[r] \in ReaderWaits <=> tpc'[r] \in ReaderWaits
                         /\ tpc[r] \in ReaderActive <=> tpc'[r] \in ReaderActive
  BY <1>1, <1>5, ProcsAssumption
  DEF PlacesOK, Children, Monitor!ReaderPC, ReaderWaits, ReaderActive
<1>7. \A w \in Writers : /\ tpc'[w] \in Monitor!WriterPC
                         /\ tpc[w] \in WriterWaits <=> tpc'[w] \in WriterWaits
  BY <1>1, <1>5 DEF PlacesOK, Children, Monitor!WriterPC, WriterWaits
<1>8. PlacesOK'
  <2>1. tpc' \in [Children -> Monitor!ReaderPC \cup Monitor!WriterPC]
    <3>1. to \in Monitor!ReaderPC \cup Monitor!WriterPC
          /\ "dec" \in Monitor!ReaderPC \cup Monitor!WriterPC
      BY DEF Children, Monitor!ReaderPC, Monitor!WriterPC
    <3> QED
      BY <1>1, <1>4, <3>1 DEF PlacesOK
  <2> QED
    BY <1>6, <1>7, <2>1 DEF PlacesOK
<1> QED
  BY <1>1, <1>2, <1>3, <1>6, <1>7, <1>8, NobodyCrosses

\* A thread that moves leaves the others where they are.
LEMMA Moves ==
    ASSUME MonitorInv, NEW t \in Children, NEW from, NEW to, Monitor!Goes(t, from, to),
           t \in Readers => to \in Monitor!ReaderPC,
           t \in Writers => to \in Monitor!WriterPC
    PROVE  /\ PlacesOK' /\ tpc[t] = from /\ tpc'[t] = to
           /\ \A u \in Children \ {t} : tpc'[u] = tpc[u]
<1>1. PlacesOK /\ tpc[t] = from /\ tpc' = [tpc EXCEPT ![t] = to]
  BY DEF MonitorInv, Monitor!Goes
<1>2. tpc'[t] = to /\ \A u \in Children \ {t} : tpc'[u] = tpc[u]
  BY <1>1 DEF PlacesOK
<1>3. to \in Monitor!ReaderPC \cup Monitor!WriterPC
  BY DEF Children
<1>4. tpc' \in [Children -> Monitor!ReaderPC \cup Monitor!WriterPC]
  BY <1>1, <1>3 DEF PlacesOK
<1>5. /\ \A r \in Readers : tpc'[r] \in Monitor!ReaderPC
      /\ \A w \in Writers : tpc'[w] \in Monitor!WriterPC
  BY <1>1, <1>2 DEF PlacesOK, Children
<1> QED
  BY <1>1, <1>2, <1>4, <1>5 DEF PlacesOK

\* Counters that count the threads stay in their range.
LEMMA CountsAgain ==
    ASSUME ValuesOK', PlacesOK', main' # "failed",
           active_readers' = Cardinality(Monitor!ActiveReaders'),
           waiting_readers' = Cardinality(Monitor!WaitingReaders'),
           waiting_writers' = Cardinality(Monitor!WaitingWriters')
    PROVE  MonitorInv'
<1>1. /\ Monitor!ActiveReaders' \subseteq Readers /\ Monitor!WaitingReaders' \subseteq Readers
      /\ Monitor!WaitingWriters' \subseteq Writers
  BY DEF Monitor!ActiveReaders, Monitor!WaitingReaders, Monitor!WaitingWriters
<1>2. \A S \in SUBSET Readers : Cardinality(S) \in 0 .. Cardinality(Readers)
  BY ProcsAssumption, FS_Subset, FS_CardinalityType
<1>3. \A S \in SUBSET Writers : Cardinality(S) \in 0 .. Cardinality(Writers)
  BY ProcsAssumption, FS_Subset, FS_CardinalityType
<1>4. NumbersOK'
  BY <1>1, <1>2, <1>3 DEF NumbersOK
<1> QED
  BY <1>4 DEF MonitorInv, CountsOK, AllEnded

\* One thread more or less in a finite set.
LEMMA OneMoreOrLess ==
    ASSUME NEW S, IsFiniteSet(S), NEW e, NEW T
    PROVE  /\ e \notin S /\ T = S \cup {e} => Cardinality(T) = Cardinality(S) + 1
           /\ e \in S /\ T = S \ {e} => Cardinality(T) = Cardinality(S) - 1
  BY FS_AddElement, FS_RemoveElement

-----------------------------------------------------------------------------
(* The steps that write a counter *)

\* start_read: a reader is counted as waiting.
LEMMA EnterReadInv ==
    ASSUME MonitorInv, NEW r \in Readers, Monitor!EnterRead(r)
    PROVE  MonitorInv'
<1>1. r \in Children /\ r \notin Writers
  BY ProcsAssumption DEF Children
<1>2. /\ PlacesOK' /\ tpc[r] = "loop" /\ tpc'[r] = "test"
      /\ \A u \in Children \ {r} : tpc'[u] = tpc[u]
  BY <1>1, Moves DEF Monitor!EnterRead, Monitor!ReaderPC
<1>3. ValuesOK' /\ main' = main /\ main # "failed"
  BY <1>1, <1>2, NotFailed DEF Monitor!EnterRead, Monitor!events, MonitorInv, ValuesOK
<1>4. /\ Monitor!WaitingReaders' = Monitor!WaitingReaders \cup {r}
      /\ r \notin Monitor!WaitingReaders
      /\ Monitor!ActiveReaders' = Monitor!ActiveReaders
      /\ Monitor!WaitingWriters' = Monitor!WaitingWriters
  BY <1>1, <1>2 DEF Monitor!ActiveReaders, Monitor!WaitingReaders, Monitor!WaitingWriters,
                    Children
<1>5. Cardinality(Monitor!WaitingReaders') = Cardinality(Monitor!WaitingReaders) + 1
  BY <1>4, MonitorFinite, OneMoreOrLess
<1>6. /\ waiting_readers' = waiting_readers + 1
      /\ active_readers' = active_readers /\ waiting_writers' = waiting_writers
  BY DEF Monitor!EnterRead
<1>7. CountsOK
  BY DEF MonitorInv
<1> QED
  BY <1>2, <1>3, <1>4, <1>5, <1>6, <1>7, CountsAgain DEF CountsOK

\* start_read: with the mutex, the reader is taken off the waiting ones,
LEMMA DecWaitingRInv ==
    ASSUME MonitorInv, NEW r \in Readers, Monitor!DecWaitingR(r)
    PROVE  MonitorInv'
<1>1. r \in Children /\ r \notin Writers
  BY ProcsAssumption DEF Children
<1>2. /\ PlacesOK' /\ tpc[r] = "dec" /\ tpc'[r] = "inc"
      /\ \A u \in Children \ {r} : tpc'[u] = tpc[u]
  BY <1>1, Moves DEF Monitor!DecWaitingR, Monitor!ReaderPC
<1>3. ValuesOK' /\ main' = main /\ main # "failed"
  BY <1>1, <1>2, NotFailed DEF Monitor!DecWaitingR, Monitor!events, MonitorInv, ValuesOK
<1>4. /\ Monitor!WaitingReaders' = Monitor!WaitingReaders \ {r}
      /\ r \in Monitor!WaitingReaders
      /\ Monitor!ActiveReaders' = Monitor!ActiveReaders
      /\ Monitor!WaitingWriters' = Monitor!WaitingWriters
  BY <1>1, <1>2 DEF Monitor!ActiveReaders, Monitor!WaitingReaders, Monitor!WaitingWriters,
                    Children
<1>5. Cardinality(Monitor!WaitingReaders') = Cardinality(Monitor!WaitingReaders) - 1
  BY <1>4, MonitorFinite, OneMoreOrLess
<1>6. /\ waiting_readers' = waiting_readers - 1
      /\ active_readers' = active_readers /\ waiting_writers' = waiting_writers
  BY DEF Monitor!DecWaitingR
<1>7. CountsOK
  BY DEF MonitorInv
<1> QED
  BY <1>2, <1>3, <1>4, <1>5, <1>6, <1>7, CountsAgain DEF CountsOK

\* and is counted as active.
LEMMA IncActiveInv ==
    ASSUME MonitorInv, NEW r \in Readers, Monitor!IncActive(r)
    PROVE  MonitorInv'
<1>1. r \in Children /\ r \notin Writers
  BY ProcsAssumption DEF Children
<1>2. /\ PlacesOK' /\ tpc[r] = "inc" /\ tpc'[r] = "signal"
      /\ \A u \in Children \ {r} : tpc'[u] = tpc[u]
  BY <1>1, Moves DEF Monitor!IncActive, Monitor!ReaderPC
<1>3. ValuesOK' /\ main' = main /\ main # "failed"
  BY <1>1, <1>2, NotFailed DEF Monitor!IncActive, Monitor!events, MonitorInv, ValuesOK
<1>4. /\ Monitor!ActiveReaders' = Monitor!ActiveReaders \cup {r}
      /\ r \notin Monitor!ActiveReaders
      /\ Monitor!WaitingReaders' = Monitor!WaitingReaders
      /\ Monitor!WaitingWriters' = Monitor!WaitingWriters
  BY <1>1, <1>2 DEF Monitor!ActiveReaders, Monitor!WaitingReaders, Monitor!WaitingWriters,
                    Children
<1>5. Cardinality(Monitor!ActiveReaders') = Cardinality(Monitor!ActiveReaders) + 1
  BY <1>4, MonitorFinite, OneMoreOrLess
<1>6. /\ active_readers' = active_readers + 1
      /\ waiting_readers' = waiting_readers /\ waiting_writers' = waiting_writers
  BY DEF Monitor!IncActive
<1>7. CountsOK
  BY DEF MonitorInv
<1> QED
  BY <1>2, <1>3, <1>4, <1>5, <1>6, <1>7, CountsAgain DEF CountsOK

\* stop_read: a reader is no longer active.
LEMMA LeaveReadInv ==
    ASSUME MonitorInv, NEW r \in Readers, Monitor!LeaveRead(r)
    PROVE  MonitorInv'
<1>1. r \in Children /\ r \notin Writers
  BY ProcsAssumption DEF Children
<1>2. /\ PlacesOK' /\ tpc[r] = "inside" /\ tpc'[r] = "check"
      /\ \A u \in Children \ {r} : tpc'[u] = tpc[u]
  BY <1>1, Moves DEF Monitor!LeaveRead, Monitor!ReaderPC
<1>3. ValuesOK' /\ main' = main /\ main # "failed"
  BY <1>1, <1>2, NotFailed DEF Monitor!LeaveRead, Monitor!events, MonitorInv, ValuesOK
<1>4. /\ Monitor!ActiveReaders' = Monitor!ActiveReaders \ {r}
      /\ r \in Monitor!ActiveReaders
      /\ Monitor!WaitingReaders' = Monitor!WaitingReaders
      /\ Monitor!WaitingWriters' = Monitor!WaitingWriters
  BY <1>1, <1>2 DEF Monitor!ActiveReaders, Monitor!WaitingReaders, Monitor!WaitingWriters,
                    Children
<1>5. Cardinality(Monitor!ActiveReaders') = Cardinality(Monitor!ActiveReaders) - 1
  BY <1>4, MonitorFinite, OneMoreOrLess
<1>6. /\ active_readers' = active_readers - 1
      /\ waiting_readers' = waiting_readers /\ waiting_writers' = waiting_writers
  BY DEF Monitor!LeaveRead
<1>7. CountsOK
  BY DEF MonitorInv
<1> QED
  BY <1>2, <1>3, <1>4, <1>5, <1>6, <1>7, CountsAgain DEF CountsOK

\* start_write: a writer is counted as waiting,
LEMMA EnterWriteInv ==
    ASSUME MonitorInv, NEW w \in Writers, Monitor!EnterWrite(w)
    PROVE  MonitorInv'
<1>1. w \in Children /\ w \notin Readers
  BY ProcsAssumption DEF Children
<1>2. /\ PlacesOK' /\ tpc[w] = "loop" /\ tpc'[w] = "testReaders"
      /\ \A u \in Children \ {w} : tpc'[u] = tpc[u]
  BY <1>1, Moves DEF Monitor!EnterWrite, Monitor!WriterPC
<1>3. ValuesOK' /\ main' = main /\ main # "failed"
  BY <1>1, <1>2, NotFailed DEF Monitor!EnterWrite, Monitor!events, MonitorInv, ValuesOK
<1>4. /\ Monitor!WaitingWriters' = Monitor!WaitingWriters \cup {w}
      /\ w \notin Monitor!WaitingWriters
      /\ Monitor!WaitingReaders' = Monitor!WaitingReaders
      /\ Monitor!ActiveReaders' = Monitor!ActiveReaders
  BY <1>1, <1>2 DEF Monitor!ActiveReaders, Monitor!WaitingReaders, Monitor!WaitingWriters,
                    Children
<1>5. Cardinality(Monitor!WaitingWriters') = Cardinality(Monitor!WaitingWriters) + 1
  BY <1>4, MonitorFinite, OneMoreOrLess
<1>6. /\ waiting_writers' = waiting_writers + 1
      /\ waiting_readers' = waiting_readers /\ active_readers' = active_readers
  BY DEF Monitor!EnterWrite
<1>7. CountsOK
  BY DEF MonitorInv
<1> QED
  BY <1>2, <1>3, <1>4, <1>5, <1>6, <1>7, CountsAgain DEF CountsOK

\* and is taken off the waiting ones once it may write.
LEMMA DecWaitingWInv ==
    ASSUME MonitorInv, NEW w \in Writers, Monitor!DecWaitingW(w)
    PROVE  MonitorInv'
<1>1. w \in Children /\ w \notin Readers
  BY ProcsAssumption DEF Children
<1>2. /\ PlacesOK' /\ tpc[w] = "dec" /\ tpc'[w] = "set"
      /\ \A u \in Children \ {w} : tpc'[u] = tpc[u]
  BY <1>1, Moves DEF Monitor!DecWaitingW, Monitor!WriterPC
<1>3. ValuesOK' /\ main' = main /\ main # "failed"
  BY <1>1, <1>2, NotFailed DEF Monitor!DecWaitingW, Monitor!events, MonitorInv, ValuesOK
<1>4. /\ Monitor!WaitingWriters' = Monitor!WaitingWriters \ {w}
      /\ w \in Monitor!WaitingWriters
      /\ Monitor!WaitingReaders' = Monitor!WaitingReaders
      /\ Monitor!ActiveReaders' = Monitor!ActiveReaders
  BY <1>1, <1>2 DEF Monitor!ActiveReaders, Monitor!WaitingReaders, Monitor!WaitingWriters,
                    Children
<1>5. Cardinality(Monitor!WaitingWriters') = Cardinality(Monitor!WaitingWriters) - 1
  BY <1>4, MonitorFinite, OneMoreOrLess
<1>6. /\ waiting_writers' = waiting_writers - 1
      /\ waiting_readers' = waiting_readers /\ active_readers' = active_readers
  BY DEF Monitor!DecWaitingW
<1>7. CountsOK
  BY DEF MonitorInv
<1> QED
  BY <1>2, <1>3, <1>4, <1>5, <1>6, <1>7, CountsAgain DEF CountsOK

-----------------------------------------------------------------------------
(* The other steps *)

\* A step with Goes that keeps the counters and main.
LEMMA QuietGoes ==
    ASSUME MonitorInv, ValuesOK', NEW t \in Children, NEW from, NEW to,
           Monitor!Goes(t, from, to), from # "exited", main' = main,
           UNCHANGED <<waiting_readers, waiting_writers, active_readers>>,
           t \in Readers => /\ to \in Monitor!ReaderPC
                            /\ from \in ReaderWaits <=> to \in ReaderWaits
                            /\ from \in ReaderActive <=> to \in ReaderActive,
           t \in Writers => /\ to \in Monitor!WriterPC
                            /\ from \in WriterWaits <=> to \in WriterWaits
    PROVE  MonitorInv'
<1>1. /\ PlacesOK' /\ tpc[t] = from /\ tpc'[t] = to
      /\ \A u \in Children \ {t} : tpc'[u] = tpc[u]
  BY Moves
<1>2. main # "failed"
  BY <1>1, NotFailed
<1>3. \A r \in Readers : /\ tpc[r] \in ReaderWaits <=> tpc'[r] \in ReaderWaits
                         /\ tpc[r] \in ReaderActive <=> tpc'[r] \in ReaderActive
  BY <1>1 DEF Children
<1>4. \A w \in Writers : tpc[w] \in WriterWaits <=> tpc'[w] \in WriterWaits
  BY <1>1 DEF Children
<1> QED
  BY <1>1, <1>2, <1>3, <1>4, NobodyCrosses

\* A step that changes nothing but a pc keeps the types of the rest.
LEMMA QuietValues ==
    ASSUME MonitorInv, Monitor!Quiet
    PROVE  /\ ValuesOK' /\ main' = main
           /\ UNCHANGED <<waiting_readers, waiting_writers, active_readers>>
<1>1. /\ UNCHANGED <<can_read, can_write, writing, tflag, mutex, main>>
      /\ UNCHANGED <<waiting_readers, waiting_writers, active_readers>>
  BY DEF Monitor!Quiet, Monitor!events, Monitor!counters
<1> QED
  BY <1>1 DEF MonitorInv, ValuesOK

\* Every step of a reader keeps the invariant.
LEMMA ReaderStepInv ==
    ASSUME MonitorInv, NEW r \in Readers, Monitor!ReaderStep(r)
    PROVE  MonitorInv'
<1>1. r \in Children /\ r \notin Writers
  BY ProcsAssumption DEF Children
<1>2. ValuesOK
  BY DEF MonitorInv
<1> USE <1>1
<1>3. ASSUME NEW from, NEW to, Monitor!Goes(r, from, to), Monitor!Quiet, from # "exited",
             to \in Monitor!ReaderPC, from \in ReaderWaits <=> to \in ReaderWaits,
             from \in ReaderActive <=> to \in ReaderActive
      PROVE  MonitorInv'
  BY <1>3, QuietValues, QuietGoes
<1>4. CASE Monitor!TestWritingR(r)
  BY <1>3, <1>4 DEF Monitor!TestWritingR, ReaderWaits, ReaderActive, Monitor!ReaderPC
<1>5. CASE Monitor!PollCanWrite(r)
  <2>1. can_write' = FALSE /\ UNCHANGED <<can_read, writing, tflag, mutex, main,
                                 waiting_readers, waiting_writers, active_readers>>
    BY <1>5 DEF Monitor!PollCanWrite, Monitor!counters
  <2>2. ValuesOK'
    BY <1>2, <2>1 DEF ValuesOK
  <2>3. \E to \in {"wait", "lock"} : Monitor!Goes(r, "poll", to)
    BY <1>5 DEF Monitor!PollCanWrite
  <2> QED
    BY <2>1, <2>2, <2>3, QuietGoes DEF ReaderWaits, ReaderActive, Monitor!ReaderPC
<1>6. CASE Monitor!WaitCanRead(r)
  <2>1. can_read' = FALSE /\ UNCHANGED <<can_write, writing, tflag, mutex, main,
                                waiting_readers, waiting_writers, active_readers>>
    BY <1>6 DEF Monitor!WaitCanRead, Monitor!counters
  <2>2. ValuesOK'
    BY <1>2, <2>1 DEF ValuesOK
  <2>3. \E to \in {"lock", "asleep"} : Monitor!Goes(r, "wait", to)
    BY <1>6 DEF Monitor!WaitCanRead
  <2> QED
    BY <2>1, <2>2, <2>3, QuietGoes DEF ReaderWaits, ReaderActive, Monitor!ReaderPC
<1>7. CASE Monitor!Lock(r)
  <2>1. mutex' = {r} /\ UNCHANGED <<can_read, can_write, writing, tflag, main,
                             waiting_readers, waiting_writers, active_readers>>
    BY <1>7 DEF Monitor!Lock, Monitor!counters, Monitor!events
  <2>2. Cardinality(mutex') = 1
    BY <2>1, FS_Singleton
  <2>3. ValuesOK'
    BY <1>2, <2>1, <2>2 DEF ValuesOK
  <2> QED
    BY <1>7, <2>1, <2>3, QuietGoes DEF Monitor!Lock, ReaderWaits, ReaderActive, Monitor!ReaderPC
<1>8. CASE Monitor!Release(r)
  <2>1. mutex' = mutex \ {r} /\ UNCHANGED <<can_read, can_write, writing, tflag, main,
                                     waiting_readers, waiting_writers, active_readers>>
    BY <1>8 DEF Monitor!Release, Monitor!counters, Monitor!events
  <2>2. Cardinality(mutex') <= 1
    <3>1. IsFiniteSet(mutex)
      BY <1>2, ProcsAssumption, FS_Subset DEF ValuesOK
    <3>2. /\ Cardinality(mutex') <= Cardinality(mutex)
          /\ Cardinality(mutex) \in Nat /\ Cardinality(mutex') \in Nat
      <4>1. mutex' \subseteq mutex
        BY <2>1
      <4> QED
        BY <3>1, <4>1, FS_Subset, FS_CardinalityType
    <3> QED
      BY <1>2, <3>2 DEF ValuesOK
  <2>3. ValuesOK'
    BY <1>2, <2>1, <2>2 DEF ValuesOK
  <2> QED
    BY <1>8, <2>1, <2>3, QuietGoes DEF Monitor!Release, ReaderWaits, ReaderActive, Monitor!ReaderPC
<1>9. CASE Monitor!LastReader(r)
  BY <1>3, <1>9 DEF Monitor!LastReader, ReaderWaits, ReaderActive, Monitor!ReaderPC
<1>10. CASE Monitor!ChainReaders(r)
  BY <1>10, SetCanReadInv DEF Monitor!ChainReaders
<1>11. CASE Monitor!WakeAfterRead(r)
  BY <1>11, SetCanWriteInv DEF Monitor!WakeAfterRead
<1> QED
  BY <1>4, <1>5, <1>6, <1>7, <1>8, <1>9, <1>10, <1>11, EnterReadInv, DecWaitingRInv,
     IncActiveInv, LeaveReadInv
  DEF Monitor!ReaderStep

\* Every step of a writer keeps the invariant.
LEMMA WriterStepInv ==
    ASSUME MonitorInv, NEW w \in Writers, Monitor!WriterStep(w)
    PROVE  MonitorInv'
<1>1. w \in Children /\ w \notin Readers
  BY ProcsAssumption DEF Children
<1>2. ValuesOK
  BY DEF MonitorInv
<1> USE <1>1
<1>3. ASSUME NEW from, NEW to, Monitor!Goes(w, from, to), Monitor!Quiet, from # "exited",
             to \in Monitor!WriterPC, from \in WriterWaits <=> to \in WriterWaits
      PROVE  MonitorInv'
  BY <1>3, QuietValues, QuietGoes
<1>4. CASE Monitor!TestReaders(w)
  BY <1>3, <1>4 DEF Monitor!TestReaders, WriterWaits, Monitor!WriterPC
<1>5. CASE Monitor!TestWritingW(w)
  BY <1>3, <1>5 DEF Monitor!TestWritingW, WriterWaits, Monitor!WriterPC
<1>6. CASE Monitor!WaitCanWrite(w)
  <2>1. can_write' = FALSE /\ UNCHANGED <<can_read, writing, tflag, mutex, main,
                                 waiting_readers, waiting_writers, active_readers>>
    BY <1>6 DEF Monitor!WaitCanWrite, Monitor!counters
  <2>2. ValuesOK'
    BY <1>2, <2>1 DEF ValuesOK
  <2>3. \E to \in {"dec", "asleep"} : Monitor!Goes(w, "wait", to)
    BY <1>6 DEF Monitor!WaitCanWrite
  <2> QED
    BY <2>1, <2>2, <2>3, QuietGoes DEF WriterWaits, Monitor!WriterPC
<1>7. ASSUME NEW from, NEW to, NEW value \in BOOLEAN, Monitor!SetWriting(w, from, to, value),
             from # "exited", to \in Monitor!WriterPC, from \in WriterWaits <=> to \in WriterWaits
      PROVE  MonitorInv'
  <2>1. writing' \in BOOLEAN /\ UNCHANGED <<can_read, can_write, tflag, mutex, main,
                                 waiting_readers, waiting_writers, active_readers>>
    BY <1>7 DEF Monitor!SetWriting, Monitor!events
  <2>2. ValuesOK'
    BY <1>2, <2>1 DEF ValuesOK
  <2> QED
    BY <1>7, <2>1, <2>2, QuietGoes DEF Monitor!SetWriting
<1>8. CASE Monitor!BeginWriting(w)
  BY <1>7, <1>8 DEF Monitor!BeginWriting, WriterWaits, Monitor!WriterPC
<1>9. CASE Monitor!EndWriting(w)
  BY <1>7, <1>9 DEF Monitor!EndWriting, WriterWaits, Monitor!WriterPC
<1>10. CASE Monitor!Choose(w)
  BY <1>3, <1>10 DEF Monitor!Choose, WriterWaits, Monitor!WriterPC
<1>11. CASE Monitor!WakeReader(w)
  BY <1>11, SetCanReadInv DEF Monitor!WakeReader
<1>12. CASE Monitor!WakeWriter(w)
  BY <1>12, SetCanWriteInv DEF Monitor!WakeWriter
<1> QED
  BY <1>4, <1>5, <1>6, <1>8, <1>9, <1>10, <1>11, <1>12, EnterWriteInv, DecWaitingWInv
  DEF Monitor!WriterStep

\* Every step of the program keeps the invariant.
LEMMA MonitorStep ==
    ASSUME MonitorInv, [Monitor!Next]_(Monitor!vars)
    PROVE  MonitorInv'
<1>1. ValuesOK /\ PlacesOK /\ NumbersOK /\ CountsOK /\ AllEnded
  BY DEF MonitorInv
<1>2. CASE UNCHANGED Monitor!vars
  <2>1. UNCHANGED <<can_read, can_write, mutex, waiting_readers, waiting_writers,
                    active_readers, writing, tflag, main, tpc>>
    BY <1>2 DEF Monitor!vars
  <2>2. /\ Monitor!ActiveReaders' = Monitor!ActiveReaders
        /\ Monitor!WaitingReaders' = Monitor!WaitingReaders
        /\ Monitor!WaitingWriters' = Monitor!WaitingWriters
    BY <2>1 DEF Monitor!ActiveReaders, Monitor!WaitingReaders, Monitor!WaitingWriters
  <2>3. ValuesOK' /\ PlacesOK' /\ AllEnded'
    BY <1>1, <2>1 DEF ValuesOK, PlacesOK, AllEnded
  <2>4. NumbersOK' /\ CountsOK'
    BY <1>1, <2>1, <2>2 DEF NumbersOK, CountsOK
  <2> QED
    BY <2>3, <2>4 DEF MonitorInv
<1>3. ASSUME NEW t \in Children, Monitor!Create(t) \/ Monitor!Leave(t)
      PROVE  MonitorInv'
  <2>1. Monitor!Quiet
    BY <1>3 DEF Monitor!Create, Monitor!Leave
  <2>2. \/ Monitor!Goes(t, "new", "loop")
        \/ Monitor!Goes(t, "loop", "exited")
    BY <1>3 DEF Monitor!Create, Monitor!Leave
  <2> QED
    BY <2>1, <2>2, QuietValues, QuietGoes
    DEF ReaderWaits, ReaderActive, WriterWaits, Monitor!ReaderPC, Monitor!WriterPC
<1>4. CASE Monitor!CreateFails
  <2>1. /\ main' = "failed"
        /\ UNCHANGED <<can_read, can_write, mutex, waiting_readers, waiting_writers,
                       active_readers, writing, tflag>>
    BY <1>4 DEF Monitor!CreateFails, Monitor!events, Monitor!counters
  <2>2. tpc' = [t \in Children |-> "exited"]
    BY <1>4 DEF Monitor!CreateFails, Monitor!Threads, Children
  <2>3. PlacesOK' /\ AllEnded'
    BY <2>2 DEF PlacesOK, AllEnded, Children, Monitor!ReaderPC, Monitor!WriterPC
  <2>4. ValuesOK' /\ NumbersOK' /\ CountsOK'
    BY <1>1, <2>1 DEF ValuesOK, NumbersOK, CountsOK
  <2> QED
    BY <2>3, <2>4 DEF MonitorInv
<1>5. CASE Monitor!End \/ Monitor!sig_catch
  <2>1. /\ main # "failed" /\ main' \in {"runs", "ended"} /\ tflag' \in {tflag, FALSE}
        /\ UNCHANGED <<can_read, can_write, mutex, waiting_readers, waiting_writers,
                       active_readers, writing, tpc>>
    BY <1>5 DEF Monitor!End, Monitor!sig_catch, Monitor!events, Monitor!counters
  <2>2. /\ Monitor!ActiveReaders' = Monitor!ActiveReaders
        /\ Monitor!WaitingReaders' = Monitor!WaitingReaders
        /\ Monitor!WaitingWriters' = Monitor!WaitingWriters
    BY <2>1 DEF Monitor!ActiveReaders, Monitor!WaitingReaders, Monitor!WaitingWriters
  <2>3. ValuesOK' /\ PlacesOK' /\ AllEnded'
    BY <1>1, <2>1 DEF ValuesOK, PlacesOK, AllEnded
  <2>4. NumbersOK' /\ CountsOK'
    BY <1>1, <2>1, <2>2 DEF NumbersOK, CountsOK
  <2> QED
    BY <2>3, <2>4 DEF MonitorInv
<1> QED
  BY <1>2, <1>3, <1>4, <1>5, ReaderStepInv, WriterStepInv
  DEF Monitor!Next, Monitor!Threads, Children

\* Every execution of the Windows program satisfies the invariant.
LEMMA MonitorInvariant == Monitor!Spec => []MonitorInv
  BY MonitorInitInv, MonitorStep, PTL DEF Monitor!Spec

\* waiting_readers, waiting_writers and active_readers, on which start_read,
\* start_write, stop_read and stop_write decide whom to wake, count the threads
\* they are named after in every interleaving of the interlocked updates,
\* whatever the events do and for any number of threads.
THEOREM MonitorCounts == MonitorSpec => []CountersCount
<1>1. MonitorInv => Monitor!CountersCount
  <2> SUFFICES ASSUME MonitorInv PROVE Monitor!CountersCount
    OBVIOUS
  <2>1. ValuesOK /\ PlacesOK /\ NumbersOK /\ CountsOK
    BY DEF MonitorInv
  <2>2. /\ Monitor!Cardinality(mutex) = Cardinality(mutex)
        /\ Monitor!Cardinality(Readers) = Cardinality(Readers)
        /\ Monitor!Cardinality(Writers) = Cardinality(Writers)
        /\ Monitor!Cardinality(Monitor!ActiveReaders) = Cardinality(Monitor!ActiveReaders)
        /\ Monitor!Cardinality(Monitor!WaitingReaders) = Cardinality(Monitor!WaitingReaders)
        /\ Monitor!Cardinality(Monitor!WaitingWriters) = Cardinality(Monitor!WaitingWriters)
    BY SameCardinality
  <2>3. Monitor!TypeOK
    BY <2>1, <2>2 DEF ValuesOK, PlacesOK, NumbersOK, Monitor!TypeOK
  <2> QED
    BY <2>1, <2>2, <2>3 DEF CountsOK, Monitor!CountersCount
<1>2. MonitorInit => Monitor!Init
  BY DEF MonitorInit
<1>3. [Monitor!Next /\ UNCHANGED vars]_bothVars => [Monitor!Next]_Monitor!vars
  BY DEF bothVars
<1> QED
  BY <1>1, <1>2, <1>3, MonitorInvariant, PTL DEF MonitorSpec, Monitor!Spec, CountersCount

-----------------------------------------------------------------------------
(***************************************************************************)
(* The monitor does not stand still.  A pass to read goes round: it is in  *)
(* can_read or with a reader on its way through start_read, which hands it *)
(* on.  Until there is one no reader has got in, and writers wait only for *)
(* a writer inside.                                                        *)
(***************************************************************************)
Passing == {"lock", "dec", "inc", "signal"}

PassIsOut == can_read \/ \E r \in Readers : tpc[r] \in Passing

NotYetIn == {"new", "loop", "test", "poll", "wait", "asleep", "exited"}

PassGoesRound ==
    \/ PassIsOut
    \/ /\ \A r \in Readers : tpc[r] \in NotYetIn
       /\ Writers # {} => \E w \in Writers : tpc[w] \notin {"wait", "asleep"}

MutexHeld ==
    \A r \in Readers : r \in mutex <=> tpc[r] \in {"dec", "inc", "signal", "release"}

\* Nobody sleeps on an event that is signalled.
SleepersOK ==
    /\ can_read => \A r \in Readers : tpc[r] # "asleep"
    /\ can_write => \A w \in Writers : tpc[w] # "asleep"

WritingIsInside == writing => \E w \in Writers : tpc[w] = "inside"

RunInv == main # "failed" => MutexHeld /\ SleepersOK /\ WritingIsInside /\ PassGoesRound

\* As long as the loops run, with at least one reader and one writer, not all
\* threads sleep in WaitForSingleObject: somebody can do its next step.
SomebodyRuns ==
    main = "runs" /\ tflag /\ Readers # {} /\ Writers # {} =>
        \E t \in Children : /\ tpc[t] # "asleep"
                            /\ t \in Readers /\ tpc[t] = "lock" => mutex = {}

\* A thread moves on by itself.
LEMMA GoesRuns ==
    ASSUME MonitorInv, NEW t \in Children, NEW from, NEW to, Monitor!Goes(t, from, to)
    PROVE  /\ tpc[t] = from /\ tpc'[t] = to
           /\ \A r \in Readers \ {t} : tpc'[r] = tpc[r]
           /\ \A w \in Writers \ {t} : tpc'[w] = tpc[w]
  BY DEF MonitorInv, PlacesOK, Monitor!Goes, Children

\* A reader's step keeps the pass in circulation.
LEMMA ReaderRuns ==
    ASSUME MonitorInv, RunInv, NEW r \in Readers, Monitor!ReaderStep(r)
    PROVE  RunInv'
<1>0. r \in Children /\ r \notin Writers
  BY ProcsAssumption DEF Children
<1>1. PlacesOK /\ ValuesOK
  BY DEF MonitorInv
<1>2. tpc[r] # "exited"
  BY DEF Monitor!ReaderStep, Monitor!EnterRead, Monitor!TestWritingR, Monitor!PollCanWrite,
         Monitor!WaitCanRead, Monitor!Lock, Monitor!DecWaitingR, Monitor!IncActive,
         Monitor!ChainReaders, Monitor!Release, Monitor!LeaveRead, Monitor!LastReader,
         Monitor!WakeAfterRead, Monitor!SetCanRead, Monitor!SetCanWrite, Monitor!SetEvent,
         Monitor!Goes
<1>3. MutexHeld /\ SleepersOK /\ WritingIsInside /\ PassGoesRound
  BY <1>0, <1>2, NotFailed DEF RunInv
<1> SUFFICES MutexHeld' /\ SleepersOK' /\ WritingIsInside' /\ PassGoesRound'
  BY DEF RunInv
<1> USE <1>0, <1>3 DEF MutexHeld, SleepersOK, WritingIsInside, PassGoesRound, PassIsOut,
                       Passing, NotYetIn
<1>4. CASE Monitor!EnterRead(r)
  BY <1>4, GoesRuns DEF Monitor!EnterRead, Monitor!events
<1>5. CASE Monitor!TestWritingR(r)
  BY <1>5, GoesRuns DEF Monitor!TestWritingR, Monitor!Quiet, Monitor!events, Monitor!counters
<1>6. CASE Monitor!PollCanWrite(r)
  BY <1>6, GoesRuns DEF Monitor!PollCanWrite, Monitor!counters
<1>7. CASE Monitor!WaitCanRead(r)
  BY <1>7, GoesRuns DEF Monitor!WaitCanRead, Monitor!counters
<1>8. CASE Monitor!Lock(r)
  BY <1>8, GoesRuns DEF Monitor!Lock, Monitor!events, Monitor!counters
<1>9. CASE Monitor!DecWaitingR(r) \/ Monitor!IncActive(r)
  BY <1>9, GoesRuns DEF Monitor!DecWaitingR, Monitor!IncActive, Monitor!events
<1>10. CASE Monitor!Release(r)
  BY <1>10, GoesRuns DEF Monitor!Release, Monitor!events, Monitor!counters
<1>11. CASE Monitor!LeaveRead(r)
  BY <1>11, GoesRuns DEF Monitor!LeaveRead, Monitor!events
<1>12. CASE Monitor!LastReader(r)
  BY <1>12, GoesRuns DEF Monitor!LastReader, Monitor!Quiet, Monitor!events, Monitor!counters
<1>13. CASE Monitor!ChainReaders(r)
  <2>1. UNCHANGED <<can_write, mutex, writing>>
    BY <1>13 DEF Monitor!ChainReaders, Monitor!SetCanRead, Monitor!counters
  <2>2. CASE \E u \in Readers : tpc[u] = "asleep"
    <3>1. PICK u \in Readers : /\ tpc[u] = "asleep"
                               /\ tpc' = [tpc EXCEPT ![r] = "release", ![u] = "lock"]
      BY <1>13, <2>2 DEF Monitor!ChainReaders, Monitor!SetCanRead, Monitor!SetEvent
    <3>2. can_read' = FALSE
      BY <1>13, <2>2 DEF Monitor!ChainReaders, Monitor!SetCanRead, Monitor!Signalled, ValuesOK
    <3>3. /\ tpc[r] = "signal" /\ tpc'[r] = "release" /\ tpc'[u] = "lock"
          /\ \A v \in Readers \ {r, u} : tpc'[v] = tpc[v]
          /\ \A w \in Writers : tpc'[w] = tpc[w]
      BY <1>1, <1>13, <3>1, ProcsAssumption
      DEF PlacesOK, Children, Monitor!ChainReaders, Monitor!SetCanRead, Monitor!SetEvent
    <3> QED
      BY <2>1, <3>1, <3>2, <3>3
  <2>3. CASE \A u \in Readers : tpc[u] # "asleep"
    <3>1. /\ tpc[r] = "signal" /\ tpc'[r] = "release"
          /\ \A v \in Children \ {r} : tpc'[v] = tpc[v]
      BY <1>1, <1>13, <2>3
      DEF PlacesOK, Monitor!ChainReaders, Monitor!SetCanRead, Monitor!SetEvent
    <3>2. can_read' = TRUE
      BY <1>13, <2>3 DEF Monitor!ChainReaders, Monitor!SetCanRead, Monitor!Signalled
    <3> QED
      BY <2>1, <2>3, <3>1, <3>2 DEF Children
  <2> QED
    BY <2>2, <2>3
<1>14. CASE Monitor!WakeAfterRead(r)
  <2>1. UNCHANGED <<can_read, mutex, writing>>
    BY <1>14 DEF Monitor!WakeAfterRead, Monitor!SetCanWrite, Monitor!counters
  <2>2. CASE \E u \in Writers : tpc[u] = "asleep"
    <3>1. PICK u \in Writers : /\ tpc[u] = "asleep"
                               /\ tpc' = [tpc EXCEPT ![r] = "loop", ![u] = "dec"]
      BY <1>14, <2>2 DEF Monitor!WakeAfterRead, Monitor!SetCanWrite, Monitor!SetEvent
    <3>2. can_write' = FALSE
      BY <1>14, <2>2 DEF Monitor!WakeAfterRead, Monitor!SetCanWrite, Monitor!Signalled, ValuesOK
    <3>3. /\ tpc[r] = "wake" /\ tpc'[r] = "loop" /\ tpc'[u] = "dec"
          /\ \A v \in Readers \ {r} : tpc'[v] = tpc[v]
          /\ \A w \in Writers \ {u} : tpc'[w] = tpc[w]
      BY <1>1, <1>14, <3>1, ProcsAssumption
      DEF PlacesOK, Children, Monitor!WakeAfterRead, Monitor!SetCanWrite, Monitor!SetEvent
    <3> QED
      BY <2>1, <3>1, <3>2, <3>3
  <2>3. CASE \A u \in Writers : tpc[u] # "asleep"
    <3>1. /\ tpc[r] = "wake" /\ tpc'[r] = "loop"
          /\ \A v \in Children \ {r} : tpc'[v] = tpc[v]
      BY <1>1, <1>14, <2>3
      DEF PlacesOK, Monitor!WakeAfterRead, Monitor!SetCanWrite, Monitor!SetEvent
    <3> QED
      BY <2>1, <2>3, <3>1 DEF Children
  <2> QED
    BY <2>2, <2>3
<1> QED
  BY <1>4, <1>5, <1>6, <1>7, <1>8, <1>9, <1>10, <1>11, <1>12, <1>13, <1>14
  DEF Monitor!ReaderStep

\* A writer's step does too: without a pass it waits only for a writer inside.
LEMMA WriterRuns ==
    ASSUME MonitorInv, RunInv, NEW w \in Writers, Monitor!WriterStep(w)
    PROVE  RunInv'
<1>0. w \in Children /\ w \notin Readers
  BY ProcsAssumption DEF Children
<1>1. PlacesOK /\ ValuesOK /\ CountsOK
  BY DEF MonitorInv
<1>2. tpc[w] # "exited"
  BY DEF Monitor!WriterStep, Monitor!EnterWrite, Monitor!TestReaders, Monitor!TestWritingW,
         Monitor!WaitCanWrite, Monitor!DecWaitingW, Monitor!BeginWriting, Monitor!EndWriting,
         Monitor!SetWriting, Monitor!Choose, Monitor!WakeReader, Monitor!WakeWriter,
         Monitor!SetCanRead, Monitor!SetCanWrite, Monitor!SetEvent, Monitor!Goes
<1>3. main # "failed" /\ MutexHeld /\ SleepersOK /\ WritingIsInside /\ PassGoesRound
  BY <1>0, <1>2, NotFailed DEF RunInv
<1> SUFFICES MutexHeld' /\ SleepersOK' /\ WritingIsInside' /\ PassGoesRound'
  BY DEF RunInv
<1> USE <1>0, <1>3 DEF MutexHeld, SleepersOK, WritingIsInside, PassGoesRound, PassIsOut,
                       Passing, NotYetIn
<1>4. CASE Monitor!EnterWrite(w)
  BY <1>4, GoesRuns DEF Monitor!EnterWrite, Monitor!events
<1>5. CASE Monitor!TestReaders(w)
  <2>1. active_readers > 0 => \E r \in Readers : tpc[r] \in ReaderActive
    <3>1. active_readers = Cardinality(Monitor!ActiveReaders)
      BY <1>1 DEF CountsOK
    <3> QED
      BY <3>1, FS_EmptySet DEF Monitor!ActiveReaders, ReaderActive
  <2>2. active_readers > 0 => PassIsOut
    BY <2>1 DEF ReaderActive
  <2>3. UNCHANGED <<can_read, can_write, mutex, writing>>
    BY <1>5 DEF Monitor!TestReaders, Monitor!Quiet, Monitor!events, Monitor!counters
  <2>4. PICK to \in {"wait", "testWriting"} :
          Monitor!Goes(w, "testReaders", to) /\ (to = "wait" => PassIsOut)
    BY <1>5, <2>2 DEF Monitor!TestReaders
  <2> QED
    BY <2>3, <2>4, GoesRuns
<1>6. CASE Monitor!TestWritingW(w)
  BY <1>6, GoesRuns DEF Monitor!TestWritingW, Monitor!Quiet, Monitor!events, Monitor!counters
<1>7. CASE Monitor!WaitCanWrite(w)
  BY <1>7, GoesRuns DEF Monitor!WaitCanWrite, Monitor!counters
<1>8. CASE Monitor!DecWaitingW(w)
  BY <1>8, GoesRuns DEF Monitor!DecWaitingW, Monitor!events
<1>9. CASE Monitor!BeginWriting(w) \/ Monitor!EndWriting(w)
  BY <1>9, GoesRuns DEF Monitor!BeginWriting, Monitor!EndWriting, Monitor!SetWriting,
                        Monitor!events
<1>10. CASE Monitor!Choose(w)
  BY <1>10, GoesRuns DEF Monitor!Choose, Monitor!Quiet, Monitor!events, Monitor!counters
<1>11. CASE Monitor!WakeReader(w)
  <2>1. UNCHANGED <<can_write, mutex, writing>>
    BY <1>11 DEF Monitor!WakeReader, Monitor!SetCanRead, Monitor!counters
  <2>2. CASE \E u \in Readers : tpc[u] = "asleep"
    <3>1. PICK u \in Readers : /\ tpc[u] = "asleep"
                               /\ tpc' = [tpc EXCEPT ![w] = "loop", ![u] = "lock"]
      BY <1>11, <2>2 DEF Monitor!WakeReader, Monitor!SetCanRead, Monitor!SetEvent
    <3>2. can_read' = FALSE
      BY <1>11, <2>2 DEF Monitor!WakeReader, Monitor!SetCanRead, Monitor!Signalled, ValuesOK
    <3>3. /\ tpc[w] = "wakeReader" /\ tpc'[w] = "loop" /\ tpc'[u] = "lock"
          /\ \A v \in Readers \ {u} : tpc'[v] = tpc[v]
          /\ \A v \in Writers \ {w} : tpc'[v] = tpc[v]
      BY <1>1, <1>11, <3>1, ProcsAssumption
      DEF PlacesOK, Children, Monitor!WakeReader, Monitor!SetCanRead, Monitor!SetEvent
    <3>4. PassIsOut'
      BY <3>1, <3>3
    <3>5. MutexHeld' /\ SleepersOK'
      BY <2>1, <3>1, <3>2, <3>3
    <3>6. WritingIsInside'
      BY <2>1, <3>3
    <3> QED
      BY <3>4, <3>5, <3>6
  <2>3. CASE \A u \in Readers : tpc[u] # "asleep"
    <3>1. /\ tpc[w] = "wakeReader" /\ tpc'[w] = "loop"
          /\ \A v \in Children \ {w} : tpc'[v] = tpc[v]
      BY <1>1, <1>11, <2>3
      DEF PlacesOK, Monitor!WakeReader, Monitor!SetCanRead, Monitor!SetEvent
    <3>2. can_read' = TRUE
      BY <1>11, <2>3 DEF Monitor!WakeReader, Monitor!SetCanRead, Monitor!Signalled
    <3> QED
      BY <2>1, <2>3, <3>1, <3>2 DEF Children
  <2> QED
    BY <2>2, <2>3
<1>12. CASE Monitor!WakeWriter(w)
  <2>1. UNCHANGED <<can_read, mutex, writing>>
    BY <1>12 DEF Monitor!WakeWriter, Monitor!SetCanWrite, Monitor!counters
  <2>2. CASE \E u \in Writers : tpc[u] = "asleep"
    <3>1. PICK u \in Writers : /\ tpc[u] = "asleep"
                               /\ tpc' = [tpc EXCEPT ![w] = "loop", ![u] = "dec"]
      BY <1>12, <2>2 DEF Monitor!WakeWriter, Monitor!SetCanWrite, Monitor!SetEvent
    <3>2. can_write' = FALSE
      BY <1>12, <2>2 DEF Monitor!WakeWriter, Monitor!SetCanWrite, Monitor!Signalled, ValuesOK
    <3>3. /\ tpc[w] = "wakeWriter" /\ tpc'[w] = "loop" /\ tpc'[u] = "dec"
          /\ \A v \in Readers : tpc'[v] = tpc[v]
          /\ \A v \in Writers \ {w, u} : tpc'[v] = tpc[v]
      BY <1>1, <1>12, <3>1, ProcsAssumption
      DEF PlacesOK, Children, Monitor!WakeWriter, Monitor!SetCanWrite, Monitor!SetEvent
    <3> QED
      BY <2>1, <3>1, <3>2, <3>3
  <2>3. CASE \A u \in Writers : tpc[u] # "asleep"
    <3>1. /\ tpc[w] = "wakeWriter" /\ tpc'[w] = "loop"
          /\ \A v \in Children \ {w} : tpc'[v] = tpc[v]
      BY <1>1, <1>12, <2>3
      DEF PlacesOK, Monitor!WakeWriter, Monitor!SetCanWrite, Monitor!SetEvent
    <3> QED
      BY <2>1, <2>3, <3>1 DEF Children
  <2> QED
    BY <2>2, <2>3
<1> QED
  BY <1>4, <1>5, <1>6, <1>7, <1>8, <1>9, <1>10, <1>11, <1>12 DEF Monitor!WriterStep

\* Every step of the program keeps the invariant.
LEMMA StepRuns ==
    ASSUME MonitorInv, RunInv, [Monitor!Next]_(Monitor!vars)
    PROVE  RunInv'
<1> USE DEF RunInv, MutexHeld, SleepersOK, WritingIsInside, PassGoesRound, PassIsOut,
            Passing, NotYetIn
<1>1. CASE UNCHANGED Monitor!vars
  BY <1>1 DEF Monitor!vars
<1>2. ASSUME NEW t \in Children, Monitor!Create(t) \/ Monitor!Leave(t) PROVE RunInv'
  BY <1>2, GoesRuns DEF Monitor!Create, Monitor!Leave, Monitor!Quiet, Monitor!events,
                        Monitor!counters
<1>3. CASE Monitor!CreateFails
  BY <1>3 DEF Monitor!CreateFails
<1>4. CASE Monitor!End \/ Monitor!sig_catch
  BY <1>4 DEF Monitor!End, Monitor!sig_catch, Monitor!events, Monitor!counters
<1> QED
  BY <1>1, <1>2, <1>3, <1>4, ReaderRuns, WriterRuns
  DEF Monitor!Next, Monitor!Threads, Children

\* With the pass in circulation, or a writer that does not sleep, somebody runs.
LEMMA RunsOn == MonitorInv /\ RunInv => SomebodyRuns
<1> SUFFICES ASSUME MonitorInv, RunInv, main = "runs", Readers # {}, Writers # {}
             PROVE  \E t \in Children : /\ tpc[t] # "asleep"
                                        /\ t \in Readers /\ tpc[t] = "lock" => mutex = {}
  BY DEF SomebodyRuns
<1>0. Readers \cap Writers = {} /\ mutex \subseteq Readers
  BY ProcsAssumption DEF MonitorInv, ValuesOK
<1>1. MutexHeld /\ SleepersOK /\ PassGoesRound
  BY DEF RunInv
<1>2. CASE mutex # {}
  <2>1. PICK r \in Readers : r \in mutex
    BY <1>0, <1>2
  <2> QED
    BY <1>1, <2>1 DEF MutexHeld, Children
<1>3. CASE mutex = {}
  BY <1>0, <1>1, <1>3 DEF SleepersOK, PassGoesRound, PassIsOut, Passing, Children
<1> QED
  BY <1>2, <1>3

\* No wake-up is lost to all at once: although a reader's poll takes can_write
\* away from the writers and every event wakes one thread only, there is always
\* a thread of mutex/main.c that can do its next step while the loops run, for
\* any numbers of readers and writers.
THEOREM MonitorRunsOn == MonitorSpec => []SomebodyRuns
<1>1. Monitor!Init => RunInv
  BY DEF Monitor!Init, RunInv, MutexHeld, SleepersOK, WritingIsInside, PassGoesRound,
         PassIsOut, NotYetIn, Monitor!Threads
<1>2. MonitorInit => Monitor!Init
  BY DEF MonitorInit
<1>3. [Monitor!Next /\ UNCHANGED vars]_bothVars => [Monitor!Next]_(Monitor!vars)
  BY DEF bothVars
<1>4. MonitorInv /\ RunInv /\ [Monitor!Next]_(Monitor!vars) => RunInv' /\ MonitorInv'
  BY StepRuns, MonitorStep
<1> QED
  BY <1>1, <1>2, <1>3, <1>4, MonitorInitInv, RunsOn, PTL DEF MonitorSpec
=============================================================================

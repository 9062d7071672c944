---------------------- MODULE ProducersConsumersProofs ----------------------
(***************************************************************************)
(* Proofs about ProducersConsumers for any sets of producers and           *)
(* consumers, any number of empty cells and any size of the segment.       *)
(***************************************************************************)
EXTENDS ProducersConsumers, SequenceTheorems, TLAPS

-----------------------------------------------------------------------------
(* What the four operation arrays need and do. *)

\* A lock takes one unit of semaphore a and SB, whichever of SE and SF a is; it
\* waits until both are there.
LEMMA LockArray ==
    ASSUME NEW s \in [Sems -> Nat], NEW a \in {0, 1},
           NEW ops, ops = << SemOp(a, -1), SemOp(SB, -1) >>
    PROVE  /\ Passes(s, ops) <=> s[a] > 0 /\ s[2] > 0
           /\ After(s, ops) = [n \in Sems |-> IF n = a \/ n = 2 THEN s[n] - 1 ELSE s[n]]
<1>1. Len(ops) = 2
  OBVIOUS
<1>2. ops[1].num = a /\ ops[2].num = 2 /\ ops[1].op = -1 /\ ops[2].op = -1
  BY DEF SemOp, SB
<1>3. \A n \in Sems : s[n] \in Nat
  OBVIOUS
<1>4. Delta(ops, 0, a) = 0 /\ Delta(ops, 1, 2) = 0
  BY <1>1, <1>2 DEF Delta, Share
<1>5. \A n \in Sems : Delta(ops, 5, n) = IF n = a \/ n = 2 THEN -1 ELSE 0
  BY <1>1, <1>2 DEF Delta, Share, Sems
<1>6. Met(s, ops, 1) = s[a] /\ Met(s, ops, 2) = s[2]
  BY <1>2, <1>3, <1>4 DEF Met, Sems
<1>7. Passes(s, ops) <=> Met(s, ops, 1) + (-1) >= 0 /\ Met(s, ops, 2) + (-1) >= 0
  BY <1>1, <1>2, <1>3, <1>6 DEF Passes, Sems
<1>8. Passes(s, ops) <=> s[a] > 0 /\ s[2] > 0
  BY <1>3, <1>6, <1>7 DEF Sems
<1>9. \A n \in Sems : s[n] + Delta(ops, 5, n) = IF n = a \/ n = 2 THEN s[n] - 1 ELSE s[n]
  BY <1>3, <1>5 DEF Sems
<1>10. After(s, ops) = [n \in Sems |-> IF n = a \/ n = 2 THEN s[n] - 1 ELSE s[n]]
  BY <1>9 DEF After, MaxOps
<1> QED
  BY <1>8, <1>10

\* A release gives SB back and one unit of semaphore a; it never waits.
LEMMA ReleaseArray ==
    ASSUME NEW s \in [Sems -> Nat], NEW a \in {0, 1},
           NEW ops, ops = << SemOp(SB, 1), SemOp(a, 1) >>
    PROVE  After(s, ops) = [n \in Sems |-> IF n = a \/ n = 2 THEN s[n] + 1 ELSE s[n]]
<1>1. Len(ops) = 2
  OBVIOUS
<1>2. ops[1].num = 2 /\ ops[2].num = a /\ ops[1].op = 1 /\ ops[2].op = 1
  BY DEF SemOp, SB
<1>3. \A n \in Sems : Delta(ops, 5, n) = IF n = a \/ n = 2 THEN 1 ELSE 0
  BY <1>1, <1>2 DEF Delta, Share, Sems
<1>4. \A n \in Sems : s[n] + Delta(ops, 5, n) = IF n = a \/ n = 2 THEN s[n] + 1 ELSE s[n]
  BY <1>3 DEF Sems
<1> QED
  BY <1>4 DEF After, MaxOps

-----------------------------------------------------------------------------
(***************************************************************************)
(* The inductive invariant.  SemAccounting needs, to be inductive, that    *)
(* main forks only after Setup and that the child inside is alone.  The    *)
(* refinement needs moreover that Setup finds the cursors at the first     *)
(* cell and that every cell the producers have been through holds a        *)
(* letter.                                                                 *)
(***************************************************************************)
BeforeSetup ==
    mpc = "setup" =>
        /\ \A p \in Children : pc[p] = "unborn"
        /\ cons_cur = 0 /\ prod_cur = 0

CellsWritten ==
    \A i \in 0 .. SegSize - 1 :
        \/ i < prod_cur
        \/ i = prod_cur /\ \E p \in Producers : pc[p] = "advance"
        => cell[i] = i % Letters

IInv ==
    /\ BeforeSetup
    /\ SemAccounting
    /\ MutualExclusion
    /\ CellsWritten

\* What the SETVALs leave in SE and SB.
LEMMA FirstValues ==
    ASSUME TypeOK
    PROVE  /\ N \in Nat /\ first[0] \in 0 .. N /\ first[2] \in 0 .. 1
           /\ first[SE] \in Nat /\ first[SE] <= N /\ first[SB] \in Nat /\ first[SB] <= 1
  BY SizesAssumption DEF TypeOK, SE, SB

\* With only producer p possibly inside, each count of SemAccounting is p's.
LEMMA ProducerLedger ==
    ASSUME NEW f, NEW p \in Producers, \A q \in Children \ {p} : f[q] \notin Inside
    PROVE  /\ Count(\E q \in Children : f[q] \in Inside) = Count(f[p] \in Inside)
           /\ Count(\E q \in Producers : f[q] \in BeforeAdvance) = Count(f[p] \in BeforeAdvance)
           /\ Count(\E q \in Producers : f[q] \in AfterAdvance) = Count(f[p] \in AfterAdvance)
           /\ Count(\E q \in Consumers : f[q] \in BeforeAdvance) = 0
           /\ Count(\E q \in Consumers : f[q] \in AfterAdvance) = 0
<1>1. /\ p \in Children /\ p \notin Consumers
      /\ Producers \subseteq Children /\ Consumers \subseteq Children
  BY ProcsAssumption DEF Children
<1>2. BeforeAdvance \subseteq Inside /\ AfterAdvance \subseteq Inside
  BY DEF Inside
<1> QED
  BY <1>1, <1>2 DEF Count

\* The same for a consumer.
LEMMA ConsumerLedger ==
    ASSUME NEW f, NEW c \in Consumers, \A q \in Children \ {c} : f[q] \notin Inside
    PROVE  /\ Count(\E q \in Children : f[q] \in Inside) = Count(f[c] \in Inside)
           /\ Count(\E q \in Consumers : f[q] \in BeforeAdvance) = Count(f[c] \in BeforeAdvance)
           /\ Count(\E q \in Consumers : f[q] \in AfterAdvance) = Count(f[c] \in AfterAdvance)
           /\ Count(\E q \in Producers : f[q] \in BeforeAdvance) = 0
           /\ Count(\E q \in Producers : f[q] \in AfterAdvance) = 0
<1>1. /\ c \in Children /\ c \notin Producers
      /\ Producers \subseteq Children /\ Consumers \subseteq Children
  BY ProcsAssumption DEF Children
<1>2. BeforeAdvance \subseteq Inside /\ AfterAdvance \subseteq Inside
  BY DEF Inside
<1> QED
  BY <1>1, <1>2 DEF Count

\* A child that stays outside, or before, or after the advance, changes no count.
LEMMA SameLedger ==
    ASSUME TypeOK, NEW p \in Children, NEW to, pc' = [pc EXCEPT ![p] = to],
           pc[p] \in BeforeAdvance <=> to \in BeforeAdvance,
           pc[p] \in AfterAdvance <=> to \in AfterAdvance
    PROVE  /\ Some(Children, Inside)' = Some(Children, Inside)
           /\ Some(Producers, BeforeAdvance)' = Some(Producers, BeforeAdvance)
           /\ Some(Producers, AfterAdvance)' = Some(Producers, AfterAdvance)
           /\ Some(Consumers, BeforeAdvance)' = Some(Consumers, BeforeAdvance)
           /\ Some(Consumers, AfterAdvance)' = Some(Consumers, AfterAdvance)
           /\ MutualExclusion => MutualExclusion'
<1>1. \A q \in Children : /\ pc'[q] \in BeforeAdvance <=> pc[q] \in BeforeAdvance
                          /\ pc'[q] \in AfterAdvance <=> pc[q] \in AfterAdvance
                          /\ pc'[q] \in Inside <=> pc[q] \in Inside
  BY DEF TypeOK, Inside
<1>2. Producers \subseteq Children /\ Consumers \subseteq Children
  BY DEF Children
<1>3. /\ (\E q \in Children : pc'[q] \in Inside) <=> (\E q \in Children : pc[q] \in Inside)
      /\ (\E q \in Producers : pc'[q] \in BeforeAdvance)
            <=> (\E q \in Producers : pc[q] \in BeforeAdvance)
      /\ (\E q \in Producers : pc'[q] \in AfterAdvance)
            <=> (\E q \in Producers : pc[q] \in AfterAdvance)
      /\ (\E q \in Consumers : pc'[q] \in BeforeAdvance)
            <=> (\E q \in Consumers : pc[q] \in BeforeAdvance)
      /\ (\E q \in Consumers : pc'[q] \in AfterAdvance)
            <=> (\E q \in Consumers : pc[q] \in AfterAdvance)
  BY <1>1, <1>2
<1>4. MutualExclusion => MutualExclusion'
  BY <1>1 DEF MutualExclusion
<1> QED
  BY <1>3, <1>4 DEF Some, Count

\* The initial states satisfy the invariant.
LEMMA InitIInv == Init => IInv
<1> SUFFICES ASSUME Init PROVE IInv
  OBVIOUS
<1>1. TypeOK
  <2>1. sem = [n \in Sems |-> 0] /\ first = sem
    BY DEF Init
  <2>2. sem \in [Sems -> Nat] /\ first \in [Sems -> Nat] /\ first[SE] = 0 /\ first[SB] = 0
    BY <2>1 DEF Sems, SE, SB
  <2> QED
    BY <2>2, SizesAssumption DEF Init, TypeOK, ChildPC, MainPC
<1>2. \A p \in Children : pc[p] = "unborn"
  BY DEF Init
<1>3. ~Initialised
  BY <1>2 DEF Init, Initialised
<1>4. MutualExclusion
  BY <1>2 DEF MutualExclusion, Inside, BeforeAdvance, AfterAdvance
<1>5. CellsWritten
  BY <1>2, SizesAssumption DEF Init, CellsWritten, Children
<1>6. BeforeSetup
  BY <1>2 DEF Init, BeforeSetup
<1> QED
  BY <1>1, <1>3, <1>4, <1>5, <1>6 DEF IInv, SemAccounting

\* A step of main, and SIGINT in main, preserve the invariant.
LEMMA MainIInv ==
    ASSUME IInv, MainStep \/ SigintMain
    PROVE  IInv'
<1>0. TypeOK
  BY DEF IInv, SemAccounting
<1>1. CASE Setup
  <2>1. TypeOK'
    BY <1>0, <1>1, SizesAssumption DEF Setup, TypeOK, Sems, SE, SF, SB, MainPC
  <2>2. \A p \in Children : pc[p] = "unborn" /\ pc'[p] = "unborn"
    BY <1>1 DEF IInv, BeforeSetup, Setup
  <2>3. \A p \in Children : pc'[p] \notin Inside
    BY <2>2 DEF Inside, BeforeAdvance, AfterAdvance
  <2>4. /\ sem'[SB] = first'[SB] /\ sem'[SE] = first'[SE] /\ sem'[SF] = 0
        /\ prod_cur' = 0 /\ cons_cur' = 0
    BY <1>1, SizesAssumption DEF Setup, Sems, SE, SF, SB
  <2>5. /\ Some(Children, Inside)' = 0
        /\ Some(Producers, BeforeAdvance)' = 0 /\ Some(Producers, AfterAdvance)' = 0
        /\ Some(Consumers, BeforeAdvance)' = 0 /\ Some(Consumers, AfterAdvance)' = 0
    BY <2>3 DEF Some, Count, Inside, Children
  <2>6. SemAccounting'
    <3>1. first'[SE] \in Nat /\ first'[SB] \in Nat
      BY <2>1, SizesAssumption DEF TypeOK
    <3> QED
      BY <2>1, <2>4, <2>5, <3>1 DEF SemAccounting
  <2>7. MutualExclusion' /\ CellsWritten'
    BY <2>2, <2>3, <2>4, SizesAssumption DEF MutualExclusion, CellsWritten, Children
  <2>8. BeforeSetup'
    BY <1>1 DEF Setup, BeforeSetup
  <2> QED
    BY <2>6, <2>7, <2>8 DEF IInv
<1>2. CASE MainFails \/ Cleanup \/ SigintMain \/ \E p \in Children : Reap(p)
  <2>1. UNCHANGED <<sem, cell, cons_cur, prod_cur, pc, first>> /\ (Initialised' => Initialised)
    BY <1>2 DEF MainFails, Cleanup, SigintMain, Reap, Initialised
  <2>2. TypeOK'
    BY <1>0, <1>2 DEF TypeOK, MainPC, MainFails, Cleanup, SigintMain, Reap
  <2>3. /\ Some(Children, Inside)' = Some(Children, Inside)
        /\ Some(Producers, BeforeAdvance)' = Some(Producers, BeforeAdvance)
        /\ Some(Producers, AfterAdvance)' = Some(Producers, AfterAdvance)
        /\ Some(Consumers, BeforeAdvance)' = Some(Consumers, BeforeAdvance)
        /\ Some(Consumers, AfterAdvance)' = Some(Consumers, AfterAdvance)
    BY <2>1 DEF Some
  <2>4. SemAccounting'
    BY <2>1, <2>2, <2>3 DEF IInv, SemAccounting
  <2>5. MutualExclusion' /\ CellsWritten'
    BY <2>1 DEF IInv, MutualExclusion, CellsWritten
  <2>6. BeforeSetup'
    BY <1>2, <2>1 DEF IInv, BeforeSetup, MainFails, Cleanup, SigintMain, Reap
  <2> QED
    BY <2>4, <2>5, <2>6 DEF IInv
<1>3. ASSUME NEW p \in Children, Fork(p) PROVE IInv'
  <2>1. TypeOK'
    BY <1>0, <1>3 DEF TypeOK, Fork, MainPC, ChildPC
  <2>2. /\ pc[p] \notin BeforeAdvance /\ pc[p] \notin AfterAdvance
        /\ "loop" \notin BeforeAdvance /\ "loop" \notin AfterAdvance
    BY <1>3 DEF Fork, BeforeAdvance, AfterAdvance
  <2>3. /\ Some(Children, Inside)' = Some(Children, Inside)
        /\ Some(Producers, BeforeAdvance)' = Some(Producers, BeforeAdvance)
        /\ Some(Producers, AfterAdvance)' = Some(Producers, AfterAdvance)
        /\ Some(Consumers, BeforeAdvance)' = Some(Consumers, BeforeAdvance)
        /\ Some(Consumers, AfterAdvance)' = Some(Consumers, AfterAdvance)
        /\ MutualExclusion'
    BY <1>0, <1>3, <2>2, SameLedger DEF Fork, IInv
  <2>4. SemAccounting'
    BY <1>3, <2>1, <2>3 DEF IInv, SemAccounting, Fork, Initialised
  <2>5. CellsWritten'
    BY <1>0, <1>3 DEF IInv, TypeOK, CellsWritten, Fork, Children
  <2>6. BeforeSetup'
    BY <1>3 DEF BeforeSetup, Fork
  <2> QED
    BY <2>3, <2>4, <2>5, <2>6 DEF IInv
<1> QED
  BY <1>1, <1>2, <1>3 DEF MainStep

\* A child's step that moves it without crossing a border of the ledger, leaves
\* the semaphores, the cursors and main alone and keeps the types and the letters
\* preserves the invariant.
LEMMA QuietIInv ==
    ASSUME IInv, TypeOK', CellsWritten', NEW p \in Children, NEW to,
           pc' = [pc EXCEPT ![p] = to], pc[p] # "unborn",
           pc[p] \in BeforeAdvance <=> to \in BeforeAdvance,
           pc[p] \in AfterAdvance <=> to \in AfterAdvance,
           UNCHANGED <<sem, cons_cur, prod_cur, mpc, first>>
    PROVE  IInv'
<1>0. TypeOK
  BY DEF IInv, SemAccounting
<1>1. /\ Some(Children, Inside)' = Some(Children, Inside)
      /\ Some(Producers, BeforeAdvance)' = Some(Producers, BeforeAdvance)
      /\ Some(Producers, AfterAdvance)' = Some(Producers, AfterAdvance)
      /\ Some(Consumers, BeforeAdvance)' = Some(Consumers, BeforeAdvance)
      /\ Some(Consumers, AfterAdvance)' = Some(Consumers, AfterAdvance)
      /\ MutualExclusion'
  BY <1>0, SameLedger DEF IInv
<1>2. Initialised
  BY DEF Initialised
<1>3. SemAccounting'
  BY <1>1, <1>2 DEF IInv, SemAccounting
<1>4. BeforeSetup'
  BY DEF IInv, BeforeSetup
<1> QED
  BY <1>1, <1>3, <1>4 DEF IInv

\* The loop test, falling asleep, an access beyond the segment, a load and SIGINT.
LEMMA MovesIInv ==
    ASSUME IInv, NEW p \in Children,
           \/ Loop(p) \/ ProducerSleeps(p) \/ ConsumerSleeps(p) \/ Sigint(p)
           \/ p \in Producers /\ WritePast(p)
           \/ p \in Consumers /\ (Read(p) \/ ReadPast(p))
    PROVE  IInv'
<1>0. TypeOK
  BY DEF IInv, SemAccounting
<1>1. /\ UNCHANGED <<sem, cell, cons_cur, prod_cur, mpc, reaped, first>>
      /\ pc[p] # "unborn"
  BY DEF Loop, ProducerSleeps, ConsumerSleeps, Sleeps, Sigint, WritePast, Read, ReadPast, Goes
<1>2. PICK to \in ChildPC :
        /\ pc' = [pc EXCEPT ![p] = to]
        /\ pc[p] \in BeforeAdvance <=> to \in BeforeAdvance
        /\ pc[p] \in AfterAdvance <=> to \in AfterAdvance
        /\ to = "advance" /\ p \in Producers =>
              pc[p] = "advance" \/ prod_cur >= SegSize
  <2>1. CASE Sigint(p)
    <3>1. CASE pc[p] = "lockAsleep"
      BY <2>1, <3>1 DEF Sigint, ChildPC, Inside, BeforeAdvance, AfterAdvance, Dead
    <3>2. CASE pc[p] # "lockAsleep"
      <4>1. pc' = [pc EXCEPT ![p] = pc[p]] /\ pc[p] \in ChildPC
        BY <1>0, <2>1, <3>2 DEF Sigint, TypeOK
      <4> QED
        BY <4>1
    <3> QED
      BY <3>1, <3>2
  <2>2. CASE ~Sigint(p)
    BY <2>2, ProcsAssumption
    DEF Loop, ProducerSleeps, ConsumerSleeps, Sleeps, WritePast, Read, ReadPast, Goes,
        ChildPC, Inside, BeforeAdvance, AfterAdvance, Dead
  <2> QED
    BY <2>1, <2>2
<1>3. flag' \in [Children \cup {Main} -> BOOLEAN]
  BY <1>0 DEF TypeOK, Loop, ProducerSleeps, ConsumerSleeps, Sleeps, Sigint, WritePast,
              Read, ReadPast
<1>4. got' \in [Consumers -> Letter \cup {None}]
  BY <1>0, SizesAssumption
  DEF TypeOK, Loop, ProducerSleeps, ConsumerSleeps, Sleeps, Sigint, WritePast, Read, ReadPast
<1>5. TypeOK'
  BY <1>0, <1>1, <1>2, <1>3, <1>4 DEF TypeOK
<1>6. CellsWritten'
  <2>1. \A q \in Producers : pc'[q] = "advance" => pc[q] = "advance" \/ prod_cur >= SegSize
    BY <1>0, <1>2 DEF TypeOK, Children
  <2>2. prod_cur \in Nat
    BY <1>0 DEF TypeOK
  <2> QED
    BY <1>1, <2>1, <2>2, SizesAssumption DEF IInv, CellsWritten
<1> QED
  BY <1>1, <1>2, <1>5, <1>6, QuietIInv

\* The producer's lock preserves the invariant: nobody was inside, and the unit of
\* SE it takes is the one it has in hand.
LEMMA ProducerLocksIInv ==
    ASSUME IInv, NEW p \in Producers, ProducerLocks(p)
    PROVE  IInv'
<1>0. p \in Children /\ TypeOK
  BY DEF Children, IInv, SemAccounting
<1>1. /\ pc[p] \in {"lock", "lockAsleep"} /\ pc' = [pc EXCEPT ![p] = "access"]
      /\ UNCHANGED <<cell, cons_cur, prod_cur, flag, got, mpc, reaped, first>>
  BY DEF ProducerLocks, Locks
<1>2. Initialised
  BY <1>0, <1>1 DEF Initialised
<1>3. sem \in [Sems -> Nat] /\ cons_cur \in Nat /\ prod_cur \in Nat
  BY <1>0 DEF TypeOK
<1>4. /\ sem[0] > 0 /\ sem[2] > 0
      /\ sem' = [n \in Sems |-> IF n = 0 \/ n = 2 THEN sem[n] - 1 ELSE sem[n]]
  BY <1>3, LockArray DEF ProducerLocks, Locks, producer_lock, SE
<1>5. \A q \in Children : pc[q] \notin Inside
  BY <1>0, <1>2, <1>3, <1>4, FirstValues DEF IInv, SemAccounting, Some, Count, SB, Sems
<1>6. /\ pc'[p] = "access" /\ \A q \in Children \ {p} : pc'[q] \notin Inside
  BY <1>0, <1>1, <1>5 DEF TypeOK
<1>7. TypeOK'
  BY <1>0, <1>1, <1>3, <1>4
  DEF TypeOK, ChildPC, Inside, BeforeAdvance, Sems
<1>8. /\ Some(Children, Inside) = 0
      /\ Some(Producers, BeforeAdvance) = 0 /\ Some(Producers, AfterAdvance) = 0
      /\ Some(Consumers, BeforeAdvance) = 0 /\ Some(Consumers, AfterAdvance) = 0
  BY <1>5 DEF Some, Count, Inside, Children
<1>9. /\ Some(Children, Inside)' = 1
      /\ Some(Producers, BeforeAdvance)' = 1 /\ Some(Producers, AfterAdvance)' = 0
      /\ Some(Consumers, BeforeAdvance)' = 0 /\ Some(Consumers, AfterAdvance)' = 0
  BY <1>6, ProducerLedger DEF Some, Count, Inside, BeforeAdvance, AfterAdvance
<1>10. SemAccounting'
  BY <1>0, <1>1, <1>2, <1>3, <1>4, <1>7, <1>8, <1>9, FirstValues
  DEF IInv, SemAccounting, SE, SF, SB, Sems
<1>11. MutualExclusion'
  BY <1>6 DEF MutualExclusion
<1>12. BeforeSetup' /\ CellsWritten'
  BY <1>0, <1>1 DEF IInv, TypeOK, BeforeSetup, CellsWritten, Children
<1> QED
  BY <1>10, <1>11, <1>12 DEF IInv

\* The consumer's lock preserves the invariant: nobody was inside, and the unit of
\* SF it takes is the one it has in hand.
LEMMA ConsumerLocksIInv ==
    ASSUME IInv, NEW c \in Consumers, ConsumerLocks(c)
    PROVE  IInv'
<1>0. c \in Children /\ TypeOK
  BY DEF Children, IInv, SemAccounting
<1>1. /\ pc[c] \in {"lock", "lockAsleep"} /\ pc' = [pc EXCEPT ![c] = "access"]
      /\ UNCHANGED <<cell, cons_cur, prod_cur, flag, got, mpc, reaped, first>>
  BY DEF ConsumerLocks, Locks
<1>2. Initialised
  BY <1>0, <1>1 DEF Initialised
<1>3. sem \in [Sems -> Nat] /\ cons_cur \in Nat /\ prod_cur \in Nat
  BY <1>0 DEF TypeOK
<1>4. /\ sem[1] > 0 /\ sem[2] > 0
      /\ sem' = [n \in Sems |-> IF n = 1 \/ n = 2 THEN sem[n] - 1 ELSE sem[n]]
  BY <1>3, LockArray DEF ConsumerLocks, Locks, consumer_lock, SF
<1>5. \A q \in Children : pc[q] \notin Inside
  BY <1>0, <1>2, <1>3, <1>4, FirstValues DEF IInv, SemAccounting, Some, Count, SB, Sems
<1>6. /\ pc'[c] = "access" /\ \A q \in Children \ {c} : pc'[q] \notin Inside
  BY <1>0, <1>1, <1>5 DEF TypeOK
<1>7. TypeOK'
  BY <1>0, <1>1, <1>3, <1>4
  DEF TypeOK, ChildPC, Inside, BeforeAdvance, Sems
<1>8. /\ Some(Children, Inside) = 0
      /\ Some(Producers, BeforeAdvance) = 0 /\ Some(Producers, AfterAdvance) = 0
      /\ Some(Consumers, BeforeAdvance) = 0 /\ Some(Consumers, AfterAdvance) = 0
  BY <1>5 DEF Some, Count, Inside, Children
<1>9. /\ Some(Children, Inside)' = 1
      /\ Some(Consumers, BeforeAdvance)' = 1 /\ Some(Consumers, AfterAdvance)' = 0
      /\ Some(Producers, BeforeAdvance)' = 0 /\ Some(Producers, AfterAdvance)' = 0
  BY <1>6, ConsumerLedger DEF Some, Count, Inside, BeforeAdvance, AfterAdvance
<1>10. SemAccounting'
  BY <1>0, <1>1, <1>2, <1>3, <1>4, <1>7, <1>8, <1>9, FirstValues
  DEF IInv, SemAccounting, SE, SF, SB, Sems
<1>11. MutualExclusion'
  BY <1>6 DEF MutualExclusion
<1>12. BeforeSetup' /\ CellsWritten'
  BY <1>0, <1>1 DEF IInv, TypeOK, BeforeSetup, CellsWritten, Children
<1> QED
  BY <1>10, <1>11, <1>12 DEF IInv

\* The producer's release preserves the invariant: the unit of SF it gives is
\* the one it had in hand.
LEMMA ProducerReleasesIInv ==
    ASSUME IInv, NEW p \in Producers, ProducerReleases(p)
    PROVE  IInv'
<1>0. p \in Children /\ TypeOK
  BY DEF Children, IInv, SemAccounting
<1>1. /\ pc[p] = "release" /\ pc' = [pc EXCEPT ![p] = "loop"]
      /\ UNCHANGED <<cell, cons_cur, prod_cur, flag, got, mpc, reaped, first>>
  BY DEF ProducerReleases, Releases, Goes
<1>2. Initialised
  BY <1>0, <1>1 DEF Initialised
<1>3. sem \in [Sems -> Nat] /\ cons_cur \in Nat /\ prod_cur \in Nat
  BY <1>0 DEF TypeOK
<1>4. sem' = [n \in Sems |-> IF n = 1 \/ n = 2 THEN sem[n] + 1 ELSE sem[n]]
  BY <1>3, ReleaseArray DEF ProducerReleases, Releases, producer_release, SF
<1>5. \A q \in Children \ {p} : pc[q] \notin Inside
  BY <1>0, <1>1 DEF IInv, MutualExclusion, Inside, AfterAdvance
<1>6. pc'[p] = "loop" /\ \A q \in Children \ {p} : pc'[q] \notin Inside
  BY <1>0, <1>1, <1>5 DEF TypeOK
<1>7. TypeOK'
  BY <1>0, <1>1, <1>3, <1>4 DEF TypeOK, ChildPC, Sems
<1>8. /\ Some(Children, Inside) = 1
      /\ Some(Producers, BeforeAdvance) = 0 /\ Some(Producers, AfterAdvance) = 1
      /\ Some(Consumers, BeforeAdvance) = 0 /\ Some(Consumers, AfterAdvance) = 0
  BY <1>1, <1>5, ProducerLedger DEF Some, Count, Inside, BeforeAdvance, AfterAdvance
<1>9. /\ Some(Children, Inside)' = 0
      /\ Some(Producers, BeforeAdvance)' = 0 /\ Some(Producers, AfterAdvance)' = 0
      /\ Some(Consumers, BeforeAdvance)' = 0 /\ Some(Consumers, AfterAdvance)' = 0
  BY <1>6, ProducerLedger DEF Some, Count, Inside, BeforeAdvance, AfterAdvance
<1>10. SemAccounting'
  BY <1>0, <1>1, <1>2, <1>3, <1>4, <1>7, <1>8, <1>9, FirstValues
  DEF IInv, SemAccounting, SE, SF, SB, Sems
<1>11. MutualExclusion'
  BY <1>6 DEF MutualExclusion, Inside, BeforeAdvance, AfterAdvance
<1>12. BeforeSetup' /\ CellsWritten'
  BY <1>0, <1>1 DEF IInv, TypeOK, BeforeSetup, CellsWritten, Children
<1> QED
  BY <1>10, <1>11, <1>12 DEF IInv

\* The consumer's release preserves the invariant: the unit of SE it gives is
\* the one it had in hand.
LEMMA ConsumerReleasesIInv ==
    ASSUME IInv, NEW c \in Consumers, ConsumerReleases(c)
    PROVE  IInv'
<1>0. c \in Children /\ TypeOK
  BY DEF Children, IInv, SemAccounting
<1>1. /\ pc[c] = "release" /\ pc' = [pc EXCEPT ![c] = "loop"]
      /\ UNCHANGED <<cell, cons_cur, prod_cur, flag, got, mpc, reaped, first>>
  BY DEF ConsumerReleases, Releases, Goes
<1>2. Initialised
  BY <1>0, <1>1 DEF Initialised
<1>3. sem \in [Sems -> Nat] /\ cons_cur \in Nat /\ prod_cur \in Nat
  BY <1>0 DEF TypeOK
<1>4. sem' = [n \in Sems |-> IF n = 0 \/ n = 2 THEN sem[n] + 1 ELSE sem[n]]
  BY <1>3, ReleaseArray DEF ConsumerReleases, Releases, consumer_release, SE
<1>5. \A q \in Children \ {c} : pc[q] \notin Inside
  BY <1>0, <1>1 DEF IInv, MutualExclusion, Inside, AfterAdvance
<1>6. pc'[c] = "loop" /\ \A q \in Children \ {c} : pc'[q] \notin Inside
  BY <1>0, <1>1, <1>5 DEF TypeOK
<1>7. TypeOK'
  BY <1>0, <1>1, <1>3, <1>4 DEF TypeOK, ChildPC, Sems
<1>8. /\ Some(Children, Inside) = 1
      /\ Some(Consumers, BeforeAdvance) = 0 /\ Some(Consumers, AfterAdvance) = 1
      /\ Some(Producers, BeforeAdvance) = 0 /\ Some(Producers, AfterAdvance) = 0
  BY <1>1, <1>5, ConsumerLedger DEF Some, Count, Inside, BeforeAdvance, AfterAdvance
<1>9. /\ Some(Children, Inside)' = 0
      /\ Some(Consumers, BeforeAdvance)' = 0 /\ Some(Consumers, AfterAdvance)' = 0
      /\ Some(Producers, BeforeAdvance)' = 0 /\ Some(Producers, AfterAdvance)' = 0
  BY <1>6, ConsumerLedger DEF Some, Count, Inside, BeforeAdvance, AfterAdvance
<1>10. SemAccounting'
  BY <1>0, <1>1, <1>2, <1>3, <1>4, <1>7, <1>8, <1>9, FirstValues
  DEF IInv, SemAccounting, SE, SF, SB, Sems
<1>11. MutualExclusion'
  BY <1>6 DEF MutualExclusion, Inside, BeforeAdvance, AfterAdvance
<1>12. BeforeSetup' /\ CellsWritten'
  BY <1>0, <1>1 DEF IInv, TypeOK, BeforeSetup, CellsWritten, Children
<1> QED
  BY <1>10, <1>11, <1>12 DEF IInv

\* The producer advances its cursor: the unit in hand passes to the other side of
\* the ledger.
LEMMA ProducerAdvancesIInv ==
    ASSUME IInv, NEW p \in Producers, ProducerAdvances(p)
    PROVE  IInv'
<1>0. p \in Children /\ TypeOK
  BY DEF Children, IInv, SemAccounting
<1>1. /\ pc[p] = "advance" /\ pc' = [pc EXCEPT ![p] = "release"]
      /\ prod_cur' = prod_cur + 1
      /\ UNCHANGED <<sem, cell, cons_cur, flag, got, mpc, reaped, first>>
  BY DEF ProducerAdvances, Goes
<1>2. Initialised
  BY <1>0, <1>1 DEF Initialised
<1>3. sem \in [Sems -> Nat] /\ cons_cur \in Nat /\ prod_cur \in Nat
  BY <1>0 DEF TypeOK
<1>4. \A q \in Children \ {p} : pc[q] \notin Inside
  BY <1>0, <1>1 DEF IInv, MutualExclusion, Inside, BeforeAdvance
<1>5. pc'[p] = "release" /\ \A q \in Children \ {p} : pc'[q] \notin Inside
  BY <1>0, <1>1, <1>4 DEF TypeOK
<1>6. TypeOK'
  BY <1>0, <1>1, <1>3 DEF TypeOK, ChildPC, Inside, AfterAdvance
<1>7. /\ Some(Children, Inside) = 1
      /\ Some(Producers, BeforeAdvance) = 1 /\ Some(Producers, AfterAdvance) = 0
      /\ Some(Consumers, BeforeAdvance) = 0 /\ Some(Consumers, AfterAdvance) = 0
  BY <1>1, <1>4, ProducerLedger DEF Some, Count, Inside, BeforeAdvance, AfterAdvance
<1>8. /\ Some(Children, Inside)' = 1
      /\ Some(Producers, BeforeAdvance)' = 0 /\ Some(Producers, AfterAdvance)' = 1
      /\ Some(Consumers, BeforeAdvance)' = 0 /\ Some(Consumers, AfterAdvance)' = 0
  BY <1>5, ProducerLedger DEF Some, Count, Inside, BeforeAdvance, AfterAdvance
<1>9. SemAccounting'
  BY <1>0, <1>1, <1>2, <1>3, <1>6, <1>7, <1>8, FirstValues
  DEF IInv, SemAccounting, SE, SF, SB, Sems
<1>10. MutualExclusion'
  BY <1>5 DEF MutualExclusion
<1>11. BeforeSetup'
  BY <1>0, <1>1 DEF IInv, BeforeSetup
<1>12. CellsWritten'
  <2>1. \A q \in Producers : pc'[q] # "advance"
    BY <1>4, <1>5 DEF Children, Inside, BeforeAdvance
  <2> QED
    BY <1>1, <1>3, <2>1, SizesAssumption DEF IInv, CellsWritten
<1> QED
  BY <1>9, <1>10, <1>11, <1>12 DEF IInv

\* The consumer advances its cursor: the unit in hand passes to the other side of
\* the ledger.
LEMMA ConsumerAdvancesIInv ==
    ASSUME IInv, NEW c \in Consumers, ConsumerAdvances(c)
    PROVE  IInv'
<1>0. c \in Children /\ TypeOK
  BY DEF Children, IInv, SemAccounting
<1>1. /\ pc[c] = "advance" /\ pc' = [pc EXCEPT ![c] = "release"]
      /\ cons_cur' = cons_cur + 1
      /\ UNCHANGED <<sem, cell, prod_cur, flag, got, mpc, reaped, first>>
  BY DEF ConsumerAdvances, Goes
<1>2. Initialised
  BY <1>0, <1>1 DEF Initialised
<1>3. sem \in [Sems -> Nat] /\ cons_cur \in Nat /\ prod_cur \in Nat
  BY <1>0 DEF TypeOK
<1>4. \A q \in Children \ {c} : pc[q] \notin Inside
  BY <1>0, <1>1 DEF IInv, MutualExclusion, Inside, BeforeAdvance
<1>5. pc'[c] = "release" /\ \A q \in Children \ {c} : pc'[q] \notin Inside
  BY <1>0, <1>1, <1>4 DEF TypeOK
<1>6. TypeOK'
  BY <1>0, <1>1, <1>3 DEF TypeOK, ChildPC, Inside, AfterAdvance
<1>7. /\ Some(Children, Inside) = 1
      /\ Some(Consumers, BeforeAdvance) = 1 /\ Some(Consumers, AfterAdvance) = 0
      /\ Some(Producers, BeforeAdvance) = 0 /\ Some(Producers, AfterAdvance) = 0
  BY <1>1, <1>4, ConsumerLedger DEF Some, Count, Inside, BeforeAdvance, AfterAdvance
<1>8. /\ Some(Children, Inside)' = 1
      /\ Some(Consumers, BeforeAdvance)' = 0 /\ Some(Consumers, AfterAdvance)' = 1
      /\ Some(Producers, BeforeAdvance)' = 0 /\ Some(Producers, AfterAdvance)' = 0
  BY <1>5, ConsumerLedger DEF Some, Count, Inside, BeforeAdvance, AfterAdvance
<1>9. SemAccounting'
  BY <1>0, <1>1, <1>2, <1>3, <1>6, <1>7, <1>8, FirstValues
  DEF IInv, SemAccounting, SE, SF, SB, Sems
<1>10. MutualExclusion'
  BY <1>5 DEF MutualExclusion
<1>11. BeforeSetup'
  BY <1>0, <1>1 DEF IInv, BeforeSetup
<1>12. CellsWritten'
  BY <1>0, <1>1, <1>3, SizesAssumption DEF IInv, TypeOK, CellsWritten, Children
<1> QED
  BY <1>9, <1>10, <1>11, <1>12 DEF IInv

\* The store preserves the invariant: the letter of the position is in its cell.
LEMMA WriteIInv ==
    ASSUME IInv, NEW p \in Producers, Write(p)
    PROVE  IInv'
<1>0. p \in Children /\ TypeOK
  BY DEF Children, IInv, SemAccounting
<1>1. /\ pc[p] = "access" /\ pc' = [pc EXCEPT ![p] = "advance"]
      /\ prod_cur \in 0 .. SegSize - 1
      /\ cell' = [cell EXCEPT ![prod_cur] = prod_cur % Letters]
      /\ UNCHANGED <<sem, cons_cur, prod_cur, flag, got, mpc, reaped, first>>
  BY <1>0, SizesAssumption DEF Write, Goes, TypeOK
<1>2. prod_cur % Letters \in Letter
  BY <1>1, SizesAssumption DEF Letter
<1>3. TypeOK'
  BY <1>0, <1>1, <1>2 DEF TypeOK, ChildPC, Inside, BeforeAdvance
<1>4. CellsWritten'
  BY <1>0, <1>1 DEF IInv, TypeOK, CellsWritten
<1>5. /\ pc[p] \in BeforeAdvance /\ "advance" \in BeforeAdvance
      /\ pc[p] \notin AfterAdvance /\ "advance" \notin AfterAdvance
  BY <1>1 DEF BeforeAdvance, AfterAdvance
<1> QED
  BY <1>0, <1>1, <1>3, <1>4, <1>5, QuietIInv

\* Every step preserves the invariant.
LEMMA NextIInv == IInv /\ [Next]_vars => IInv'
<1> SUFFICES ASSUME IInv, [Next]_vars PROVE IInv'
  OBVIOUS
<1>1. CASE MainStep \/ SigintMain
  BY <1>1, MainIInv
<1>2. ASSUME NEW p \in Producers, ProducerStep(p) PROVE IInv'
  BY <1>2, MovesIInv, ProducerLocksIInv, WriteIInv, ProducerAdvancesIInv,
     ProducerReleasesIInv
  DEF ProducerStep, Children
<1>3. ASSUME NEW c \in Consumers, ConsumerStep(c) PROVE IInv'
  BY <1>3, MovesIInv, ConsumerLocksIInv, ConsumerAdvancesIInv, ConsumerReleasesIInv
  DEF ConsumerStep, Children
<1>4. ASSUME NEW p \in Children, Sigint(p) PROVE IInv'
  BY <1>4, MovesIInv
<1>5. CASE UNCHANGED vars
  <2>1. TypeOK' /\ BeforeSetup' /\ MutualExclusion' /\ CellsWritten'
    BY <1>5 DEF vars, IInv, SemAccounting, TypeOK, BeforeSetup, MutualExclusion,
                CellsWritten
  <2>2. SemAccounting'
    BY <1>5, <2>1 DEF vars, IInv, SemAccounting, Initialised, Some
  <2> QED
    BY <2>1, <2>2 DEF IInv
<1> QED
  BY <1>1, <1>2, <1>3, <1>4, <1>5 DEF Next, ChildStep

-----------------------------------------------------------------------------
\* The invariant holds throughout.
LEMMA InvariantHolds == Spec => []IInv
<1>1. Init => IInv
  BY InitIInv
<1>2. IInv /\ [Next]_vars => IInv'
  BY NextIInv
<1> QED
  BY <1>1, <1>2, PTL DEF Spec

\* SE, SF and SB of pc.c say what is in the buffer and who is inside, for any
\* number of producers and consumers and any pattern of SIGINTs and SIGSEGVs.
THEOREM SemaphoresAccount == Spec => []SemAccounting
<1>1. IInv => SemAccounting
  BY DEF IInv
<1> QED
  BY <1>1, InvariantHolds, PTL

\* At most one child is between a lock and the release that follows it.
THEOREM Mutex == Spec => []MutualExclusion
<1>1. IInv => MutualExclusion
  BY DEF IInv
<1> QED
  BY <1>1, InvariantHolds, PTL

-----------------------------------------------------------------------------
(* How pc.c can come to a standstill. *)

Gone == Dead \cup {"unborn"}

\* Child p sleeps in a lock that the semaphores do not let through.
Blocked(p) ==
    /\ pc[p] = "lockAsleep"
    /\ \/ p \in Producers /\ ~Passes(sem, producer_lock)
       \/ p \in Consumers /\ ~Passes(sem, consumer_lock)

\* Nobody that lives can do a step by itself: all are gone, SIGSEGV killed one
\* inside, a SETVAL failed, or only one kind is left and the buffer is full or empty.
StandstillExplained ==
    (\A p \in Children : pc[p] \in Gone \/ Blocked(p)) =>
        \/ \A p \in Children : pc[p] \in Gone
        \/ \E p \in Children : pc[p] = "segv"
        \/ first[SB] = 0 \/ first[SE] = 0
        \/ (\A c \in Consumers : pc[c] \in Gone) /\ prod_cur = cons_cur + N
        \/ (\A p \in Producers : pc[p] \in Gone) /\ prod_cur = cons_cur

\* Producers and consumers of pc.c cannot all wait for each other, for any
\* numbers of them, any N and wherever SIGINT strikes: a standstill needs a
\* SIGSEGV inside, a SETVAL that failed or the end of all children of one kind.
THEOREM StandstillOnlyThen == Spec => []StandstillExplained
<1>1. IInv => StandstillExplained
  <2> SUFFICES ASSUME IInv, \A p \in Children : pc[p] \in Gone \/ Blocked(p),
                      NEW q \in Children, pc[q] \notin Gone,
                      \A p \in Children : pc[p] # "segv", first[SB] # 0, first[SE] # 0
               PROVE  \/ (\A c \in Consumers : pc[c] \in Gone) /\ prod_cur = cons_cur + N
                      \/ (\A p \in Producers : pc[p] \in Gone) /\ prod_cur = cons_cur
    BY DEF StandstillExplained
  <2>1. Initialised /\ TypeOK
    BY DEF Initialised, Gone, IInv, SemAccounting
  <2>2. \A p \in Children : pc[p] \notin Inside
    BY DEF Blocked, Gone, Dead, Inside, BeforeAdvance, AfterAdvance
  <2>3. /\ Some(Children, Inside) = 0
        /\ Some(Producers, BeforeAdvance) = 0 /\ Some(Producers, AfterAdvance) = 0
        /\ Some(Consumers, BeforeAdvance) = 0 /\ Some(Consumers, AfterAdvance) = 0
    BY <2>2 DEF Some, Count, Inside, Children
  <2>0. first[SB] = 1 /\ first[SE] = N
    BY <2>1 DEF TypeOK
  <2>4. /\ sem \in [Sems -> Nat] /\ cons_cur \in Nat /\ prod_cur \in Nat
        /\ sem[2] = 1 /\ sem[0] = N - (prod_cur - cons_cur) /\ sem[1] = prod_cur - cons_cur
    BY <2>0, <2>1, <2>3, SizesAssumption DEF IInv, SemAccounting, TypeOK, SE, SF, SB
  <2>5. ASSUME NEW p \in Producers, pc[p] \notin Gone
        PROVE  prod_cur = cons_cur + N
    <3>1. ~Passes(sem, producer_lock)
      BY <2>5, ProcsAssumption DEF Blocked, Children
    <3>2. ~(sem[0] > 0)
      BY <2>4, <3>1, LockArray DEF producer_lock, SE
    <3> QED
      BY <2>4, <3>2, SizesAssumption DEF Sems
  <2>6. ASSUME NEW c \in Consumers, pc[c] \notin Gone
        PROVE  prod_cur = cons_cur
    <3>1. ~Passes(sem, consumer_lock)
      BY <2>6, ProcsAssumption DEF Blocked, Children
    <3>2. ~(sem[1] > 0)
      BY <2>4, <3>1, LockArray DEF consumer_lock, SF
    <3> QED
      BY <2>4, <3>2 DEF Sems
  <2> QED
    BY <2>4, <2>5, <2>6, SizesAssumption DEF Children
<1> QED
  BY <1>1, InvariantHolds, PTL

\* A child that SIGSEGV kills past the last cell takes the lock with it: from
\* then on no producer and no consumer of pc.c gets in again.
THEOREM SegvLocksOut ==
    Spec => [][(\E p \in Children : pc[p] = "segv") =>
                  /\ \E p \in Children : pc'[p] = "segv"
                  /\ \A q \in Children : pc[q] \notin Inside => pc'[q] \notin Inside]_vars
<1>1. ASSUME IInv, Next, NEW p \in Children, pc[p] = "segv"
      PROVE  /\ pc'[p] = "segv"
             /\ \A q \in Children : pc[q] \notin Inside => pc'[q] \notin Inside
  <2>1. pc \in [Children -> ChildPC] /\ sem \in [Sems -> Nat] /\ Initialised /\ Next
    BY <1>1 DEF IInv, SemAccounting, TypeOK, Initialised
  <2>2. sem[2] = 0
    BY <1>1, <2>1, FirstValues
    DEF IInv, SemAccounting, Some, Count, Inside, BeforeAdvance, SB, Sems
  <2>3. ASSUME NEW q \in Children
        PROVE  (q \in Producers => ~ProducerLocks(q)) /\ (q \in Consumers => ~ConsumerLocks(q))
    <3>1. ~Passes(sem, producer_lock)
      BY <2>1, <2>2, LockArray DEF producer_lock, SE
    <3>2. ~Passes(sem, consumer_lock)
      BY <2>1, <2>2, LockArray DEF consumer_lock, SF
    <3> QED
      BY <3>1, <3>2 DEF ProducerLocks, ConsumerLocks, Locks
  <2>4. CASE MainStep \/ SigintMain
    BY <1>1, <2>1, <2>4 DEF MainStep, Setup, MainFails, Cleanup, Fork, Reap, SigintMain,
                            Inside, BeforeAdvance, AfterAdvance
  <2>5. CASE \E q \in Children : Sigint(q)
    BY <1>1, <2>1, <2>5 DEF Sigint, Inside, BeforeAdvance, AfterAdvance, Dead
  <2>6. ASSUME NEW q \in Producers, ProducerStep(q)
        PROVE  \E from, to : /\ from # "segv" /\ Goes(q, from, to)
                             /\ from \notin Inside => to \notin Inside
    BY <2>3, <2>6 DEF ProducerStep, Loop, ProducerSleeps, Sleeps, Write, WritePast, Children,
       ProducerAdvances, ProducerReleases, Releases, Goes, Inside, BeforeAdvance, AfterAdvance
  <2>7. ASSUME NEW q \in Consumers, ConsumerStep(q)
        PROVE  \E from, to : /\ from # "segv" /\ Goes(q, from, to)
                             /\ from \notin Inside => to \notin Inside
    BY <2>3, <2>7 DEF ConsumerStep, Loop, ConsumerSleeps, Sleeps, Read, ReadPast, Children,
       ConsumerAdvances, ConsumerReleases, Releases, Goes, Inside, BeforeAdvance, AfterAdvance
  <2>8. CASE ChildStep
    <3>1. PICK q \in Children : \E from, to : /\ from # "segv" /\ Goes(q, from, to)
                                              /\ from \notin Inside => to \notin Inside
      BY <2>6, <2>7, <2>8 DEF ChildStep, Children
    <3> QED
      BY <1>1, <2>1, <3>1 DEF Goes
  <2> QED
    BY <2>1, <2>4, <2>5, <2>8 DEF Next
<1>2. IInv /\ [Next]_vars =>
        [(\E p \in Children : pc[p] = "segv") =>
            /\ \E p \in Children : pc'[p] = "segv"
            /\ \A q \in Children : pc[q] \notin Inside => pc'[q] \notin Inside]_vars
  BY <1>1
<1> QED
  BY <1>2, InvariantHolds, PTL DEF Spec

-----------------------------------------------------------------------------
(* The refinement. *)

\* The n letters that lie in the cells from cell a on.
Segment(f, a, n) == [i \in 1 .. n |-> f[a + i - 1]]

\* A segment is a sequence of n letters; one cell more at its end is one more letter
\* appended, one cell less at its start is the tail, and its head is the first cell.
LEMMA SegmentFacts ==
    ASSUME NEW f, NEW a \in Nat, NEW n \in Nat
    PROVE  /\ Len(Segment(f, a, n)) = n
           /\ Segment(f, a, 0) = <<>>
           /\ Append(Segment(f, a, n), f[a + n]) = Segment(f, a, n + 1)
           /\ Segment(f, a, n + 1) # <<>>
           /\ Head(Segment(f, a, n + 1)) = f[a]
           /\ Tail(Segment(f, a, n + 1)) = Segment(f, a + 1, n)
<1> DEFINE S == {f[a + i - 1] : i \in 1 .. n + 1}
<1>1. f[a + n] \in S /\ \A i \in 1 .. n + 1 : f[a + i - 1] \in S
  <2>1. (n + 1) \in 1 .. n + 1 /\ a + n = a + (n + 1) - 1
    OBVIOUS
  <2> QED
    BY <2>1
<1>2. \A i \in 1 .. n : a + 1 + i - 1 = a + (i + 1) - 1 /\ i + 1 \in 1 .. n + 1 /\ i \in 1 .. n + 1
  OBVIOUS
<1>3. /\ Segment(f, a, n) \in [1 .. n -> S]
      /\ Segment(f, a, n + 1) \in [1 .. n + 1 -> S]
      /\ Segment(f, a + 1, n) \in [1 .. n -> S]
  BY <1>1, <1>2 DEF Segment
<1> HIDE DEF S
<1>4. /\ Segment(f, a, n) \in Seq(S) /\ Len(Segment(f, a, n)) = n
      /\ Segment(f, a, n + 1) \in Seq(S) /\ Len(Segment(f, a, n + 1)) = n + 1
      /\ Segment(f, a + 1, n) \in Seq(S) /\ Len(Segment(f, a + 1, n)) = n
  BY <1>3, SeqDef, LenProperties
<1>5. Append(Segment(f, a, n), f[a + n]) = Segment(f, a, n + 1)
  <2> DEFINE s == Append(Segment(f, a, n), f[a + n])
  <2>1. s \in Seq(S) /\ Len(s) = n + 1
    BY <1>1, <1>4
  <2>2. \A i \in 1 .. n + 1 : s[i] = Segment(f, a, n + 1)[i]
    BY <1>4 DEF Segment
  <2> QED
    BY <1>4, <2>1, <2>2, SeqEqual
<1>6. Segment(f, a, n + 1) # <<>> /\ Head(Segment(f, a, n + 1)) = f[a]
  BY <1>4 DEF Segment
<1>7. Tail(Segment(f, a, n + 1)) = Segment(f, a + 1, n)
  <2> DEFINE t == Tail(Segment(f, a, n + 1))
  <2>1. /\ t \in Seq(S) /\ Len(t) = n
        /\ \A i \in 1 .. n : t[i] = Segment(f, a, n + 1)[i + 1]
    BY <1>4, <1>6, HeadTailProperties
  <2>2. \A i \in 1 .. n : t[i] = Segment(f, a + 1, n)[i]
    BY <1>2, <2>1 DEF Segment
  <2> QED
    BY <1>4, <2>1, <2>2, SeqEqual
<1>8. Segment(f, a, 0) = <<>>
  BY DEF Segment
<1> QED
  BY <1>4, <1>5, <1>6, <1>7, <1>8

\* The queue is empty at first.
LEMMA QueueInit == Init => Queue!Init
<1> SUFFICES ASSUME Init PROVE Queue!Init
  OBVIOUS
<1>1. FirstUnread = 0
  BY DEF Init, FirstUnread, Count, Children
<1>2. Contents = Segment(cell, 0, 0)
  BY <1>1, SizesAssumption DEF Init, Contents, Segment
<1>3. Contents = <<>>
  BY <1>2, SegmentFacts
<1> QED
  BY <1>3 DEF Init, Queue!Init

\* A step that leaves cells, cursors and copies alone and makes no consumer
\* begin or end a read does not change the queue.
LEMMA QueueStutter ==
    ASSUME UNCHANGED <<cell, cons_cur, prod_cur, got>>,
           \A c \in Consumers : pc'[c] = "advance" <=> pc[c] = "advance"
    PROVE  UNCHANGED <<Contents, got, prod_cur>>
<1>1. FirstUnread' = FirstUnread
  BY DEF FirstUnread, Count
<1> QED
  BY <1>1 DEF Contents

\* While c is inside no other consumer reads.
LEMMA ReaderAlone ==
    ASSUME IInv, NEW p \in Children, pc[p] \in Inside
    PROVE  \A c \in Consumers \ {p} : pc[c] # "advance"
  BY DEF IInv, MutualExclusion, Inside, BeforeAdvance, Children

\* The producer's advance is the put, as long as there was a cell.
LEMMA AdvanceIsPut ==
    ASSUME IInv, NEW p \in Producers, ProducerAdvances(p)
    PROVE  Queue!Next
<1>0. p \in Children /\ p \notin Consumers /\ TypeOK
  BY ProcsAssumption DEF Children, IInv, SemAccounting
<1>1. /\ pc[p] = "advance" /\ pc' = [pc EXCEPT ![p] = "release"]
      /\ prod_cur' = prod_cur + 1
      /\ UNCHANGED <<cell, cons_cur, got>>
  BY DEF ProducerAdvances, Goes
<1>2. sem \in [Sems -> Nat] /\ cons_cur \in Nat /\ prod_cur \in Nat
  BY <1>0 DEF TypeOK
<1>3. CASE prod_cur + 1 > SegSize
  BY <1>1, <1>3 DEF Queue!Next, Queue!WornOut
<1>4. CASE prod_cur + 1 <= SegSize
  <2> DEFINE n == prod_cur - cons_cur
  <2>1. \A q \in Children \ {p} : pc[q] \notin Inside
    BY <1>0, <1>1 DEF IInv, MutualExclusion, Inside, BeforeAdvance
  <2>2. /\ Some(Producers, BeforeAdvance) = 1 /\ Some(Producers, AfterAdvance) = 0
        /\ Some(Consumers, BeforeAdvance) = 0 /\ Some(Consumers, AfterAdvance) = 0
    BY <1>1, <2>1, ProducerLedger DEF Some, Count, Inside, BeforeAdvance, AfterAdvance
  <2>3. sem[SE] = first[SE] - n - 1 /\ sem[SF] = n
    BY <1>0, <1>1, <1>2, <2>2, FirstValues DEF IInv, SemAccounting, Initialised
  <2>4. n \in Nat /\ n < N
    BY <1>0, <1>2, <2>3, FirstValues, SizesAssumption DEF Sems, SE, SF
  <2>5. \A c \in Consumers : pc[c] # "advance" /\ pc'[c] # "advance"
    BY <1>0, <1>1, ReaderAlone DEF TypeOK, Inside, BeforeAdvance
  <2>6. FirstUnread = cons_cur /\ FirstUnread' = cons_cur
    BY <1>1, <1>2, <2>5 DEF FirstUnread, Count
  <2>7. Contents = Segment(cell, cons_cur, n) /\ Contents' = Segment(cell, cons_cur, n + 1)
    BY <1>1, <1>2, <1>4, <2>6, SizesAssumption DEF Contents, Segment
  <2>8. cell[prod_cur] \in Letter /\ prod_cur = cons_cur + n
    BY <1>1, <1>2, <1>4, SizesAssumption DEF IInv, CellsWritten, Letter
  <2> HIDE DEF n
  <2>9. Len(Contents) = n /\ Contents' = Append(Contents, cell[prod_cur])
    BY <1>2, <2>4, <2>7, <2>8, SegmentFacts
  <2>10. Queue!Put(cell[prod_cur])
    BY <1>1, <2>4, <2>9 DEF Queue!Put
  <2> QED
    BY <2>8, <2>10 DEF Queue!Next
<1> QED
  BY <1>2, <1>3, <1>4, SizesAssumption

\* The consumer's load is the get: there is a letter to get, and it is the oldest.
LEMMA ReadIsGet ==
    ASSUME IInv, NEW c \in Consumers, Read(c) \/ ReadPast(c)
    PROVE  Queue!Next \/ UNCHANGED <<Contents, got, prod_cur>>
<1>0. c \in Children /\ TypeOK
  BY DEF Children, IInv, SemAccounting
<1>1. /\ pc[c] = "access" /\ UNCHANGED <<cell, cons_cur, prod_cur>>
  BY DEF Read, ReadPast, Goes
<1>2. sem \in [Sems -> Nat] /\ cons_cur \in Nat /\ prod_cur \in Nat
  BY <1>0 DEF TypeOK
<1>3. \A q \in Children \ {c} : pc[q] \notin Inside
  BY <1>0, <1>1 DEF IInv, MutualExclusion, Inside, BeforeAdvance
<1>4. /\ Some(Consumers, BeforeAdvance) = 1 /\ Some(Producers, AfterAdvance) = 0
  BY <1>1, <1>3, ConsumerLedger DEF Some, Count, Inside, BeforeAdvance, AfterAdvance
<1>5. sem[SF] = prod_cur - cons_cur - 1
  BY <1>0, <1>1, <1>2, <1>4 DEF IInv, SemAccounting, Initialised
<1>6. prod_cur > cons_cur
  BY <1>2, <1>5 DEF Sems, SF
<1>7. CASE prod_cur > SegSize
  BY <1>1, <1>7 DEF Queue!Next, Queue!WornOut
<1>8. CASE prod_cur <= SegSize
  <2> DEFINE n == prod_cur - cons_cur - 1
  <2>1. n \in Nat /\ cons_cur < SegSize
    BY <1>2, <1>6, <1>8, SizesAssumption
  <2>2. pc' = [pc EXCEPT ![c] = "advance"] /\ got' = [got EXCEPT ![c] = cell[cons_cur]]
    BY <1>2, <2>1, SizesAssumption DEF Read, ReadPast, Goes
  <2>3. \A d \in Consumers : pc[d] # "advance"
    BY <1>0, <1>1, ReaderAlone DEF Inside, BeforeAdvance
  <2>4. pc'[c] = "advance"
    BY <1>0, <2>2 DEF TypeOK
  <2>5. FirstUnread = cons_cur /\ FirstUnread' = cons_cur + 1
    BY <1>1, <1>2, <2>3, <2>4 DEF FirstUnread, Count
  <2>6. /\ Contents = Segment(cell, cons_cur, n + 1)
        /\ Contents' = Segment(cell, cons_cur + 1, n)
    BY <1>1, <1>2, <1>8, <2>5 DEF Contents, Segment
  <2> HIDE DEF n
  <2>7. /\ Contents # <<>> /\ Head(Contents) = cell[cons_cur]
        /\ Contents' = Tail(Contents)
    <3>1. PICK a \in Nat : a = cons_cur
      BY <1>2
    <3>2. /\ Segment(cell, a, n + 1) # <<>> /\ Head(Segment(cell, a, n + 1)) = cell[a]
          /\ Tail(Segment(cell, a, n + 1)) = Segment(cell, a + 1, n)
      BY <2>1, SegmentFacts, ZenonT(30)
    <3> QED
      BY <2>6, <3>1, <3>2
  <2>8. Queue!Get(c)
    BY <1>1, <2>2, <2>7 DEF Queue!Get
  <2> QED
    BY <2>8 DEF Queue!Next
<1> QED
  BY <1>2, <1>7, <1>8, SizesAssumption

\* The consumer's advance only catches up with its load.
LEMMA ConsumerAdvanceIsStutter ==
    ASSUME IInv, NEW c \in Consumers, ConsumerAdvances(c)
    PROVE  UNCHANGED <<Contents, got, prod_cur>>
<1>0. c \in Children /\ TypeOK
  BY DEF Children, IInv, SemAccounting
<1>1. /\ pc[c] = "advance" /\ pc' = [pc EXCEPT ![c] = "release"]
      /\ cons_cur' = cons_cur + 1 /\ UNCHANGED <<cell, prod_cur, got>>
  BY DEF ConsumerAdvances, Goes
<1>2. \A d \in Consumers \ {c} : pc[d] # "advance"
  BY <1>0, <1>1, ReaderAlone DEF Inside, BeforeAdvance
<1>3. \A d \in Consumers : pc'[d] # "advance"
  BY <1>0, <1>1, <1>2 DEF TypeOK, Children
<1>4. FirstUnread = cons_cur + 1 /\ FirstUnread' = cons_cur + 1
  BY <1>0, <1>1, <1>3 DEF FirstUnread, Count, TypeOK
<1> QED
  BY <1>1, <1>4 DEF Contents

\* The store is not seen yet: its cell is behind the last one put.
LEMMA WriteIsStutter ==
    ASSUME IInv, NEW p \in Producers, Write(p)
    PROVE  UNCHANGED <<Contents, got, prod_cur>>
<1>0. p \in Children /\ p \notin Consumers /\ TypeOK
  BY ProcsAssumption DEF Children, IInv, SemAccounting
<1>1. /\ pc' = [pc EXCEPT ![p] = "advance"] /\ prod_cur \in 0 .. SegSize - 1
      /\ cell' = [cell EXCEPT ![prod_cur] = prod_cur % Letters]
      /\ UNCHANGED <<cons_cur, prod_cur, got>>
  BY <1>0, SizesAssumption DEF Write, Goes, TypeOK
<1>2. FirstUnread' = FirstUnread
  BY <1>0, <1>1 DEF FirstUnread, Count, TypeOK, Children
<1>3. FirstUnread \in Nat
  BY <1>0 DEF FirstUnread, Count, TypeOK
<1>4. \A i \in 1 .. prod_cur - FirstUnread :
        cell'[FirstUnread + i - 1] = cell[FirstUnread + i - 1]
  BY <1>0, <1>1, <1>3 DEF TypeOK
<1> QED
  BY <1>1, <1>2, <1>4 DEF Contents

\* Every step of pc.c is a put, a get, a step of a worn-out queue or no step.
LEMMA QueueNext ==
    ASSUME IInv, [Next]_vars
    PROVE  [Queue!Next]_<<Contents, got, prod_cur>>
<1>0. TypeOK
  BY DEF IInv, SemAccounting
<1>1. CASE MainStep \/ SigintMain
  <2>1. UNCHANGED <<cell, cons_cur, prod_cur, got>>
    BY <1>1 DEF MainStep, Setup, MainFails, Cleanup, Fork, Reap, SigintMain, IInv, BeforeSetup
  <2>2. \A c \in Consumers : pc'[c] = "advance" <=> pc[c] = "advance"
    BY <1>0, <1>1
    DEF MainStep, Setup, MainFails, Cleanup, Fork, Reap, SigintMain, TypeOK, Children
  <2> QED
    BY <2>1, <2>2, QueueStutter
<1>2. ASSUME NEW p \in Producers, ProducerStep(p)
      PROVE  Queue!Next \/ UNCHANGED <<Contents, got, prod_cur>>
  <2>1. CASE ProducerAdvances(p)
    BY <2>1, AdvanceIsPut
  <2>2. CASE Write(p)
    BY <2>2, WriteIsStutter
  <2>3. CASE Loop(p) \/ ProducerLocks(p) \/ ProducerSleeps(p) \/ WritePast(p) \/ ProducerReleases(p)
    <3>1. UNCHANGED <<cell, cons_cur, prod_cur, got>>
      BY <2>3 DEF Loop, ProducerLocks, Locks, ProducerSleeps, Sleeps, WritePast,
                  ProducerReleases, Releases
    <3>2. \A c \in Consumers : pc'[c] = pc[c]
      BY <1>0, <2>3, ProcsAssumption
      DEF Loop, ProducerLocks, Locks, ProducerSleeps, Sleeps, WritePast,
          ProducerReleases, Releases, Goes, TypeOK, Children
    <3> QED
      BY <3>1, <3>2, QueueStutter
  <2> QED
    BY <1>2, <2>1, <2>2, <2>3 DEF ProducerStep
<1>3. ASSUME NEW c \in Consumers, ConsumerStep(c)
      PROVE  Queue!Next \/ UNCHANGED <<Contents, got, prod_cur>>
  <2>1. CASE Read(c) \/ ReadPast(c)
    BY <2>1, ReadIsGet
  <2>2. CASE ConsumerAdvances(c)
    BY <2>2, ConsumerAdvanceIsStutter
  <2>3. CASE Loop(c) \/ ConsumerLocks(c) \/ ConsumerSleeps(c) \/ ConsumerReleases(c)
    <3>1. UNCHANGED <<cell, cons_cur, prod_cur, got>>
      BY <2>3 DEF Loop, ConsumerLocks, Locks, ConsumerSleeps, Sleeps, ConsumerReleases, Releases
    <3>2. \A d \in Consumers : pc'[d] = "advance" <=> pc[d] = "advance"
      BY <1>0, <2>3
      DEF Loop, ConsumerLocks, Locks, ConsumerSleeps, Sleeps, ConsumerReleases, Releases,
          Goes, TypeOK, Children
    <3> QED
      BY <3>1, <3>2, QueueStutter
  <2> QED
    BY <1>3, <2>1, <2>2, <2>3 DEF ConsumerStep
<1>4. ASSUME NEW p \in Children, Sigint(p)
      PROVE  UNCHANGED <<Contents, got, prod_cur>>
  <2>1. UNCHANGED <<cell, cons_cur, prod_cur, got>>
    BY <1>4 DEF Sigint
  <2>2. \A c \in Consumers : pc'[c] = "advance" <=> pc[c] = "advance"
    BY <1>0, <1>4 DEF Sigint, TypeOK, Children
  <2> QED
    BY <2>1, <2>2, QueueStutter
<1>5. CASE UNCHANGED vars
  BY <1>5, QueueStutter DEF vars
<1> QED
  BY <1>1, <1>2, <1>3, <1>4, <1>5 DEF Next, ChildStep

\* The shared segment of pc.c implements a bounded first-in first-out queue for its
\* first SegSize letters.
THEOREM Refinement == Spec => ImplementsQueue
<1>1. Init => Queue!Init
  BY QueueInit
<1>2. IInv /\ [Next]_vars => [Queue!Next]_<<Contents, got, prod_cur>>
  BY QueueNext
<1> QED
  BY <1>1, <1>2, InvariantHolds, PTL DEF Spec, ImplementsQueue, Queue!Spec
=============================================================================

------------------------- MODULE ProducersConsumers -------------------------
(***************************************************************************)
(* Producers and consumers over System V shared memory                     *)
(* (lab-shmemory/semaphore/pc.c).                                          *)
(*                                                                         *)
(* A private segment holds two cursors and, behind them, SegSize cells.    *)
(* Three semaphores guard it: SE counts the empty cells (N at first), SF   *)
(* the full ones, SB is the lock.  A producer writes the letter of its     *)
(* position at *prod_cur and advances the cursor; a consumer reads at      *)
(* *cons_cur and advances.  The cursors never go back to the first cell.   *)
(*                                                                         *)
(* Past the last cell the access is outside the segment: either the next   *)
(* page belongs to the process alone (gcc and glibc put a private page     *)
(* there), so that nobody else sees the store, or the process is killed    *)
(* by SIGSEGV where it stands.                                             *)
(*                                                                         *)
(* SIGINT clears flag; a lock that is asleep fails with EINTR and the      *)
(* child exits with 1.  The releases only add, so they never sleep.        *)
(***************************************************************************)
EXTENDS SysVSem, FiniteSets

CONSTANTS
    Producers,  \* three in main
    Consumers,  \* four in main
    Main,       \* the parent
    N,          \* the initial value of SE (26)
    SegSize,    \* the number of cells in the segment (4096 - 2 * 8)
    Letters,    \* the length of the alphabet (26)
    MaxItems,   \* bound: the producers stop after so many items
    None        \* no letter

ASSUME ProcsAssumption ==
    /\ Producers \cap Consumers = {}
    /\ Main \notin Producers \cup Consumers
    /\ Producers \cup Consumers # {}

ASSUME SizesAssumption ==
    /\ N \in Nat \ {0}
    /\ SegSize \in Nat
    /\ Letters \in Nat \ {0}
    /\ MaxItems \in Nat

ASSUME NoneAssumption == None \notin 0 .. Letters - 1

VARIABLES
    sem,        \* the values of SE, SF and SB
    cell,       \* the cells of the segment
    cons_cur,   \* the consumers' cursor, as a cell number
    prod_cur,   \* the producers' cursor
    pc,         \* where each child is
    flag,       \* each process's own copy of flag
    got,        \* the letter each consumer read last
    mpc,        \* where main is
    reaped,     \* the children whose status wait() has returned
    first       \* the values the semaphores had when main forked

vars == <<sem, cell, cons_cur, prod_cur, pc, flag, got, mpc, reaped, first>>

Children == Producers \cup Consumers
Letter == 0 .. Letters - 1

SE == 0
SF == 1
SB == 2

Sems == 0 .. 2

\* Slips: a lock without SB, a release of the wrong semaphores.
producer_release_NoFull == << SemOp(SB, 1) >>
consumer_lock_NoBin     == << SemOp(SF, -1) >>
consumer_release_Full   == << SemOp(SB, 1), SemOp(SF, 1) >>

producer_lock    == << SemOp(SE, -1), SemOp(SB, -1) >>
producer_release == << SemOp(SB, 1), SemOp(SF, 1) >>
consumer_lock    == << SemOp(SF, -1), SemOp(SB, -1) >>
consumer_release == << SemOp(SB, 1), SemOp(SE, 1) >>

-----------------------------------------------------------------------------
(* Where a child holds the lock: before and after it advances its cursor.  *)
BeforeAdvance == {"access", "advance", "segv"}
AfterAdvance == {"release"}
Inside == BeforeAdvance \cup AfterAdvance

\* exit(0) after the loop, exit(1) from the lock, killed by SIGSEGV.
Dead == {"exited", "failed", "segv"}

ChildPC == {"unborn", "loop", "lock", "lockAsleep"} \cup Inside \cup Dead

MainPC == {"setup", "fork", "wait", "cleanup", "done", "failed"}

TypeOK ==
    /\ sem \in [Sems -> Nat]
    /\ cell \in [0 .. SegSize - 1 -> Letter \cup {None}]
    /\ cons_cur \in Nat /\ prod_cur \in Nat
    /\ pc \in [Children -> ChildPC]
    /\ flag \in [Children \cup {Main} -> BOOLEAN]
    /\ got \in [Consumers -> Letter \cup {None}]
    /\ mpc \in MainPC
    /\ reaped \in SUBSET Children
    /\ first \in [Sems -> Nat] /\ first[SE] \in {0, N} /\ first[SB] \in {0, 1}

\* A new set and a new segment (IPC_PRIVATE): zeros.
Init ==
    /\ sem = [n \in Sems |-> 0] /\ first = sem
    /\ cell = [i \in 0 .. SegSize - 1 |-> None]
    /\ cons_cur = 0 /\ prod_cur = 0
    /\ pc = [p \in Children |-> "unborn"]
    /\ flag = [p \in Children \cup {Main} |-> TRUE]
    /\ got = [c \in Consumers |-> None]
    /\ mpc = "setup"
    /\ reaped = {}

-----------------------------------------------------------------------------
(* main *)

\* shmget, shmat, both cursors at the first cell, semget, the three SETVALs.  One
\* that fails is reported and the semaphore stays 0; main goes on.
Setup ==
    /\ mpc = "setup"
    /\ \E failed \in SUBSET Sems :
          sem' = [n \in Sems |-> CASE n \in failed \cup {SF} -> 0 [] n = SE -> N [] n = SB -> 1]
    /\ first' = sem'
    /\ cons_cur' = 0 /\ prod_cur' = 0
    /\ mpc' = "fork"
    /\ UNCHANGED <<cell, pc, flag, got, reaped>>

\* The producers are forked first; a child starts with main's flag.
Fork(p) ==
    /\ mpc = "fork"
    /\ pc[p] = "unborn"
    /\ p \in Consumers => \A q \in Producers : pc[q] # "unborn"
    /\ pc' = [pc EXCEPT ![p] = "loop"]
    /\ flag' = [flag EXCEPT ![p] = flag[Main]]
    /\ mpc' = IF \A q \in Children \ {p} : pc[q] # "unborn"
              THEN "wait" ELSE "fork"
    /\ UNCHANGED <<sem, cell, cons_cur, prod_cur, got, reaped, first>>

\* shmget, shmat, semget or fork fails: exit(1), the children born so far go on.
MainFails ==
    /\ mpc \in {"setup", "fork"}
    /\ mpc' = "failed"
    /\ UNCHANGED <<sem, cell, cons_cur, prod_cur, pc, flag, got, reaped, first>>

Reap(p) ==
    /\ mpc = "wait"
    /\ pc[p] \in Dead
    /\ p \notin reaped
    /\ reaped' = reaped \cup {p}
    /\ mpc' = IF reaped' = Children THEN "cleanup" ELSE "wait"
    /\ UNCHANGED <<sem, cell, cons_cur, prod_cur, pc, flag, got, first>>

\* shmctl(IPC_RMID), shmdt, semctl(IPC_RMID); exit(1) on every path.
Cleanup ==
    /\ mpc = "cleanup"
    /\ mpc' = "done"
    /\ UNCHANGED <<sem, cell, cons_cur, prod_cur, pc, flag, got, reaped, first>>

-----------------------------------------------------------------------------
(* The children. *)

Goes(p, from, to) == pc[p] = from /\ pc' = [pc EXCEPT ![p] = to]

\* while (flag)
Loop(p) ==
    /\ Goes(p, "loop", IF flag[p] THEN "lock" ELSE "exited")
    /\ UNCHANGED <<sem, cell, cons_cur, prod_cur, flag, got, mpc, reaped, first>>

\* The lock is done at once, or by a sleeper that is woken.
Locks(p, ops) ==
    /\ pc[p] \in {"lock", "lockAsleep"}
    /\ Passes(sem, ops)
    /\ sem' = After(sem, ops)
    /\ pc' = [pc EXCEPT ![p] = "access"]
    /\ UNCHANGED <<cell, cons_cur, prod_cur, flag, got, mpc, reaped, first>>

Sleeps(p, ops) ==
    /\ Goes(p, "lock", "lockAsleep")
    /\ ~Passes(sem, ops)
    /\ UNCHANGED <<sem, cell, cons_cur, prod_cur, flag, got, mpc, reaped, first>>

Releases(p, ops) ==
    /\ Goes(p, "release", "loop")
    /\ Passes(sem, ops)
    /\ sem' = After(sem, ops)
    /\ UNCHANGED <<cell, cons_cur, prod_cur, flag, got, mpc, reaped, first>>

ProducerLocks(p)    == prod_cur < MaxItems /\ Locks(p, producer_lock)
ProducerSleeps(p)   == Sleeps(p, producer_lock)
ProducerReleases(p) == Releases(p, producer_release)
ConsumerLocks(c)    == Locks(c, consumer_lock)
ConsumerSleeps(c)   == Sleeps(c, consumer_lock)
ConsumerReleases(c) == Releases(c, consumer_release)

\* **prod_cur = 'a' + (position of *prod_cur) % 26
Write(p) ==
    /\ Goes(p, "access", "advance")
    /\ prod_cur < SegSize
    /\ cell' = [cell EXCEPT ![prod_cur] = prod_cur % Letters]
    /\ UNCHANGED <<sem, cons_cur, prod_cur, flag, got, mpc, reaped, first>>

\* The store is outside the segment.
WritePast(p) ==
    /\ prod_cur >= SegSize
    /\ Goes(p, "access", "advance") \/ Goes(p, "access", "segv")
    /\ UNCHANGED <<sem, cell, cons_cur, prod_cur, flag, got, mpc, reaped, first>>

ProducerAdvances(p) ==
    /\ Goes(p, "advance", "release")
    /\ prod_cur' = prod_cur + 1
    /\ UNCHANGED <<sem, cell, cons_cur, flag, got, mpc, reaped, first>>

\* c = **cons_cur
Read(c) ==
    /\ Goes(c, "access", "advance")
    /\ cons_cur < SegSize
    /\ got' = [got EXCEPT ![c] = cell[cons_cur]]
    /\ UNCHANGED <<sem, cell, cons_cur, prod_cur, flag, mpc, reaped, first>>

\* The load is outside the segment: a zero byte of the consumer's own page.
ReadPast(c) ==
    /\ cons_cur >= SegSize
    /\ \/ Goes(c, "access", "advance") /\ got' = [got EXCEPT ![c] = None]
       \/ Goes(c, "access", "segv") /\ UNCHANGED got
    /\ UNCHANGED <<sem, cell, cons_cur, prod_cur, flag, mpc, reaped, first>>

ConsumerAdvances(c) ==
    /\ Goes(c, "advance", "release")
    /\ cons_cur' = cons_cur + 1
    /\ UNCHANGED <<sem, cell, prod_cur, flag, got, mpc, reaped, first>>

\* SIGINT runs sig_catch in child p; a lock that is asleep returns EINTR.
Sigint(p) ==
    /\ pc[p] \notin Dead \cup {"unborn"}
    /\ flag' = [flag EXCEPT ![p] = FALSE]
    /\ pc' = IF pc[p] = "lockAsleep" THEN [pc EXCEPT ![p] = "failed"] ELSE pc
    /\ UNCHANGED <<sem, cell, cons_cur, prod_cur, got, mpc, reaped, first>>

SigintMain ==
    /\ mpc \notin {"done", "failed"}
    /\ flag' = [flag EXCEPT ![Main] = FALSE]
    /\ UNCHANGED <<sem, cell, cons_cur, prod_cur, pc, got, mpc, reaped, first>>

-----------------------------------------------------------------------------
MainStep == Setup \/ MainFails \/ Cleanup \/ \E p \in Children : Fork(p) \/ Reap(p)

ProducerStep(p) ==
    \/ Loop(p) \/ ProducerLocks(p) \/ ProducerSleeps(p)
    \/ Write(p) \/ WritePast(p) \/ ProducerAdvances(p) \/ ProducerReleases(p)

ConsumerStep(c) ==
    \/ Loop(c) \/ ConsumerLocks(c) \/ ConsumerSleeps(c)
    \/ Read(c) \/ ReadPast(c) \/ ConsumerAdvances(c) \/ ConsumerReleases(c)

ChildStep ==
    (\E p \in Producers : ProducerStep(p)) \/ (\E c \in Consumers : ConsumerStep(c))

Next ==
    \/ MainStep
    \/ ChildStep
    \/ SigintMain
    \/ \E p \in Children : Sigint(p)

Spec == Init /\ [][Next]_vars

-----------------------------------------------------------------------------
(* Properties *)

Initialised ==
    mpc \notin {"setup", "failed"} \/ \E p \in Children : pc[p] # "unborn"

Count(cond) == IF cond THEN 1 ELSE 0
Some(procs, where) == Count(\E p \in procs : pc[p] \in where)

\* Whatever SIGINT and SIGSEGV do, SB is taken iff a child is inside (a dead
\* one only if SIGSEGV killed it there), and SE and SF are the empty and the
\* full cells but for the one unit the child inside has in hand.  Where a SETVAL
\* failed SB or SE counts from 0, and so nobody gets in.
SemAccounting ==
    /\ TypeOK
    /\ Initialised =>
           /\ sem[SB] = first[SB] - Some(Children, Inside)
           /\ sem[SE] = first[SE] - (prod_cur - cons_cur)
                          - Some(Producers, BeforeAdvance) - Some(Consumers, AfterAdvance)
           /\ sem[SF] = prod_cur - cons_cur
                          - Some(Producers, AfterAdvance) - Some(Consumers, BeforeAdvance)

\* At most one child works on the cursors and the cells.
MutualExclusion ==
    \A p, q \in Children : pc[p] \in Inside /\ pc[q] \in Inside => p = q

\* The queue the segment stands for: the cells from the first unread one to
\* the last one whose producer has advanced, as long as these are cells.
FirstUnread == cons_cur + Count(\E c \in Consumers : pc[c] = "advance")

Contents ==
    IF prod_cur <= SegSize
    THEN [i \in 1 .. prod_cur - FirstUnread |-> cell[FirstUnread + i - 1]]
    ELSE <<>>

Queue == INSTANCE BoundedQueue
    WITH Items <- Letter, Takers <- Consumers, Capacity <- N, Lifetime <- SegSize,
         None <- None, queue <- Contents, got <- got, count <- prod_cur

\* The segment is a FIFO queue of at most N letters for the first SegSize of
\* them, though cursors and cells are changed in separate steps: a letter is put
\* when the producer advances and got when the consumer reads.
ImplementsQueue == Queue!Spec

\* All children are forked.
Staffed == \A p \in Children : pc[p] # "unborn"

\* What is produced is consumed, as long as the cells last: the consumers' cursor
\* catches up time and again, and in the end with the last cell.
EveryItemConsumed == []<>(Staffed => cons_cur >= prod_cur \/ cons_cur >= SegSize)
=============================================================================

--------------------------- MODULE ReadersWriters ---------------------------
(***************************************************************************)
(* Readers and writers over System V shared memory                         *)
(* (lab-shmemory/semaphore/wr.c).                                          *)
(*                                                                         *)
(* main creates one shared int and a set of five semaphores, forks the     *)
(* readers and then the writers, waits for all of them and removes the     *)
(* IPC objects.  A child loops: it takes its lock with one semop, reads    *)
(* the int or increments it (a load and a store), and releases with one    *)
(* semop.  SIGINT clears the process's flag, which ends its loop; a semop  *)
(* that is asleep when SIGINT comes fails with EINTR and the child exits   *)
(* with 1 where it stands (nothing uses SEM_UNDO).                         *)
(*                                                                         *)
(* stop_write passes nsops = 3 with an array of two elements.  The third   *)
(* operation is whatever follows writer_release in memory, which depends   *)
(* on the build: `layout' is chosen once, in Init.  "adjacent": the int    *)
(* flag follows (gcc -O0), read as semaphore number flag, operation 0.     *)
(* "padded": zero padding follows (gcc -O2), read as {0, 0}.               *)
(***************************************************************************)
EXTENDS SysVSem, FiniteSets

CONSTANTS
    Readers,    \* the COUNT_READERS reader processes
    Writers,    \* the COUNT_WRITERS writer processes
    Main,       \* the parent
    ShmMod      \* the shared int is kept modulo ShmMod

ASSUME ProcsAssumption ==
    /\ IsFiniteSet(Readers)
    /\ IsFiniteSet(Writers)
    /\ Readers \cap Writers = {}
    /\ Main \notin Readers \cup Writers
    /\ Readers \cup Writers # {}

ASSUME ShmModAssumption == ShmMod \in Nat /\ ShmMod > 1

VARIABLES
    sem,      \* the values of the five semaphores
    shm,      \* the shared int, modulo ShmMod
    pc,       \* where each child is
    flag,     \* each process's own copy of flag
    reg,      \* the register of a writer's (*shm)++
    mpc,      \* where main is
    reaped,   \* the children whose status wait() has returned
    layout    \* what follows writer_release in memory

vars == <<sem, shm, pc, flag, reg, mpc, reaped, layout>>

Children == Readers \cup Writers

WAITING_READERS == 0
ACTIVE_READERS  == 1
ACTIVE_WRITER   == 2
WAITING_WRITERS == 3
BIN_WRITER      == 4

Sems == 0 .. 4

-----------------------------------------------------------------------------
(* The operation arrays. *)

\* A slip: the closing P of WAITING_READERS is forgotten.
reader_lock_NoLastP ==
    << SemOp(WAITING_READERS, 1), SemOp(BIN_WRITER, 0),
       SemOp(WAITING_WRITERS, 0), SemOp(ACTIVE_READERS, 1) >>

\* A slip: the reader does not look at BIN_WRITER.
reader_lock_NoWait ==
    << SemOp(WAITING_READERS, 1), SemOp(WAITING_WRITERS, 0),
       SemOp(ACTIVE_READERS, 1), SemOp(WAITING_READERS, -1) >>

reader_lock ==
    << SemOp(WAITING_READERS, 1), SemOp(BIN_WRITER, 0),
       SemOp(WAITING_WRITERS, 0), SemOp(ACTIVE_READERS, 1),
       SemOp(WAITING_READERS, -1) >>

reader_release == << SemOp(ACTIVE_WRITER, 0), SemOp(ACTIVE_READERS, -1) >>

\* A slip: the P of BIN_WRITER is forgotten.
writer_lock_NoBin ==
    << SemOp(WAITING_WRITERS, 1), SemOp(ACTIVE_READERS, 0),
       SemOp(ACTIVE_WRITER, 1), SemOp(WAITING_WRITERS, -1) >>

\* A slip: the writer does not wait for the readers.
writer_lock_NoWait ==
    << SemOp(WAITING_WRITERS, 1), SemOp(BIN_WRITER, -1),
       SemOp(ACTIVE_WRITER, 1), SemOp(WAITING_WRITERS, -1) >>

writer_lock ==
    << SemOp(WAITING_WRITERS, 1), SemOp(ACTIVE_READERS, 0),
       SemOp(BIN_WRITER, -1), SemOp(ACTIVE_WRITER, 1),
       SemOp(WAITING_WRITERS, -1) >>

\* The semaphore number found after writer_release: flag itself (1 is
\* ACTIVE_READERS) or padding; the operation found there is 0 either way.
thirdNum(w) == IF layout = "adjacent" /\ flag[w] THEN 1 ELSE 0

\* A slip: BIN_WRITER is not given back.
writer_release_NoBin(w) ==
    << SemOp(ACTIVE_WRITER, -1), SemOp(thirdNum(w), 0) >>

writer_release(w) ==
    << SemOp(ACTIVE_WRITER, -1), SemOp(BIN_WRITER, 1), SemOp(thirdNum(w), 0) >>

-----------------------------------------------------------------------------
(* Where a process can be. *)

Asleep == {"startAsleep", "stopAsleep"}

\* exit(0) after the loop, exit(1) from start_*, exit(1) from stop_*.
Dead == {"exited", "failedStart", "failedStop"}

\* A child at one of these has done its lock and not its release.
Inside == {"read", "load", "store", "stop", "stopAsleep", "failedStop"}

ChildPC == {"unborn", "loop", "start"} \cup Asleep \cup Dead \cup Inside

MainPC == {"setup", "fork", "wait", "cleanup", "done", "failed"}

TypeOK ==
    /\ sem \in [Sems -> Nat]
    /\ shm \in 0 .. ShmMod - 1
    /\ pc \in [Children -> ChildPC]
    /\ flag \in [Children \cup {Main} -> BOOLEAN]
    /\ reg \in [Writers -> 0 .. ShmMod - 1]
    /\ mpc \in MainPC
    /\ reaped \in SUBSET Children
    /\ layout \in {"adjacent", "padded"}

\* IPC_CREAT without IPC_EXCL: the objects may be those an earlier run left.
Init ==
    /\ sem \in [Sems -> 0 .. 1]
    /\ shm = 0
    /\ pc = [p \in Children |-> "unborn"]
    /\ flag = [p \in Children \cup {Main} |-> TRUE]
    /\ reg = [w \in Writers |-> 0]
    /\ mpc = "setup"
    /\ reaped = {}
    /\ layout \in {"adjacent", "padded"}

-----------------------------------------------------------------------------
(* main *)

\* ftok, shmget, shmat, *shm_buf = 0, semget and the five SETVALs.  pid is
\* not initialised before the two loops test it: if the garbage is 0 neither
\* loop forks.
Setup ==
    /\ mpc = "setup"
    /\ sem' = [n \in Sems |-> IF n = BIN_WRITER THEN 1 ELSE 0]
    /\ shm' = 0
    /\ mpc' \in {"fork", "wait"}
    /\ UNCHANGED <<pc, flag, reg, reaped, layout>>

\* Any of the calls of the set-up fails: exit(1).
SetupFails ==
    /\ mpc = "setup"
    /\ mpc' = "failed"
    /\ UNCHANGED <<sem, shm, pc, flag, reg, reaped, layout>>

\* The readers are forked first; a child starts with main's flag.
Fork(p) ==
    /\ mpc = "fork"
    /\ pc[p] = "unborn"
    /\ p \in Writers => \A r \in Readers : pc[r] # "unborn"
    /\ pc' = [pc EXCEPT ![p] = "loop"]
    /\ flag' = [flag EXCEPT ![p] = flag[Main]]
    /\ mpc' = IF \A q \in Children \ {p} : pc[q] # "unborn"
              THEN "wait" ELSE "fork"
    /\ UNCHANGED <<sem, shm, reg, reaped, layout>>

\* fork returns -1: exit(1); the children born so far go on without main.
ForkFails ==
    /\ mpc = "fork"
    /\ mpc' = "failed"
    /\ UNCHANGED <<sem, shm, pc, flag, reg, reaped, layout>>

\* A slip: the loop calls wait only COUNT_READERS times.
ReapOnlyReaders(p) ==
    /\ mpc = "wait"
    /\ pc[p] \in Dead
    /\ p \notin reaped
    /\ reaped' = reaped \cup {p}
    /\ mpc' = IF Cardinality(reaped') = Cardinality(Readers) THEN "cleanup" ELSE "wait"
    /\ UNCHANGED <<sem, shm, pc, flag, reg, layout>>

\* wait returns a dead child, COUNT_READERS + COUNT_WRITERS times in all.
Reap(p) ==
    /\ mpc = "wait"
    /\ pc[p] \in Dead
    /\ p \notin reaped
    /\ reaped' = reaped \cup {p}
    /\ mpc' = IF reaped' = Children THEN "cleanup" ELSE "wait"
    /\ UNCHANGED <<sem, shm, pc, flag, reg, layout>>

\* wait returns -1 with ECHILD: exit(1).
WaitFails ==
    /\ mpc = "wait"
    /\ \A p \in Children : pc[p] = "unborn"
    /\ mpc' = "failed"
    /\ UNCHANGED <<sem, shm, pc, flag, reg, reaped, layout>>

\* shmdt, shmctl(IPC_RMID), semctl(IPC_RMID): exit(0), or exit(1) if one fails.
Cleanup ==
    /\ mpc = "cleanup"
    /\ mpc' \in {"done", "failed"}
    /\ UNCHANGED <<sem, shm, pc, flag, reg, reaped, layout>>

-----------------------------------------------------------------------------
(* The children. *)

\* A child's step that only moves it on.
Goes(p, from, to) == pc[p] = from /\ pc' = [pc EXCEPT ![p] = to]

\* while (flag): the child leaves the loop and exits, or sleeps a little and
\* goes on to its start_*.
Loop(p) ==
    /\ Goes(p, "loop", IF flag[p] THEN "start" ELSE "exited")
    /\ UNCHANGED <<sem, shm, flag, reg, mpc, reaped, layout>>

\* semop is done at once, or by a sleeper that is woken; else the child sleeps.
SemopDone(p, ops, calling, asleep, next) ==
    /\ pc[p] \in {calling, asleep}
    /\ Passes(sem, ops)
    /\ sem' = After(sem, ops)
    /\ pc' = [pc EXCEPT ![p] = next]
    /\ UNCHANGED <<shm, flag, reg, mpc, reaped, layout>>

SemopSleeps(p, ops, calling, asleep) ==
    /\ Goes(p, calling, asleep)
    /\ ~Passes(sem, ops)
    /\ UNCHANGED <<sem, shm, flag, reg, mpc, reaped, layout>>

start_read(r)  == SemopDone(r, reader_lock, "start", "startAsleep", "read")
stop_read(r)   == SemopDone(r, reader_release, "stop", "stopAsleep", "loop")
start_write(w) == SemopDone(w, writer_lock, "start", "startAsleep", "load")
stop_write(w)  == SemopDone(w, writer_release(w), "stop", "stopAsleep", "loop")

SleepsInStartRead(r)  == SemopSleeps(r, reader_lock, "start", "startAsleep")
SleepsInStopRead(r)   == SemopSleeps(r, reader_release, "stop", "stopAsleep")
SleepsInStartWrite(w) == SemopSleeps(w, writer_lock, "start", "startAsleep")
SleepsInStopWrite(w)  == SemopSleeps(w, writer_release(w), "stop", "stopAsleep")

\* The reader prints the letter of *shm.
ReadShm(r) ==
    /\ Goes(r, "read", "stop")
    /\ UNCHANGED <<sem, shm, flag, reg, mpc, reaped, layout>>

\* The writer's (*shm)++ is a load and a store.
LoadShm(w) ==
    /\ Goes(w, "load", "store")
    /\ reg' = [reg EXCEPT ![w] = shm]
    /\ UNCHANGED <<sem, shm, flag, mpc, reaped, layout>>

StoreShm(w) ==
    /\ Goes(w, "store", "stop")
    /\ shm' = (reg[w] + 1) % ShmMod
    /\ UNCHANGED <<sem, flag, reg, mpc, reaped, layout>>

\* SIGINT runs sig_catch in child p; a semop that is asleep returns EINTR and
\* the child exits with 1.
Sigint(p) ==
    /\ pc[p] \notin Dead \cup {"unborn"}
    /\ flag' = [flag EXCEPT ![p] = FALSE]
    /\ pc' = CASE pc[p] = "startAsleep" -> [pc EXCEPT ![p] = "failedStart"]
               [] pc[p] = "stopAsleep"  -> [pc EXCEPT ![p] = "failedStop"]
               [] OTHER                 -> pc
    /\ UNCHANGED <<sem, shm, reg, mpc, reaped, layout>>

\* SIGINT in main: its flag is cleared; wait() is restarted (SA_RESTART).
SigintMain ==
    /\ mpc \notin {"done", "failed"}
    /\ flag' = [flag EXCEPT ![Main] = FALSE]
    /\ UNCHANGED <<sem, shm, pc, reg, mpc, reaped, layout>>

-----------------------------------------------------------------------------
MainStep ==
    \/ Setup \/ SetupFails \/ ForkFails \/ WaitFails \/ Cleanup
    \/ \E p \in Children : Fork(p) \/ Reap(p)

ReaderStep(r) ==
    \/ Loop(r) \/ start_read(r) \/ SleepsInStartRead(r)
    \/ ReadShm(r) \/ stop_read(r) \/ SleepsInStopRead(r)

WriterStep(w) ==
    \/ Loop(w) \/ start_write(w) \/ SleepsInStartWrite(w)
    \/ LoadShm(w) \/ StoreShm(w) \/ stop_write(w) \/ SleepsInStopWrite(w)

ChildStep == (\E r \in Readers : ReaderStep(r)) \/ (\E w \in Writers : WriterStep(w))

Next ==
    \/ MainStep
    \/ ChildStep
    \/ SigintMain
    \/ \E p \in Children : Sigint(p)

Spec == Init /\ [][Next]_vars

(***************************************************************************)
(* Undisturbed runs, for liveness: nobody sends SIGINT.  Every process     *)
(* keeps running (WF), and the kernel completes a sleeping semop that can  *)
(* be done time and again (SF): its queue of sleepers is tried on every    *)
(* change of the set, so a sleeper does not miss the moments at which it   *)
(* could go on.                                                            *)
(***************************************************************************)
Undisturbed == MainStep \/ ChildStep

Fairness ==
    /\ WF_vars(MainStep)
    /\ \A r \in Readers : /\ WF_vars(ReaderStep(r))
                          /\ SF_vars(start_read(r)) /\ SF_vars(stop_read(r))
    /\ \A w \in Writers : /\ WF_vars(WriterStep(w))
                          /\ SF_vars(start_write(w)) /\ SF_vars(stop_write(w))

FairSpec == Init /\ [][Undisturbed]_vars /\ Fairness

-----------------------------------------------------------------------------
(* Properties *)

ActiveReaders == {r \in Readers : pc[r] \in Inside}
ActiveWriters == {w \in Writers : pc[w] \in Inside}

\* main has set the semaphores (or children are there, whatever became of it).
Initialised ==
    mpc \notin {"setup", "failed"} \/ \E p \in Children : pc[p] # "unborn"

\* Once the set is initialised, the semaphores count what they are named for,
\* whatever SIGINT interrupted: ACTIVE_READERS the readers between start_read
\* and stop_read (those that died there included), ACTIVE_WRITER the writers
\* likewise, BIN_WRITER is free iff there is none, and a semop's waiting
\* counters are back at 0 by the time anybody else can see them.
SemAccounting ==
    Initialised =>
        /\ sem[ACTIVE_READERS] = Cardinality(ActiveReaders)
        /\ sem[ACTIVE_WRITER] = Cardinality(ActiveWriters)
        /\ sem[BIN_WRITER] = 1 - Cardinality(ActiveWriters)
        /\ sem[WAITING_READERS] = 0
        /\ sem[WAITING_WRITERS] = 0

\* At most one writer is between start_write and stop_write.
WritersExclusive == \A v, w \in ActiveWriters : v = w

\* Every store of a writer adds one to the value the int has at that moment:
\* no increment of another writer is overwritten between its load and store.
NoLostUpdate ==
    [][\A w \in Writers : pc[w] = "store" /\ pc'[w] = "stop"
                              => shm' = (shm + 1) % ShmMod]_vars

\* A writer starts only when no reader is inside, dead ones included.
WriterStartsAlone ==
    [][\A w \in Writers : w \notin ActiveWriters /\ w \in ActiveWriters'
                              => ActiveReaders = {}]_vars

\* A reader starts only beside a writer that is inside, dead or alive: what it
\* waits for, BIN_WRITER = 0, is the opposite of "no writer".
ReaderStartsBesideWriter ==
    [][\A r \in Readers : r \notin ActiveReaders /\ r \in ActiveReaders'
                              => ActiveWriters # {}]_vars

\* main removes the IPC objects only when every child is dead, so no semop
\* ever meets a removed set.
IpcOutlivesChildren ==
    mpc \in {"cleanup", "done"} => \A p \in Children : pc[p] \in Dead

\* A child that is dead, or was never forked.
Gone == Dead \cup {"unborn"}

\* Child p sleeps in a semop that the semaphores do not let through.
Blocked(p) ==
    \/ p \in Readers /\ pc[p] = "startAsleep" /\ ~Passes(sem, reader_lock)
    \/ p \in Readers /\ pc[p] = "stopAsleep" /\ ~Passes(sem, reader_release)
    \/ p \in Writers /\ pc[p] = "startAsleep" /\ ~Passes(sem, writer_lock)
    \/ p \in Writers /\ pc[p] = "stopAsleep" /\ ~Passes(sem, writer_release(p))

\* Nobody that lives can do a step by itself.
Standstill == \A p \in Children : pc[p] \in Gone \/ Blocked(p)

\* All children sleep for good for one of three reasons only: no writer lives
\* that could let readers in, SIGINT ended a release and its unit is counted for
\* ever, or a release reads flag as its third operation (wr.c:76) and waits for
\* readers that wait for it.
StandstillExplained ==
    Standstill => \/ \A w \in Writers : pc[w] \in Gone
                  \/ \E p \in Children : pc[p] = "failedStop"
                  \/ layout = "adjacent" /\ ActiveReaders # {} /\ ActiveWriters # {}

\* All children are forked.
Staffed == \A p \in Children : pc[p] # "unborn"

\* What the README says of the monitor's conditions: they prevent readers and
\* writers from being postponed for ever.
NobodyStarves ==
    \A p \in Children : Staffed /\ pc[p] = "start" ~> pc[p] = "loop"
=============================================================================

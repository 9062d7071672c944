---------------------------- MODULE EventMonitor ----------------------------
(***************************************************************************)
(* Readers and writers as Windows threads (lab-shmemory/mutex/main.c): two *)
(* auto-reset events, a mutex, interlocked counters and a flag that stand  *)
(* for Hoare's monitor.                                                    *)
(*                                                                         *)
(* Every access to a shared variable and every system call is a step of    *)
(* its own.  The letter ch is left out: no property tells its values       *)
(* apart.                                                                  *)
(***************************************************************************)
EXTENDS Naturals, FiniteSets

CONSTANTS Readers, Writers    \* the threads

\* The threads of the two kinds are finitely many and distinct.
ThreadsAssumption ==
    IsFiniteSet(Readers) /\ IsFiniteSet(Writers) /\ Readers \cap Writers = {}

VARIABLES
    can_read, can_write,              \* auto-reset events, TRUE if signalled
    mutex,                            \* the readers that hold it
    waiting_readers, waiting_writers, active_readers, writing,
    flag,                             \* cleared by SIGINT
    main,                             \* "runs", "failed" or "ended"
    pc                                \* where each thread is

vars == <<can_read, can_write, mutex, waiting_readers, waiting_writers,
          active_readers, writing, flag, main, pc>>
events == <<can_read, can_write>>
counters == <<waiting_readers, waiting_writers, active_readers, writing>>

Threads == Readers \cup Writers

ReaderPC == {"new", "loop", "test", "poll", "wait", "asleep", "lock", "dec",
             "inc", "signal", "release", "inside", "check", "wake", "exited"}
WriterPC == {"new", "loop", "testReaders", "testWriting", "wait", "asleep", "dec",
             "set", "inside", "check", "wakeReader", "wakeWriter", "exited"}

TypeOK ==
    /\ {can_read, can_write, writing, flag} \subseteq BOOLEAN
    /\ mutex \subseteq Readers /\ Cardinality(mutex) <= 1
    /\ waiting_readers \in 0 .. Cardinality(Readers)
    /\ active_readers \in 0 .. Cardinality(Readers)
    /\ waiting_writers \in 0 .. Cardinality(Writers)
    /\ main \in {"runs", "failed", "ended"}
    /\ \A r \in Readers : pc[r] \in ReaderPC
    /\ \A w \in Writers : pc[w] \in WriterPC

Init ==
    /\ can_read = FALSE /\ can_write = FALSE /\ mutex = {}
    /\ waiting_readers = 0 /\ waiting_writers = 0 /\ active_readers = 0
    /\ writing = FALSE /\ flag = TRUE /\ main = "runs"
    /\ pc = [t \in Threads |-> "new"]

\* A step that changes nothing but a pc.
Quiet == UNCHANGED <<events, mutex, counters, flag, main>>

Goes(t, from, to) == pc[t] = from /\ pc' = [pc EXCEPT ![t] = to]

\* SetEvent on an event the threads of T sleep on: one of them is released and
\* goes to next, or the event stays signalled until somebody waits for it.
SetEvent(t, from, to, T, next) ==
    /\ pc[t] = from
    /\ IF \E u \in T : pc[u] = "asleep"
       THEN \E u \in T : /\ pc[u] = "asleep"
                         /\ pc' = [pc EXCEPT ![t] = to, ![u] = next]
       ELSE pc' = [pc EXCEPT ![t] = to]

\* The event's state after SetEvent.
Signalled(event, T) == event \/ \A u \in T : pc[u] # "asleep"

SetCanRead(t, from, to) ==
    /\ SetEvent(t, from, to, Readers, "lock")
    /\ can_read' = Signalled(can_read, Readers)
    /\ UNCHANGED <<can_write, mutex, counters, flag, main>>

SetCanWrite(t, from, to) ==
    /\ SetEvent(t, from, to, Writers, "dec")
    /\ can_write' = Signalled(can_write, Writers)
    /\ UNCHANGED <<can_read, mutex, counters, flag, main>>

-----------------------------------------------------------------------------
(* start_read and stop_read *)

\* while (flag), and InterlockedIncrement(&waiting_readers)
EnterRead(r) ==
    /\ flag /\ Goes(r, "loop", "test")
    /\ waiting_readers' = waiting_readers + 1
    /\ UNCHANGED <<events, mutex, waiting_writers, active_readers, writing, flag, main>>

TestWritingR(r) ==
    Goes(r, "test", IF writing THEN "wait" ELSE "poll") /\ Quiet

\* WaitForSingleObject(can_write, 0): takes the event if it is signalled.
PollCanWrite(r) ==
    /\ Goes(r, "poll", IF can_write THEN "wait" ELSE "lock")
    /\ can_write' = FALSE
    /\ UNCHANGED <<can_read, mutex, counters, flag, main>>

WaitCanRead(r) ==
    /\ Goes(r, "wait", IF can_read THEN "lock" ELSE "asleep")
    /\ can_read' = FALSE
    /\ UNCHANGED <<can_write, mutex, counters, flag, main>>

Lock(r) ==
    /\ mutex = {} /\ Goes(r, "lock", "dec")
    /\ mutex' = {r}
    /\ UNCHANGED <<events, counters, flag, main>>

DecWaitingR(r) ==
    /\ Goes(r, "dec", "inc")
    /\ waiting_readers' = waiting_readers - 1
    /\ UNCHANGED <<events, mutex, waiting_writers, active_readers, writing, flag, main>>

IncActive(r) ==
    /\ Goes(r, "inc", "signal")
    /\ active_readers' = active_readers + 1
    /\ UNCHANGED <<events, mutex, waiting_readers, waiting_writers, writing, flag, main>>

ChainReaders(r) == SetCanRead(r, "signal", "release")

Release(r) ==
    /\ Goes(r, "release", "inside")
    /\ mutex' = mutex \ {r}
    /\ UNCHANGED <<events, counters, flag, main>>

LeaveRead(r) ==
    /\ Goes(r, "inside", "check")
    /\ active_readers' = active_readers - 1
    /\ UNCHANGED <<events, mutex, waiting_readers, waiting_writers, writing, flag, main>>

\* if (!active_readers)
LastReader(r) ==
    Goes(r, "check", IF active_readers = 0 THEN "wake" ELSE "loop") /\ Quiet

WakeAfterRead(r) == SetCanWrite(r, "wake", "loop")

-----------------------------------------------------------------------------
(* start_write and stop_write *)

EnterWrite(w) ==
    /\ flag /\ Goes(w, "loop", "testReaders")
    /\ waiting_writers' = waiting_writers + 1
    /\ UNCHANGED <<events, mutex, waiting_readers, active_readers, writing, flag, main>>

TestReaders(w) ==
    Goes(w, "testReaders", IF active_readers > 0 THEN "wait" ELSE "testWriting") /\ Quiet

TestWritingW(w) ==
    Goes(w, "testWriting", IF writing THEN "wait" ELSE "dec") /\ Quiet

WaitCanWrite(w) ==
    /\ Goes(w, "wait", IF can_write THEN "dec" ELSE "asleep")
    /\ can_write' = FALSE
    /\ UNCHANGED <<can_read, mutex, counters, flag, main>>

\* A slip: the writer is not taken off waiting_writers.
DecWaitingWForgotten(w) == Goes(w, "dec", "set") /\ Quiet

DecWaitingW(w) ==
    /\ Goes(w, "dec", "set")
    /\ waiting_writers' = waiting_writers - 1
    /\ UNCHANGED <<events, mutex, waiting_readers, active_readers, writing, flag, main>>

SetWriting(w, from, to, value) ==
    /\ Goes(w, from, to)
    /\ writing' = value
    /\ UNCHANGED <<events, mutex, waiting_readers, waiting_writers, active_readers, flag, main>>

BeginWriting(w) == SetWriting(w, "set", "inside", TRUE)

EndWriting(w) == SetWriting(w, "inside", "check", FALSE)

\* A slip: writers are always preferred.
ChooseWriter(w) == Goes(w, "check", "wakeWriter") /\ Quiet

\* if (waiting_readers)
Choose(w) ==
    Goes(w, "check", IF waiting_readers > 0 THEN "wakeReader" ELSE "wakeWriter") /\ Quiet

WakeReader(w) == SetCanRead(w, "wakeReader", "loop")

WakeWriter(w) == SetCanWrite(w, "wakeWriter", "loop")

-----------------------------------------------------------------------------
(* main and the signal *)

\* CreateThread: the writers come first.
Create(t) ==
    /\ main = "runs"
    /\ t \in Readers => \A w \in Writers : pc[w] # "new"
    /\ Goes(t, "new", "loop")
    /\ Quiet

\* CreateThread fails: exit ends every thread.
CreateFails ==
    /\ main = "runs" /\ \E t \in Threads : pc[t] = "new"
    /\ main' = "failed"
    /\ pc' = [t \in Threads |-> "exited"]
    /\ UNCHANGED <<events, mutex, counters, flag>>

\* while (flag) ends.
Leave(t) ==
    /\ ~flag /\ Goes(t, "loop", "exited")
    /\ Quiet

\* Both WaitForMultipleObjects return; the handles are closed.
End ==
    /\ main = "runs" /\ \A t \in Threads : pc[t] = "exited"
    /\ main' = "ended"
    /\ UNCHANGED <<events, mutex, counters, flag, pc>>

sig_catch ==
    /\ flag /\ main = "runs"
    /\ flag' = FALSE
    /\ UNCHANGED <<events, mutex, counters, main, pc>>

ReaderStep(r) ==
    \/ EnterRead(r) \/ TestWritingR(r) \/ PollCanWrite(r) \/ WaitCanRead(r)
    \/ Lock(r) \/ DecWaitingR(r) \/ IncActive(r) \/ ChainReaders(r) \/ Release(r)
    \/ LeaveRead(r) \/ LastReader(r) \/ WakeAfterRead(r)

WriterStep(w) ==
    \/ EnterWrite(w) \/ TestReaders(w) \/ TestWritingW(w) \/ WaitCanWrite(w)
    \/ DecWaitingW(w) \/ BeginWriting(w) \/ EndWriting(w) \/ Choose(w)
    \/ WakeReader(w) \/ WakeWriter(w)

Next ==
    \/ \E r \in Readers : ReaderStep(r)
    \/ \E w \in Writers : WriterStep(w)
    \/ \E t \in Threads : Create(t) \/ Leave(t)
    \/ CreateFails \/ End \/ sig_catch

Spec == Init /\ [][Next]_vars

\* The system schedules every thread; threads wait for a mutex in a queue.
Fairness ==
    /\ \A r \in Readers : WF_vars(ReaderStep(r)) /\ SF_vars(Lock(r))
    /\ \A w \in Writers : WF_vars(WriterStep(w))
    /\ \A t \in Threads : WF_vars(Create(t)) /\ WF_vars(Leave(t))

FairSpec == Spec /\ Fairness

-----------------------------------------------------------------------------
(* Properties *)

ActiveReaders == {r \in Readers : pc[r] \in {"signal", "release", "inside"}}
WaitingReaders ==
    {r \in Readers : pc[r] \in {"test", "poll", "wait", "asleep", "lock", "dec"}}
WaitingWriters ==
    {w \in Writers : pc[w] \in {"testReaders", "testWriting", "wait", "asleep", "dec"}}

\* The counters that start_read, start_write and stop_write decide on count the
\* threads they are about, in every interleaving of the interlocked updates.
CountersCount ==
    /\ TypeOK
    /\ main # "failed" =>
           /\ active_readers = Cardinality(ActiveReaders)
           /\ waiting_readers = Cardinality(WaitingReaders)
           /\ waiting_writers = Cardinality(WaitingWriters)

\* No wake-up is lost on a reader: although a reader's poll takes can_write
\* away from writers and stop_write signals one event only, every reader that
\* enters start_read comes to read, as long as the loops run.
ReadersGetIn ==
    [](flag /\ main = "runs") =>
        \A r \in Readers : (pc[r] = "test") ~> (pc[r] = "inside")
=============================================================================

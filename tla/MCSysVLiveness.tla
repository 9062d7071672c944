--------------------------- MODULE MCSysVLiveness ---------------------------
(***************************************************************************)
(* Undisturbed runs of the two programs on System V semaphores: readers    *)
(* and writers, with zero padding behind writer_release, and producers and *)
(* consumers.  The one that runs is chosen in Init.                        *)
(***************************************************************************)
EXTENDS Naturals

CONSTANTS
    Ins, Outs,   \* readers or producers, writers or consumers
    Main, ShmMod, N, SegSize, Letters, MaxItems, None

VARIABLES
    program,
    rsem, shm, rpc, rflag, reg, rmpc, rreaped, layout,
    sem, cell, cons_cur, prod_cur, pc, flag, got, mpc, reaped, first

RW == INSTANCE ReadersWriters
    WITH Readers <- Ins, Writers <- Outs,
         sem <- rsem, pc <- rpc, flag <- rflag, mpc <- rmpc, reaped <- rreaped
PC == INSTANCE ProducersConsumers WITH Producers <- Ins, Consumers <- Outs

rwVars == <<rsem, shm, rpc, rflag, reg, rmpc, rreaped, layout>>
pcVars == <<sem, cell, cons_cur, prod_cur, pc, flag, got, mpc, reaped, first>>
vars == <<program, rwVars, pcVars>>

Init ==
    /\ program \in {"wr", "pc"}
    /\ RW!Init /\ layout = "padded" /\ rsem = [s \in RW!Sems |-> 0]
    /\ PC!Init

(* An action of one program; the other does nothing. *)
Wr(A) == program = "wr" /\ A /\ UNCHANGED <<program, pcVars>>
Pc(A) == program = "pc" /\ A /\ UNCHANGED <<program, rwVars>>

Next == Wr(RW!Undisturbed) \/ Pc(PC!MainStep \/ PC!ChildStep)

\* As in the two modules: every process keeps running, and a sleeping semop that can be
\* done time and again is done.  One program runs, so its processes and semops can share
\* a formula with those of the other.
Fairness ==
    /\ WF_vars(Wr(RW!MainStep) \/ Pc(PC!MainStep))
    /\ \A p \in Ins : /\ WF_vars(Wr(RW!ReaderStep(p)) \/ Pc(PC!ProducerStep(p)))
                      /\ SF_vars(Wr(RW!start_read(p)) \/ Pc(PC!ProducerLocks(p)))
                      /\ SF_vars(Wr(RW!stop_read(p)))
    /\ \A p \in Outs : /\ WF_vars(Wr(RW!WriterStep(p)) \/ Pc(PC!ConsumerStep(p)))
                       /\ SF_vars(Wr(RW!start_write(p)) \/ Pc(PC!ConsumerLocks(p)))
                       /\ SF_vars(Wr(RW!stop_write(p)))

FairSpec == Init /\ [][Next]_vars /\ Fairness

-----------------------------------------------------------------------------
\* With padding behind writer_release nobody starves: once all children are forked, a
\* child that calls its start_* gets in and out again.  One reader and one writer stand
\* for the others, which differ from them in name only.
PaddedNobodyStarves ==
    \A p \in {CHOOSE r \in Ins : TRUE, CHOOSE w \in Outs : TRUE} :
        program = "wr" /\ RW!Staffed /\ rpc[p] = "start" ~> rpc[p] = "loop"

\* What pc.c has produced is consumed, as long as the cells last.
EveryItemConsumed == PC!EveryItemConsumed
=============================================================================

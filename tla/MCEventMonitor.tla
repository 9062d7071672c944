--------------------------- MODULE MCEventMonitor ---------------------------
(***************************************************************************)
(* The Windows program beside the one on semaphores, for the same sets of  *)
(* readers and writers: its threads run and wr.c is not started.           *)
(***************************************************************************)
EXTENDS ReadersWriters

VARIABLES can_read, can_write, mutex, waiting_readers, waiting_writers,
          active_readers, writing, main, tflag, tpc

Monitor == INSTANCE EventMonitor WITH flag <- tflag, pc <- tpc

ASSUME MonitorAssumption == Monitor!ThreadsAssumption

bothVars == <<vars, Monitor!vars>>

MonitorInit ==
    /\ Monitor!Init
    /\ Init /\ sem = [n \in Sems |-> 0] /\ layout = "padded"

MonitorSpec == MonitorInit /\ [][Monitor!Next /\ UNCHANGED vars]_bothVars

MonitorFair == MonitorSpec /\ Monitor!Fairness

\* The properties of the monitor; see its module.
CountersCount == Monitor!CountersCount
ReadersGetIn  == Monitor!ReadersGetIn
=============================================================================

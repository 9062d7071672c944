------------------------------ MODULE PidTable ------------------------------
(***************************************************************************)
(* The pid tables behind a /proc file: task-04/task-seq-iter/seq.c, read   *)
(* through an iterator, and task-04/task-seq-single/my_module.c, read by   *)
(* one function that loops.  The variable iter, chosen in Init, says which.*)
(*                                                                         *)
(* A write appends a pid.  It asks whether there is room, parses the       *)
(* number and then takes a place, pids[count++], in three accesses to      *)
(* memory; the modules have no lock, so writers may overlap each other and *)
(* a reader.  A place beyond the table (Overrun) ends the model.           *)
(***************************************************************************)
EXTENDS Integers, SequencesExt

CONSTANTS
    MAX_PIDS,   \* the places
    Writers,    \* processes that write, any number of times
    Pids        \* the numbers they write; -1 could not be told from an unused place

PidAssumption == MAX_PIDS \in Nat \ {0} /\ Pids \subseteq Int \ {-1}

VARIABLES
    iter,       \* seq.c, or else my_module.c
    loaded,     \* the entries that md_init has made, in order
    module,     \* "loading", "loaded", "failed" or "unloaded"
    pids, count,
    at,         \* where each writer is
    reg,        \* the count it has loaded
    pos,        \* the place the reader is at, -1 when it does not read
    fresh,      \* that place is still to be shown
    shown,      \* what it has shown
    calm        \* history: no writer was active since it began

vars == <<iter, loaded, module, pids, count, at, reg, pos, fresh, shown, calm>>
reader == <<pos, fresh, shown>>
files == <<iter, loaded, module>>
table == <<pids, count, at, reg>>

Steps == <<"dir", "file", "link">>
Places == 0 .. MAX_PIDS - 1

TypeOK ==
    /\ iter \in BOOLEAN
    /\ loaded \in {SubSeq(Steps, 1, k) : k \in 0 .. Len(Steps)}
    /\ module \in {"loading", "loaded", "failed", "unloaded"}
    /\ pids \in [Places -> Pids \cup {-1}]
    /\ count \in Nat
    /\ at \in [Writers -> {"idle", "load", "count", "store"}]
    /\ reg \in [Writers -> Nat]
    /\ pos \in -1 .. MAX_PIDS
    /\ fresh \in BOOLEAN
    /\ shown \in Seq(Pids \cup {-1})
    /\ calm \in BOOLEAN

Init ==
    /\ iter \in BOOLEAN
    /\ loaded = <<>> /\ module = "loading"
    /\ pids = [k \in Places |-> -1] /\ count = 0
    /\ at = [w \in Writers |-> "idle"]
    /\ reg = [w \in Writers |-> 0]
    /\ pos = -1 /\ fresh = FALSE /\ shown = <<>> /\ calm = TRUE

Idle == \A w \in Writers : at[w] = "idle"

-----------------------------------------------------------------------------
(* md_init and md_exit *)

\* proc_mkdir, proc_create, proc_symlink.
LoadStep ==
    /\ module = "loading"
    /\ loaded' = Append(loaded, Steps[Len(loaded) + 1])
    /\ module' = IF Len(loaded') = Len(Steps) THEN "loaded" ELSE "loading"
    /\ UNCHANGED <<iter, table, reader, calm>>

\* remove_proc_entry lets no call in and waits for the ones under way.
free_resources == pos = -1 /\ Idle /\ loaded' = <<>>

LoadFails ==
    /\ module = "loading"
    /\ free_resources
    /\ module' = "failed"
    /\ UNCHANGED <<iter, table, reader, calm>>

md_exit ==
    /\ module = "loaded"
    /\ free_resources
    /\ module' = "unloaded"
    /\ UNCHANGED <<iter, table, reader, calm>>

-----------------------------------------------------------------------------
(* my_write *)

Usable == Len(loaded) >= 2

\* The checks; a number that cannot be parsed, or a full table, changes nothing.
BeginWrite(w) ==
    /\ Usable /\ at[w] = "idle"
    /\ count < MAX_PIDS
    /\ at' = [at EXCEPT ![w] = "load"]
    /\ calm' = FALSE
    /\ UNCHANGED <<files, pids, count, reg, reader>>

\* The load of the count.
LoadCount(w) ==
    /\ at[w] = "load"
    /\ reg' = [reg EXCEPT ![w] = count]
    /\ at' = [at EXCEPT ![w] = "count"]
    /\ UNCHANGED <<files, pids, count, reader, calm>>

\* A slip: the place is taken from one load of the count, its increment from another.
StoreCountReloads(w) ==
    /\ at[w] = "count"
    /\ count' = count + 1
    /\ at' = [at EXCEPT ![w] = "store"]
    /\ UNCHANGED <<files, pids, reg, reader, calm>>

StoreCount(w) ==
    /\ at[w] = "count"
    /\ count' = reg[w] + 1
    /\ at' = [at EXCEPT ![w] = "store"]
    /\ UNCHANGED <<files, pids, reg, reader, calm>>

StorePid(w, pid) ==
    /\ at[w] = "store" /\ reg[w] < MAX_PIDS
    /\ pids' = [pids EXCEPT ![reg[w]] = pid]
    /\ at' = [at EXCEPT ![w] = "idle"]
    /\ reg' = [reg EXCEPT ![w] = 0]
    /\ UNCHANGED <<files, count, reader, calm>>

\* The next store, or the next load of the reader, is beyond the table.
Overrun == (\E w \in Writers : at[w] = "store" /\ reg[w] >= MAX_PIDS) \/ pos = MAX_PIDS

-----------------------------------------------------------------------------
(* Reading. *)

\* seq_start at 0, or the loop of single_show begins; an empty table shows nothing.
BeginRead ==
    /\ Usable /\ pos = -1 /\ count > 0
    /\ pos' = 0 /\ fresh' = TRUE
    /\ shown' = <<>>
    /\ calm' = Idle
    /\ UNCHANGED <<files, table>>

\* seq_show, or the body of the loop: a pid, or "Invalid PID" for one not yet there.
Show ==
    /\ pos >= 0 /\ fresh
    /\ shown' = Append(shown, pids[pos])
    /\ fresh' = FALSE
    /\ UNCHANGED <<files, table, pos, calm>>

\* seq_next, or the head of the loop.
Advance ==
    /\ pos >= 0 /\ ~fresh
    /\ pos' = IF pos + 1 < count THEN pos + 1 ELSE -1
    /\ fresh' = (pos' # -1)
    /\ UNCHANGED <<files, table, shown, calm>>

\* The caller's buffer was full: seq_file calls seq_start again, at this place, and
\* the count may have gone back meanwhile.  Only the iterator is asked again.
Restart ==
    /\ iter /\ pos > 0 /\ fresh /\ pos >= count
    /\ pos' = -1 /\ fresh' = FALSE
    /\ UNCHANGED <<files, table, shown, calm>>

Next ==
    /\ ~Overrun
    /\ \/ LoadStep \/ LoadFails \/ md_exit
       \/ BeginRead \/ Show \/ Advance \/ Restart
       \/ \E w \in Writers :
             \/ BeginWrite(w) \/ LoadCount(w) \/ StoreCount(w)
             \/ \E pid \in Pids : StorePid(w, pid)

Spec == Init /\ [][Next]_vars

-----------------------------------------------------------------------------
(* Properties *)

\* However writers overlap, and although the count may then go back and a pid be
\* lost, the table has no holes once they are through: every counted place was
\* filled, and a read that meets no writer shows exactly the counted pids.
NoHoles ==
    /\ Idle => \A k \in Places : k < count => pids[k] \in Pids
    /\ calm /\ pos = -1 /\ shown # <<>> =>
          Len(shown) = count /\ \A k \in 1 .. count : shown[k] = pids[k - 1]

\* A module that is not loaded, or could not be, has nothing left behind.
NothingLeftBehind == module \in {"failed", "unloaded"} => loaded = <<>>
=============================================================================

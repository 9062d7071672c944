--------------------------- MODULE MCKernelModules --------------------------
(***************************************************************************)
(* The loadable modules of the kernel: the keyboard interrupt with work    *)
(* items, the fortune file, the pid tables and the file system.  The one   *)
(* that is loaded is chosen in Init; the others stay in one of their       *)
(* initial states.                                                         *)
(***************************************************************************)
EXTENDS KeyWorkqueue

CONSTANTS SIZE, Letters, MAX_PIDS, Writers, Pids, PAGE_SIZE, MaxCount, MaxMounts

VARIABLES
    loading,
    fmodule, entries, cookiePot, readInd, writeInd, foops, written, heard, got,
    iter, loaded, pmodule, pids, count, at, preg, pos, fresh, shown, calm,
    cached_count, vmodule, registered, cache_mem, cache, objects, mounts, voops

Cookies == INSTANCE Fortune WITH module <- fmodule, oops <- foops
Table == INSTANCE PidTable WITH module <- pmodule, reg <- preg
Vfs == INSTANCE VfsModule WITH module <- vmodule, oops <- voops

ASSUME Assumptions ==
    Cookies!FortuneAssumption /\ Table!PidAssumption /\ Vfs!VfsAssumption

fortuneVars == <<fmodule, entries, cookiePot, readInd, writeInd, foops, written, heard, got>>
pidVars == <<iter, loaded, pmodule, pids, count, at, preg, pos, fresh, shown, calm>>
vfsVars == <<cached_count, vmodule, registered, cache_mem, cache, objects, mounts, voops>>
allVars == <<loading, vars, fortuneVars, pidVars, vfsVars>>

KernelInit ==
    /\ loading \in {"wq", "fortune", "seq", "myvfs"}
    /\ Init
    /\ Cookies!Init
    /\ Table!Init /\ (loading # "seq" => iter)
    /\ Vfs!Init /\ (loading # "myvfs" => cached_count = 0)

(* An action of one module; the others do nothing. *)
Wq(A)   == loading = "wq" /\ A /\ UNCHANGED <<loading, fortuneVars, pidVars, vfsVars>>
Frt(A)  == loading = "fortune" /\ A /\ UNCHANGED <<loading, vars, pidVars, vfsVars>>
Seqs(A) == loading = "seq" /\ A /\ UNCHANGED <<loading, vars, fortuneVars, vfsVars>>
Fs(A)   == loading = "myvfs" /\ A /\ UNCHANGED <<loading, vars, fortuneVars, pidVars>>

KernelNext == Wq(Next) \/ Frt(Cookies!Next) \/ Seqs(Table!Next) \/ Fs(Vfs!Next)

KernelSpec == KernelInit /\ [][KernelNext]_allVars

-----------------------------------------------------------------------------
\* The types of all four.
KernelTypeOK == TypeOK /\ Cookies!TypeOK /\ Table!TypeOK /\ Vfs!TypeOK

\* The properties of the modules, LastKeyHandled among them; see there.
ReadsWholeCookie == Cookies!ReadsWholeCookie
NoHoles          == Table!NoHoles

\* What a module that was unloaded, or could not be loaded, leaves in /proc, in memory
\* and in the list of file systems.
LeftBehind == Cookies!NothingLeftBehind /\ Table!NothingLeftBehind /\ Vfs!LeftBehind
=============================================================================

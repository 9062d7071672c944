------------------------- MODULE KernelModulesProofs ------------------------
(***************************************************************************)
(* Proofs about the loadable modules of the kernel, each for every value   *)
(* of its constants: VfsModule, PidTable, Fortune and KeyWorkqueue.  The   *)
(* theorems are about KernelSpec, in which one of them is loaded; the      *)
(* lemmas are about each of them alone.                                    *)
(***************************************************************************)
EXTENDS MCKernelModules, Integers, FiniteSetTheorems, SequenceTheorems,
        WellFoundedInduction, TLAPS

-----------------------------------------------------------------------------
(* VfsModule.  What a failed or ended load leaves depends on how far it had
   come: the invariant says what there is at every point of the load. *)

\* The load takes its four steps in order: what comes later is there only if what
\* comes before is, and the objects are the first ones.
LoadOrder ==
    vmodule = "loading" =>
        /\ cache => cache_mem
        /\ cache_mem => registered
        /\ objects # {} => cache
        /\ mounts > 0 => registered
        /\ \E n \in 0 .. PAGE_SIZE : n <= cached_count /\ objects = 1 .. n

VfsInv ==
    /\ Vfs!TypeOK
    /\ LoadOrder
    /\ Vfs!LeftBehind

\* The operator that VfsModule takes from FiniteSets is the one the library's theorems
\* are about.
LEMMA VfsCardinality ==
    ASSUME NEW S
    PROVE  Vfs!Cardinality(S) = Cardinality(S)
BY DEF Vfs!Cardinality, Cardinality

\* The first n objects are n, and without the first they are those from 2 on.
LEMMA FirstObjects ==
    ASSUME NEW n \in Nat
    PROVE  /\ Cardinality(1 .. n) = n /\ IsFiniteSet(1 .. n)
           /\ (1 .. n) \ {1} = 2 .. n
           /\ Cardinality(2 .. n) <= n /\ Cardinality(2 .. n) \in Nat
<1>1. Cardinality(1 .. n) = n /\ IsFiniteSet(1 .. n)
  BY FS_Interval
<1>2. (1 .. n) \ {1} = 2 .. n
  OBVIOUS
<1>3. Cardinality(2 .. n) <= n /\ Cardinality(2 .. n) \in Nat
  <2>1. Cardinality(2 .. n) = IF 2 > n THEN 0 ELSE n - 2 + 1
    BY FS_Interval
  <2> QED
    BY <2>1
<1> QED
  BY <1>1, <1>2, <1>3

\* The initial states satisfy the invariant.
LEMMA VfsInit ==
    ASSUME Vfs!VfsAssumption
    PROVE  Vfs!Init => VfsInv
<1> SUFFICES ASSUME Vfs!Init PROVE VfsInv
  OBVIOUS
<1>1. objects = 1 .. 0 /\ Cardinality(objects) = 0
  BY FS_EmptySet DEF Vfs!Init
<1>2. Vfs!TypeOK
  <2>1. registered \in BOOLEAN /\ cache_mem \in BOOLEAN /\ cache \in BOOLEAN
                   /\ voops \in BOOLEAN
    BY DEF Vfs!Init
  <2>2. Vfs!Cardinality(objects) <= PAGE_SIZE /\ mounts \in 0 .. MaxMounts
    BY <1>1, VfsCardinality DEF Vfs!Init, Vfs!VfsAssumption
  <2> QED
    BY <2>1, <2>2 DEF Vfs!Init, Vfs!TypeOK
<1>3. LoadOrder
  BY <1>1 DEF Vfs!Init, LoadOrder, Vfs!VfsAssumption
<1> QED
  BY <1>2, <1>3 DEF Vfs!Init, VfsInv, Vfs!LeftBehind

\* A step of loading that succeeds preserves the invariant.
LEMMA VfsLoad ==
    ASSUME Vfs!VfsAssumption, VfsInv,
           Vfs!Register \/ Vfs!AllocArray \/ Vfs!CreateCache \/ Vfs!AllocObject
           \/ Vfs!AllocBeyond \/ Vfs!FirstFails
    PROVE  VfsInv'
<1>1. vmodule = "loading" /\ vmodule' = "loading" /\ Vfs!LeftBehind'
  BY DEF Vfs!Register, Vfs!AllocArray, Vfs!CreateCache, Vfs!AllocObject,
         Vfs!AllocBeyond, Vfs!FirstFails, Vfs!Loading,
         Vfs!LeftBehind
<1>2. CASE Vfs!AllocObject
  <2>1. PICK n \in 1 .. cached_count : n <= PAGE_SIZE /\ objects' = 1 .. n
    BY <1>2 DEF Vfs!AllocObject
  <2>2. n \in Nat /\ Vfs!Cardinality(objects') <= PAGE_SIZE
          /\ objects' \subseteq 1 .. cached_count
    <3>1. n \in Nat /\ n <= cached_count
      BY <2>1 DEF VfsInv, Vfs!TypeOK, Vfs!VfsAssumption
    <3>2. Cardinality(1 .. n) = n
      BY <3>1, FirstObjects
    <3> QED
      BY <2>1, <3>1, <3>2, VfsCardinality DEF VfsInv, Vfs!TypeOK, Vfs!VfsAssumption
  <2>3. Vfs!TypeOK'
    BY <1>2, <2>2 DEF VfsInv, Vfs!TypeOK, Vfs!AllocObject
  <2>4. LoadOrder'
    BY <1>1, <1>2, <2>1, <2>2 DEF VfsInv, LoadOrder, Vfs!AllocObject, Vfs!VfsAssumption
  <2> QED
    BY <1>1, <2>3, <2>4 DEF VfsInv
<1>3. CASE ~Vfs!AllocObject
  <2>1. UNCHANGED <<cached_count, objects, mounts>>
    BY <1>3 DEF Vfs!Register, Vfs!AllocArray, Vfs!CreateCache, Vfs!AllocBeyond,
                Vfs!FirstFails
  <2>2. Vfs!TypeOK'
    BY <1>1, <1>3, <2>1
    DEF VfsInv, Vfs!TypeOK, Vfs!Register, Vfs!AllocArray, Vfs!CreateCache,
        Vfs!AllocBeyond, Vfs!FirstFails
  <2>3. LoadOrder'
    BY <1>1, <1>3, <2>1
    DEF VfsInv, LoadOrder, Vfs!Register, Vfs!AllocArray, Vfs!CreateCache,
        Vfs!AllocBeyond, Vfs!FirstFails
  <2> QED
    BY <1>1, <2>2, <2>3 DEF VfsInv
<1> QED
  BY <1>2, <1>3

\* The end of loading and unloading preserve the invariant.
LEMMA VfsEnd ==
    ASSUME Vfs!VfsAssumption, VfsInv, Vfs!Loaded \/ Vfs!LoadFails \/ Vfs!myvfs_exit
    PROVE  VfsInv'
<1>1. CASE Vfs!Loaded
  BY <1>1 DEF Vfs!Loaded, VfsInv, Vfs!TypeOK, LoadOrder, Vfs!LeftBehind
<1>2. CASE Vfs!LoadFails
  <2>1. PICK n \in 0 .. PAGE_SIZE : n <= cached_count /\ objects = 1 .. n
    BY <1>2 DEF Vfs!LoadFails, Vfs!Loading, VfsInv, LoadOrder
  <2>2. n \in Nat /\ objects' = 2 .. n
    BY <1>2, <2>1, FirstObjects DEF Vfs!LoadFails, Vfs!VfsAssumption
  <2>3. Vfs!Cardinality(objects') <= PAGE_SIZE
    <3>1. Cardinality(2 .. n) <= n /\ Cardinality(2 .. n) \in Nat
      BY <2>2, FirstObjects
    <3> QED
      BY <2>1, <2>2, <3>1, VfsCardinality DEF Vfs!VfsAssumption
  <2>4. objects' \subseteq 1 .. cached_count
    BY <2>1, <2>2 DEF VfsInv, Vfs!TypeOK
  <2>5. Vfs!TypeOK'
    BY <1>2, <2>3, <2>4 DEF Vfs!LoadFails, VfsInv, Vfs!TypeOK
  <2>6. objects' # {} => registered
    BY <1>2 DEF Vfs!LoadFails, Vfs!Loading, VfsInv, LoadOrder
  <2>7. Vfs!LeftBehind'
    BY <1>2, <2>1, <2>2, <2>6 DEF Vfs!LoadFails, Vfs!Loading, VfsInv, LoadOrder,
                                  Vfs!LeftBehind
  <2>8. LoadOrder'
    BY <1>2 DEF Vfs!LoadFails, LoadOrder
  <2> QED
    BY <2>5, <2>7, <2>8 DEF VfsInv
<1>3. CASE Vfs!myvfs_exit
  <2>1. Vfs!Cardinality(objects') <= PAGE_SIZE
    BY <1>3, FS_EmptySet, VfsCardinality DEF Vfs!myvfs_exit, Vfs!VfsAssumption
  <2>2. Vfs!TypeOK'
    BY <1>3, <2>1 DEF Vfs!myvfs_exit, VfsInv, Vfs!TypeOK
  <2>3. Vfs!LeftBehind' /\ LoadOrder'
    BY <1>3 DEF Vfs!myvfs_exit, Vfs!LeftBehind, LoadOrder
  <2> QED
    BY <2>2, <2>3 DEF VfsInv
<1> QED
  BY <1>1, <1>2, <1>3

\* Mounting, unmounting and the use of what is gone preserve the invariant.
LEMMA VfsMount ==
    ASSUME Vfs!VfsAssumption, VfsInv, Vfs!myvfs_mount \/ Vfs!RootFails
           \/ Vfs!CodeGone \/ Vfs!myvfs_kill_super
    PROVE  VfsInv'
<1>1. /\ UNCHANGED <<cached_count, vmodule, registered, cache_mem, cache, objects>>
      /\ mounts' # mounts => vmodule # "failed"
      /\ mounts' > mounts => registered
      /\ mounts' \in 0 .. MaxMounts
  BY DEF Vfs!myvfs_mount, Vfs!RootFails, Vfs!CodeGone, Vfs!myvfs_kill_super,
         Vfs!CanMount, VfsInv, Vfs!TypeOK,
         Vfs!VfsAssumption
<1>2. Vfs!TypeOK'
  <2>1. voops' \in BOOLEAN
    BY DEF Vfs!myvfs_mount, Vfs!RootFails, Vfs!CodeGone, Vfs!myvfs_kill_super, VfsInv,
           Vfs!TypeOK
  <2> QED
    BY <1>1, <2>1 DEF VfsInv, Vfs!TypeOK
<1>3. mounts' # mounts => vmodule # "unloaded"
  BY DEF Vfs!myvfs_mount, Vfs!RootFails, Vfs!CodeGone, Vfs!myvfs_kill_super,
         Vfs!CanMount, VfsInv, Vfs!LeftBehind
<1>4. LoadOrder'
  BY <1>1 DEF VfsInv, Vfs!TypeOK, LoadOrder
<1>5. Vfs!LeftBehind'
  BY <1>1, <1>3 DEF VfsInv, Vfs!LeftBehind
<1> QED
  BY <1>2, <1>4, <1>5 DEF VfsInv

\* Every step preserves the invariant.
LEMMA VfsNext ==
    ASSUME Vfs!VfsAssumption
    PROVE  VfsInv /\ [Vfs!Next]_(Vfs!vars) => VfsInv'
<1> SUFFICES ASSUME VfsInv, [Vfs!Next]_(Vfs!vars) PROVE VfsInv'
  OBVIOUS
<1>1. CASE Vfs!Next
  BY <1>1, VfsLoad, VfsEnd, VfsMount DEF Vfs!Next
<1>2. CASE UNCHANGED Vfs!vars
  BY <1>2 DEF Vfs!vars, VfsInv, Vfs!TypeOK, LoadOrder, Vfs!LeftBehind
<1> QED
  BY <1>1, <1>2

-----------------------------------------------------------------------------
(* PidTable.  A place is counted before it is filled, and a writer may take the
   count back to what it loaded long before.  The invariant says who fills a counted
   place that is still empty, for the count as it is and for the counts that writers
   have loaded and will store. *)

Due(k) == \E w \in Writers : at[w] = "store" /\ preg[w] = k
Covered(n) == \A k \in Table!Places : k < n => pids[k] \in Pids \/ Due(k)

TableTypes ==
    /\ pids \in [Table!Places -> Pids \cup {-1}]
    /\ count \in Nat
    /\ at \in [Writers -> {"idle", "load", "count", "store"}]
    /\ preg \in [Writers -> Nat]

Filling ==
    /\ Covered(count)
    /\ \A w \in Writers : at[w] = "count" => Covered(preg[w])

ReaderTypes ==
    /\ pos \in -1 .. MAX_PIDS
    /\ fresh \in BOOLEAN /\ calm \in BOOLEAN
    /\ shown \in Seq(Pids \cup {-1})

\* A read that meets no writer: what it has shown so far.
Shown == \A k \in 1 .. Len(shown) : shown[k] = pids[k - 1]
Reading ==
    calm =>
        /\ Table!Idle
        /\ pos >= 0 =>
              /\ pos < count /\ Shown
              /\ Len(shown) = IF fresh THEN pos ELSE pos + 1
        /\ pos = -1 /\ shown # <<>> => Len(shown) = count /\ Shown

TableInv ==
    /\ TableTypes /\ Filling
    /\ ReaderTypes /\ Reading

\* The initial states satisfy the invariant.
LEMMA TableInit ==
    ASSUME Table!PidAssumption
    PROVE  Table!Init => TableInv
<1> SUFFICES ASSUME Table!Init PROVE TableInv
  OBVIOUS
<1>1. TableTypes
  BY DEF Table!Init, TableTypes
<1>2. Filling
  BY DEF Table!Init, Filling, Covered, Table!Places, Table!PidAssumption
<1>3. ReaderTypes
  <2>1. fresh \in BOOLEAN /\ calm \in BOOLEAN
    BY DEF Table!Init
  <2>2. pos = -1 /\ shown = <<>>
    BY DEF Table!Init
  <2> QED
    BY <2>1, <2>2 DEF ReaderTypes, Table!PidAssumption
<1>4. Reading
  <2>1. Table!Idle
    BY DEF Table!Init, Table!Idle
  <2>2. pos = -1 /\ shown = <<>>
    BY DEF Table!Init
  <2>3. ~(pos >= 0)
    BY <2>2
  <2> QED
    BY <2>1, <2>2, <2>3 DEF Reading
<1> QED
  BY <1>1, <1>2, <1>3, <1>4 DEF TableInv

\* A step of a writer leaves the reader's part as it is: it is no calm read.
LEMMA WriterReading ==
    ASSUME TableInv, UNCHANGED <<pos, fresh, shown>>,
           \/ calm' = FALSE
           \/ UNCHANGED calm /\ \E w \in Writers : at[w] # "idle"
    PROVE  ReaderTypes' /\ Reading'
<1>1. calm' = FALSE
  BY DEF TableInv, Reading, Table!Idle, ReaderTypes
<1> QED
  BY <1>1 DEF TableInv, ReaderTypes, Reading

\* A step of a writer preserves the invariant.
LEMMA WriteTableInv ==
    ASSUME Table!PidAssumption, TableInv, NEW w \in Writers,
           \/ Table!BeginWrite(w) \/ Table!LoadCount(w) \/ Table!StoreCount(w)
           \/ \E pid \in Pids : Table!StorePid(w, pid)
    PROVE  TableInv'
<1>1. ReaderTypes' /\ Reading'
  <2>1. at[w] = "idle" \/ at[w] # "idle"
    OBVIOUS
  <2> QED
    BY WriterReading
    DEF Table!BeginWrite, Table!LoadCount, Table!StoreCount, Table!StorePid,
        Table!reader
<1>2. CASE Table!BeginWrite(w)
  <2>1. TableTypes'
    BY <1>2 DEF TableInv, TableTypes, Table!BeginWrite
  <2>2. \A v \in Writers : at'[v] = IF v = w THEN "load" ELSE at[v]
    BY <1>2 DEF TableInv, TableTypes, Table!BeginWrite
  <2>3. \A k : Due(k) => Due(k)'
    BY <1>2, <2>2 DEF Due, Table!BeginWrite
  <2>4. Filling'
    BY <1>2, <2>2, <2>3 DEF TableInv, Filling, Covered, Table!BeginWrite
  <2> QED
    BY <1>1, <2>1, <2>4 DEF TableInv
<1>3. CASE Table!LoadCount(w)
  <2>1. TableTypes'
    BY <1>3 DEF TableInv, TableTypes, Table!LoadCount
  <2>2. \A v \in Writers : /\ at'[v] = IF v = w THEN "count" ELSE at[v]
                           /\ preg'[v] = IF v = w THEN count ELSE preg[v]
    BY <1>3 DEF TableInv, TableTypes, Table!LoadCount
  <2>3. \A k : Due(k) => Due(k)'
    BY <1>3, <2>2 DEF Due, Table!LoadCount
  <2>4. Filling'
    BY <1>3, <2>2, <2>3 DEF TableInv, Filling, Covered, Table!LoadCount
  <2> QED
    BY <1>1, <2>1, <2>4 DEF TableInv
<1>4. CASE Table!StoreCount(w)
  <2>1. TableTypes'
    BY <1>4 DEF TableInv, TableTypes, Table!StoreCount
  <2>2. \A v \in Writers : at'[v] = IF v = w THEN "store" ELSE at[v]
    BY <1>4 DEF TableInv, TableTypes, Table!StoreCount
  <2>3. \A k : Due(k) => Due(k)'
    BY <1>4, <2>2 DEF Due, Table!StoreCount
  <2>4. Due(preg[w])'
    BY <1>4, <2>2 DEF Due, Table!StoreCount
  <2>5. Covered(count)'
    BY <1>4, <2>3, <2>4
    DEF TableInv, TableTypes, Filling, Covered, Table!StoreCount, Table!Places,
        Table!PidAssumption
  <2>6. Filling'
    BY <1>4, <2>2, <2>3, <2>5 DEF TableInv, Filling, Covered, Table!StoreCount
  <2> QED
    BY <1>1, <2>1, <2>6 DEF TableInv
<1>5. ASSUME NEW pid \in Pids, Table!StorePid(w, pid) PROVE TableInv'
  <2>1. preg[w] \in Table!Places
    BY <1>5 DEF TableInv, TableTypes, Table!StorePid, Table!Places, Table!PidAssumption
  <2>2. TableTypes'
    BY <1>5, <2>1 DEF TableInv, TableTypes, Table!StorePid
  <2>3. /\ \A k \in Table!Places : pids'[k] = IF k = preg[w] THEN pid ELSE pids[k]
        /\ \A v \in Writers : /\ at'[v] = IF v = w THEN "idle" ELSE at[v]
                              /\ v # w => preg'[v] = preg[v]
    BY <1>5, <2>1 DEF TableInv, TableTypes, Table!StorePid
  <2>4. \A k : Due(k) => Due(k)' \/ k = preg[w]
    BY <2>3 DEF Due
  <2>5. \A n : Covered(n) => Covered(n)'
    BY <2>3, <2>4 DEF Covered
  <2>6. Filling'
    BY <1>5, <2>3, <2>5 DEF TableInv, Filling, Table!StorePid
  <2> QED
    BY <1>1, <2>2, <2>6 DEF TableInv
<1> QED
  BY <1>2, <1>3, <1>4, <1>5

\* The steps of the reader preserve the invariant.
LEMMA ReadTableInv ==
    ASSUME Table!PidAssumption, TableInv, ~Table!Overrun,
           Table!BeginRead \/ Table!Show \/ Table!Advance \/ Table!Restart
    PROVE  TableInv'
<1>1. TableTypes' /\ Filling' /\ UNCHANGED <<pids, count, at>>
  BY DEF TableInv, TableTypes, Filling, Covered, Due,
         Table!BeginRead, Table!Show, Table!Advance, Table!Restart, Table!table
<1>2. Table!Idle' <=> Table!Idle
  BY <1>1 DEF Table!Idle
<1>3. CASE Table!BeginRead
  <2>1. calm' = Table!Idle
    BY <1>3 DEF Table!BeginRead
  <2>2. ReaderTypes'
    BY <1>3, <2>1 DEF Table!BeginRead, TableInv, ReaderTypes, Table!PidAssumption,
                      Table!Idle
  <2>3. pos' = 0 /\ fresh' = TRUE /\ shown' = <<>> /\ 0 < count'
    BY <1>1, <1>3 DEF Table!BeginRead
  <2>4. Reading'
    BY <1>2, <2>1, <2>3 DEF Reading, Shown
  <2> QED
    BY <1>1, <2>2, <2>4 DEF TableInv
<1>4. CASE Table!Show
  <2>1. pos \in Table!Places
    BY <1>4 DEF Table!Show, Table!Overrun, TableInv, ReaderTypes, Table!Places,
                Table!PidAssumption
  <2>2. pids[pos] \in Pids \cup {-1}
    BY <2>1 DEF TableInv, TableTypes
  <2>3. /\ shown' \in Seq(Pids \cup {-1}) /\ Len(shown') = Len(shown) + 1
        /\ \A k \in 1 .. Len(shown) : shown'[k] = shown[k]
        /\ shown'[Len(shown) + 1] = pids[pos]
    BY <1>4, <2>2 DEF Table!Show, TableInv, ReaderTypes
  <2>4. ReaderTypes'
    BY <1>4, <2>3 DEF Table!Show, TableInv, ReaderTypes
  <2>5. fresh /\ ~fresh' /\ pos >= 0 /\ UNCHANGED <<pos, calm>>
    BY <1>4 DEF Table!Show
  <2>6. ASSUME calm PROVE pos < count /\ Len(shown') = pos + 1 /\ Shown'
    <3>1. pos < count /\ Len(shown) = pos /\ Shown
      BY <2>5, <2>6 DEF TableInv, Reading
    <3> QED
      BY <1>1, <2>1, <2>3, <3>1 DEF Shown, TableInv, ReaderTypes
  <2>7. calm => Table!Idle
    BY DEF TableInv, Reading
  <2>8. pos' >= 0 /\ pos' # -1
    BY <2>5 DEF TableInv, ReaderTypes
  <2>9. Reading'
    BY <1>1, <1>2, <2>5, <2>6, <2>7, <2>8 DEF Reading
  <2> QED
    BY <1>1, <2>4, <2>9 DEF TableInv
<1>5. CASE Table!Advance
  <2>1. UNCHANGED <<calm, shown>> /\ pos >= 0 /\ ~fresh
    BY <1>5 DEF Table!Advance
  <2>2. /\ pos' = IF pos + 1 < count THEN pos + 1 ELSE -1
        /\ pos' \in -1 .. MAX_PIDS
    BY <1>5 DEF Table!Advance, TableInv, ReaderTypes, Table!PidAssumption, Table!Overrun
  <2>3. fresh' = (pos' # -1)
    BY <1>5 DEF Table!Advance
  <2>4. ReaderTypes'
    <3>1. fresh' \in BOOLEAN
      BY <2>3
    <3> QED
      BY <2>1, <2>2, <3>1 DEF TableInv, ReaderTypes
  <2>5. ASSUME calm PROVE pos < count /\ Len(shown) = pos + 1 /\ Shown'
    <3>1. pos < count /\ Len(shown) = pos + 1 /\ Shown
      BY <2>1, <2>5 DEF TableInv, Reading
    <3> QED
      BY <1>1, <2>1, <3>1 DEF Shown
  <2>6. calm => /\ pos' >= 0 => pos' < count /\ Len(shown) = pos'
                /\ pos' = -1 => Len(shown) = count
    BY <2>1, <2>2, <2>5 DEF TableInv, TableTypes, ReaderTypes
  <2>7. calm => Table!Idle
    BY DEF TableInv, Reading
  <2>8. pos' >= 0 => fresh'
    <3>1. pos' >= 0 => pos' # -1
      OBVIOUS
    <3> QED
      BY <2>3, <3>1
  <2>9. Reading'
    BY <1>1, <1>2, <2>1, <2>5, <2>6, <2>7, <2>8 DEF Reading
  <2> QED
    BY <1>1, <2>4, <2>9 DEF TableInv
<1>6. CASE Table!Restart
  <2>1. /\ pos >= 0 /\ pos >= count /\ pos' = -1 /\ fresh' = FALSE
        /\ UNCHANGED <<shown, calm>>
    BY <1>6 DEF Table!Restart, TableInv, ReaderTypes
  <2>2. ReaderTypes'
    <3>1. fresh' \in BOOLEAN
      BY <2>1
    <3> QED
      BY <2>1, <3>1 DEF TableInv, ReaderTypes, Table!PidAssumption
  <2>3. ~calm
    <3>1. calm => pos < count
      BY <2>1 DEF TableInv, Reading
    <3> QED
      BY <2>1, <3>1 DEF TableInv, TableTypes, ReaderTypes
  <2>4. Reading'
    BY <2>1, <2>3 DEF Reading
  <2> QED
    BY <1>1, <2>2, <2>4 DEF TableInv
<1> QED
  BY <1>3, <1>4, <1>5, <1>6

\* Every step preserves the invariant.
LEMMA TableNext ==
    ASSUME Table!PidAssumption
    PROVE  TableInv /\ [Table!Next]_(Table!vars) => TableInv'
<1> SUFFICES ASSUME TableInv, [Table!Next]_(Table!vars) PROVE TableInv'
  OBVIOUS
<1>1. CASE Table!LoadStep \/ Table!LoadFails \/ Table!md_exit \/ UNCHANGED Table!vars
  <2>1. UNCHANGED <<pids, count, at, preg, pos, fresh, shown, calm>>
    BY <1>1 DEF Table!LoadStep, Table!LoadFails, Table!md_exit, Table!vars, Table!table,
                Table!reader
  <2> QED
    BY <2>1 DEF TableInv, TableTypes, Filling, Covered, Due, ReaderTypes, Reading,
                Shown, Table!Idle
<1> QED
  BY <1>1, WriteTableInv, ReadTableInv DEF Table!Next

\* The invariant implies that the table has no holes.
LEMMA TableInvNoHoles == TableInv => NoHoles
<1> SUFFICES ASSUME TableInv PROVE Table!NoHoles
  BY DEF NoHoles
<1>1. ASSUME Table!Idle, NEW k \in Table!Places, k < count PROVE pids[k] \in Pids
  BY <1>1 DEF TableInv, Filling, Covered, Due, Table!Idle
<1>2. ASSUME calm, pos = -1, shown # <<>>
      PROVE  Len(shown) = count /\ \A k \in 1 .. count : shown[k] = pids[k - 1]
  BY <1>2 DEF TableInv, Reading, Shown
<1> QED
  BY <1>1, <1>2 DEF Table!NoHoles

-----------------------------------------------------------------------------
(* Fortune.  Both histories can be read off the pot: the writes have filled it up to the
   write index, and the reads of the present round have come to the read index. *)

PotTypes ==
    /\ cookiePot \in [1 .. SIZE -> Cookies!Bytes]
    /\ readInd \in 0 .. SIZE /\ writeInd \in 0 .. SIZE
    /\ written \in Seq(Cookies!Bytes) /\ heard \in Seq(Cookies!Bytes)

\* The sequence s is the beginning of the pot, up to an index behind a null byte.
Holds(s, ind) ==
    /\ Len(s) = ind
    /\ \A k \in 1 .. ind : s[k] = cookiePot[k]
    /\ ind > 0 => cookiePot[ind] = 0

\* The sequence s is one string with its null byte.
OneString(s) ==
    /\ s \in Seq(Cookies!Bytes)
    /\ \A k \in 1 .. Len(s) : s[k] = 0 <=> k = Len(s)

PotInv ==
    /\ PotTypes
    /\ Holds(written, writeInd)
    /\ Holds(heard, readInd)
    /\ readInd <= writeInd

\* A set of natural numbers has a least one.
LEMMA LeastIndex ==
    ASSUME NEW T, T \subseteq Nat, T # {}
    PROVE  \E k \in T : \A j \in T : k <= j
<1>1. PICK k \in T : \A j \in T : ~(<<j, k>> \in OpToRel(<, Nat))
  BY WFMin, NatLessThanWellFounded
<1>2. \A j \in T : ~(j < k)
  BY <1>1 DEF OpToRel
<1> QED
  BY <1>2

\* What a read that starts in front of the write index returns, and where it ends.
LEMMA StringEnds ==
    ASSUME PotInv, NEW a \in 0 .. SIZE, a < writeInd
    PROVE  /\ OneString(Cookies!StringAt(a))
           /\ a + Len(Cookies!StringAt(a)) \in a + 1 .. writeInd
           /\ cookiePot[a + Len(Cookies!StringAt(a))] = 0
           /\ \A k \in 1 .. Len(Cookies!StringAt(a)) :
                 Cookies!StringAt(a)[k] = cookiePot[a + k]
<1> DEFINE ends == {k \in a + 1 .. SIZE : cookiePot[k] = 0}
           end == CHOOSE k \in ends : \A j \in ends : k <= j
           str == SubSeq(cookiePot, a + 1, end)
<1>1. SIZE \in Nat /\ writeInd \in 0 .. SIZE /\ cookiePot \in [1 .. SIZE -> Cookies!Bytes]
  BY Assumptions DEF PotInv, PotTypes, Cookies!FortuneAssumption
<1>2. writeInd \in ends /\ ends \subseteq Nat
  BY <1>1 DEF PotInv, Holds
<1>3. \E k \in ends : \A j \in ends : k <= j
  BY <1>2, LeastIndex
<1>4. end \in ends /\ \A j \in ends : end <= j
  BY <1>3, Zenon
<1> HIDE DEF end
<1>5. /\ end \in a + 1 .. writeInd /\ end \in 1 .. SIZE /\ cookiePot[end] = 0
      /\ \A k \in a + 1 .. end - 1 : cookiePot[k] # 0
  BY <1>1, <1>2, <1>4
<1>6. a + 1 \in Int /\ end \in Int /\ \A k \in a + 1 .. end : cookiePot[k] \in Cookies!Bytes
  BY <1>1, <1>5
<1>7. /\ str \in Seq(Cookies!Bytes) /\ Len(str) = end - a
      /\ \A k \in 1 .. end - a : str[k] = cookiePot[a + k]
  <2>1. PICK b \in Int : b = a + 1
    BY <1>6
  <2>2. /\ SubSeq(cookiePot, b, end) \in Seq(Cookies!Bytes)
        /\ Len(SubSeq(cookiePot, b, end)) = IF b <= end THEN end - b + 1 ELSE 0
        /\ \A i \in 1 .. end - b + 1 :
              SubSeq(cookiePot, b, end)[i] = cookiePot[b + i - 1]
    BY <1>6, <2>1, SubSeqProperties
  <2> QED
    BY <1>5, <2>1, <2>2
<1> HIDE DEF str
<1>8. \A k \in 1 .. Len(str) : str[k] = 0 <=> k = Len(str)
  <2> SUFFICES ASSUME NEW k \in 1 .. end - a PROVE str[k] = 0 <=> k = end - a
    BY <1>7
  <2>1. CASE k = end - a
    BY <1>1, <1>5, <1>7, <2>1
  <2>2. CASE k # end - a
    <3>1. a + k \in a + 1 .. end - 1
      BY <1>1, <1>5, <2>2
    <3> QED
      BY <1>5, <1>7, <2>2, <3>1
  <2> QED
    BY <2>1, <2>2
<1>9. Cookies!StringAt(a) = str
  BY DEF Cookies!StringAt, str, end
<1> QED
  BY <1>1, <1>5, <1>7, <1>8, <1>9 DEF OneString

\* A round is over exactly when the read index has come to the write index.
LEMMA RoundIs ==
    ASSUME PotInv
    PROVE  /\ Cookies!Round = IF readInd = writeInd THEN <<>> ELSE heard
           /\ Cookies!ReadStart = IF readInd = writeInd THEN 0 ELSE readInd
           /\ Cookies!Round \in Seq(Cookies!Bytes)
           /\ Holds(Cookies!Round, Cookies!ReadStart)
           /\ Cookies!ReadStart \in 0 .. SIZE
           /\ writeInd > 0 => Cookies!ReadStart < writeInd
<1>1. /\ SIZE \in Nat /\ writeInd \in 0 .. SIZE /\ readInd \in 0 .. SIZE
      /\ readInd <= writeInd
  BY Assumptions DEF PotInv, PotTypes, Cookies!FortuneAssumption
<1>2. heard = written <=> readInd = writeInd
  <2>1. ASSUME readInd = writeInd PROVE heard = written
    <3>1. Len(heard) = Len(written) /\ \A k \in 1 .. Len(heard) : heard[k] = written[k]
      BY <2>1 DEF PotInv, Holds
    <3> QED
      BY <3>1, SeqEqual DEF PotInv, PotTypes
  <2> QED
    BY <2>1 DEF PotInv, Holds
<1>3. Cookies!Round = IF readInd = writeInd THEN <<>> ELSE heard
  BY <1>2 DEF Cookies!Round
<1>4. Cookies!ReadStart = IF readInd = writeInd THEN 0 ELSE readInd
  BY <1>1 DEF Cookies!ReadStart
<1>5. Holds(<<>>, 0)
  BY DEF Holds
<1>6. Holds(Cookies!Round, Cookies!ReadStart)
  BY <1>3, <1>4, <1>5 DEF PotInv
<1>7. Cookies!Round \in Seq(Cookies!Bytes)
  BY <1>3 DEF PotInv, PotTypes
<1> QED
  BY <1>1, <1>3, <1>4, <1>6, <1>7

Empty ==
    /\ cookiePot \in [1 .. SIZE -> Cookies!Bytes]
    /\ readInd = 0 /\ writeInd = 0
    /\ written = <<>> /\ heard = <<>>

\* The initial states, and the last reset of md_init, leave an empty pot.
LEMMA EmptyPot == Empty => PotInv
<1> SUFFICES ASSUME Empty PROVE PotInv
  OBVIOUS
<1>1. Holds(<<>>, 0)
  BY DEF Holds
<1>2. PotTypes
  BY Assumptions DEF Empty, PotTypes, Cookies!FortuneAssumption
<1> QED
  BY <1>1, <1>2 DEF PotInv, Empty

\* Bytes put at the write index leave those before it.
LEMMA FillPot ==
    ASSUME PotTypes, NEW bytes \in Seq(Cookies!Bytes), writeInd + Len(bytes) <= SIZE
    PROVE  /\ Cookies!Filled(bytes) \in [1 .. SIZE -> Cookies!Bytes]
           /\ \A k \in 1 .. writeInd : Cookies!Filled(bytes)[k] = cookiePot[k]
           /\ \A k \in 1 .. Len(bytes) : Cookies!Filled(bytes)[writeInd + k] = bytes[k]
<1>1. SIZE \in Nat /\ writeInd \in 0 .. SIZE /\ Len(bytes) \in Nat
  BY Assumptions DEF PotTypes, Cookies!FortuneAssumption
<1>2. PICK pot : pot = [k \in 1 .. SIZE |->
                          IF k \in writeInd + 1 .. writeInd + Len(bytes)
                          THEN bytes[k - writeInd] ELSE cookiePot[k]]
  OBVIOUS
<1>3. Cookies!Filled(bytes) = pot
  BY <1>2 DEF Cookies!Filled
<1>4. ASSUME NEW k \in writeInd + 1 .. writeInd + Len(bytes)
      PROVE  bytes[k - writeInd] \in Cookies!Bytes
  <2>1. k - writeInd \in 1 .. Len(bytes)
    BY <1>1
  <2> QED
    BY <2>1, ElementOfSeq
<1>5. pot \in [1 .. SIZE -> Cookies!Bytes]
  BY <1>2, <1>4 DEF PotTypes
<1>6. \A k \in 1 .. writeInd : pot[k] = cookiePot[k]
  BY <1>1, <1>2
<1>7. ASSUME NEW k \in 1 .. Len(bytes) PROVE pot[writeInd + k] = bytes[k]
  <2>1. /\ writeInd + k \in 1 .. SIZE
        /\ writeInd + k \in writeInd + 1 .. writeInd + Len(bytes)
        /\ (writeInd + k) - writeInd = k
    BY <1>1
  <2> QED
    BY <1>2, <2>1
<1> QED
  BY <1>3, <1>5, <1>6, <1>7

\* A write that succeeds goes behind what was written before.
LEMMA WritePotInv ==
    ASSUME PotInv, NEW len \in 0 .. SIZE + 1, NEW bytes \in [1 .. len -> Cookies!Bytes],
           Cookies!fortuneWrite(bytes)
    PROVE  PotInv'
<1> DEFINE c == Cookies!Cookie(bytes)
<1>1. /\ SIZE \in Nat /\ writeInd \in 0 .. SIZE /\ readInd \in 0 .. SIZE
      /\ readInd <= writeInd /\ 0 \in Cookies!Bytes
  BY Assumptions DEF PotInv, PotTypes, Cookies!FortuneAssumption, Cookies!Bytes
<1>2. bytes \in Seq(Cookies!Bytes) /\ Len(bytes) = len /\ len \in Nat
  BY <1>1
<1>3. /\ len > 0 /\ writeInd + len <= SIZE
      /\ cookiePot' = Cookies!Filled(c) /\ writeInd' = writeInd + len
      /\ written' = written \o c /\ UNCHANGED <<readInd, heard>>
  BY <1>2 DEF Cookies!fortuneWrite
<1>4. c \in Seq(Cookies!Bytes) /\ Len(c) = len /\ c[len] = 0
  <2>1. len \in 1 .. Len(bytes)
    BY <1>2, <1>3
  <2> QED
    BY <1>1, <1>2, <2>1, ExceptSeq DEF Cookies!Cookie
<1> HIDE DEF c
<1>5. /\ cookiePot' \in [1 .. SIZE -> Cookies!Bytes]
      /\ \A k \in 1 .. writeInd : cookiePot'[k] = cookiePot[k]
      /\ \A k \in 1 .. len : cookiePot'[writeInd + k] = c[k]
  BY <1>3, <1>4, FillPot DEF PotInv
<1>6. /\ written' \in Seq(Cookies!Bytes) /\ Len(written') = writeInd + len
      /\ \A k \in 1 .. writeInd + len :
            written'[k] = IF k <= writeInd THEN written[k] ELSE c[k - writeInd]
  <2>1. written \in Seq(Cookies!Bytes) /\ Len(written) = writeInd
    BY DEF PotInv, PotTypes, Holds
  <2> QED
    BY <1>3, <1>4, <2>1, ConcatProperties
<1>7. \A k \in 1 .. writeInd + len : written'[k] = cookiePot'[k]
  <2> SUFFICES ASSUME NEW k \in 1 .. writeInd + len PROVE written'[k] = cookiePot'[k]
    OBVIOUS
  <2>1. CASE k <= writeInd
    <3>1. k \in 1 .. writeInd /\ written'[k] = written[k]
      BY <1>1, <1>2, <1>6, <2>1
    <3>2. written[k] = cookiePot[k]
      BY <3>1 DEF PotInv, Holds
    <3> QED
      BY <1>5, <3>1, <3>2
  <2>2. CASE k > writeInd
    <3>1. PICK j \in 1 .. len : j = k - writeInd
      BY <1>1, <1>2, <2>2
    <3>2. writeInd + j = k /\ written'[k] = c[j]
      BY <1>1, <1>2, <1>6, <2>2, <3>1
    <3> QED
      BY <1>5, <3>1, <3>2
  <2> QED
    BY <1>1, <1>2, <2>1, <2>2
<1>8. cookiePot'[writeInd + len] = 0
  <2>1. len \in 1 .. len
    BY <1>2, <1>3
  <2> QED
    BY <1>4, <1>5, <2>1
<1>9. Holds(written, writeInd)'
  BY <1>3, <1>6, <1>7, <1>8 DEF Holds
<1>10. Holds(heard, readInd)'
  BY <1>1, <1>3, <1>5 DEF PotInv, Holds
<1>11. PotTypes'
  BY <1>1, <1>2, <1>3, <1>5, <1>6 DEF PotInv, PotTypes
<1> QED
  BY <1>1, <1>2, <1>3, <1>9, <1>10, <1>11 DEF PotInv

\* A step that changes only the pot from the write index on changes nothing of it.
LEMMA KeepPotInv ==
    ASSUME PotInv, UNCHANGED <<readInd, writeInd, written, heard>>,
           cookiePot' \in [1 .. SIZE -> Cookies!Bytes],
           \A k \in 1 .. writeInd : cookiePot'[k] = cookiePot[k]
    PROVE  PotInv'
<1>1. SIZE \in Nat /\ writeInd \in Nat /\ readInd \in Nat /\ readInd <= writeInd
  BY Assumptions DEF PotInv, PotTypes, Cookies!FortuneAssumption
<1>2. Holds(written, writeInd)' /\ Holds(heard, readInd)'
  BY <1>1 DEF PotInv, Holds
<1>3. PotTypes'
  BY DEF PotInv, PotTypes
<1> QED
  BY <1>1, <1>2, <1>3 DEF PotInv

\* A read returns the next string of the round.
LEMMA ReadPotInv ==
    ASSUME PotInv, Cookies!fortuneRead
    PROVE  PotInv' /\ OneString(got')
<1> DEFINE a == Cookies!ReadStart
           str == Cookies!StringAt(a)
           r == Cookies!Round
<1>1. /\ SIZE \in Nat /\ writeInd \in 0 .. SIZE
      /\ a \in 0 .. SIZE /\ a < writeInd
      /\ r \in Seq(Cookies!Bytes) /\ Holds(r, a)
  BY RoundIs, Assumptions
  DEF PotInv, PotTypes, Cookies!FortuneAssumption, Cookies!fortuneRead
<1>2. /\ readInd' = a + Len(str) /\ got' = str /\ heard' = r \o str
      /\ UNCHANGED <<cookiePot, writeInd, written>>
  BY DEF Cookies!fortuneRead, Cookies!Advance
<1> HIDE DEF a, r
<1>3. /\ OneString(str)
      /\ a + Len(str) \in a + 1 .. writeInd
      /\ cookiePot[a + Len(str)] = 0
      /\ \A k \in 1 .. Len(str) : str[k] = cookiePot[a + k]
  BY <1>1, StringEnds
<1> HIDE DEF str
<1>4. str \in Seq(Cookies!Bytes) /\ Len(str) \in Nat
  BY <1>3 DEF OneString
<1>5. /\ heard' \in Seq(Cookies!Bytes) /\ Len(heard') = a + Len(str)
      /\ \A k \in 1 .. a + Len(str) : heard'[k] = IF k <= a THEN r[k] ELSE str[k - a]
  <2>1. Len(r) = a
    BY <1>1 DEF Holds
  <2> QED
    BY <1>1, <1>2, <1>4, <2>1, ConcatProperties
<1>6. \A k \in 1 .. a + Len(str) : heard'[k] = cookiePot[k]
  <2> SUFFICES ASSUME NEW k \in 1 .. a + Len(str) PROVE heard'[k] = cookiePot[k]
    OBVIOUS
  <2>1. CASE k <= a
    <3>1. k \in 1 .. a /\ heard'[k] = r[k]
      BY <1>1, <1>4, <1>5, <2>1
    <3> QED
      BY <1>1, <3>1 DEF Holds
  <2>2. CASE k > a
    <3>1. PICK j \in 1 .. Len(str) : j = k - a
      BY <1>1, <1>4, <2>2
    <3>2. a + j = k /\ heard'[k] = str[j]
      BY <1>1, <1>4, <1>5, <2>2, <3>1
    <3> QED
      BY <1>3, <3>1, <3>2
  <2> QED
    BY <1>1, <1>4, <2>1, <2>2
<1>7. Holds(heard, readInd)'
  BY <1>2, <1>3, <1>5, <1>6 DEF Holds
<1>8. Holds(written, writeInd)'
  BY <1>2 DEF PotInv, Holds
<1>9. PotTypes'
  BY <1>1, <1>2, <1>3, <1>5 DEF PotInv, PotTypes
<1> QED
  BY <1>1, <1>2, <1>3, <1>7, <1>8, <1>9 DEF PotInv

\* A failing read only returns to the first string, when the round is over.
LEMMA ReadFailsPotInv ==
    ASSUME PotInv, Cookies!ReadFails
    PROVE  PotInv'
<1>1. /\ writeInd > 0 /\ writeInd \in 0 .. SIZE /\ SIZE \in Nat
      /\ readInd' = Cookies!ReadStart /\ heard' = Cookies!Round
      /\ UNCHANGED <<cookiePot, writeInd, written>>
  BY Assumptions DEF Cookies!ReadFails, PotInv, PotTypes, Cookies!FortuneAssumption
<1>2. /\ Cookies!Round \in Seq(Cookies!Bytes)
      /\ Holds(Cookies!Round, Cookies!ReadStart)
      /\ Cookies!ReadStart \in 0 .. SIZE /\ Cookies!ReadStart < writeInd
  BY <1>1, RoundIs
<1>3. Holds(heard, readInd)' /\ Holds(written, writeInd)'
  BY <1>1, <1>2 DEF PotInv, Holds
<1>4. PotTypes'
  BY <1>1, <1>2 DEF PotInv, PotTypes
<1> QED
  BY <1>1, <1>2, <1>3, <1>4 DEF PotInv

EntriesInv ==
    /\ fmodule \in 0 .. 6
    /\ entries \subseteq {"pot", "file", "dir", "link"}
    /\ Cookies!NothingLeftBehind

FortuneInv ==
    /\ PotInv
    /\ EntriesInv
    /\ OneString(got)

\* The initial states satisfy the invariant.
LEMMA FortuneInit == Cookies!Init => FortuneInv
<1> SUFFICES ASSUME Cookies!Init PROVE FortuneInv
  OBVIOUS
<1>1. PotInv
  <2>1. Empty
    BY DEF Cookies!Init, Empty, Cookies!Bytes
  <2> QED
    BY <2>1, EmptyPot
<1>2. EntriesInv /\ OneString(got)
  BY DEF Cookies!Init, EntriesInv, Cookies!NothingLeftBehind, OneString
<1> QED
  BY <1>1, <1>2 DEF FortuneInv

\* What the module has in /proc and in memory is made by the steps of md_init and
\* taken back by freeMemory.
LEMMA EntriesNext ==
    ASSUME EntriesInv, [Cookies!Next]_(Cookies!vars)
    PROVE  EntriesInv'
<1>1. /\ Len(Cookies!Steps) = 4
      /\ \A k \in 1 .. 4 : Cookies!Steps[k] \in {"pot", "file", "dir", "link"}
  BY DEF Cookies!Steps
<1>2. CASE Cookies!LoadStep
  <2>1. fmodule \in 0 .. 3 /\ fmodule' = fmodule + 1
    BY <1>1, <1>2 DEF Cookies!LoadStep, EntriesInv
  <2>2. entries' \subseteq {"pot", "file", "dir", "link"}
    <3>1. Cookies!Steps[fmodule + 1] \in {"pot", "file", "dir", "link"}
      BY <1>1, <2>1
    <3>2. entries' = entries \cup {Cookies!Steps[fmodule + 1]}
      BY <1>2 DEF Cookies!LoadStep
    <3> QED
      BY <3>1, <3>2 DEF EntriesInv
  <2> QED
    BY <2>1, <2>2 DEF EntriesInv, Cookies!NothingLeftBehind, Cookies!Unloaded,
                      Cookies!Failed
<1>3. CASE Cookies!LoadFails \/ Cookies!md_exit
  <2>1. fmodule' \in {5, 6} /\ entries' = entries \ {"file", "dir", "link", "pot"}
    BY <1>3 DEF Cookies!LoadFails, Cookies!md_exit, Cookies!freeMemory,
                Cookies!Unloaded, Cookies!Failed
  <2>2. entries' = {}
    BY <2>1 DEF EntriesInv
  <2> QED
    BY <2>1, <2>2 DEF EntriesInv, Cookies!NothingLeftBehind
<1>4. CASE UNCHANGED <<fmodule, entries>>
  BY <1>4 DEF EntriesInv, Cookies!NothingLeftBehind
<1> QED
  BY <1>2, <1>3, <1>4
  DEF Cookies!Next, Cookies!vars, Cookies!fortuneRead, Cookies!ReadFails,
      Cookies!WriteOutside,
      Cookies!fortuneWrite, Cookies!WriteFails

\* Every step preserves the invariant.
LEMMA FortuneNext == FortuneInv /\ [Cookies!Next]_(Cookies!vars) => FortuneInv'
<1> SUFFICES ASSUME FortuneInv, [Cookies!Next]_(Cookies!vars) PROVE FortuneInv'
  OBVIOUS
<1>1. EntriesInv'
  BY EntriesNext DEF FortuneInv
<1>2. ASSUME UNCHANGED <<readInd, writeInd, cookiePot, written, heard, got>>
      PROVE  FortuneInv'
  <2>1. cookiePot' \in [1 .. SIZE -> Cookies!Bytes]
    BY <1>2 DEF FortuneInv, PotInv, PotTypes
  <2>2. PotInv'
    BY <1>2, <2>1, KeepPotInv DEF FortuneInv
  <2> QED
    BY <1>1, <1>2, <2>2 DEF FortuneInv, OneString
<1>3. CASE Cookies!LoadStep
  <2>1. CASE UNCHANGED <<readInd, writeInd, written, heard>>
    BY <1>2, <1>3, <2>1 DEF Cookies!LoadStep
  <2>2. CASE ~UNCHANGED <<readInd, writeInd, written, heard>>
    <3>1. Empty'
      BY <1>3, <2>2 DEF Cookies!LoadStep, Empty, FortuneInv, PotInv, PotTypes
    <3>2. PotInv'
      BY <3>1, EmptyPot, PTL
    <3> QED
      BY <1>1, <1>3, <3>2 DEF Cookies!LoadStep, FortuneInv, OneString
  <2> QED
    BY <2>1, <2>2
<1>4. CASE Cookies!LoadFails \/ Cookies!md_exit \/ UNCHANGED Cookies!vars
  BY <1>2, <1>4 DEF Cookies!LoadFails, Cookies!md_exit, Cookies!calls, Cookies!vars
<1>5. CASE Cookies!fortuneRead
  <2>1. PotInv' /\ OneString(got')
    BY <1>5, ReadPotInv DEF FortuneInv
  <2> QED
    BY <1>1, <2>1 DEF FortuneInv, OneString
<1>6. CASE Cookies!ReadFails
  <2>1. UNCHANGED got
    BY <1>6 DEF Cookies!ReadFails
  <2> QED
    BY <1>1, <1>6, <2>1, ReadFailsPotInv DEF FortuneInv, OneString
<1>7. ASSUME NEW len \in 0 .. SIZE + 1, Cookies!WriteOutside(len) PROVE FortuneInv'
  BY <1>2, <1>7 DEF Cookies!WriteOutside
<1>8. ASSUME NEW len \in 0 .. SIZE + 1, NEW bytes \in [1 .. len -> Cookies!Bytes],
             Cookies!fortuneWrite(bytes)
      PROVE  FortuneInv'
  <2>1. UNCHANGED got
    BY <1>8 DEF Cookies!fortuneWrite
  <2>2. PotInv'
    BY <1>8, WritePotInv DEF FortuneInv
  <2> QED
    BY <1>1, <2>1, <2>2 DEF FortuneInv, OneString
<1>9. ASSUME NEW len \in 0 .. SIZE + 1, NEW bytes \in [1 .. len -> Cookies!Bytes],
             Cookies!WriteFails(bytes)
      PROVE  FortuneInv'
  <2>1. /\ UNCHANGED <<readInd, writeInd, written, heard, got>>
        /\ cookiePot' = Cookies!Filled(bytes) /\ writeInd + Len(bytes) <= SIZE
    BY <1>9 DEF Cookies!WriteFails
  <2>2. bytes \in Seq(Cookies!Bytes)
    BY <1>9, Assumptions DEF Cookies!FortuneAssumption
  <2>3. PotInv'
    BY <2>1, <2>2, FillPot, KeepPotInv DEF FortuneInv, PotInv
  <2> QED
    BY <1>1, <2>1, <2>3 DEF FortuneInv, OneString
<1> QED
  BY <1>3, <1>4, <1>5, <1>6, <1>7, <1>8, <1>9 DEF Cookies!Next

\* The invariant implies what the runs check.
LEMMA FortuneInvImplies == FortuneInv => ReadsWholeCookie /\ Cookies!NothingLeftBehind
<1> SUFFICES ASSUME FortuneInv
             PROVE  Cookies!ReadsWholeCookie /\ Cookies!NothingLeftBehind
  BY DEF ReadsWholeCookie
<1>1. /\ SIZE \in Nat /\ readInd \in 0 .. SIZE /\ writeInd \in 0 .. SIZE
      /\ readInd <= writeInd
      /\ heard \in Seq(Cookies!Bytes) /\ written \in Seq(Cookies!Bytes)
      /\ Len(heard) = readInd /\ Len(written) = writeInd
      /\ \A k \in 1 .. readInd : heard[k] = written[k]
  BY Assumptions DEF FortuneInv, PotInv, PotTypes, Holds, Cookies!FortuneAssumption
<1>2. SubSeq(heard, 1, readInd) = SubSeq(written, 1, readInd)
  <2>1. /\ SubSeq(heard, 1, readInd) = [k \in 1 .. readInd |-> heard[k]]
        /\ SubSeq(written, 1, readInd) = [k \in 1 .. readInd |-> written[k]]
    BY <1>1
  <2> QED
    BY <1>1, <2>1
<1>3. Cookies!IsPrefix(heard, written)
  BY <1>1, <1>2 DEF Cookies!IsPrefix
<1>4. readInd > 0 => cookiePot[readInd] = 0
  BY DEF FortuneInv, PotInv, Holds
<1> QED
  BY <1>3, <1>4 DEF FortuneInv, EntriesInv, Cookies!ReadsWholeCookie, OneString

-----------------------------------------------------------------------------
(* KeyWorkqueue.  The invariant follows the last code on its way through each item:
   it will be queued, it is queued or about to be loaded, it is being handled, or it
   was handled last.  shift_pressed may be wrong only while an item has yet to
   handle the code. *)

Up == {"absent", "requested", "queue", "items", "loaded"}

WillQueue(i) == irq \in {"store", "queue1"} \/ (irq = "queue2" /\ i = "work_delayed")
Coming(i) == WillQueue(i) \/ i \in pending \/ wpc[i] = "load"
Held(i) == wpc[i] \in {"process", "negate"} /\ arg[i] = code
Over(i) == wpc[i] = "idle" /\ handled[i] = code

Stored(i) == scancode[i] = code \/ (irq = "store" /\ i = "work_delayed")
OnTheWay(i) == code # NoCode => Coming(i) \/ Held(i) \/ Over(i)
ToCome == \E i \in Items : Coming(i) \/ (wpc[i] = "process" /\ arg[i] = code)
ShiftSays ==
    /\ code = "shift" => shift_pressed \/ ToCome
    /\ code = "unshift" => ~shift_pressed \/ ToCome

KeyTypes == TypeOK /\ \A i \in Items : wpc[i] = "negate" => arg[i] = "caps"
KeyInv ==
    /\ KeyTypes
    /\ module \in Up => ShiftSays /\ \A i \in Items : Stored(i) /\ OnTheWay(i)

\* The initial states satisfy the invariant.
LEMMA KeyInit == Init => KeyInv
<1> SUFFICES ASSUME Init PROVE KeyInv
  OBVIOUS
<1>1. code = NoCode /\ NoCode # "shift" /\ NoCode # "unshift"
  BY CodesAssumption DEF Init, Codes, Modifiers
<1>2. TypeOK
  <2>1. shift_pressed \in BOOLEAN
    BY DEF Init
  <2> QED
    BY <2>1 DEF Init, TypeOK
<1>3. KeyTypes
  BY <1>2 DEF Init, KeyTypes
<1> QED
  BY <1>1, <1>3 DEF Init, KeyInv, ShiftSays, Stored, OnTheWay

\* The modifiers are codes, and different ones.
LEMMA ModifierCodes ==
    /\ {"shift", "unshift", "caps"} \subseteq Codes
    /\ NoCode \notin {"shift", "unshift", "caps"}
BY CodesAssumption DEF Codes, Modifiers

\* Loading and unloading preserve the invariant: a code is dropped only when the
\* module is on its way out.
LEMMA ModuleKeyInv ==
    ASSUME KeyInv, ModuleStep
    PROVE  KeyInv'
<1>1. PICK from, to : ModuleGoes(from, to)
  BY DEF ModuleStep, RequestIrq, AllocQueue, AllocateItems, InitWork, InitFails,
         CancelImmediate,
         CancelDelayed, Cancel, FreeItems, DestroyQueue, FreeIrq
<1>2. pending' \subseteq Items
  BY DEF ModuleStep, RequestIrq, AllocQueue, AllocateItems, InitWork, InitFails,
         CancelImmediate,
         CancelDelayed, Cancel, FreeItems, DestroyQueue, FreeIrq, KeyInv, KeyTypes,
         TypeOK
<1>3. module' \in {"absent", "requested", "queue", "items", "loaded", "cancelling",
                   "cancelled", "freed", "destroyed", "unloaded", "failed"}
  BY DEF ModuleStep, RequestIrq, AllocQueue, AllocateItems, InitWork, InitFails,
         CancelImmediate,
         CancelDelayed, Cancel, FreeItems, DestroyQueue, FreeIrq, ModuleGoes
<1>4. module' \in Up => module \in Up /\ UNCHANGED pending
  BY DEF ModuleStep, RequestIrq, AllocQueue, AllocateItems, InitWork, InitFails,
         CancelImmediate,
         CancelDelayed, Cancel, FreeItems, DestroyQueue, FreeIrq, ModuleGoes, Up
<1>5. UNCHANGED <<irq, code, scancode, wpc, arg, reg, shift_pressed, caps_lock_on,
                handled>>
  BY <1>1 DEF ModuleGoes, items, keys
<1>6. KeyTypes'
  BY <1>2, <1>3, <1>5 DEF KeyInv, KeyTypes, TypeOK
<1>7. ASSUME module' \in Up
      PROVE  ShiftSays' /\ \A i \in Items : Stored(i)' /\ OnTheWay(i)'
  <2>1. ShiftSays /\ \A i \in Items : Stored(i) /\ OnTheWay(i)
    BY <1>4, <1>7 DEF KeyInv
  <2> QED
    BY <1>4, <1>5, <1>7, <2>1
    DEF ShiftSays, ToCome, Stored, OnTheWay, Coming, WillQueue, Held, Over
<1> QED
  BY <1>6, <1>7 DEF KeyInv

\* The interrupt handler preserves the invariant: a new code will be queued for both.
LEMMA HandlerKeyInv ==
    ASSUME KeyInv, my_irq_handler
    PROVE  KeyInv'
<1> USE DEF Items
<1>1. UNCHANGED <<module, wpc, arg, reg, shift_pressed, caps_lock_on, handled>>
  BY DEF my_irq_handler, ReadPort, Store, Queue, items, keys
<1>2. ASSUME NEW c \in Codes, ReadPort(c) PROVE KeyInv'
  <2>1. /\ code' = c /\ irq' = "store" /\ UNCHANGED pending
        /\ scancode' = [scancode EXCEPT !["work_immediate"] = c]
    BY <1>2 DEF ReadPort
  <2>2. KeyTypes'
    BY <1>1, <2>1 DEF KeyInv, KeyTypes, TypeOK
  <2>3. \A i \in Items : Coming(i)' /\ Stored(i)'
    BY <2>1 DEF Coming, WillQueue, Stored, KeyInv, KeyTypes, TypeOK
  <2>4. ToCome'
    BY <2>3 DEF ToCome
  <2> QED
    BY <2>2, <2>3, <2>4 DEF KeyInv, ShiftSays, OnTheWay
<1>3. CASE Store
  <2>1. /\ irq = "store" /\ irq' = "queue1" /\ UNCHANGED <<code, pending>>
        /\ scancode' = [scancode EXCEPT !["work_delayed"] = code]
    BY <1>3 DEF Store
  <2>2. KeyTypes'
    BY <1>1, <2>1 DEF KeyInv, KeyTypes, TypeOK
  <2>3. \A i \in Items : Coming(i)'
    BY <2>1 DEF Coming, WillQueue
  <2>4. module \in Up => \A i \in Items : Stored(i)'
    BY <2>1 DEF Stored, KeyInv, KeyTypes, TypeOK
  <2>5. ToCome'
    BY <2>3 DEF ToCome
  <2> QED
    BY <1>1, <2>2, <2>3, <2>4, <2>5 DEF KeyInv, ShiftSays, OnTheWay
<1>4. CASE \/ Queue("work_immediate", "queue1", "queue2")
           \/ Queue("work_delayed", "queue2", "idle")
  <2>1. /\ UNCHANGED <<code, scancode>> /\ pending \subseteq pending'
        /\ pending' \subseteq Items /\ irq \in {"queue1", "queue2"}
        /\ irq' \in {"queue2", "idle"}
    BY <1>4 DEF Queue, items, KeyInv, KeyTypes, TypeOK
  <2>2. \A i \in Items : Coming(i) => Coming(i)'
    BY <1>1, <1>4, <2>1 DEF Queue, Coming, WillQueue
  <2>3. KeyTypes'
    BY <1>1, <2>1 DEF KeyInv, KeyTypes, TypeOK
  <2>4. ToCome => ToCome'
    BY <1>1, <2>1, <2>2 DEF ToCome
  <2>5. ASSUME module \in Up, NEW i \in Items PROVE Stored(i)' /\ OnTheWay(i)'
    <3>1. Stored(i) /\ OnTheWay(i)
      BY <2>5 DEF KeyInv
    <3>2. Stored(i)'
      BY <2>1, <3>1 DEF Stored
    <3> QED
      BY <1>1, <2>1, <2>2, <3>1, <3>2 DEF OnTheWay, Held, Over
  <2> QED
    BY <1>1, <2>1, <2>3, <2>4, <2>5 DEF KeyInv, ShiftSays
<1> QED
  BY <1>2, <1>3, <1>4 DEF my_irq_handler

\* What an item that does not work on the code has to come, and keeps to come.
LEMMA StillComing ==
    ASSUME KeyInv, module \in Up, code # NoCode, NEW i \in Items,
           wpc[i] \in {"process", "negate"}, arg[i] # code,
           UNCHANGED <<irq, pending>>
    PROVE  Coming(i)'
<1>1. Coming(i)
  BY DEF KeyInv, OnTheWay, Held, Over
<1> QED
  BY <1>1 DEF Coming, WillQueue

\* A step of one work item preserves the invariant.
LEMMA WorkKeyInv ==
    ASSUME KeyInv, NEW i \in Items, WorkStep(i)
    PROVE  KeyInv'
<1>1. UNCHANGED <<module, irq, code, scancode>>
  BY DEF WorkStep, Begin, Load, process_key, LoadCaps, StoreCaps, WorkGoes
<1>2. \A j \in Items : j # i =>
        /\ wpc'[j] = wpc[j] /\ arg'[j] = arg[j] /\ handled'[j] = handled[j]
        /\ j \in pending <=> j \in pending'
  BY DEF WorkStep, Begin, Load, process_key, LoadCaps, StoreCaps, WorkGoes, Done, keys,
         KeyInv, KeyTypes, TypeOK
<1>3. ASSUME module \in Up, NEW j \in Items, j # i PROVE OnTheWay(j)'
  <2>1. OnTheWay(j)
    BY <1>3 DEF KeyInv
  <2> QED
    BY <1>1, <1>2, <1>3, <2>1 DEF OnTheWay, Coming, WillQueue, Held, Over
<1>4. ASSUME module \in Up, NEW j \in Items PROVE Stored(j) /\ Stored(j)'
  BY <1>1, <1>4 DEF KeyInv, Stored
<1>5. ASSUME KeyTypes', module \in Up => OnTheWay(i)' /\ ShiftSays' PROVE KeyInv'
  BY <1>1, <1>3, <1>4, <1>5 DEF KeyInv
<1>6. Coming(i)' => ToCome' /\ OnTheWay(i)' /\ ShiftSays'
  BY DEF ToCome, OnTheWay, ShiftSays
<1>7. ASSUME NEW from, NEW to \in {"idle", "load", "process", "negate"}, WorkGoes(i,
             from, to)
      PROVE  /\ wpc' \in [Items -> {"idle", "load", "process", "negate"}]
             /\ wpc[i] = from /\ wpc'[i] = to
  BY <1>7 DEF WorkGoes, KeyInv, KeyTypes, TypeOK
<1>8. CASE Begin(i)
  <2>1. WorkGoes(i, "idle", "load") /\ UNCHANGED <<arg, reg, shift_pressed,
        caps_lock_on, handled>>
    BY <1>8 DEF Begin, keys
  <2>2. wpc'[i] = "load" /\ wpc' \in [Items -> {"idle", "load", "process", "negate"}]
    BY <1>7, <2>1
  <2>3. TypeOK'
    BY <1>1, <1>8, <2>1, <2>2 DEF Begin, KeyInv, KeyTypes, TypeOK
  <2>4. KeyTypes'
    BY <1>2, <2>1, <2>2, <2>3 DEF KeyInv, KeyTypes
  <2> QED
    BY <1>5, <1>6, <2>2, <2>4 DEF Coming
<1>9. CASE Load(i)
  <2>1. /\ WorkGoes(i, "load", "process") /\ arg' = [arg EXCEPT ![i] = scancode[i]]
        /\ UNCHANGED <<reg, pending, shift_pressed, caps_lock_on, handled>>
    BY <1>9 DEF Load, keys
  <2>2. wpc'[i] = "process" /\ wpc' \in [Items -> {"idle", "load", "process", "negate"}]
    BY <1>7, <2>1
  <2>3. TypeOK' /\ arg'[i] = scancode[i]
    BY <1>1, <2>1, <2>2 DEF KeyInv, KeyTypes, TypeOK
  <2>4. KeyTypes'
    BY <1>2, <2>2, <2>3 DEF KeyInv, KeyTypes
  <2>5. CASE scancode[i] = code
    <3>1. Held(i)' /\ ToCome'
      BY <1>1, <2>2, <2>3, <2>5 DEF Held, ToCome
    <3> QED
      BY <1>5, <2>4, <3>1 DEF OnTheWay, ShiftSays
  <2>6. CASE scancode[i] # code
    <3>1. module \in Up => Coming(i)'
      BY <1>1, <1>4, <2>6 DEF Stored, Coming, WillQueue
    <3> QED
      BY <1>5, <1>6, <2>4, <3>1
  <2> QED
    BY <2>5, <2>6
<1>10. CASE process_key(i)
  <2>1. WorkGoes(i, "process", "idle") /\ Done(i) /\ UNCHANGED <<pending, caps_lock_on>>
    BY <1>10 DEF process_key, Done
  <2>2. /\ wpc[i] = "process" /\ wpc'[i] = "idle"
        /\ wpc' \in [Items -> {"idle", "load", "process", "negate"}]
    BY <1>7, <2>1
  <2>3. /\ arg' \in [Items -> Codes \cup {NoCode}] /\ reg' \in [Items -> 0 .. 1]
        /\ handled' \in [Items -> Codes \cup {NoCode}] /\ handled'[i] = arg[i]
    BY <2>1 DEF Done, KeyInv, KeyTypes, TypeOK
  <2>4. /\ arg[i] = "shift" => shift_pressed' = TRUE
        /\ arg[i] = "unshift" => shift_pressed' = FALSE
        /\ shift_pressed' \in BOOLEAN
    <3>1. shift_pressed' = CASE arg[i] = "shift"   -> TRUE
                             [] arg[i] = "unshift" -> FALSE
                             [] OTHER              -> shift_pressed
      BY <1>10 DEF process_key
    <3>2. shift_pressed \in BOOLEAN
      BY DEF KeyInv, KeyTypes, TypeOK
    <3>3. CASE arg[i] = "shift"
      BY <3>1, <3>3
    <3>4. CASE arg[i] = "unshift"
      BY <3>1, <3>4
    <3>5. CASE arg[i] # "shift" /\ arg[i] # "unshift"
      BY <3>1, <3>2, <3>5
    <3> QED
      BY <3>3, <3>4, <3>5
  <2>5. TypeOK'
    BY <1>1, <2>1, <2>2, <2>3, <2>4 DEF KeyInv, KeyTypes, TypeOK
  <2>6. KeyTypes'
    BY <1>2, <2>2, <2>5 DEF KeyInv, KeyTypes
  <2>7. CASE arg[i] = code
    <3>1. Over(i)'
      BY <1>1, <2>2, <2>3, <2>7 DEF Over
    <3>2. (code = "shift" => shift_pressed') /\ (code = "unshift" => ~shift_pressed')
      BY <2>4, <2>7
    <3> QED
      BY <1>1, <1>5, <2>6, <3>1, <3>2 DEF OnTheWay, ShiftSays
  <2>8. CASE arg[i] # code /\ code # NoCode
    <3>1. module \in Up => Coming(i)'
      BY <1>1, <2>1, <2>2, <2>8, StillComing
    <3> QED
      BY <1>5, <1>6, <2>6, <3>1
  <2>9. CASE code = NoCode
    BY <1>1, <1>5, <2>6, <2>9, ModifierCodes DEF OnTheWay, ShiftSays
  <2> QED
    BY <2>7, <2>8, <2>9
<1>11. CASE LoadCaps(i)
  <2>1. /\ WorkGoes(i, "process", "negate") /\ arg[i] = "caps"
        /\ reg' = [reg EXCEPT ![i] = caps_lock_on]
        /\ UNCHANGED <<arg, pending, shift_pressed, caps_lock_on, handled>>
    BY <1>11 DEF LoadCaps, keys
  <2>2. /\ wpc[i] = "process" /\ wpc'[i] = "negate"
        /\ wpc' \in [Items -> {"idle", "load", "process", "negate"}]
    BY <1>7, <2>1
  <2>3. TypeOK'
    BY <1>1, <2>1, <2>2 DEF KeyInv, KeyTypes, TypeOK
  <2>4. KeyTypes'
    BY <1>2, <2>1, <2>2, <2>3 DEF KeyInv, KeyTypes
  <2>5. CASE arg[i] = code
    <3>1. Held(i)' /\ code = "caps"
      BY <1>1, <2>1, <2>2, <2>5 DEF Held
    <3> QED
      BY <1>1, <1>5, <2>4, <3>1 DEF OnTheWay, ShiftSays
  <2>6. CASE arg[i] # code /\ code # NoCode
    <3>1. module \in Up => Coming(i)'
      BY <1>1, <2>1, <2>2, <2>6, StillComing
    <3> QED
      BY <1>5, <1>6, <2>4, <3>1
  <2>7. CASE code = NoCode
    BY <1>1, <1>5, <2>4, <2>7, ModifierCodes DEF OnTheWay, ShiftSays
  <2> QED
    BY <2>5, <2>6, <2>7
<1>12. CASE StoreCaps(i)
  <2>1. /\ WorkGoes(i, "negate", "idle") /\ Done(i) /\ caps_lock_on' = 1 - reg[i]
        /\ UNCHANGED <<pending, shift_pressed>>
    BY <1>12 DEF StoreCaps, Done
  <2>2. /\ wpc[i] = "negate" /\ wpc'[i] = "idle"
        /\ wpc' \in [Items -> {"idle", "load", "process", "negate"}]
    BY <1>7, <2>1
  <2>3. /\ arg' \in [Items -> Codes \cup {NoCode}] /\ reg' \in [Items -> 0 .. 1]
        /\ handled' \in [Items -> Codes \cup {NoCode}] /\ handled'[i] = arg[i]
    BY <2>1 DEF Done, KeyInv, KeyTypes, TypeOK
  <2>4. caps_lock_on' \in 0 .. 1
    BY <2>1 DEF KeyInv, KeyTypes, TypeOK
  <2>5. TypeOK'
    BY <1>1, <2>1, <2>2, <2>3, <2>4 DEF KeyInv, KeyTypes, TypeOK
  <2>6. KeyTypes'
    BY <1>2, <2>2, <2>5 DEF KeyInv, KeyTypes
  <2>7. CASE arg[i] = code
    <3>1. Over(i)' /\ code = "caps"
      BY <1>1, <2>2, <2>3, <2>7 DEF Over, KeyInv, KeyTypes
    <3> QED
      BY <1>1, <1>5, <2>6, <3>1 DEF OnTheWay, ShiftSays
  <2>8. CASE arg[i] # code /\ code # NoCode
    <3>1. module \in Up => Coming(i)'
      BY <1>1, <2>1, <2>2, <2>8, StillComing
    <3> QED
      BY <1>5, <1>6, <2>6, <3>1
  <2>9. CASE code = NoCode
    BY <1>1, <1>5, <2>6, <2>9, ModifierCodes DEF OnTheWay, ShiftSays
  <2> QED
    BY <2>7, <2>8, <2>9
<1> QED
  BY <1>8, <1>9, <1>10, <1>11, <1>12 DEF WorkStep

\* Every step preserves the invariant.
LEMMA KeyNext == KeyInv /\ [Next]_vars => KeyInv'
<1> SUFFICES ASSUME KeyInv, [Next]_vars PROVE KeyInv'
  OBVIOUS
<1>1. CASE Next
  BY <1>1, ModuleKeyInv, HandlerKeyInv, WorkKeyInv DEF Next
<1>2. CASE UNCHANGED vars
  <2>1. KeyTypes'
    BY <1>2 DEF vars, KeyInv, KeyTypes, TypeOK
  <2>2. ShiftSays => ShiftSays'
    BY <1>2 DEF vars, ShiftSays, ToCome, Coming, WillQueue
  <2>3. \A i \in Items : (Stored(i) => Stored(i)') /\ (OnTheWay(i) => OnTheWay(i)')
    BY <1>2 DEF vars, Stored, OnTheWay, Coming, WillQueue, Held, Over
  <2>4. UNCHANGED module
    BY <1>2 DEF vars
  <2> QED
    BY <2>1, <2>2, <2>3, <2>4 DEF KeyInv
<1> QED
  BY <1>1, <1>2

\* When nothing is under way, no code is to come any more.
LEMMA KeyInvImplies == KeyInv => LastKeyHandled
<1> SUFFICES ASSUME KeyInv, Quiet, code # NoCode
             PROVE  /\ \A i \in Items : handled[i] = code
                    /\ code = "shift" => shift_pressed
                    /\ code = "unshift" => ~shift_pressed
  BY DEF LastKeyHandled
<1>1. module \in Up /\ \A i \in Items : ~Coming(i) /\ wpc[i] = "idle"
  BY DEF Quiet, Up, Coming, WillQueue
<1>2. ~ToCome
  BY <1>1 DEF ToCome
<1>3. \A i \in Items : handled[i] = code
  BY <1>1 DEF KeyInv, OnTheWay, Held, Over
<1> QED
  BY <1>1, <1>2, <1>3 DEF KeyInv, ShiftSays

-----------------------------------------------------------------------------
(* What PidTable and Fortune have in /proc; with it their types are complete. *)

FilesInv ==
    /\ iter \in BOOLEAN
    /\ pmodule \in {"loading", "loaded", "failed", "unloaded"}
    /\ loaded \in {SubSeq(Table!Steps, 1, k) : k \in 0 .. Len(Table!Steps)}
    /\ pmodule = "loading" => Len(loaded) < Len(Table!Steps)
    /\ Table!NothingLeftBehind

\* The steps of md_init in order.
LEMMA FirstSteps ==
    /\ Len(Table!Steps) = 3 /\ SubSeq(Table!Steps, 1, 0) = <<>>
    /\ \A k \in 0 .. 3 : Len(SubSeq(Table!Steps, 1, k)) = k
    /\ \A k \in 0 .. 2 : Append(SubSeq(Table!Steps, 1, k), Table!Steps[k + 1])
                         = SubSeq(Table!Steps, 1, k + 1)
<1>1. Table!Steps \in Seq({"dir", "file", "link"}) /\ Len(Table!Steps) = 3
  BY DEF Table!Steps
<1>2. SubSeq(Table!Steps, 1, 0) = <<>>
  BY SubSeqEmpty
<1>3. \A k \in 0 .. 3 : Len(SubSeq(Table!Steps, 1, k)) = k
  BY <1>1
<1>4. ASSUME NEW k \in 0 .. 2
      PROVE  Append(SubSeq(Table!Steps, 1, k), Table!Steps[k + 1])
             = SubSeq(Table!Steps, 1, k + 1)
  <2>1. SubSeq(Table!Steps, 1, k + 1) = SubSeq(Table!Steps, 1,
        k) \o <<Table!Steps[k + 1]>>
    BY <1>1, SubSeqRecursiveSecond
  <2>2. /\ SubSeq(Table!Steps, 1, k) \in Seq({"dir", "file", "link"})
        /\ Table!Steps[k + 1] \in {"dir", "file", "link"}
    <3>1. PICK q \in Seq({"dir", "file", "link"}) : q = Table!Steps /\ Len(q) = 3
      BY <1>1
    <3>2. k + 1 \in 1 .. Len(q) /\ \A j \in 1 .. k : j \in 1 .. Len(q)
      BY <3>1
    <3>3. \A j \in 1 .. Len(q) : q[j] \in {"dir", "file", "link"}
      OBVIOUS
    <3>4. SubSeq(q, 1, k) \in Seq({"dir", "file", "link"})
      BY <3>2, <3>3, SubSeqProperties
    <3> QED
      BY <3>1, <3>2, <3>3, <3>4
  <2> QED
    BY <2>1, <2>2, AppendIsConcat
<1> QED
  BY <1>1, <1>2, <1>3, <1>4

\* The initial states satisfy it.
LEMMA FilesInit == Table!Init => FilesInv
BY FirstSteps DEF Table!Init, FilesInv, Table!NothingLeftBehind

\* Every step preserves it.
LEMMA FilesNext == FilesInv /\ [Table!Next]_(Table!vars) => FilesInv'
<1> SUFFICES ASSUME FilesInv, [Table!Next]_(Table!vars) PROVE FilesInv'
  OBVIOUS
<1>1. CASE Table!LoadStep
  <2>1. PICK k \in 0 .. 3 : loaded = SubSeq(Table!Steps, 1, k)
    BY FirstSteps DEF FilesInv
  <2>2. k \in 0 .. 2 /\ Len(loaded) = k
    BY <1>1, <2>1, FirstSteps DEF Table!LoadStep, FilesInv
  <2>3. loaded' = SubSeq(Table!Steps, 1, k + 1) /\ Len(loaded') = k + 1
    BY <1>1, <2>1, <2>2, FirstSteps DEF Table!LoadStep
  <2>4. UNCHANGED iter
    BY <1>1 DEF Table!LoadStep
  <2> QED
    BY <1>1, <2>2, <2>3, <2>4, FirstSteps
    DEF Table!LoadStep, FilesInv, Table!NothingLeftBehind
<1>2. CASE Table!LoadFails \/ Table!md_exit
  <2>1. /\ UNCHANGED iter /\ pmodule' \in {"failed", "unloaded"}
        /\ loaded' = SubSeq(Table!Steps, 1, 0)
    BY <1>2, FirstSteps DEF Table!LoadFails, Table!md_exit, Table!free_resources
  <2>2. loaded' = <<>> /\ 0 \in 0 .. Len(Table!Steps)
    BY <2>1, FirstSteps
  <2> QED
    BY <2>1, <2>2 DEF FilesInv, Table!NothingLeftBehind
<1>3. CASE UNCHANGED <<iter, loaded, pmodule>>
  BY <1>3 DEF FilesInv, Table!NothingLeftBehind
<1> QED
  BY <1>1, <1>2, <1>3
  DEF Table!Next, Table!vars, Table!BeginRead, Table!Show, Table!Advance, Table!Restart,
      Table!BeginWrite, Table!LoadCount, Table!StoreCount, Table!StorePid, Table!files

-----------------------------------------------------------------------------
(* All of them together. *)

KernelInv == KeyInv /\ FortuneInv /\ foops \in BOOLEAN /\ TableInv /\ FilesInv /\ VfsInv

\* One of the modules takes a step, or none does.
LEMMA KernelStep ==
    ASSUME [KernelNext]_allVars
    PROVE  /\ [Next]_vars
           /\ [Cookies!Next]_(Cookies!vars)
           /\ [Table!Next]_(Table!vars)
           /\ [Vfs!Next]_(Vfs!vars)
<1> USE DEF fortuneVars, pidVars, vfsVars, Cookies!vars, Table!vars, Vfs!vars
<1>1. CASE UNCHANGED allVars
  BY <1>1 DEF allVars
<1>2. CASE Wq(Next)
  BY <1>2 DEF Wq
<1>3. CASE Frt(Cookies!Next)
  BY <1>3 DEF Frt
<1>4. CASE Seqs(Table!Next)
  BY <1>4 DEF Seqs
<1>5. CASE Fs(Vfs!Next)
  BY <1>5 DEF Fs
<1> QED
  BY <1>1, <1>2, <1>3, <1>4, <1>5 DEF KernelNext

\* The invariants of all modules hold throughout.
LEMMA KernelInvariant == KernelSpec => []KernelInv
<1>1. KernelInit => KernelInv
  <2> SUFFICES ASSUME KernelInit PROVE KernelInv
    OBVIOUS
  <2>1. Init /\ Cookies!Init /\ Table!Init /\ Vfs!Init
    BY DEF KernelInit
  <2>2. foops \in BOOLEAN
    BY <2>1 DEF Cookies!Init
  <2> QED
    BY <2>1, <2>2, KeyInit, FortuneInit, TableInit, FilesInit, VfsInit, Assumptions
    DEF KernelInv
<1>2. KernelInv /\ [KernelNext]_allVars => KernelInv'
  <2> SUFFICES ASSUME KernelInv, [KernelNext]_allVars PROVE KernelInv'
    OBVIOUS
  <2>1. /\ [Next]_vars /\ [Cookies!Next]_(Cookies!vars)
        /\ [Table!Next]_(Table!vars) /\ [Vfs!Next]_(Vfs!vars)
    BY KernelStep
  <2>2. foops' \in BOOLEAN
    BY <2>1 DEF KernelInv, Cookies!Next, Cookies!vars, Cookies!LoadStep,
                Cookies!LoadFails,
                Cookies!md_exit, Cookies!calls, Cookies!fortuneRead, Cookies!ReadFails,
                Cookies!WriteOutside, Cookies!fortuneWrite, Cookies!WriteFails
  <2> QED
    BY <2>1, <2>2, KeyNext, FortuneNext, TableNext, FilesNext, VfsNext, Assumptions
    DEF KernelInv
<1> QED
  BY <1>1, <1>2, PTL DEF KernelSpec

\* Every variable of the modules keeps its type: caps_lock_on, which both work items
\* negate, stays 0 or 1, the indices of the pot stay in the pot, and the reader of a
\* pid table is stopped before it leaves the table.
THEOREM KernelTypes == KernelSpec => []KernelTypeOK
<1>1. KernelInv => KernelTypeOK
  <2> SUFFICES ASSUME KernelInv PROVE KernelTypeOK
    OBVIOUS
  <2>1. TypeOK /\ Vfs!TypeOK
    BY DEF KernelInv, KeyInv, KeyTypes, VfsInv
  <2>2. Table!TypeOK
    BY DEF KernelInv, TableInv, TableTypes, ReaderTypes, FilesInv, Table!TypeOK
  <2>3. Len(Cookies!Steps) = 4 /\ Cookies!ToSet(Cookies!Steps) = {"pot", "file", "dir",
        "link"}
    BY DEF Cookies!Steps, Cookies!ToSet
  <2>4. Cookies!TypeOK
    BY <2>3 DEF KernelInv, FortuneInv, PotInv, PotTypes, OneString, EntriesInv,
                Cookies!TypeOK,
                Cookies!Unloaded, Cookies!Failed
  <2> QED
    BY <2>1, <2>2, <2>4 DEF KernelTypeOK
<1> QED
  BY <1>1, KernelInvariant, PTL

\* The last code that the interrupt handler of wq.c has read is handled by both work
\* items, and shift_pressed agrees with it, for any set of keys.
THEOREM LastKey == KernelSpec => []LastKeyHandled
<1>1. KernelInv => LastKeyHandled
  BY KeyInvImplies DEF KernelInv
<1> QED
  BY <1>1, KernelInvariant, PTL

\* Reads of the fortune file go round the pot string by string, in the order they were
\* written, for any size of the pot, any bytes (null bytes inside a write included) and
\* any number of writes.
THEOREM WholeCookies == KernelSpec => []ReadsWholeCookie
<1>1. KernelInv => ReadsWholeCookie
  BY FortuneInvImplies DEF KernelInv
<1> QED
  BY <1>1, KernelInvariant, PTL

\* The pid tables have no holes, for any number of writers that overlap and any
\* length of the table.
THEOREM TableHasNoHoles == KernelSpec => []NoHoles
<1>1. KernelInv => NoHoles
  BY TableInvNoHoles DEF KernelInv
<1> QED
  BY <1>1, KernelInvariant, PTL

\* A module that was unloaded, or could not be loaded, leaves nothing in /proc and in
\* memory; only the file system module, when its loading fails, leaves every object
\* but the first, and its registration wherever it leaves these or a mount, for any
\* parameter, any size of the array and any number of mounts.
THEOREM WhatIsLeft == KernelSpec => []LeftBehind
<1>1. KernelInv => LeftBehind
  BY FortuneInvImplies DEF KernelInv, FilesInv, VfsInv, LeftBehind
<1> QED
  BY <1>1, KernelInvariant, PTL
=============================================================================

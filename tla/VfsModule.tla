----------------------------- MODULE VfsModule ------------------------------
(***************************************************************************)
(* The file system module (lab-vfs/src/main.c; main_comm.c is the same     *)
(* program with comments): loading registers the type, allocates an array, *)
(* a slab cache and its objects; the type can be mounted from its          *)
(* registration on; unloading gives everything back.                       *)
(*                                                                         *)
(* The kernel (external) unloads a module only while nothing of its type   *)
(* is mounted, and frees the code of a module whose loading has failed.    *)
(* Running what is gone, an inode that is put once too often, a null       *)
(* object that is freed and an object beyond the array end the model       *)
(* (oops).                                                                 *)
(***************************************************************************)
EXTENDS Naturals, FiniteSets

CONSTANTS
    PAGE_SIZE,      \* the places of the array
    MaxCount,       \* the largest parameter given to the module
    MaxMounts       \* file systems mounted at a time

VfsAssumption == PAGE_SIZE \in Nat /\ MaxCount \in Nat /\ MaxMounts \in Nat

VARIABLES
    cached_count, \* the module's parameter: objects to be cached
    module,       \* "loading", "loaded", "failed" or "unloaded"
    registered,   \* register_filesystem has been done
    cache_mem,    \* the array of objects is allocated
    cache,        \* the slab cache exists
    objects,      \* the objects taken from it
    mounts,       \* file systems mounted
    oops

vars == <<cached_count, module, registered, cache_mem, cache, objects, mounts, oops>>

TypeOK ==
    /\ cached_count \in 0 .. MaxCount
    /\ module \in {"loading", "loaded", "failed", "unloaded"}
    /\ registered \in BOOLEAN /\ cache_mem \in BOOLEAN /\ cache \in BOOLEAN
    /\ objects \subseteq 1 .. cached_count /\ Cardinality(objects) <= PAGE_SIZE
    /\ mounts \in 0 .. MaxMounts
    /\ oops \in BOOLEAN

Init ==
    /\ cached_count \in 0 .. MaxCount
    /\ module = "loading"
    /\ registered = FALSE /\ cache_mem = FALSE /\ cache = FALSE
    /\ objects = {}
    /\ mounts = 0
    /\ oops = FALSE

-----------------------------------------------------------------------------
(* myvfs_init and myvfs_exit *)

Loading == module = "loading" /\ ~oops

Register ==
    /\ Loading /\ ~registered
    /\ registered' = TRUE
    /\ UNCHANGED <<cached_count, module, cache_mem, cache, objects, mounts, oops>>

AllocArray ==
    /\ Loading /\ registered /\ ~cache_mem
    /\ cache_mem' = TRUE
    /\ UNCHANGED <<cached_count, module, registered, cache, objects, mounts, oops>>

CreateCache ==
    /\ Loading /\ cache_mem /\ ~cache
    /\ cache' = TRUE
    /\ UNCHANGED <<cached_count, module, registered, cache_mem, objects, mounts, oops>>

AllocObject ==
    /\ Loading /\ cache
    /\ \E n \in 1 .. cached_count :
          /\ n <= PAGE_SIZE /\ objects = 1 .. n - 1
          /\ objects' = 1 .. n
    /\ UNCHANGED <<cached_count, module, registered, cache_mem, cache, mounts, oops>>

\* The array has PAGE_SIZE places, whatever the parameter.
Beyond == cache /\ objects = 1 .. PAGE_SIZE /\ PAGE_SIZE < cached_count

AllocBeyond ==
    /\ Loading /\ Beyond
    /\ oops' = TRUE
    /\ UNCHANGED <<cached_count, module, registered, cache_mem, cache, objects, mounts>>

Loaded ==
    /\ Loading /\ cache /\ objects = 1 .. cached_count
    /\ module' = "loaded"
    /\ UNCHANGED <<cached_count, registered, cache_mem, cache, objects, mounts, oops>>

\* The step under way fails.  The array is freed, of the objects only the first,
\* and the cache cannot be destroyed while there are others; the type stays
\* registered.
LoadFails ==
    /\ Loading /\ ~Beyond /\ ~(cache /\ objects = 1 .. cached_count)
    /\ module' = "failed"
    /\ cache_mem' = FALSE
    /\ objects' = objects \ {1}
    /\ cache' = (objects' # {})
    /\ UNCHANGED <<cached_count, registered, mounts, oops>>

\* The first object fails, and the null pointer in its place is freed.
FirstFails ==
    /\ Loading /\ cache /\ objects = {} /\ cached_count > 0
    /\ oops' = TRUE
    /\ UNCHANGED <<cached_count, module, registered, cache_mem, cache, objects, mounts>>

\* A slip: the objects are not freed, and the cache cannot be destroyed.
myvfs_exit_KeepsObjects ==
    /\ module = "loaded" /\ mounts = 0 /\ ~oops
    /\ module' = "unloaded"
    /\ registered' = FALSE
    /\ cache_mem' = FALSE /\ cache' = (objects # {})
    /\ UNCHANGED <<cached_count, objects, mounts, oops>>

myvfs_exit ==
    /\ module = "loaded" /\ mounts = 0 /\ ~oops
    /\ module' = "unloaded"
    /\ registered' = FALSE
    /\ objects' = {}
    /\ cache_mem' = FALSE /\ cache' = FALSE
    /\ UNCHANGED <<cached_count, mounts, oops>>

-----------------------------------------------------------------------------
(* myvfs_mount and myvfs_kill_super *)

CanMount == registered /\ ~oops /\ mounts < MaxMounts

\* myvfs_fill_super; when new_inode fails nothing has changed.
myvfs_mount ==
    /\ CanMount /\ module # "failed"
    /\ mounts' = mounts + 1
    /\ UNCHANGED <<cached_count, module, registered, cache_mem, cache, objects, oops>>

\* d_make_root fails and has put the inode, which is then put again.
RootFails ==
    /\ CanMount /\ module # "failed"
    /\ oops' = TRUE
    /\ UNCHANGED <<cached_count, module, registered, cache_mem, cache, objects, mounts>>

\* The code is gone: a mount of the type, or any use of what is mounted.
CodeGone ==
    /\ module = "failed" /\ ~oops
    /\ registered \/ mounts > 0
    /\ oops' = TRUE
    /\ UNCHANGED <<cached_count, module, registered, cache_mem, cache, objects, mounts>>

myvfs_kill_super ==
    /\ mounts > 0 /\ module # "failed" /\ ~oops
    /\ mounts' = mounts - 1
    /\ UNCHANGED <<cached_count, module, registered, cache_mem, cache, objects, oops>>

Next ==
    \/ Register \/ AllocArray \/ CreateCache \/ AllocObject \/ AllocBeyond \/ Loaded
    \/ LoadFails \/ FirstFails \/ myvfs_exit \/ myvfs_mount \/ RootFails \/ CodeGone \/ myvfs_kill_super

Spec == Init /\ [][Next]_vars

-----------------------------------------------------------------------------
(* Properties *)

\* Unloading leaves nothing.  Loading that fails leaves every object but the first,
\* and with them the cache; and whenever that, or a file system mounted meanwhile, is
\* left, the type is still registered too.
LeftBehind ==
    /\ module = "unloaded" =>
          ~registered /\ ~cache_mem /\ ~cache /\ objects = {} /\ mounts = 0
    /\ module = "failed" =>
          /\ ~cache_mem
          /\ \E n \in 0 .. PAGE_SIZE : n <= cached_count /\ objects = 2 .. n
          /\ cache <=> objects # {}
          /\ cache \/ mounts > 0 => registered
=============================================================================

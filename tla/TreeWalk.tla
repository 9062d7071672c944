------------------------------ MODULE TreeWalk ------------------------------
(***************************************************************************)
(* The file tree walk (lab-fileSystem/task-ftw/main.c, lib/stack.c,        *)
(* lib/statistics.c).                                                      *)
(*                                                                         *)
(* The walk has no recursion: names to visit are on a stack, and a name is *)
(* looked up in whatever directory the process then stands in.  Entering a *)
(* directory puts ".." under its names, so that popping it leads back.     *)
(* Names of different directories may be equal, so that a walk that stands *)
(* in the wrong place visits the wrong entry.                              *)
(*                                                                         *)
(* Every system call is a step.  Between two of them other processes may   *)
(* remove an entry or move one elsewhere.  A directory that is removed     *)
(* while the walk stands in it still has its "..", as on Linux.            *)
(*                                                                         *)
(* A node of the stack has room for MAX_NAME = 200 bytes, and strcpy puts  *)
(* any name into it: names may have 255, the path of the root more.        *)
(***************************************************************************)
EXTENDS Integers, SequencesExt

CONSTANTS
    Entries,   \* everything below the directory the walk is given
    Names,     \* the names entries may have
    Root,      \* that directory
    Outside,   \* its parent
    MaxFaults  \* how many directories refuse a call and names are too long

TreeAssumption ==
    /\ Entries \subseteq Nat /\ IsFiniteSet(Entries)
    /\ Root # Outside /\ Entries \cap {Root, Outside} = {}
    /\ Names \cap {Root, "..", "garbled"} = {} /\ Root \notin {"..", "garbled"}

VARIABLES
    parent,       \* the directory each entry is in
    name,         \* and its name there
    isDir,        \* the directories among the entries
    closed,       \* directories that opendir refuses
    noEntry,      \* directories that chdir refuses
    long,         \* the names, of the root its path, that do not fit into a node
    present,      \* entries that were not removed
    moved,        \* an entry was moved
    pc,           \* the next call of the walk
    stk,          \* the stack, its top first
    elem,         \* the element in hand
    cwd,          \* where the process stands
    dp,           \* the directory that is open
    stats,        \* [file, dir], the counters
    reported      \* the visits of each entry and of the root: sets of depths

tree == <<parent, name, isDir, closed, noEntry, long, present, moved>>
vars == <<tree, pc, stk, elem, cwd, dp, stats, reported>>

Dirs == isDir \cup {Root}

\* ".."; above Outside it is not told apart where the process stands.
Up(d) == IF d \in {Root, Outside} THEN Outside ELSE parent[d]

\* An entry that is moved may be visited deeper than the tree is, so depths have no bound.
Elems == [name : Names \cup {Root, "..", "garbled"}, depth : Nat \cup {-1}]

TypeOK ==
    /\ parent \in [Entries -> Entries \cup {Root}]
    /\ name \in [Entries -> Names]
    /\ isDir \subseteq Entries
    /\ present \subseteq Entries
    /\ long \subseteq Names \cup {Root}
    /\ pc \in {"start", "loop", "opendir", "chdir", "readdir", "done", "failed", "aborted"}
    /\ stk \in Seq(Elems) /\ elem \in Elems
    /\ cwd \in Dirs \cup {Outside} /\ dp \in Dirs \cup {Outside}
    /\ stats \in [file : Nat, dir : Nat]

(* The entries above e, as a reference for what the walk computes. *)
Above(e) ==
    LET above[x \in Entries \cup {Root}] ==
            IF x = Root THEN {} ELSE {parent[x]} \cup above[parent[x]]
    IN  above[e]

\* Every tree over the entries, numbered from the root on, in which at most MaxFaults
\* directories refuse a call and names are too long; no two entries of a directory
\* share a name.
Init ==
    /\ parent \in {p \in [Entries -> Entries \cup {Root}] :
                       \A e \in Entries : p[e] = Root \/ p[e] < e}
    /\ name \in [Entries -> Names]
    /\ \A e, f \in Entries : parent[e] = parent[f] /\ name[e] = name[f] => e = f
    /\ isDir \in SUBSET Entries /\ \A e \in Entries : parent[e] \in Dirs
    /\ closed \in SUBSET Dirs /\ noEntry \in SUBSET Dirs
    /\ long \in SUBSET (Names \cup {Root})
    /\ Cardinality(closed) + Cardinality(noEntry) + Cardinality(long) <= MaxFaults
    /\ present = Entries
    /\ moved = FALSE
    /\ pc = "start"
    /\ stk = <<>>
    /\ elem = [name |-> Root, depth |-> 0]
    /\ cwd = Outside
    /\ dp = Outside
    /\ stats = [file |-> 0, dir |-> 0]
    /\ reported = [e \in Entries \cup {Root} |-> <<>>]

-----------------------------------------------------------------------------
(* The other processes. *)

Children(d) == {e \in present : parent[e] = d}

\* unlink and rmdir, which wants an empty directory.
Unlink(e) ==
    /\ e \in present /\ Children(e) = {}
    /\ present' = present \ {e}
    /\ UNCHANGED <<parent, name, isDir, closed, noEntry, long, moved>>

\* rename into another directory; one is enough to lead a walk astray.
Move(e, d) ==
    /\ ~moved
    /\ e \in present /\ d \in present \cup {Root} /\ d \in Dirs
    /\ d # e /\ d # parent[e] /\ e \notin Above(d)
    /\ \A f \in Children(d) : name[f] # name[e]
    /\ parent' = [parent EXCEPT ![e] = d]
    /\ moved' = TRUE
    /\ UNCHANGED <<name, isDir, closed, noEntry, long, present>>

Others ==
    /\ \E e \in Entries : Unlink(e) \/ \E d \in Entries \cup {Root} : Move(e, d)
    /\ UNCHANGED <<pc, stk, elem, cwd, dp, stats, reported>>

-----------------------------------------------------------------------------
(* The stack (lib/stack.c). *)

\* strcpy of a name that is too long runs over depth and next, which are stored after
\* it: what is left are 200 bytes of the name and the depth behind them, a name that
\* no entry is taken to have.
create_node(n, d) == [name |-> IF n \in long THEN "garbled" ELSE n, depth |-> d]

\* The node is copied into a new one.
push(s, x) == <<create_node(x.name, x.depth)>> \o s

\* elem = pop(&stk) of ftw, after doPath has left the stack s.
pop(s) ==
    /\ elem' = Head(s)
    /\ stk' = Tail(s)
    /\ pc' = "loop"

-----------------------------------------------------------------------------
(* doPath *)

\* What the name in hand stands for here: an entry, or nothing.  The root is named
\* by its whole path.  Above the root nothing is found: only a walk that strayed after
\* a move stands there, and what it might meet is not of the tree.
Lookup ==
    IF elem.name = Root THEN {Root}
    ELSE {e \in Children(cwd) : name[e] = elem.name}

InLoop == pc = "loop" /\ stk # <<>>

\* chdir(pathName) for an element that leads back.
GoUp ==
    /\ InLoop /\ elem.depth < 0
    /\ cwd' = Up(cwd)
    /\ pop(stk)
    /\ UNCHANGED <<tree, dp, stats, reported>>

\* lstat fails: the entry is gone.
LstatFails ==
    /\ InLoop /\ elem.depth >= 0
    /\ Lookup = {}
    /\ pop(stk)
    /\ UNCHANGED <<tree, cwd, dp, stats, reported>>

\* func: the visit.
Report(e) == reported' = [reported EXCEPT ![e] = Append(@, elem.depth)]

\* incStat and func for an entry that is no directory.
VisitFile ==
    /\ InLoop /\ elem.depth >= 0
    /\ \E e \in Lookup \ Dirs :
          /\ Report(e)
          /\ stats' = [stats EXCEPT !.file = @ + 1]
    /\ pop(stk)
    /\ UNCHANGED <<tree, cwd, dp>>

VisitDir ==
    /\ InLoop /\ elem.depth >= 0
    /\ \E e \in Lookup \cap Dirs :
          /\ Report(e)
          /\ stats' = [stats EXCEPT !.dir = @ + 1]
    /\ pc' = "opendir"
    /\ UNCHANGED <<tree, stk, elem, cwd, dp>>

Opendir ==
    /\ pc = "opendir"
    /\ \E e \in (Lookup \cap Dirs) \ closed :
          /\ dp' = e
          /\ pc' = "chdir"
          /\ UNCHANGED <<stk, elem>>
    /\ UNCHANGED <<tree, cwd, stats, reported>>

OpendirFails ==
    /\ pc = "opendir"
    /\ (Lookup \cap Dirs) \ closed = {}
    /\ pop(stk)
    /\ UNCHANGED <<tree, cwd, dp, stats, reported>>

Chdir ==
    /\ pc = "chdir"
    /\ \E e \in (Lookup \cap Dirs) \ noEntry : cwd' = e
    /\ pc' = "readdir"
    /\ UNCHANGED <<tree, stk, elem, dp, stats, reported>>

\* A slip: the way back is left on the stack.
ChdirFailsPushed ==
    /\ pc = "chdir"
    /\ (Lookup \cap Dirs) \ noEntry = {}
    /\ pop(push(stk, create_node("..", -1)))
    /\ dp' = Outside
    /\ UNCHANGED <<tree, cwd, stats, reported>>

\* closedir and return: nothing was pushed.
ChdirFails ==
    /\ pc = "chdir"
    /\ (Lookup \cap Dirs) \ noEntry = {}
    /\ pop(stk)
    /\ dp' = Outside
    /\ UNCHANGED <<tree, cwd, stats, reported>>

\* The way back, then the names in the order readdir gives them; closedir.
Readdir ==
    /\ pc = "readdir"
    /\ \E order \in SetToSeqs(Children(dp)) :
          pop([i \in 1 .. Len(order) |-> create_node(name[order[i]], elem.depth + 1)]
              \o push(stk, create_node("..", -1)))
    /\ dp' = Outside
    /\ UNCHANGED <<tree, cwd, stats, reported>>

\* A name that runs over the whole node damages the heap, and the next malloc may
\* abort the program.
Abort ==
    /\ \/ pc = "readdir" /\ \E e \in Children(dp) : name[e] \in long
       \/ pc = "start" /\ Root \notin noEntry /\ Root \in long
    /\ pc' = "aborted"
    /\ UNCHANGED <<tree, stk, elem, cwd, dp, stats, reported>>

-----------------------------------------------------------------------------
(* ftw *)

\* chdir, getcwd, and the root on the stack and in hand.
Begin ==
    /\ pc = "start" /\ Root \notin noEntry
    /\ cwd' = Root
    /\ elem' = create_node(Root, 0)
    /\ stk' = push(stk, elem')
    /\ pc' = "loop"
    /\ UNCHANGED <<tree, dp, stats, reported>>

BeginFails ==
    /\ pc = "start" /\ Root \in noEntry
    /\ pc' = "failed"
    /\ UNCHANGED <<tree, stk, elem, cwd, dp, stats, reported>>

\* The element in hand is the root again, and is not visited; printStat.
Finish ==
    /\ pc = "loop" /\ stk = <<>>
    /\ pc' = "done"
    /\ UNCHANGED <<tree, stk, elem, cwd, dp, stats, reported>>

Walk ==
    \/ Begin \/ BeginFails \/ Finish
    \/ GoUp \/ LstatFails \/ VisitFile \/ VisitDir
    \/ Opendir \/ OpendirFails \/ Chdir \/ ChdirFails \/ Readdir
    \/ Abort

Next == Walk \/ Others

Spec == Init /\ [][Next]_vars

-----------------------------------------------------------------------------
(* Properties *)

\* The entries the walk can get at: no directory above is refused, and neither their
\* name nor one above is too long.
Reachable ==
    {e \in Entries :
        /\ Above(e) \cap (closed \cup noEntry) = {}
        /\ \A x \in {e} \cup Above(e) : (IF x = Root THEN Root ELSE name[x]) \notin long}

\* The visits of the members of E, numbered.
Visits(E) == UNION {{e} \X (1 .. Len(reported[e])) : e \in E}

\* A walk that is through has visited every entry that was there all the time and
\* that it can get at, once, at its depth in the tree, and no entry twice; it has
\* counted the files and the directories it has visited, and it stands where ".." of
\* the root leads or never read the root.  Removals may happen between any two calls.
WalkComplete ==
    pc = "done" =>
        /\ stats.file = Cardinality(Visits(Entries \ Dirs))
        /\ stats.dir = Cardinality(Visits(Dirs))
        /\ ~moved =>
              /\ \A e \in Reachable \cap present : reported[e] = <<Cardinality(Above(e))>>
              /\ \A e \in Entries : Len(reported[e]) <= (IF e \in Reachable THEN 1 ELSE 0)
              /\ reported[Root] = (IF Root \in long THEN <<>> ELSE <<0>>)
              /\ cwd = IF Root \in closed \cup long THEN Root ELSE Outside

\* The walk comes to this, whatever is refused, removed or moved: the stack runs dry.
WalkEnded == pc \in {"done", "failed", "aborted"}
=============================================================================

--------------------------- MODULE ChildMessages ----------------------------
(***************************************************************************)
(* A parent and the messages of its children, in three programs, one of    *)
(* which is chosen in Init: a pipe that the parent reads after every fork  *)
(* (lab-processes/part-02/task_04.c), a pipe that it reads to the end      *)
(* after all forks, into which the children write only when SIGINT has     *)
(* come (task_05.c), and a pair of stream sockets over which it also       *)
(* answers (lab-socket/task-01/main.c).                                    *)
(*                                                                         *)
(* The children share one end.  A message is a run of bytes that carry the *)
(* number of its child; only lengths and ends are kept.  The kernel        *)
(* (external) takes a write of this size whole; a read takes what there is *)
(* up to its size, sleeps when there is nothing, and returns nothing once  *)
(* nobody has the other end open.                                          *)
(***************************************************************************)
EXTENDS Naturals, Sequences

CONSTANTS
    UpLen,      \* the length of each child's message
    DownLen     \* and of the answer to it

ChildAssumption ==
    /\ UpLen \in Seq(Nat \ {0}) /\ DownLen \in Seq(Nat \ {0})
    /\ Len(UpLen) >= 2 /\ Len(DownLen) = Len(UpLen)

VARIABLES
    prog,     \* the program
    at,       \* where the parent is
    i,        \* the child it forks or has forked
    writeEnd, \* the parent has the end open that the children write to
    flag,     \* SIGINT has come: the parent's flag and those of the children
    cat,      \* where each child is
    up, down, \* the bytes on the way to the parent and to the children
    got,      \* what the parent's reads returned
    sent      \* the children that have written

vars == <<prog, at, i, writeEnd, flag, cat, up, down, got, sent>>

\* Reading after each fork, with a size or as much as there is; answering; writing
\* only after SIGINT; the number of children.
task_04    == [reads |-> TRUE, sized |-> FALSE, answers |-> FALSE, guarded |-> FALSE, count |-> 2]
task_05    == [reads |-> FALSE, sized |-> FALSE, answers |-> FALSE, guarded |-> TRUE, count |-> 2]
socketpair == [reads |-> TRUE, sized |-> TRUE, answers |-> TRUE, guarded |-> FALSE, count |-> Len(UpLen)]

Children == 1 .. prog.count
Message(c) == [k \in 1 .. UpLen[c] |-> c]
Answer(c)  == [k \in 1 .. DownLen[c] |-> c]

TypeOK ==
    /\ prog \in {task_04, task_05, socketpair}
    /\ at \in {"fork", "read", "answer", "close", "drain", "wait", "done", "failed"}
    /\ i \in 1 .. prog.count + 1
    /\ writeEnd \in BOOLEAN /\ flag \in BOOLEAN
    /\ cat \in [Children -> {"unborn", "write", "read", "dead"}]
    /\ up \in Seq(Children) /\ down \in Seq(Children)
    /\ got \in Seq(Seq(Children))
    /\ sent \subseteq Children

Init ==
    /\ prog \in {task_04, task_05, socketpair}
    /\ at = "fork"
    /\ i = 1
    /\ writeEnd = TRUE /\ flag = FALSE
    /\ cat = [c \in Children |-> "unborn"]
    /\ up = <<>> /\ down = <<>>
    /\ got = <<>>
    /\ sent = {}

First(q, n) == SubSeq(q, 1, IF n < Len(q) THEN n ELSE Len(q))
After(q, n) == SubSeq(q, n + 1, Len(q))

Over == at \in {"done", "failed"}

-----------------------------------------------------------------------------
(* The parent. *)

Fork ==
    /\ at = "fork" /\ i \in Children
    /\ cat' = [cat EXCEPT ![i] = "write"]
    /\ IF prog.reads THEN at' = "read" /\ UNCHANGED i ELSE at' = "fork" /\ i' = i + 1
    /\ UNCHANGED <<prog, writeEnd, flag, up, down, got, sent>>

\* exit(1), whatever the children are doing.
ForkFails ==
    /\ at = "fork" /\ i \in Children
    /\ at' = "failed" /\ writeEnd' = FALSE
    /\ UNCHANGED <<prog, i, flag, cat, up, down, got, sent>>

\* A slip: the byte that ends the string is left behind.
SizeNoEnd == IF prog.sized THEN UpLen[i] - 1 ELSE Len(up)

\* The bytes a read asks for.
Size == IF prog.sized THEN UpLen[i] ELSE Len(up)

\* The read after a fork; the parent itself keeps the other end open, so there is
\* no end of file.
Read ==
    /\ at = "read" /\ up # <<>>
    /\ LET n == Size IN got' = Append(got, First(up, n)) /\ up' = After(up, n)
    /\ IF prog.answers THEN at' = "answer" /\ UNCHANGED i ELSE at' = "fork" /\ i' = i + 1
    /\ UNCHANGED <<prog, writeEnd, flag, cat, down, sent>>

WriteAnswer ==
    /\ at = "answer"
    /\ down' = down \o Answer(i)
    /\ at' = "fork" /\ i' = i + 1
    /\ UNCHANGED <<prog, writeEnd, flag, cat, up, got, sent>>

\* A slip: the parent keeps the end it does not use.
CloseKept ==
    /\ at = "fork" /\ i \notin Children
    /\ at' = IF prog.answers THEN "wait" ELSE "drain"
    /\ UNCHANGED <<prog, i, writeEnd, flag, cat, up, down, got, sent>>

\* close(fd[1]), or both sockets.
Close ==
    /\ at = "fork" /\ i \notin Children
    /\ writeEnd' = FALSE
    /\ at' = IF prog.answers THEN "wait" ELSE "drain"
    /\ UNCHANGED <<prog, i, flag, cat, up, down, got, sent>>

\* The read after the close: once in task_04, byte by byte in task_05.
DrainByte ==
    /\ at = "drain" /\ up # <<>>
    /\ got' = Append(got, First(up, IF prog.guarded THEN 1 ELSE Len(up)))
    /\ up' = After(up, IF prog.guarded THEN 1 ELSE Len(up))
    /\ at' = IF prog.guarded THEN "drain" ELSE "wait"
    /\ UNCHANGED <<prog, i, writeEnd, flag, cat, down, sent>>

\* Nobody is left who could write.
DrainEnds ==
    /\ at = "drain" /\ up = <<>>
    /\ ~writeEnd /\ \A c \in Children : cat[c] # "write"
    /\ at' = "wait"
    /\ UNCHANGED <<prog, i, writeEnd, flag, cat, up, down, got, sent>>

\* wait or waitpid for every child.
Wait ==
    /\ at = "wait" /\ \A c \in Children : cat[c] = "dead"
    /\ at' = "done"
    /\ UNCHANGED <<prog, i, writeEnd, flag, cat, up, down, got, sent>>

-----------------------------------------------------------------------------
(* A child. *)

\* write, and in task_05 only with the flag set; without a parent there is nobody
\* to read it.
ChildWrites(c) ==
    /\ cat[c] = "write"
    /\ IF (prog.guarded => flag) /\ at # "failed"
       THEN up' = up \o Message(c) /\ sent' = sent \cup {c}
       ELSE UNCHANGED <<up, sent>>
    /\ cat' = [cat EXCEPT ![c] = IF prog.answers /\ at # "failed" THEN "read" ELSE "dead"]
    /\ UNCHANGED <<prog, at, i, writeEnd, flag, down, got>>

\* The read of the answer, whosever answer is there; or the parent's end is closed,
\* and no child has it from the fork any more.
ChildReads(c) ==
    /\ cat[c] = "read"
    /\ down # <<>> \/ (~writeEnd /\ \A d \in Children : cat[d] # "write")
    /\ down' = After(down, DownLen[c])
    /\ cat' = [cat EXCEPT ![c] = "dead"]
    /\ UNCHANGED <<prog, at, i, writeEnd, flag, up, got, sent>>

-----------------------------------------------------------------------------
\* task_05: sig_handler, in every process of the terminal.
sig_handler ==
    /\ prog.guarded /\ ~flag /\ ~Over
    /\ flag' = TRUE
    /\ UNCHANGED <<prog, at, i, writeEnd, cat, up, down, got, sent>>

Parent ==
    \/ Fork \/ ForkFails \/ Read \/ WriteAnswer \/ Close \/ DrainByte \/ DrainEnds \/ Wait

Child(c) == ChildWrites(c) \/ ChildReads(c)

Next == Parent \/ sig_handler \/ \E c \in Children : Child(c)

Spec == Init /\ [][Next]_vars

-----------------------------------------------------------------------------
(* Properties *)

\* Where the parent reads after every fork, the k-th read returns the message of the
\* k-th child, though all children share the end and earlier ones may still be at it.
ReadsWhole ==
    prog.reads => \A k \in 1 .. Len(got) :
                      got[k] = IF k \in Children THEN Message(k) ELSE <<>>

\* Where it reads byte by byte, it gets the messages of the children that have seen
\* SIGINT, no byte of another, and each in one piece: they are never mixed.
BytesWhole ==
    ~prog.reads /\ at \in {"wait", "done"} =>
        /\ \A k \in 1 .. Len(got) : \E c \in Children : got[k] = <<c>>
        /\ \A c \in Children : \E f \in 0 .. Len(got) :
              {k \in 1 .. Len(got) : got[k] = <<c>>} =
                  f + 1 .. f + (IF c \in sent THEN UpLen[c] ELSE 0)

\* The parent gets whole messages.
MessagesWhole == ReadsWhole /\ BytesWhole

\* It comes to this: no read sleeps on an end that only its own program keeps open,
\* and no answer is waited for that another child has taken.
Finished == Over /\ \A c \in Children : cat[c] \in {"unborn", "dead"}
=============================================================================

----------------------------- MODULE OpenFiles ------------------------------
(***************************************************************************)
(* Open files and buffers (lab-bio/src/task-01 ... task-07).               *)
(*                                                                         *)
(* Seven programs, one of which is chosen in Init.  In each, two streams   *)
(* work on one file of letters.  In task-01 and task-02 both are made from *)
(* one descriptor, so that the offset is shared and each fills a buffer of *)
(* its own; in task-03 to task-05 the file is opened twice and read byte   *)
(* by byte; in task-06 and task-07 it is opened twice for writing and each *)
(* stream's letters reach the file when it is closed.  The programs with   *)
(* threads do the same with the streams served side by side.               *)
(*                                                                         *)
(* A read is one step, as the kernel locks the offset.  Where the          *)
(* programs look at a stream they have closed (fileInfo after fclose) the  *)
(* process may go on or die.                                               *)
(***************************************************************************)
EXTENDS Naturals, SequencesExt

CONSTANTS
    LAST,        \* the number of letters, 'A' being 1
    BUFF_SIZE    \* the size of a stream's buffer in task-01 and task-02

LettersAssumption == LAST \in Nat \ {0} /\ LAST % 2 = 0 /\ BUFF_SIZE \in Nat \ {0}

Streams == 1 .. 2

(* What tells the programs apart: one descriptor under both streams, bytes per
   read, the streams that have a thread (main serves the others, in turn), a
   format that looks for white space behind the letter, and writing.          *)
task_01 == [shared |-> TRUE, size |-> BUFF_SIZE, threads |-> {}, peeks |-> FALSE, writes |-> FALSE]
task_02 == [shared |-> TRUE, size |-> BUFF_SIZE, threads |-> {2}, peeks |-> TRUE, writes |-> FALSE]
task_03 == [shared |-> FALSE, size |-> 1, threads |-> {}, peeks |-> FALSE, writes |-> FALSE]
task_04 == [shared |-> FALSE, size |-> 1, threads |-> {1, 2}, peeks |-> FALSE, writes |-> FALSE]
task_05 == [shared |-> FALSE, size |-> 1, threads |-> {1}, peeks |-> FALSE, writes |-> FALSE]
task_06 == [shared |-> FALSE, size |-> 1, threads |-> {}, peeks |-> FALSE, writes |-> TRUE]
task_07 == [shared |-> FALSE, size |-> 1, threads |-> {1, 2}, peeks |-> FALSE, writes |-> TRUE]

Programs == {task_01, task_02, task_03, task_04, task_05, task_06, task_07}

VARIABLES
    prog,       \* the program
    main,       \* where main is
    born,       \* the streams whose thread was created
    refused,    \* a pthread_create failed
    turn,       \* the stream main serves next, when it serves both
    at,         \* what is done next with each stream
    hand,       \* the letter fscanf or read has taken from it, 0 for none
    buf,        \* its buffer
    offset,     \* the offset of each open file; a shared one is the first
    out,        \* what was printed from each stream
    file        \* the file that is written

vars == <<prog, main, born, refused, turn, at, hand, buf, offset, out, file>>

Desc(s) == IF prog.shared THEN 1 ELSE s

TypeOK ==
    /\ prog \in Programs
    /\ main \in {"open", "create", "work", "join", "closed1", "info1", "end", "failed", "crashed"}
    /\ born \subseteq Streams /\ refused \in BOOLEAN
    /\ turn \in Streams
    /\ at \in [Streams -> {"take", "peek", "print", "end"}]
    /\ hand \in [Streams -> 0 .. LAST]
    /\ buf \in [Streams -> Seq(1 .. LAST)]
    /\ offset \in [Streams -> 0 .. LAST]
    /\ out \in [Streams -> Seq(1 .. LAST)]
    /\ file \in Seq(1 .. LAST)

Init ==
    /\ prog \in Programs
    /\ main = "open"
    /\ born = {} /\ refused = FALSE
    /\ turn = 1
    /\ at = [s \in Streams |-> "take"]
    /\ hand = [s \in Streams |-> 0]
    /\ buf = [s \in Streams |-> <<>>]
    /\ offset = [s \in Streams |-> 0]
    /\ out = [s \in Streams |-> <<>>]
    /\ file = <<>>

-----------------------------------------------------------------------------
(* The streams. *)

Over == main \in {"end", "failed", "crashed"}

\* Main's own loop gets to s, or s has a thread.
Served(s) ==
    /\ ~Over
    /\ IF s \in prog.threads THEN s \in born
       ELSE main = "work" /\ (prog.threads = {} => turn = s)

\* Main goes to the other stream unless that one has ended: it would only be told
\* so again.
PassTurn(s) == turn' = IF at[3 - s] = "end" THEN s ELSE 3 - s

\* A slip: the letters are taken from the stream's own place in the file.
ReadOwnOffset(s) ==
    LET n == IF prog.size < LAST - offset[s] THEN prog.size ELSE LAST - offset[s]
    IN  /\ buf' = [buf EXCEPT ![s] = [i \in 1 .. n |-> offset[s] + i]]
        /\ offset' = [offset EXCEPT ![s] = @ + n]

\* A slip: a short read is taken for a full one.
ReadFull(s) ==
    LET d == Desc(s)
    IN  /\ buf' = [buf EXCEPT ![s] = [i \in 1 .. prog.size |-> offset[d] + i]]
        /\ offset' = [offset EXCEPT ![d] = @ + prog.size]

\* read(2) into the buffer: as many bytes as it holds or the file has left.
Read(s) ==
    LET d == Desc(s)
        n == IF prog.size < LAST - offset[d] THEN prog.size ELSE LAST - offset[d]
    IN  /\ buf' = [buf EXCEPT ![s] = [i \in 1 .. n |-> offset[d] + i]]
        /\ offset' = [offset EXCEPT ![d] = @ + n]

Fill(s) ==
    /\ Served(s) /\ ~prog.writes
    /\ at[s] = "take" /\ buf[s] = <<>> /\ offset[Desc(s)] < LAST
    /\ Read(s)
    /\ UNCHANGED <<prog, main, born, refused, turn, at, hand, out, file>>

\* %c
Take(s) ==
    /\ Served(s) /\ ~prog.writes
    /\ at[s] = "take" /\ buf[s] # <<>>
    /\ hand' = [hand EXCEPT ![s] = Head(buf[s])]
    /\ buf' = [buf EXCEPT ![s] = Tail(@)]
    /\ at' = [at EXCEPT ![s] = IF prog.peeks THEN "peek" ELSE "print"]
    /\ UNCHANGED <<prog, main, born, refused, turn, offset, out, file>>

\* The \n of the format: the next letter is looked at, and with an empty buffer
\* that is a read, before the letter in hand is printed.
Peek(s) ==
    /\ Served(s)
    /\ at[s] = "peek"
    /\ IF buf[s] = <<>> THEN Read(s) ELSE UNCHANGED <<buf, offset>>
    /\ at' = [at EXCEPT ![s] = "print"]
    /\ UNCHANGED <<prog, main, born, refused, turn, hand, out, file>>

PrintLetter(s) ==
    /\ Served(s)
    /\ at[s] = "print"
    /\ out' = [out EXCEPT ![s] = Append(@, hand[s])]
    /\ hand' = [hand EXCEPT ![s] = 0]
    /\ at' = [at EXCEPT ![s] = "take"]
    /\ PassTurn(s)
    /\ UNCHANGED <<prog, main, born, refused, buf, offset, file>>

EndOfFile(s) ==
    /\ Served(s) /\ ~prog.writes
    /\ at[s] = "take" /\ buf[s] = <<>> /\ offset[Desc(s)] = LAST
    /\ at' = [at EXCEPT ![s] = "end"]
    /\ PassTurn(s)
    /\ UNCHANGED <<prog, main, born, refused, hand, buf, offset, out, file>>

\* fprintf: every other letter, into the buffer, which is not filled.
PutLetter(s) ==
    /\ Served(s) /\ prog.writes /\ main \notin {"closed1", "info1"}
    /\ at[s] = "take"
    /\ LET c == s + 2 * Len(buf[s])
       IN  IF c <= LAST
           THEN buf' = [buf EXCEPT ![s] = Append(@, c)] /\ UNCHANGED at
           ELSE at' = [at EXCEPT ![s] = "end"] /\ UNCHANGED buf
    /\ PassTurn(s)
    /\ UNCHANGED <<prog, main, born, refused, hand, offset, out, file>>

-----------------------------------------------------------------------------
(* main *)

MainGoes(from, to) ==
    /\ main = from
    /\ main' = to
    /\ UNCHANGED <<prog, born, refused, turn, at, hand, buf, offset, out, file>>

\* The first or second open or fopen fails; without the file task-06 and task-07
\* go on with a null pointer.
OpenFails == MainGoes("open", IF prog.writes THEN "crashed" ELSE "failed")

Open == MainGoes("open", "create")

\* The threads are created in order.
Create(s) ==
    /\ main = "create" /\ s \in prog.threads \ born
    /\ \A t \in prog.threads : t < s => t \in born
    /\ born' = born \cup {s}
    /\ UNCHANGED <<prog, main, refused, turn, at, hand, buf, offset, out, file>>

\* The readers leave; the writers close both streams first, the one of a running
\* thread too.
CreateFails ==
    /\ main = "create" /\ prog.threads \ born # {}
    /\ refused' = TRUE
    /\ main' = IF prog.writes THEN "join" ELSE "failed"
    /\ UNCHANGED <<prog, born, turn, at, hand, buf, offset, out, file>>

Created == prog.threads \subseteq born /\ MainGoes("create", "work")

\* Main is through with its own streams.
Worked == (\A s \in Streams \ prog.threads : at[s] = "end") /\ MainGoes("work", "join")

\* pthread_join and the two closes of a reader.
CloseReader ==
    /\ ~prog.writes
    /\ \A s \in born : at[s] = "end"
    /\ MainGoes("join", "end")

\* A slip: the letters are put behind the ones in the file.
FlushAppends(s) == file' = file \o buf[s]

\* The letters of a stream go to the offset its own open file stands at.
Flush(s) ==
    file' = buf[s] \o SubSeq(file, Len(buf[s]) + 1, Len(file))

\* pthread_join and fclose(f1); a refused main does not wait for the thread.
CloseFirst ==
    /\ prog.writes /\ main = "join"
    /\ refused \/ \A s \in born : at[s] = "end"
    /\ Flush(1)
    /\ main' = "closed1"
    /\ UNCHANGED <<prog, born, refused, turn, at, hand, buf, offset, out>>

\* fileInfo(f1) after fclose(f1); a refused main does not call it.
Info == MainGoes("closed1", "info1")
InfoCrashes == ~refused /\ MainGoes("closed1", "crashed")

\* The thread of a refused main goes on writing to the closed stream.
WriteAfterClose ==
    /\ refused /\ \E s \in born : at[s] # "end"
    /\ \E from \in {"closed1", "info1"} : MainGoes(from, "crashed")

CloseSecond ==
    /\ main = "info1"
    /\ Flush(2)
    /\ main' = "end"
    /\ UNCHANGED <<prog, born, refused, turn, at, hand, buf, offset, out>>

Next ==
    \/ OpenFails \/ Open \/ CreateFails \/ Created \/ Worked \/ CloseReader
    \/ CloseFirst \/ Info \/ InfoCrashes \/ WriteAfterClose \/ CloseSecond
    \/ \E s \in Streams :
          \/ Create(s)
          \/ Fill(s) \/ Take(s) \/ Peek(s) \/ PrintLetter(s) \/ EndOfFile(s) \/ PutLetter(s)

Spec == Init /\ [][Next]_vars

-----------------------------------------------------------------------------
(* Properties *)

\* What was taken from the file through stream s, in order.
Taken(s) == out[s] \o (IF hand[s] = 0 THEN <<>> ELSE <<hand[s]>>) \o buf[s]

Increasing(q) == \A i \in 1 .. Len(q) - 1 : q[i] < q[i + 1]

\* An open file hands out each of its letters once: whatever the interleaving of
\* refills, what the streams on it have printed, hold or have buffered is the file
\* up to the offset, in order on each stream.  With one descriptor the streams
\* share the alphabet, with two each has all of it, and a program that ends has
\* printed everything it took.
EachLetterOnce ==
    ~prog.writes =>
        /\ \A s \in Streams : Increasing(Taken(s))
        /\ prog.shared => ToSet(Taken(1)) \cap ToSet(Taken(2)) = {}
        /\ \A d \in {Desc(s) : s \in Streams} :
              UNION {ToSet(Taken(s)) : s \in {t \in Streams : Desc(t) = d}} = 1 .. offset[d]
        /\ main = "end" => \A s \in Streams : out[s] = Taken(s) /\ offset[Desc(s)] = LAST

\* The stream that is closed last has written over the other: once both are closed
\* the file holds every other letter, the second stream's, however the threads were
\* scheduled; the first stream's are left only when the process died in between.
LastCloseWins ==
    prog.writes /\ ~refused =>
        /\ main = "end" => file = [i \in 1 .. LAST \div 2 |-> 2 * i]
        /\ main \in {"closed1", "info1"} => file = [i \in 1 .. LAST \div 2 |-> 2 * i - 1]
=============================================================================

-------------------------- MODULE LabProgramsProofs -------------------------
(***************************************************************************)
(* Proofs about the daemon, the open files, the children's messages and    *)
(* the tree walk, for any number of instances and users, any number of     *)
(* letters and any size of the buffers, any lengths of the messages and    *)
(* any set of entries and names.  The theorems are about FairSpec, in      *)
(* which one of the programs runs; the lemmas are about each of them       *)
(* alone.                                                                  *)
(***************************************************************************)
EXTENDS MCLabPrograms, FiniteSetTheorems, SequenceTheorems, TLAPS

-----------------------------------------------------------------------------
(* Daemon.  OneDaemon is not inductive: an instance that has just locked the file may
   come to serve signals in four more steps.  The invariant follows it from the moment
   it gets the lock: whoever is past lockfile has the lock and, past WritePid, is the one
   the file names, unless the write failed; and whom the file names has the lock or has
   ended. *)

\* Past WritePid, and past lockfile.
Named == {"named"} \cup Daemons!Blocked
Holding == {"locked", "truncated"} \cup Named

HolderHasLock == \A d \in Instances : dat[d] \in Holding => lock = d
NamedIsInFile == \A d \in Instances : dat[d] \in Named => pidfile = d \/ d \in unwritten
FileIsOld == \A d \in Instances : pidfile = d => lock = d \/ dat[d] = "dead"

DaemonInv ==
    /\ Daemons!TypeOK
    /\ HolderHasLock
    /\ NamedIsInFile
    /\ FileIsOld

\* The initial states satisfy the invariant.
LEMMA DaemonInit ==
    ASSUME Daemons!DaemonAssumption
    PROVE  Daemons!Init => DaemonInv
<1> SUFFICES ASSUME Daemons!Init PROVE DaemonInv
  OBVIOUS
<1>1. Daemons!TypeOK
  BY DEF Daemons!DaemonAssumption, Daemons!Init, Daemons!TypeOK, Daemons!Unblocked,
         Daemons!Blocked
<1>2. HolderHasLock /\ NamedIsInFile /\ FileIsOld
  BY DEF Daemons!DaemonAssumption, Daemons!Init, HolderHasLock, NamedIsInFile, FileIsOld,
         Holding, Named, Daemons!Blocked
<1> QED
  BY <1>1, <1>2 DEF DaemonInv

\* The end of a process preserves the invariant: its lock goes, and it is not past
\* lockfile any more.
LEMMA DaemonEnds ==
    ASSUME DaemonInv, NEW d \in Instances, Daemons!Ends(d)
    PROVE  DaemonInv'
<1>1. Daemons!TypeOK'
  BY DEF DaemonInv, Daemons!TypeOK, Daemons!Ends
<1>2. \A e \in Instances : dat'[e] = IF e = d THEN "dead" ELSE dat[e]
  BY DEF DaemonInv, Daemons!TypeOK, Daemons!Ends
<1>3. "dead" \notin Holding /\ "dead" \notin Named
  BY DEF Holding, Named, Daemons!Blocked
<1>4. HolderHasLock'
  BY <1>2, <1>3 DEF DaemonInv, HolderHasLock, Daemons!Ends
<1>5. NamedIsInFile'
  BY <1>2, <1>3 DEF DaemonInv, NamedIsInFile, Daemons!Ends
<1>6. FileIsOld'
  BY <1>2 DEF DaemonInv, FileIsOld, Daemons!Ends
<1> QED
  BY <1>1, <1>4, <1>5, <1>6 DEF DaemonInv

\* A step that brings instance i from one place to another, past neither lockfile
\* nor WritePid, and leaves lock and file alone, preserves the invariant.
LEMMA DaemonMoves ==
    ASSUME DaemonInv, Daemons!TypeOK', NEW d \in Instances, NEW from, NEW to,
           Daemons!Goes(d, from, to),
           to \in Holding => from \in Holding, to \in Named => from \in Named,
           from # "dead", UNCHANGED <<lock, pidfile, unwritten>>
    PROVE  DaemonInv'
<1>1. \A e \in Instances : dat'[e] = IF e = d THEN to ELSE dat[e]
  BY DEF DaemonInv, Daemons!TypeOK, Daemons!Goes
<1>2. HolderHasLock' /\ NamedIsInFile' /\ FileIsOld'
  BY <1>1 DEF DaemonInv, HolderHasLock, NamedIsInFile, FileIsOld, Daemons!Goes
<1> QED
  BY <1>2 DEF DaemonInv

\* A step of an instance preserves the invariant.
LEMMA DaemonStep ==
    ASSUME Daemons!DaemonAssumption, DaemonInv, NEW d \in Instances,
           Daemons!Start(d) \/ Daemons!Step(d)
    PROVE  DaemonInv'
<1> USE DEF Holding, Named, Daemons!Blocked, Daemons!Unblocked
<1>1. CASE Daemons!Start(d) \/ Daemons!daemonize(d) \/ Daemons!OpenLockFile(d)
           \/ Daemons!BlockSignals(d) \/ Daemons!CreateThread(d)
  <2>1. PICK from, to :
          /\ Daemons!Goes(d, from, to) /\ UNCHANGED <<lock, pidfile, unwritten>>
          /\ from # "dead" /\ to \in Daemons!Unblocked \cup Daemons!Blocked
          /\ to \in Holding => from \in Holding
          /\ to \in Named => from \in Named
    BY <1>1 DEF Daemons!Start, Daemons!daemonize, Daemons!OpenLockFile,
                Daemons!BlockSignals, Daemons!CreateThread
  <2>2. Daemons!TypeOK'
    BY <1>1, <2>1
    DEF DaemonInv, Daemons!TypeOK, Daemons!Goes, Daemons!Start, Daemons!daemonize,
        Daemons!OpenLockFile, Daemons!BlockSignals, Daemons!CreateThread
  <2> QED
    BY <2>1, <2>2, DaemonMoves
<1>2. CASE Daemons!lockfile(d)
  <2>1. Daemons!TypeOK'
    BY <1>2 DEF DaemonInv, Daemons!TypeOK, Daemons!lockfile, Daemons!Goes
  <2>2. \A e \in Instances : dat'[e] = IF e = d THEN "locked" ELSE dat[e]
    BY <1>2 DEF DaemonInv, Daemons!TypeOK, Daemons!lockfile, Daemons!Goes
  <2>3. \A e \in Instances : dat[e] \notin Holding
    BY <1>2 DEF Daemons!DaemonAssumption, DaemonInv, HolderHasLock, Daemons!lockfile
  <2>4. HolderHasLock' /\ NamedIsInFile'
    BY <1>2, <2>2, <2>3 DEF HolderHasLock, NamedIsInFile, Daemons!lockfile
  <2>5. FileIsOld'
    <3>1. dat[d] = "opened" /\ lock = Nobody /\ UNCHANGED pidfile
      BY <1>2 DEF Daemons!lockfile, Daemons!Goes
    <3>2. \A e \in Instances : pidfile = e => dat[e] = "dead"
      BY <3>1 DEF Daemons!DaemonAssumption, DaemonInv, FileIsOld
    <3> QED
      BY <2>2, <3>1, <3>2 DEF FileIsOld
  <2> QED
    BY <2>1, <2>4, <2>5 DEF DaemonInv
<1>3. CASE \/ Daemons!Truncate(d) \/ Daemons!TruncateFails(d)
           \/ Daemons!WritePid(d) \/ Daemons!WriteFails(d)
  <2>1. PICK to \in {"truncated", "named"} :
          /\ dat[d] \in Holding /\ dat' = [dat EXCEPT ![d] = to]
          /\ to = "named" => pidfile' = d \/ d \in unwritten'
          /\ pidfile' \in {pidfile, d, Nobody} /\ unwritten \subseteq unwritten'
          /\ UNCHANGED lock
    BY <1>3 DEF Daemons!Truncate, Daemons!TruncateFails, Daemons!WritePid,
                Daemons!WriteFails, Daemons!Goes
  <2>2. Daemons!TypeOK'
    BY <1>3 DEF DaemonInv, Daemons!TypeOK, Daemons!Truncate, Daemons!TruncateFails,
                Daemons!WritePid, Daemons!WriteFails, Daemons!Goes
  <2>3. \A e \in Instances : dat'[e] = IF e = d THEN to ELSE dat[e]
    BY <2>1 DEF DaemonInv, Daemons!TypeOK
  <2>4. \A e \in Instances : dat[e] \in Holding => e = d
    BY <2>1 DEF DaemonInv, HolderHasLock
  <2>5. HolderHasLock' /\ NamedIsInFile'
    BY <2>1, <2>3, <2>4 DEF DaemonInv, HolderHasLock, NamedIsInFile
  <2>6. FileIsOld'
    <3>1. lock' = d
      BY <2>1 DEF DaemonInv, HolderHasLock
    <3> QED
      BY <2>1, <2>3, <3>1 DEF Daemons!DaemonAssumption, DaemonInv, FileIsOld
  <2> QED
    BY <2>2, <2>5, <2>6 DEF DaemonInv
<1>4. CASE Daemons!AlreadyRunning(d) \/ Daemons!SigwaitTerm(d)
  BY <1>4, DaemonEnds DEF Daemons!AlreadyRunning, Daemons!SigwaitTerm
<1>5. CASE Daemons!SigwaitHup(d) \/ Daemons!reread(d)
  <2>1. PICK from, to \in Daemons!Blocked : Daemons!Goes(d, from, to)
             /\ UNCHANGED <<lock, pidfile, unwritten>>
    BY <1>5 DEF Daemons!SigwaitHup, Daemons!reread
  <2>2. Daemons!TypeOK'
    <3>1. dat' \in [Instances -> {"absent",
          "dead"} \cup Daemons!Unblocked \cup Daemons!Blocked]
      BY <2>1 DEF DaemonInv, Daemons!TypeOK, Daemons!Goes
    <3>2. pending' \in [Instances -> SUBSET {"SIGHUP", "SIGTERM"}]
      BY <1>5 DEF DaemonInv, Daemons!TypeOK, Daemons!SigwaitHup, Daemons!reread
    <3>3. uid' \in [Instances -> Users \cup {0}]
      BY <1>5 DEF DaemonInv, Daemons!TypeOK, Daemons!SigwaitHup, Daemons!reread,
                  Daemons!Confs
    <3> QED
      BY <1>5, <3>1, <3>2, <3>3 DEF DaemonInv, Daemons!TypeOK, Daemons!SigwaitHup,
                                    Daemons!reread
  <2> QED
    BY <2>1, <2>2, DaemonMoves
<1> QED
  BY <1>1, <1>2, <1>3, <1>4, <1>5 DEF Daemons!Step

\* Every step preserves the invariant.
LEMMA DaemonNext ==
    ASSUME Daemons!DaemonAssumption
    PROVE  DaemonInv /\ [Daemons!Next]_(Daemons!vars) => DaemonInv'
<1> SUFFICES ASSUME DaemonInv, [Daemons!Next]_(Daemons!vars) PROVE DaemonInv'
  OBVIOUS
<1>1. ASSUME NEW d \in Instances, Daemons!Start(d) \/ Daemons!Step(d) PROVE DaemonInv'
  BY <1>1, DaemonStep
<1>2. ASSUME NEW d \in Instances,
             \/ Daemons!daemonizeFails(d) \/ Daemons!OpenLockFileFails(d)
             \/ Daemons!SignalsFail(d)
      PROVE  DaemonInv'
  BY <1>2, DaemonEnds DEF Daemons!daemonizeFails, Daemons!OpenLockFileFails,
                          Daemons!SignalsFail
<1>3. ASSUME NEW d \in Instances, NEW sig \in {"SIGHUP", "SIGTERM"}, Daemons!Kill(d,
             sig)
      PROVE  DaemonInv'
  <2>1. CASE Daemons!Ends(d)
    BY <2>1, DaemonEnds
  <2>2. CASE ~Daemons!Ends(d)
    <3>1. UNCHANGED <<dat, lock, pidfile, unwritten>>
      BY <1>3, <2>2 DEF Daemons!Kill
    <3>2. hup' \in 0 .. MaxHup
      BY <1>3, <2>2 DEF Daemons!Kill, DaemonInv, Daemons!TypeOK,
                        Daemons!DaemonAssumption
    <3>3. Daemons!TypeOK'
      BY <1>3, <2>2, <3>1, <3>2 DEF Daemons!Kill, DaemonInv, Daemons!TypeOK
    <3> QED
      BY <3>1, <3>3 DEF DaemonInv, HolderHasLock, NamedIsInFile, FileIsOld
  <2> QED
    BY <2>1, <2>2
<1>4. CASE Daemons!Edit \/ UNCHANGED Daemons!vars
  BY <1>4 DEF Daemons!Edit, Daemons!vars, DaemonInv, Daemons!TypeOK, HolderHasLock,
              NamedIsInFile, FileIsOld
<1> QED
  BY <1>1, <1>2, <1>3, <1>4 DEF Daemons!Next

-----------------------------------------------------------------------------
(* OpenFiles.  The invariant has three parts: when main goes on, the streams it does
   not wait for any more have ended; the letters a writer has put into its buffer are
   every other letter, and the file holds what was closed last; and what a reader has
   taken through an open file is the file up to its offset. *)

Joined ==
    /\ ~refused /\ main \in {"work", "join", "closed1", "info1", "end"} =>
          task.threads \subseteq born
    /\ ~refused /\ main \in {"join", "closed1", "info1", "end"} =>
          \A s \in Files!Streams \ task.threads : fat[s] = "end"
    /\ ~refused /\ main \in {"closed1", "info1", "end"} =>
          \A s \in Files!Streams : fat[s] = "end"
    /\ ~task.writes /\ refused => main = "failed"

PutByOne(s) ==
    /\ fat[s] \in {"take", "end"}
    /\ \A k \in 1 .. Len(buf[s]) : buf[s][k] = s + 2 * (k - 1)
    /\ s + 2 * Len(buf[s]) <= LAST + 2
    /\ fat[s] = "end" => s + 2 * Len(buf[s]) > LAST

Written ==
    /\ main \in {"open", "create", "work", "join"} => file = <<>>
    /\ ~refused /\ main \in {"closed1", "info1"} => file = buf[1]
    /\ ~refused /\ main = "end" => file = buf[2]

WriteInv == task.writes => Written /\ \A s \in Files!Streams : PutByOne(s)

InHand(s) ==
    /\ hand[s] = 0 <=> fat[s] \in {"take", "end"}
    /\ fat[s] = "end" => buf[s] = <<>> /\ offset[Files!Desc(s)] = LAST

Holds(s) == Files!ToSet(Files!Taken(s))
Handed ==
    /\ \A s \in Files!Streams : Files!Increasing(Files!Taken(s))
    /\ task.shared =>
          Holds(1) \cap Holds(2) = {} /\ Holds(1) \cup Holds(2) = 1 .. offset[1]
    /\ ~task.shared => \A s \in Files!Streams : Holds(s) = 1 .. offset[s]

ReadInv == ~task.writes => Handed /\ \A s \in Files!Streams : InHand(s)

FileInv == Files!TypeOK /\ Joined /\ WriteInv /\ ReadInv

\* The facts about the programs that the proofs need.
LEMMA ProgramFacts ==
    ASSUME task \in Files!Programs
    PROVE  /\ task.size \in Nat \ {0}
           /\ task.threads \subseteq Files!Streams
           /\ task.writes => ~task.peeks
<1> USE DEF Files!Programs, Files!task_01, Files!task_02, Files!task_03, Files!task_04,
            Files!task_05, Files!task_06, Files!task_07
<1>1. task.size \in Nat \ {0}
  BY Assumptions DEF Files!LettersAssumption
<1>2. task.threads \subseteq Files!Streams
  BY DEF Files!Streams
<1>3. task.writes => ~task.peeks
  OBVIOUS
<1> QED
  BY <1>1, <1>2, <1>3

\* An element of a sequence is among its elements.
LEMMA InToSet ==
    ASSUME NEW q \in Seq(Nat), NEW k \in 1 .. Len(q)
    PROVE  q[k] \in Files!ToSet(q)
BY DEF Files!ToSet

\* The elements of a concatenation.
LEMMA ToSetConcat ==
    ASSUME NEW q \in Seq(Nat), NEW r \in Seq(Nat)
    PROVE  Files!ToSet(q \o r) = Files!ToSet(q) \cup Files!ToSet(r)
<1>1. /\ q \o r \in Seq(Nat) /\ Len(q \o r) = Len(q) + Len(r)
      /\ Len(q) \in Nat /\ Len(r) \in Nat
      /\ \A k \in 1 .. Len(q) : (q \o r)[k] = q[k]
      /\ \A k \in 1 .. Len(r) : (q \o r)[Len(q) + k] = r[k]
  BY ConcatProperties
<1>2. ASSUME NEW x \in Files!ToSet(q \o r) PROVE x \in Files!ToSet(q) \cup Files!ToSet(r)
  <2>1. PICK k \in 1 .. Len(q) + Len(r) : x = (q \o r)[k]
    BY <1>1, <1>2 DEF Files!ToSet
  <2>2. CASE k \in 1 .. Len(q)
    BY <1>1, <2>1, <2>2 DEF Files!ToSet
  <2>3. CASE k \notin 1 .. Len(q)
    <3>1. k - Len(q) \in 1 .. Len(r) /\ k = Len(q) + (k - Len(q))
      BY <1>1, <2>3
    <3>2. x = r[k - Len(q)]
      BY <1>1, <2>1, <3>1
    <3> QED
      BY <3>1, <3>2 DEF Files!ToSet
  <2> QED
    BY <2>2, <2>3
<1>3. ASSUME NEW x \in Files!ToSet(q) PROVE x \in Files!ToSet(q \o r)
  <2>1. PICK k \in 1 .. Len(q) : x = q[k]
    BY <1>3 DEF Files!ToSet
  <2>2. k \in 1 .. Len(q \o r)
    BY <1>1
  <2> QED
    BY <1>1, <2>1, <2>2, SMTT(30) DEF Files!ToSet
<1>4. ASSUME NEW x \in Files!ToSet(r) PROVE x \in Files!ToSet(q \o r)
  <2>1. PICK k \in 1 .. Len(r) : x = r[k]
    BY <1>4 DEF Files!ToSet
  <2>2. Len(q) + k \in 1 .. Len(q \o r) /\ x = (q \o r)[Len(q) + k]
    BY <1>1, <2>1
  <2> QED
    BY <1>1, <2>2, InToSet
<1> QED
  BY <1>2, <1>3, <1>4

\* Numbers up to n, in increasing order, and the next m numbers behind them.
LEMMA IncreasingConcat ==
    ASSUME NEW q \in Seq(Nat), NEW n \in Nat, NEW m \in Nat, Files!Increasing(q),
           Files!ToSet(q) \subseteq 1 .. n
    PROVE  /\ [k \in 1 .. m |-> n + k] \in Seq(Nat)
           /\ Files!ToSet([k \in 1 .. m |-> n + k]) = n + 1 .. n + m
           /\ Files!Increasing(q \o [k \in 1 .. m |-> n + k])
<1>1. PICK r : r = [k \in 1 .. m |-> n + k]
  OBVIOUS
<1>2. r \in Seq(Nat) /\ Len(r) = m /\ \A k \in 1 .. m : r[k] = n + k
  BY <1>1
<1>3. Files!ToSet(r) = n + 1 .. n + m
  <2>1. ASSUME NEW x \in Files!ToSet(r) PROVE x \in n + 1 .. n + m
    BY <1>2, <2>1 DEF Files!ToSet
  <2>2. ASSUME NEW x \in n + 1 .. n + m PROVE x \in Files!ToSet(r)
    <3>1. x - n \in 1 .. m /\ r[x - n] = x
      BY <1>2
    <3> QED
      BY <1>2, <3>1, InToSet
  <2> QED
    BY <2>1, <2>2
<1>4. /\ q \o r \in Seq(Nat) /\ Len(q \o r) = Len(q) + m /\ Len(q) \in Nat
      /\ \A k \in 1 .. Len(q) : (q \o r)[k] = q[k]
      /\ \A k \in 1 .. m : (q \o r)[Len(q) + k] = n + k
  <2>1. r \in Seq(Nat)
    BY <1>2
  <2>2. /\ q \o r \in Seq(Nat) /\ Len(q \o r) = Len(q) + Len(r) /\ Len(q) \in Nat
        /\ \A k \in 1 .. Len(q) : (q \o r)[k] = q[k]
        /\ \A k \in 1 .. Len(r) : (q \o r)[Len(q) + k] = r[k]
    BY <2>1, ConcatProperties
  <2> QED
    BY <1>2, <2>2
<1>5. \A k \in 1 .. Len(q) : q[k] <= n /\ q[k] \in Nat
  BY DEF Files!ToSet
<1>6. ASSUME NEW k \in 1 .. Len(q) + m - 1 PROVE (q \o r)[k] < (q \o r)[k + 1]
  <2>1. CASE k < Len(q)
    <3>1. k \in 1 .. Len(q) - 1 /\ k \in 1 .. Len(q) /\ k + 1 \in 1 .. Len(q)
      BY <1>4, <2>1
    <3> QED
      BY <1>4, <3>1 DEF Files!Increasing
  <2>2. CASE k = Len(q)
    <3>1. k \in 1 .. Len(q) /\ 1 \in 1 .. m
      BY <1>4, <2>2
    <3>2. (q \o r)[k] = q[k] /\ (q \o r)[k + 1] = n + 1
      BY <1>4, <2>2, <3>1
    <3> QED
      BY <1>5, <3>1, <3>2
  <2>3. CASE k > Len(q)
    <3>1. /\ k - Len(q) \in 1 .. m /\ k - Len(q) + 1 \in 1 .. m
          /\ k = Len(q) + (k - Len(q)) /\ k + 1 = Len(q) + (k - Len(q) + 1)
      BY <1>4, <2>3
    <3>2. (q \o r)[k] = n + (k - Len(q)) /\ (q \o r)[k + 1] = n + (k - Len(q) + 1)
      BY <1>4, <3>1
    <3> QED
      BY <1>4, <3>2
  <2>4. k \in Nat /\ Len(q) \in Nat
    BY <1>4
  <2>5. k < Len(q) \/ k = Len(q) \/ k > Len(q)
    BY <2>4
  <2> QED
    BY <2>1, <2>2, <2>3, <2>5, Zenon
<1>7. Files!Increasing(q \o r)
  <2>1. PICK s : s = q \o r
    OBVIOUS
  <2>2. Len(s) - 1 = Len(q) + m - 1
    BY <1>4, <2>1
  <2>3. \A k \in 1 .. Len(q) + m - 1 : s[k] < s[k + 1]
    BY <1>6, <2>1
  <2>4. Files!Increasing(s)
    BY <2>2, <2>3 DEF Files!Increasing
  <2> QED
    BY <2>1, <2>4
<1> QED
  BY <1>1, <1>2, <1>3, <1>7

\* Concatenation is associative.
LEMMA ConcatThree ==
    ASSUME NEW o \in Seq(Nat), NEW h \in Seq(Nat), NEW t \in Seq(Nat)
    PROVE  (o \o h) \o t = o \o (h \o t)
BY SMTT(30)

\* The next letter of the buffer taken into the hand: what the stream has taken from the
\* file stays the same.
LEMMA TakeOne ==
    ASSUME NEW o \in Seq(Nat), NEW b \in Seq(Nat), b # <<>>
    PROVE  (o \o <<>>) \o b = (o \o <<Head(b)>>) \o Tail(b)
<1>1. Head(b) \in Nat /\ Tail(b) \in Seq(Nat) /\ <<Head(b)>> \in Seq(Nat)
  BY HeadTailProperties
<1>2. b = <<Head(b)>> \o Tail(b)
  <2>1. Len(b) \in Nat \ {0} /\ Head(b) = b[1] /\ Len(Tail(b)) = Len(b) - 1
    BY EmptySeq
  <2>2. \A k \in 1 .. Len(Tail(b)) : Tail(b)[k] = b[k + 1]
    BY HeadTailProperties
  <2>3. /\ <<Head(b)>> \o Tail(b) \in Seq(Nat)
        /\ Len(<<Head(b)>> \o Tail(b)) = Len(b)
    BY <1>1, <2>1, ConcatProperties
  <2>4. ASSUME NEW k \in 1 .. Len(b) PROVE (<<Head(b)>> \o Tail(b))[k] = b[k]
    BY <1>1, <2>1, <2>2
  <2> QED
    BY <2>3, <2>4, SeqEqual
<1>3. (o \o <<Head(b)>>) \o Tail(b) = o \o (<<Head(b)>> \o Tail(b))
  <2>1. PICK h \in Seq(Nat), t \in Seq(Nat) : h = <<Head(b)>> /\ t = Tail(b)
    BY <1>1
  <2>2. (o \o h) \o t = o \o (h \o t)
    BY <2>1, ConcatThree, ZenonT(40)
  <2> QED
    BY <2>1, <2>2
<1>4. o \o <<>> = o
  BY ConcatEmptySeq
<1> QED
  BY <1>2, <1>3, <1>4

\* Printing the letter in the hand changes nothing of what was taken either.
LEMMA PrintOne ==
    ASSUME NEW o \in Seq(Nat), NEW h \in Nat
    PROVE  o \o <<h>> = Append(o, h) \o <<>>
<1>1. Append(o, h) = o \o <<h>> /\ Append(o, h) \in Seq(Nat)
  BY AppendIsConcat, AppendProperties
<1> QED
  BY <1>1, ConcatEmptySeq

\* The types the lemmas about sequences ask for.
LEMMA TakenTypes ==
    ASSUME Files!TypeOK, NEW s \in Files!Streams
    PROVE  /\ buf[s] \in Seq(Nat) /\ out[s] \in Seq(Nat) /\ hand[s] \in Nat
           /\ Files!Taken(s) \in Seq(Nat)
           /\ Files!Desc(s) \in Files!Streams
<1>1. LAST \in Nat
  BY Assumptions DEF Files!LettersAssumption
<1>2. buf[s] \in Seq(1 .. LAST) /\ out[s] \in Seq(1 .. LAST) /\ hand[s] \in Nat
  BY <1>1 DEF Files!TypeOK
<1>3. buf[s] \in Seq(Nat) /\ out[s] \in Seq(Nat)
  BY <1>1, <1>2
<1>4. (IF hand[s] = 0 THEN <<>> ELSE <<hand[s]>>) \in Seq(Nat)
  BY <1>2
<1>5. Files!Taken(s) \in Seq(Nat)
  BY <1>3, <1>4, ConcatProperties DEF Files!Taken
<1>6. Files!Desc(s) \in Files!Streams
  BY DEF Files!Desc, Files!Streams
<1> QED
  BY <1>2, <1>3, <1>5, <1>6

\* A refill of an empty buffer: the stream takes the letters behind the offset.
LEMMA ReadHands ==
    ASSUME FileInv, ~task.writes, NEW s \in Files!Streams, buf[s] = <<>>, Files!Read(s),
           UNCHANGED <<task, out, hand>>
    PROVE  /\ Handed'
           /\ buf' \in [Files!Streams -> Seq(1 .. LAST)]
           /\ offset' \in [Files!Streams -> 0 .. LAST]
           /\ \A t \in Files!Streams : t # s => buf'[t] = buf[t]
           /\ \A t \in Files!Streams : offset[t] = LAST => offset'[t] = LAST
<1>1. PICK d \in Files!Streams : d = Files!Desc(s)
  BY TakenTypes DEF FileInv
<1>2. PICK off \in 0 .. LAST : off = offset[d]
  BY <1>1 DEF FileInv, Files!TypeOK
<1>3. PICK n \in Nat : n = IF task.size < LAST - off THEN task.size ELSE LAST - off
  BY <1>2, ProgramFacts, Assumptions, SMTT(30) DEF FileInv, Files!TypeOK, Files!LettersAssumption
<1>4. LAST \in Nat /\ off + n <= LAST /\ off \in Nat
  BY <1>2, <1>3, Assumptions DEF Files!LettersAssumption
<1>5. PICK r : r = [k \in 1 .. n |-> off + k]
  OBVIOUS
<1>6. /\ buf' = [buf EXCEPT ![s] = r]
      /\ offset' = [offset EXCEPT ![d] = off + n]
  BY <1>1, <1>2, <1>3, <1>5 DEF Files!Read
<1>7. r \in Seq(1 .. LAST) /\ r \in Seq(Nat)
  BY <1>4, <1>5
<1>8. /\ buf' \in [Files!Streams -> Seq(1 .. LAST)] /\ buf'[s] = r
      /\ \A t \in Files!Streams : t # s => buf'[t] = buf[t]
  BY <1>6, <1>7 DEF FileInv, Files!TypeOK
<1>9. /\ offset' \in [Files!Streams -> 0 .. LAST] /\ offset'[d] = off + n
      /\ \A t \in Files!Streams : t # d => offset'[t] = offset[t]
  BY <1>4, <1>6 DEF FileInv, Files!TypeOK
<1>10. \A t \in Files!Streams : offset[t] = LAST => offset'[t] = LAST
  <2>1. task.size \in Nat
    BY ProgramFacts DEF FileInv, Files!TypeOK
  <2>2. off = LAST => n = 0
    BY <1>2, <1>3, <1>4, <2>1
  <2>3. offset[d] = LAST => offset'[d] = LAST
    BY <1>2, <1>4, <1>9, <2>2
  <2> QED
    BY <1>9, <2>3
<1>11. Files!Taken(s)' = Files!Taken(s) \o r
  <2>1. PICK q \in Seq(Nat) : q = out[s] \o (IF hand[s] = 0 THEN <<>> ELSE <<hand[s]>>)
    <3>1. out[s] \in Seq(Nat) /\ hand[s] \in Nat
      BY TakenTypes DEF FileInv
    <3>2. (IF hand[s] = 0 THEN <<>> ELSE <<hand[s]>>) \in Seq(Nat)
      BY <3>1
    <3> QED
      BY <3>1, <3>2, ConcatProperties
  <2>2. Files!Taken(s) = q \o <<>> /\ Files!Taken(s)' = q \o r
    BY <1>8, <2>1 DEF Files!Taken
  <2> QED
    BY <2>1, <2>2, ConcatEmptySeq
<1>12. \A t \in Files!Streams : t # s => Files!Taken(t)' = Files!Taken(t)
  BY <1>8 DEF Files!Taken
<1>13. Handed
  BY DEF FileInv, ReadInv
<1>14. Holds(s) \subseteq 1 .. off /\ (task.shared => Holds(3 - s) \subseteq 1 .. off)
  BY <1>1, <1>2, <1>13 DEF Handed, Files!Desc, Files!Streams
<1>15. Files!Increasing(Files!Taken(s)') /\ Files!ToSet(r) = off + 1 .. off + n
  <2>1. PICK q \in Seq(Nat) : q = Files!Taken(s)
    BY TakenTypes DEF FileInv
  <2>2. Files!Increasing(q) /\ Files!ToSet(q) \subseteq 1 .. off
    BY <1>13, <1>14, <2>1 DEF Handed, Holds
  <2>3. /\ Files!ToSet([k \in 1 .. n |-> off + k]) = off + 1 .. off + n
        /\ Files!Increasing(q \o [k \in 1 .. n |-> off + k])
    BY <1>4, <2>2, IncreasingConcat
  <2> QED
    BY <1>5, <1>11, <2>1, <2>3
<1>16. Holds(s)' = Holds(s) \cup (off + 1 .. off + n)
  BY <1>7, <1>11, <1>15, TakenTypes, ToSetConcat DEF FileInv, Holds
<1>17. \A t \in Files!Streams : t # s => Holds(t)' = Holds(t)
  BY <1>12 DEF Holds
<1>18. \A t \in Files!Streams : Files!Increasing(Files!Taken(t))'
  BY <1>12, <1>13, <1>15 DEF Handed, Files!Increasing
<1>19. ASSUME task.shared
       PROVE  Holds(1)' \cap Holds(2)' = {} /\ Holds(1)' \cup Holds(2)' = 1 .. offset'[1]
  <2>1. /\ Holds(1) \cap Holds(2) = {} /\ Holds(1) \cup Holds(2) = 1 .. off
        /\ Holds(1) \subseteq 1 .. off /\ Holds(2) \subseteq 1 .. off
        /\ offset'[1] = off + n
    BY <1>1, <1>2, <1>9, <1>13, <1>19 DEF Handed, Files!Desc
  <2>2. /\ (1 .. off) \cap (off + 1 .. off + n) = {}
        /\ (1 .. off) \cup (off + 1 .. off + n) = 1 .. off + n
    BY <1>4
  <2>3. \/ Holds(1)' = Holds(1) \cup (off + 1 .. off + n) /\ Holds(2)' = Holds(2)
        \/ Holds(2)' = Holds(2) \cup (off + 1 .. off + n) /\ Holds(1)' = Holds(1)
    BY <1>16, <1>17 DEF Files!Streams
  <2> QED
    BY <2>1, <2>2, <2>3
<1>20. ASSUME ~task.shared, NEW t \in Files!Streams PROVE Holds(t)' = 1 .. offset'[t]
  <2>1. d = s /\ Holds(t) = 1 .. offset[t]
    BY <1>1, <1>13, <1>20 DEF Handed, Files!Desc
  <2>2. (1 .. off) \cup (off + 1 .. off + n) = 1 .. off + n
    BY <1>4
  <2> QED
    BY <1>2, <1>9, <1>16, <1>17, <2>1, <2>2
<1>21. Handed'
  BY <1>18, <1>19, <1>20 DEF Handed
<1> QED
  BY <1>8, <1>9, <1>10, <1>21

\* The initial states satisfy the invariant.
LEMMA FileInit == Files!Init => FileInv
<1> SUFFICES ASSUME Files!Init PROVE FileInv
  OBVIOUS
<1>1. LAST \in Nat \ {0}
  BY Assumptions DEF Files!LettersAssumption
<1>2. Files!TypeOK
  <2>1. hand \in [Files!Streams -> 0 .. LAST] /\ offset \in [Files!Streams -> 0 .. LAST]
    BY <1>1 DEF Files!Init
  <2>2. /\ buf \in [Files!Streams -> Seq(1 .. LAST)]
        /\ out \in [Files!Streams -> Seq(1 .. LAST)] /\ file \in Seq(1 .. LAST)
    BY DEF Files!Init
  <2>3. turn \in Files!Streams
    BY DEF Files!Init, Files!Streams
  <2>4. fat \in [Files!Streams -> {"take", "peek", "print", "end"}]
    BY DEF Files!Init
  <2>5. born \subseteq Files!Streams /\ refused \in BOOLEAN /\ task \in Files!Programs
    BY DEF Files!Init
  <2>6. main \in {"open", "create", "work", "join", "closed1", "info1", "end", "failed",
                  "crashed"}
    BY DEF Files!Init
  <2> QED
    BY <2>1, <2>2, <2>3, <2>4, <2>5, <2>6 DEF Files!TypeOK
<1>3. Joined
  BY DEF Files!Init, Joined
<1>4. \A s \in Files!Streams : buf[s] = <<>> /\ fat[s] = "take" /\ hand[s] = 0
                               /\ offset[s] = 0 /\ out[s] = <<>>
  BY DEF Files!Init
<1>5. WriteInv
  <2>1. Written
    BY DEF Files!Init, Written
  <2>2. ASSUME NEW s \in Files!Streams PROVE PutByOne(s)
    BY <1>1, <1>4 DEF PutByOne, Files!Streams
  <2> QED
    BY <2>1, <2>2 DEF WriteInv
<1>6. ReadInv
  <2>1. ASSUME NEW s \in Files!Streams PROVE InHand(s)
    BY <1>4 DEF InHand
  <2>2. \A s \in Files!Streams : Files!Taken(s) = <<>>
    BY <1>4 DEF Files!Taken
  <2>3. \A s \in Files!Streams : Holds(s) = {} /\ Files!Increasing(Files!Taken(s))
    BY <2>2 DEF Holds, Files!ToSet, Files!Increasing
  <2>4. \A s \in Files!Streams : 1 .. offset[s] = {}
    BY <1>4
  <2>5. Handed
    <3>1. 1 \in Files!Streams /\ 2 \in Files!Streams
      BY DEF Files!Streams
    <3> QED
      BY <2>3, <2>4, <3>1 DEF Handed
  <2> QED
    BY <2>1, <2>5 DEF ReadInv
<1> QED
  BY <1>2, <1>3, <1>5, <1>6 DEF FileInv

\* A step that leaves the streams alone.
LEMMA SameStreams ==
    ASSUME FileInv, UNCHANGED <<task, fat, hand, buf, offset, out>>, Files!TypeOK', Joined',
           task.writes => Written'
    PROVE  FileInv'
<1>1. WriteInv'
  BY DEF FileInv, WriteInv, PutByOne
<1>2. \A s \in Files!Streams : Files!Taken(s)' = Files!Taken(s)
  BY DEF Files!Taken
<1>3. ReadInv'
  BY <1>2 DEF FileInv, ReadInv, Handed, Holds, InHand, Files!Desc, Files!Streams
<1> QED
  BY <1>1, <1>3 DEF FileInv

\* Both writers that have ended have put the same number of letters, half of them all.
LEMMA HalfEach ==
    ASSUME FileInv, task.writes, NEW s \in Files!Streams, fat[s] = "end"
    PROVE  /\ Len(buf[s]) = LAST \div 2
           /\ \A k \in 1 .. LAST \div 2 : buf[s][k] = s + 2 * (k - 1)
<1>1. LAST \in Nat /\ LAST % 2 = 0
  BY Assumptions DEF Files!LettersAssumption
<1>2. Len(buf[s]) \in Nat
  BY TakenTypes DEF FileInv
<1>3. PutByOne(s)
  BY DEF FileInv, WriteInv
<1>4. s \in {1, 2}
  BY DEF Files!Streams
<1>5. PICK h \in Nat : h = LAST \div 2 /\ LAST = 2 * h
  BY <1>1
<1>6. Len(buf[s]) = h
  BY <1>2, <1>3, <1>4, <1>5 DEF PutByOne
<1> QED
  BY <1>3, <1>5, <1>6 DEF PutByOne

\* What a close leaves in a file that was no longer than the letters it brings.
LEMMA FlushOver ==
    ASSUME Files!TypeOK, NEW s \in Files!Streams, Files!Flush(s)
    PROVE  /\ file' \in Seq(1 .. LAST)
           /\ Len(file) <= Len(buf[s]) => file' = buf[s]
<1>1. buf[s] \in Seq(1 .. LAST) /\ file \in Seq(1 .. LAST)
  BY DEF Files!TypeOK
<1>2. PICK m \in Nat, n \in Nat : m = Len(buf[s]) + 1 /\ n = Len(file)
  BY <1>1
<1>3. SubSeq(file, m, n) \in Seq(1 .. LAST)
  <2>1. PICK L : L = 1 .. LAST
    OBVIOUS
  <2>2. file \in Seq(L) /\ m >= 1
    BY <1>1, <1>2, <2>1
  <2>3. SubSeq(file, m, n) \in Seq(L)
    BY <1>2, <2>2
  <2> QED
    BY <2>1, <2>3
<1>4. file' = buf[s] \o SubSeq(file, m, n)
  BY <1>2 DEF Files!Flush
<1>5. file' \in Seq(1 .. LAST)
  BY <1>1, <1>3, <1>4, ConcatProperties
<1>6. ASSUME Len(file) <= Len(buf[s]) PROVE file' = buf[s]
  <2>1. m \in Int /\ n \in Int /\ n < m
    BY <1>1, <1>2, <1>6
  <2>2. SubSeq(file, m, n) = <<>>
    BY <2>1, SubSeqEmpty
  <2> QED
    BY <1>1, <1>4, <2>2, ConcatEmptySeq
<1> QED
  BY <1>5, <1>6

\* The steps of main preserve the invariant.
LEMMA MainStep ==
    ASSUME FileInv,
           \/ Files!OpenFails \/ Files!Open \/ Files!CreateFails \/ Files!Created
           \/ Files!Worked \/ Files!CloseReader \/ Files!Info \/ Files!InfoCrashes
           \/ Files!WriteAfterClose \/ \E s \in Files!Streams : Files!Create(s)
    PROVE  FileInv'
<1> USE DEF Files!OpenFails, Files!Open, Files!CreateFails, Files!Created, Files!Worked,
            Files!CloseReader, Files!Info, Files!InfoCrashes, Files!WriteAfterClose,
            Files!Create, Files!MainGoes
<1>1. UNCHANGED <<task, turn, fat, hand, buf, offset, out, file>>
  OBVIOUS
<1>2. main' \in {"open", "create", "work", "join", "closed1", "info1", "end", "failed",
                 "crashed"}
  BY DEF FileInv, Files!TypeOK
<1>3. born' \subseteq Files!Streams /\ refused' \in BOOLEAN
  BY DEF FileInv, Files!TypeOK
<1>4. Files!TypeOK'
  BY <1>1, <1>2, <1>3 DEF FileInv, Files!TypeOK
<1>5. Joined'
  <2>1. CASE refused'
    BY <1>1, <2>1 DEF FileInv, Joined
  <2>2. CASE ~refused'
    <3>1. ~refused /\ born \subseteq born'
      BY <2>2
    <3>2. main' \in {"work", "join", "closed1", "info1", "end"} =>
            task.threads \subseteq born'
      <4>1. main' \in {"work", "join", "closed1", "info1", "end"} =>
              \/ task.threads \subseteq born
              \/ main \in {"work", "join", "closed1", "info1", "end"}
        BY <2>2
      <4>2. main \in {"work", "join", "closed1", "info1", "end"} =>
              task.threads \subseteq born
        BY <3>1 DEF FileInv, Joined
      <4> QED
        BY <3>1, <4>1, <4>2
    <3>3. main' \in {"join", "closed1", "info1", "end"} =>
            \A s \in Files!Streams \ task.threads : fat[s] = "end"
      BY <2>2, <3>1 DEF FileInv, Joined
    <3>4. main' \in {"closed1", "info1", "end"} => \A s \in Files!Streams : fat[s] = "end"
      BY <2>2, <3>1 DEF FileInv, Joined
    <3> QED
      BY <1>1, <2>2, <3>2, <3>3, <3>4 DEF Joined
  <2> QED
    BY <2>1, <2>2
<1>6. task.writes => Written'
  BY <1>1 DEF FileInv, WriteInv, Written
<1> QED
  BY <1>1, <1>4, <1>5, <1>6, SameStreams

\* So do the two closes of the writers: the first finds the file empty, the second a file
\* as long as its letters.
LEMMA CloseStep ==
    ASSUME FileInv, Files!CloseFirst \/ Files!CloseSecond
    PROVE  FileInv'
<1>1. UNCHANGED <<task, turn, fat, hand, buf, offset, out, born, refused>>
  BY DEF Files!CloseFirst, Files!CloseSecond
<1>2. 1 \in Files!Streams /\ 2 \in Files!Streams /\ Files!TypeOK
  BY DEF Files!Streams, FileInv
<1>3. CASE Files!CloseFirst
  <2>1. task.writes /\ main = "join" /\ main' = "closed1" /\ Files!Flush(1)
    BY <1>3 DEF Files!CloseFirst
  <2>2. file' \in Seq(1 .. LAST) /\ (Len(file) <= Len(buf[1]) => file' = buf[1])
    BY <1>2, <2>1, FlushOver
  <2>3. Len(file) = 0 /\ Len(buf[1]) \in Nat
    BY <1>2, <2>1, TakenTypes DEF FileInv, WriteInv, Written
  <2>4. Written'
    BY <1>1, <2>1, <2>2, <2>3 DEF Written
  <2>5. Joined'
    <3>1. ASSUME ~refused PROVE \A s \in Files!Streams : fat[s] = "end"
      BY <1>3, <2>1, <3>1 DEF FileInv, Joined, Files!CloseFirst
    <3> QED
      BY <1>1, <2>1, <3>1 DEF FileInv, Joined
  <2>6. Files!TypeOK'
    BY <1>1, <2>1, <2>2 DEF FileInv, Files!TypeOK
  <2> QED
    BY <1>1, <2>4, <2>5, <2>6, SameStreams
<1>4. CASE Files!CloseSecond
  <2>1. main = "info1" /\ main' = "end" /\ Files!Flush(2)
    BY <1>4 DEF Files!CloseSecond
  <2>2. file' \in Seq(1 .. LAST) /\ (Len(file) <= Len(buf[2]) => file' = buf[2])
    BY <1>2, <2>1, FlushOver
  <2>3. ASSUME task.writes, ~refused PROVE file' = buf[2]
    <3>1. fat[1] = "end" /\ fat[2] = "end"
      BY <1>2, <2>1, <2>3 DEF FileInv, Joined
    <3>2. Len(buf[1]) = Len(buf[2]) /\ Len(buf[1]) \in Nat
      BY <1>2, <2>3, <3>1, HalfEach, TakenTypes
    <3>3. file = buf[1]
      BY <2>1, <2>3 DEF FileInv, WriteInv, Written
    <3> QED
      BY <2>2, <3>2, <3>3
  <2>4. task.writes => Written'
    BY <1>1, <2>1, <2>3 DEF Written
  <2>5. Joined'
    BY <1>1, <2>1 DEF FileInv, Joined
  <2>6. Files!TypeOK'
    BY <1>1, <2>1, <2>2 DEF FileInv, Files!TypeOK
  <2> QED
    BY <1>1, <2>4, <2>5, <2>6, SameStreams
<1> QED
  BY <1>3, <1>4

\* A stream that has ended has ended for good.
LEMMA StreamsJoined ==
    ASSUME Joined, UNCHANGED <<task, main, born, refused>>,
           \A t \in Files!Streams : fat[t] = "end" => fat'[t] = "end"
    PROVE  Joined'
BY DEF Joined

\* A letter put into the buffer of a writer.
LEMMA PutStep ==
    ASSUME FileInv, NEW s \in Files!Streams, Files!PutLetter(s)
    PROVE  FileInv'
<1>1. /\ task.writes /\ fat[s] = "take" /\ main \notin {"closed1", "info1", "end"}
      /\ UNCHANGED <<task, main, born, refused, hand, offset, out, file>>
  BY DEF Files!PutLetter, Files!Served, Files!Over
<1>2. buf[s] \in Seq(Nat) /\ buf[s] \in Seq(1 .. LAST) /\ s \in {1, 2} /\ LAST \in Nat
  BY TakenTypes, Assumptions DEF FileInv, Files!TypeOK, Files!Streams,
                                 Files!LettersAssumption
<1>3. PICK c \in Nat : c = s + 2 * Len(buf[s])
  BY <1>2
<1>4. \/ /\ c <= LAST /\ buf' = [buf EXCEPT ![s] = Append(buf[s], c)]
         /\ UNCHANGED fat
      \/ /\ c > LAST /\ fat' = [fat EXCEPT ![s] = "end"]
         /\ UNCHANGED buf
  BY <1>2, <1>3 DEF Files!PutLetter
<1>5. /\ fat' \in [Files!Streams -> {"take", "peek", "print", "end"}]
      /\ \A t \in Files!Streams : t # s => fat'[t] = fat[t]
      /\ \A t \in Files!Streams : fat[t] = "end" => fat'[t] = "end"
  BY <1>1, <1>4 DEF FileInv, Files!TypeOK
<1>6. /\ buf' \in [Files!Streams -> Seq(1 .. LAST)]
      /\ \A t \in Files!Streams : t # s => buf'[t] = buf[t]
  <2>1. c <= LAST => Append(buf[s], c) \in Seq(1 .. LAST)
    BY <1>2, <1>3
  <2> QED
    BY <1>2, <1>4, <2>1 DEF FileInv, Files!TypeOK
<1>7. turn' \in Files!Streams
  BY <1>2 DEF Files!PutLetter, Files!PassTurn, Files!Streams
<1>8. Files!TypeOK'
  BY <1>1, <1>5, <1>6, <1>7 DEF FileInv, Files!TypeOK
<1>9. Joined'
  BY <1>1, <1>5, StreamsJoined DEF FileInv
<1>10. Written'
  BY <1>1 DEF FileInv, WriteInv, Written
<1>11. PutByOne(s)'
  <2>1. PutByOne(s)
    BY <1>1 DEF FileInv, WriteInv
  <2>2. CASE c <= LAST
    <3>1. buf'[s] = Append(buf[s], c) /\ fat'[s] = "take"
      BY <1>1, <1>2, <1>4, <2>2 DEF FileInv, Files!TypeOK
    <3>2. /\ Len(buf'[s]) = Len(buf[s]) + 1 /\ buf'[s][Len(buf[s]) + 1] = c
          /\ \A k \in 1 .. Len(buf[s]) : buf'[s][k] = buf[s][k]
      BY <1>2, <3>1
    <3>3. \A k \in 1 .. Len(buf[s]) + 1 : buf'[s][k] = s + 2 * (k - 1)
      <4>1. ASSUME NEW k \in 1 .. Len(buf[s]) PROVE buf'[s][k] = s + 2 * (k - 1)
        BY <2>1, <3>2 DEF PutByOne
      <4>2. c = s + 2 * ((Len(buf[s]) + 1) - 1)
        BY <1>2, <1>3
      <4>3. \A k \in 1 .. Len(buf[s]) + 1 : k \in 1 .. Len(buf[s]) \/ k = Len(buf[s]) + 1
        BY <1>2
      <4> QED
        BY <3>2, <4>1, <4>2, <4>3
    <3>4. s + 2 * Len(buf'[s]) <= LAST + 2
      BY <1>2, <1>3, <2>2, <3>2
    <3> QED
      BY <3>1, <3>2, <3>3, <3>4 DEF PutByOne
  <2>3. CASE c > LAST
    <3>1. buf'[s] = buf[s] /\ fat'[s] = "end"
      BY <1>1, <1>2, <1>3, <1>4, <2>3 DEF FileInv, Files!TypeOK
    <3> QED
      BY <1>3, <2>1, <2>3, <3>1 DEF PutByOne
  <2> QED
    BY <1>2, <1>3, <2>2, <2>3
<1>12. ASSUME NEW t \in Files!Streams, t # s PROVE PutByOne(t)'
  <2>1. buf'[t] = buf[t] /\ fat'[t] = fat[t] /\ PutByOne(t)
    BY <1>1, <1>5, <1>6, <1>12 DEF FileInv, WriteInv
  <2> QED
    BY <2>1 DEF PutByOne
<1>13. WriteInv' /\ ReadInv'
  BY <1>1, <1>10, <1>11, <1>12 DEF WriteInv, ReadInv
<1> QED
  BY <1>8, <1>9, <1>13 DEF FileInv

\* What the streams have taken is the same, and so is the offset.
LEMMA SameTaken ==
    ASSUME Handed, UNCHANGED <<task, offset>>,
           \A t \in Files!Streams : Files!Taken(t)' = Files!Taken(t)
    PROVE  Handed'
<1>1. 1 \in Files!Streams /\ 2 \in Files!Streams
  BY DEF Files!Streams
<1>2. \A t \in Files!Streams : Holds(t)' = Holds(t)
  BY DEF Holds
<1>3. \A t \in Files!Streams : Files!Increasing(Files!Taken(t))'
  BY DEF Handed, Files!Increasing
<1> QED
  BY <1>1, <1>2, <1>3 DEF Handed

\* A step of a reader's stream: what has to be shown of it.
LEMMA ReaderStep ==
    ASSUME FileInv, ~task.writes, NEW s \in Files!Streams, fat[s] # "end",
           UNCHANGED <<task, main, born, refused, file>>,
           turn' \in Files!Streams,
           fat' \in [Files!Streams -> {"take", "peek", "print", "end"}],
           \A t \in Files!Streams : t # s => fat'[t] = fat[t],
           hand' \in [Files!Streams -> 0 .. LAST],
           \A t \in Files!Streams : t # s => hand'[t] = hand[t],
           buf' \in [Files!Streams -> Seq(1 .. LAST)],
           \A t \in Files!Streams : t # s => buf'[t] = buf[t],
           offset' \in [Files!Streams -> 0 .. LAST],
           \A t \in Files!Streams : offset[t] = LAST => offset'[t] = LAST,
           out' \in [Files!Streams -> Seq(1 .. LAST)],
           Handed', InHand(s)'
    PROVE  FileInv'
<1>1. Files!TypeOK'
  BY DEF FileInv, Files!TypeOK
<1>2. Joined'
  BY StreamsJoined DEF FileInv
<1>3. ASSUME NEW t \in Files!Streams, t # s PROVE InHand(t)'
  <2>1. InHand(t) /\ Files!Desc(t)' = Files!Desc(t) /\ Files!Desc(t) \in Files!Streams
    BY TakenTypes DEF FileInv, ReadInv, Files!Desc
  <2>2. hand'[t] = hand[t] /\ fat'[t] = fat[t] /\ buf'[t] = buf[t]
    BY <1>3
  <2> QED
    BY <2>1, <2>2 DEF InHand
<1>4. WriteInv' /\ ReadInv'
  BY <1>3 DEF WriteInv, ReadInv
<1> QED
  BY <1>1, <1>2, <1>4 DEF FileInv

\* main goes to the next stream.
LEMMA NextTurn ==
    ASSUME NEW s \in Files!Streams, Files!PassTurn(s)
    PROVE  turn' \in Files!Streams
BY DEF Files!PassTurn, Files!Streams

\* The steps that read: the refill of an empty buffer and the look behind the letter.
LEMMA ReadStep ==
    ASSUME FileInv, NEW s \in Files!Streams, Files!Fill(s) \/ Files!Peek(s)
    PROVE  FileInv'
<1>1. /\ UNCHANGED <<task, main, born, refused, turn, hand, out, file>>
      /\ \/ fat[s] = "take" /\ UNCHANGED fat
         \/ fat[s] = "peek" /\ fat' = [fat EXCEPT ![s] = "print"]
      /\ fat[s] # "end"
  BY DEF Files!Fill, Files!Peek
<1>2. ~task.writes
  BY DEF Files!Fill, Files!Peek, FileInv, WriteInv, PutByOne
<1>3. Handed /\ InHand(s)
  BY <1>2 DEF FileInv, ReadInv
<1>4. /\ Handed'
      /\ buf' \in [Files!Streams -> Seq(1 .. LAST)]
      /\ offset' \in [Files!Streams -> 0 .. LAST]
      /\ \A t \in Files!Streams : t # s => buf'[t] = buf[t]
      /\ \A t \in Files!Streams : offset[t] = LAST => offset'[t] = LAST
  <2>1. CASE buf[s] = <<>> /\ Files!Read(s)
    BY <1>1, <1>2, <2>1, ReadHands
  <2>2. CASE UNCHANGED <<buf, offset>>
    <3>1. \A t \in Files!Streams : Files!Taken(t)' = Files!Taken(t)
      BY <1>1, <2>2 DEF Files!Taken
    <3>2. Handed'
      BY <1>1, <1>3, <2>2, <3>1, SameTaken
    <3> QED
      BY <2>2, <3>2 DEF FileInv, Files!TypeOK
  <2> QED
    BY <2>1, <2>2 DEF Files!Fill, Files!Peek
<1>5. /\ fat' \in [Files!Streams -> {"take", "peek", "print", "end"}]
      /\ \A t \in Files!Streams : t # s => fat'[t] = fat[t]
      /\ fat'[s] # "end" /\ (fat'[s] = "take" <=> fat[s] = "take")
  BY <1>1 DEF FileInv, Files!TypeOK
<1>6. InHand(s)'
  BY <1>1, <1>3, <1>5 DEF InHand
<1>7. /\ turn' \in Files!Streams /\ hand' \in [Files!Streams -> 0 .. LAST]
      /\ out' \in [Files!Streams -> Seq(1 .. LAST)]
  BY <1>1 DEF FileInv, Files!TypeOK
<1>8. \A t \in Files!Streams : t # s => hand'[t] = hand[t]
  BY <1>1
<1> QED
  BY <1>1, <1>2, <1>4, <1>5, <1>6, <1>7, <1>8, ReaderStep

\* The letter that is taken into the hand is the next of the buffer.
LEMMA TakeStep ==
    ASSUME FileInv, NEW s \in Files!Streams, Files!Take(s)
    PROVE  FileInv'
<1>1. /\ UNCHANGED <<task, main, born, refused, turn, offset, out, file>>
      /\ ~task.writes /\ fat[s] = "take" /\ buf[s] # <<>>
      /\ hand' = [hand EXCEPT ![s] = Head(buf[s])]
      /\ buf' = [buf EXCEPT ![s] = Tail(buf[s])]
      /\ fat' = [fat EXCEPT ![s] = IF task.peeks THEN "peek" ELSE "print"]
  BY DEF Files!Take
<1>2. buf[s] \in Seq(1 .. LAST) /\ buf[s] \in Seq(Nat) /\ out[s] \in Seq(Nat)
  BY TakenTypes DEF FileInv, Files!TypeOK
<1>3. Head(buf[s]) \in 1 .. LAST /\ Tail(buf[s]) \in Seq(1 .. LAST) /\ LAST \in Nat
  <2>1. PICK L : L = 1 .. LAST
    OBVIOUS
  <2>2. Head(buf[s]) \in L /\ Tail(buf[s]) \in Seq(L)
    BY <1>1, <1>2, <2>1, HeadTailProperties
  <2> QED
    BY <2>1, <2>2, Assumptions DEF Files!LettersAssumption
<1>4. /\ hand' \in [Files!Streams -> 0 .. LAST] /\ hand'[s] = Head(buf[s])
      /\ \A t \in Files!Streams : t # s => hand'[t] = hand[t]
  BY <1>1, <1>3, SMTT(30) DEF FileInv, Files!TypeOK
<1>5. /\ buf' \in [Files!Streams -> Seq(1 .. LAST)] /\ buf'[s] = Tail(buf[s])
      /\ \A t \in Files!Streams : t # s => buf'[t] = buf[t]
  BY <1>1, <1>3 DEF FileInv, Files!TypeOK
<1>6. /\ fat' \in [Files!Streams -> {"take", "peek", "print", "end"}]
      /\ fat'[s] \in {"peek", "print"}
      /\ \A t \in Files!Streams : t # s => fat'[t] = fat[t]
  BY <1>1 DEF FileInv, Files!TypeOK
<1>7. hand[s] = 0 /\ Handed
  BY <1>1 DEF FileInv, ReadInv, InHand
<1>8. ASSUME NEW t \in Files!Streams PROVE Files!Taken(t)' = Files!Taken(t)
  <2>1. CASE t # s
    BY <1>1, <1>4, <1>5, <2>1 DEF Files!Taken
  <2>2. CASE t = s
    <3>1. Files!Taken(s) = (out[s] \o <<>>) \o buf[s]
      BY <1>7 DEF Files!Taken
    <3>2. hand'[s] = Head(buf[s]) /\ hand'[s] # 0
      BY <1>3, <1>4
    <3>3. Files!Taken(s)' = (out[s] \o <<hand'[s]>>) \o buf'[s]
      BY <1>1, <3>2 DEF Files!Taken
    <3> QED
      BY <1>1, <1>2, <1>5, <2>2, <3>1, <3>2, <3>3, TakeOne
  <2> QED
    BY <2>1, <2>2
<1>9. Handed'
  BY <1>1, <1>7, <1>8, SameTaken
<1>10. InHand(s)'
  BY <1>3, <1>4, <1>6 DEF InHand
<1>11. /\ turn' \in Files!Streams /\ out' \in [Files!Streams -> Seq(1 .. LAST)]
       /\ offset' \in [Files!Streams -> 0 .. LAST]
       /\ \A t \in Files!Streams : offset[t] = LAST => offset'[t] = LAST
  BY <1>1 DEF FileInv, Files!TypeOK
<1> QED
  BY <1>1, <1>4, <1>5, <1>6, <1>9, <1>10, <1>11, ReaderStep

\* The letter in the hand is printed.
LEMMA PrintStep ==
    ASSUME FileInv, NEW s \in Files!Streams, Files!PrintLetter(s)
    PROVE  FileInv'
<1>1. /\ UNCHANGED <<task, main, born, refused, buf, offset, file>>
      /\ fat[s] = "print"
      /\ out' = [out EXCEPT ![s] = Append(out[s], hand[s])]
      /\ hand' = [hand EXCEPT ![s] = 0]
      /\ fat' = [fat EXCEPT ![s] = "take"]
      /\ Files!PassTurn(s)
  BY DEF Files!PrintLetter
<1>2. ~task.writes
  BY <1>1 DEF FileInv, WriteInv, PutByOne
<1>3. hand[s] # 0 /\ Handed
  BY <1>1, <1>2 DEF FileInv, ReadInv, InHand
<1>4. hand[s] \in 1 .. LAST /\ hand[s] \in Nat /\ out[s] \in Seq(Nat) /\ LAST \in Nat
  BY <1>3, TakenTypes, Assumptions DEF FileInv, Files!TypeOK, Files!LettersAssumption
<1>5. /\ hand' \in [Files!Streams -> 0 .. LAST] /\ hand'[s] = 0
      /\ \A t \in Files!Streams : t # s => hand'[t] = hand[t]
  BY <1>1, <1>4 DEF FileInv, Files!TypeOK
<1>6. /\ out' \in [Files!Streams -> Seq(1 .. LAST)] /\ out'[s] = Append(out[s], hand[s])
      /\ \A t \in Files!Streams : t # s => out'[t] = out[t]
  BY <1>1, <1>4 DEF FileInv, Files!TypeOK
<1>7. /\ fat' \in [Files!Streams -> {"take", "peek", "print", "end"}] /\ fat'[s] = "take"
      /\ \A t \in Files!Streams : t # s => fat'[t] = fat[t]
  BY <1>1 DEF FileInv, Files!TypeOK
<1>8. ASSUME NEW t \in Files!Streams PROVE Files!Taken(t)' = Files!Taken(t)
  <2>1. CASE t # s
    BY <1>1, <1>5, <1>6, <2>1 DEF Files!Taken
  <2>2. CASE t = s
    <3>1. Files!Taken(s) = (out[s] \o <<hand[s]>>) \o buf[s]
      BY <1>3 DEF Files!Taken
    <3>2. Files!Taken(s)' = (Append(out[s], hand[s]) \o <<>>) \o buf[s]
      BY <1>1, <1>5, <1>6 DEF Files!Taken
    <3>3. out[s] \o <<hand[s]>> = Append(out[s], hand[s]) \o <<>>
      BY <1>4, PrintOne
    <3> QED
      BY <2>2, <3>1, <3>2, <3>3
  <2> QED
    BY <2>1, <2>2
<1>9. Handed'
  BY <1>1, <1>3, <1>8, SameTaken
<1>10. InHand(s)'
  BY <1>5, <1>7 DEF InHand
<1>11. turn' \in Files!Streams
  BY <1>1, NextTurn
<1>12. /\ buf' \in [Files!Streams -> Seq(1 .. LAST)]
       /\ \A t \in Files!Streams : buf'[t] = buf[t]
       /\ offset' \in [Files!Streams -> 0 .. LAST]
       /\ \A t \in Files!Streams : offset[t] = LAST => offset'[t] = LAST
  BY <1>1 DEF FileInv, Files!TypeOK
<1> QED
  BY <1>1, <1>2, <1>5, <1>6, <1>7, <1>9, <1>10, <1>11, <1>12, ReaderStep

\* A stream comes to the end of the file.
LEMMA EndStep ==
    ASSUME FileInv, NEW s \in Files!Streams, Files!EndOfFile(s)
    PROVE  FileInv'
<1>1. /\ UNCHANGED <<task, main, born, refused, hand, buf, offset, out, file>>
      /\ ~task.writes /\ fat[s] = "take" /\ buf[s] = <<>> /\ offset[Files!Desc(s)] = LAST
      /\ fat' = [fat EXCEPT ![s] = "end"]
      /\ Files!PassTurn(s)
  BY DEF Files!EndOfFile
<1>2. /\ fat' \in [Files!Streams -> {"take", "peek", "print", "end"}] /\ fat'[s] = "end"
      /\ \A t \in Files!Streams : t # s => fat'[t] = fat[t]
  BY <1>1 DEF FileInv, Files!TypeOK
<1>3. \A t \in Files!Streams : Files!Taken(t)' = Files!Taken(t)
  BY <1>1 DEF Files!Taken
<1>4. hand[s] = 0 /\ Handed
  BY <1>1 DEF FileInv, ReadInv, InHand
<1>5. Handed'
  BY <1>1, <1>3, <1>4, SameTaken
<1>6. InHand(s)'
  BY <1>1, <1>2, <1>4 DEF InHand, Files!Desc
<1>7. turn' \in Files!Streams
  BY <1>1, NextTurn
<1>8. /\ buf' \in [Files!Streams -> Seq(1 .. LAST)]
      /\ offset' \in [Files!Streams -> 0 .. LAST]
      /\ out' \in [Files!Streams -> Seq(1 .. LAST)]
      /\ hand' \in [Files!Streams -> 0 .. LAST]
  BY <1>1 DEF FileInv, Files!TypeOK
<1> QED
  BY <1>1, <1>2, <1>5, <1>6, <1>7, <1>8, ReaderStep

\* Every step preserves the invariant.
LEMMA FileNext == FileInv /\ [Files!Next]_(Files!vars) => FileInv'
<1> SUFFICES ASSUME FileInv, [Files!Next]_(Files!vars) PROVE FileInv'
  OBVIOUS
<1>1. CASE UNCHANGED Files!vars
  <2>1. UNCHANGED <<task, main, born, refused, turn, fat, hand, buf, offset, out, file>>
    BY <1>1 DEF Files!vars
  <2>2. Files!TypeOK' /\ Joined' /\ (task.writes => Written')
    BY <2>1 DEF FileInv, Files!TypeOK, Joined, WriteInv, Written
  <2> QED
    BY <2>1, <2>2, SameStreams
<1>2. CASE Files!Next
  <2>1. ASSUME NEW s \in Files!Streams,
               \/ Files!Fill(s) \/ Files!Take(s) \/ Files!Peek(s) \/ Files!PrintLetter(s)
               \/ Files!EndOfFile(s) \/ Files!PutLetter(s)
        PROVE  FileInv'
    BY <2>1, ReadStep, TakeStep, PrintStep, EndStep, PutStep
  <2> QED
    BY <1>2, <2>1, MainStep, CloseStep DEF Files!Next
<1> QED
  BY <1>1, <1>2

-----------------------------------------------------------------------------
(* ChildMessages.  Where the parent reads after every fork, one child at most is still
   to write, the one it has just forked: what is on the way is that child's message or
   nothing, and so the reads return the messages in the order of the forks. *)

\* Between a fork and the read after it.
OneWrites ==
    /\ pat # "failed" =>
          \A c \in Messages!Children : cat[c] = "write" => pat = "read" /\ c = i
    /\ pat = "read" => up = IF cat[i] = "write" THEN <<>> ELSE Messages!Message(i)
    /\ pat \notin {"read", "failed"} => up = <<>>

\* What the reads have returned.
ReadSoFar ==
    /\ pat \in {"fork", "read"} => Len(got) = i - 1
    /\ pat = "answer" => Len(got) = i
    /\ Len(got) <= prog.count
    /\ \A k \in 1 .. Len(got) : got[k] = Messages!Message(k)

MessageInv ==
    /\ Messages!TypeOK
    /\ pat \in {"read", "answer"} => i \in Messages!Children
    /\ prog.reads => OneWrites /\ ReadSoFar

\* The facts about the programs that the proofs need.
LEMMA ParentFacts ==
    ASSUME prog \in {Messages!task_04, Messages!task_05, Messages!socketpair}
    PROVE  /\ prog.count \in Nat /\ prog.count >= 2
           /\ prog.count <= Len(UpLen) /\ Len(DownLen) = Len(UpLen)
           /\ prog.reads => ~prog.guarded
           /\ ~prog.reads => ~prog.sized /\ ~prog.answers
<1> USE DEF Messages!task_04, Messages!task_05, Messages!socketpair
<1>1. /\ Len(UpLen) \in Nat /\ Len(UpLen) >= 2 /\ Len(DownLen) = Len(UpLen)
  BY Assumptions DEF Messages!ChildAssumption
<1>2. prog.count \in {2, Len(UpLen)}
  OBVIOUS
<1>3. /\ prog.reads => ~prog.guarded
      /\ ~prog.reads => ~prog.sized /\ ~prog.answers
  OBVIOUS
<1> QED
  BY <1>1, <1>2, <1>3

\* A message is a run of its child's number.
LEMMA MessageType ==
    ASSUME prog \in {Messages!task_04, Messages!task_05, Messages!socketpair},
           NEW c \in Messages!Children
    PROVE  /\ UpLen[c] \in Nat \ {0} /\ DownLen[c] \in Nat \ {0}
           /\ Messages!Message(c) \in Seq(Messages!Children)
           /\ Messages!Answer(c) \in Seq(Messages!Children)
           /\ Messages!Message(c) # <<>>
           /\ Len(Messages!Message(c)) = UpLen[c]
<1>1. c \in 1 .. Len(UpLen) /\ c \in 1 .. Len(DownLen)
  BY ParentFacts, Assumptions DEF Messages!Children, Messages!ChildAssumption
<1>2. UpLen[c] \in Nat \ {0} /\ DownLen[c] \in Nat \ {0}
  BY <1>1, Assumptions DEF Messages!ChildAssumption
<1>3. PICK C : C = Messages!Children
  OBVIOUS
<1>4. Messages!Message(c) \in Seq(C) /\ Messages!Answer(c) \in Seq(C)
  BY <1>2, <1>3 DEF Messages!Message, Messages!Answer
<1>5. Len(Messages!Message(c)) = UpLen[c]
  BY <1>2 DEF Messages!Message
<1>6. Messages!Message(c) # <<>>
  BY <1>2, <1>5
<1> QED
  BY <1>2, <1>3, <1>4, <1>5, <1>6

\* What a read takes, and what it leaves.
LEMMA FirstAfter ==
    ASSUME NEW C, NEW q \in Seq(C), NEW n \in Nat
    PROVE  /\ Messages!First(q, n) \in Seq(C) /\ Messages!After(q, n) \in Seq(C)
           /\ n = Len(q) => Messages!First(q, n) = q /\ Messages!After(q, n) = <<>>
<1>1. Len(q) \in Nat
  BY LenProperties
<1>2. ASSUME NEW m \in 0 .. Len(q) PROVE SubSeq(q, 1, m) \in Seq(C)
  BY <1>1, <1>2
<1>3. Messages!First(q, n) \in Seq(C)
  BY <1>1, <1>2 DEF Messages!First
<1>4. Messages!After(q, n) \in Seq(C)
  BY <1>1 DEF Messages!After
<1>5. ASSUME n = Len(q) PROVE Messages!First(q, n) = q /\ Messages!After(q, n) = <<>>
  <2>1. SubSeq(q, 1, Len(q)) = q
    BY <1>1
  <2>2. SubSeq(q, Len(q) + 1, Len(q)) = <<>>
    BY <1>1
  <2> QED
    BY <1>1, <1>5, <2>1, <2>2 DEF Messages!First, Messages!After
<1> QED
  BY <1>3, <1>4, <1>5

\* The initial states satisfy the invariant.
LEMMA MessageInit == Messages!Init => MessageInv
<1> SUFFICES ASSUME Messages!Init PROVE MessageInv
  OBVIOUS
<1>1. prog.count \in Nat /\ prog.count >= 2
  BY ParentFacts DEF Messages!Init
<1>2. Messages!TypeOK
  <2>1. cat \in [Messages!Children -> {"unborn", "write", "read", "dead"}]
    BY DEF Messages!Init
  <2>2. up = <<>> /\ down = <<>> /\ got = <<>> /\ sent = {} /\ i = 1
    BY DEF Messages!Init
  <2>3. i \in 1 .. prog.count + 1
    BY <1>1, <2>2
  <2>4. up \in Seq(Messages!Children) /\ down \in Seq(Messages!Children)
    BY <2>2
  <2>5. got \in Seq(Seq(Messages!Children))
    BY <2>2
  <2> QED
    BY <2>1, <2>2, <2>3, <2>4, <2>5 DEF Messages!Init, Messages!TypeOK
<1>3. OneWrites /\ ReadSoFar
  BY <1>1 DEF Messages!Init, OneWrites, ReadSoFar, Messages!Children
<1> QED
  BY <1>2, <1>3 DEF MessageInv, Messages!Init

\* A step of the parent that reads nothing: the rest of the invariant is its types and
\* where the child that it waits for is.
LEMMA ParentGoes ==
    ASSUME MessageInv,
           \/ Messages!Fork \/ Messages!ForkFails \/ Messages!WriteAnswer
           \/ Messages!Close \/ Messages!DrainEnds \/ Messages!Wait
    PROVE  MessageInv'
<1>1. /\ Messages!TypeOK
      /\ prog.count \in Nat /\ prog.count >= 2
      /\ i \in 1 .. prog.count + 1
      /\ UNCHANGED <<prog, up, got, sent>>
  BY ParentFacts
  DEF MessageInv, Messages!TypeOK, Messages!Fork, Messages!ForkFails, Messages!WriteAnswer,
      Messages!Close, Messages!DrainEnds, Messages!Wait
<1>2. Messages!Children' = Messages!Children /\ Messages!Children = 1 .. prog.count
  BY <1>1 DEF Messages!Children
<1>3. \A c \in Messages!Children : Messages!Message(c)' = Messages!Message(c)
  BY DEF Messages!Message
<1>4. down' \in Seq(Messages!Children)
  <2>1. CASE Messages!WriteAnswer
    <3>1. PICK C : C = Messages!Children
      OBVIOUS
    <3>2. i \in Messages!Children /\ down' = down \o Messages!Answer(i)
      BY <2>1 DEF Messages!WriteAnswer, MessageInv
    <3>3. Messages!Answer(i) \in Seq(C) /\ down \in Seq(C)
      BY <1>1, <3>1, <3>2, MessageType DEF Messages!TypeOK
    <3>4. down \o Messages!Answer(i) \in Seq(C)
      BY <3>3
    <3> QED
      BY <3>1, <3>2, <3>4
  <2>2. CASE UNCHANGED down
    BY <1>1, <2>2 DEF Messages!TypeOK
  <2> QED
    BY <2>1, <2>2 DEF Messages!Fork, Messages!ForkFails, Messages!Close,
                      Messages!DrainEnds, Messages!Wait
<1>5. cat' \in [Messages!Children -> {"unborn", "write", "read", "dead"}]
  BY <1>1 DEF Messages!TypeOK, Messages!Fork, Messages!ForkFails, Messages!WriteAnswer,
              Messages!Close, Messages!DrainEnds, Messages!Wait
<1>6. /\ pat' \in {"fork", "read", "answer", "close", "drain", "wait", "done", "failed"}
      /\ writeEnd' \in BOOLEAN /\ flag' \in BOOLEAN
  BY <1>1 DEF Messages!TypeOK, Messages!Fork, Messages!ForkFails, Messages!WriteAnswer,
              Messages!Close, Messages!DrainEnds, Messages!Wait
<1>7. /\ i' \in 1 .. prog.count + 1
      /\ pat' \in {"read", "answer"} => i' \in Messages!Children
  BY <1>1, <1>2 DEF MessageInv, Messages!Fork, Messages!ForkFails, Messages!WriteAnswer,
              Messages!Close, Messages!DrainEnds, Messages!Wait
<1>8. Messages!TypeOK'
  BY <1>1, <1>2, <1>4, <1>5, <1>6, <1>7 DEF Messages!TypeOK
<1>9. ASSUME prog.reads PROVE OneWrites' /\ ReadSoFar'
  <2>1. OneWrites /\ ReadSoFar
    BY <1>9 DEF MessageInv
  <2>2. CASE Messages!Fork
    <3>1. /\ pat = "fork" /\ pat' = "read" /\ i' = i /\ i \in Messages!Children
          /\ \A c \in Messages!Children : cat'[c] = IF c = i THEN "write" ELSE cat[c]
      BY <1>1, <1>9, <2>2 DEF Messages!Fork, Messages!TypeOK
    <3> QED
      BY <1>1, <1>2, <1>3, <2>1, <3>1 DEF OneWrites, ReadSoFar, Messages!Message
  <2>3. CASE Messages!WriteAnswer
    BY <1>1, <1>2, <1>3, <2>1, <2>3
    DEF OneWrites, ReadSoFar, Messages!WriteAnswer, Messages!Message
  <2>4. CASE Messages!ForkFails \/ Messages!Close \/ Messages!DrainEnds \/ Messages!Wait
    BY <1>1, <1>2, <1>3, <2>1, <2>4
    DEF OneWrites, ReadSoFar, Messages!ForkFails, Messages!Close, Messages!DrainEnds,
        Messages!Wait, Messages!Message
  <2> QED
    BY <2>2, <2>3, <2>4
<1> QED
  BY <1>1, <1>2, <1>7, <1>8, <1>9 DEF MessageInv

\* A read of the parent.
LEMMA ParentReads ==
    ASSUME MessageInv, Messages!Read \/ Messages!DrainByte
    PROVE  MessageInv'
<1>1. /\ Messages!TypeOK
      /\ prog.count \in Nat /\ prog.count >= 2
      /\ i \in 1 .. prog.count + 1
      /\ UNCHANGED <<prog, writeEnd, flag, cat, down, sent>>
      /\ up # <<>>
  BY ParentFacts DEF MessageInv, Messages!TypeOK, Messages!Read, Messages!DrainByte
<1>2. Messages!Children' = Messages!Children /\ Messages!Children = 1 .. prog.count
  BY <1>1 DEF Messages!Children
<1>3. PICK n \in Nat : /\ got' = Append(got, Messages!First(up, n))
                       /\ up' = Messages!After(up, n)
                       /\ Messages!Read => n = Messages!Size
  <2>1. Len(up) \in Nat
    BY <1>1, LenProperties DEF Messages!TypeOK
  <2>2. CASE Messages!Read
    <3>1. i \in Messages!Children
      BY <2>2 DEF Messages!Read, MessageInv
    <3>2. Messages!Size \in Nat
      BY <1>1, <2>1, <3>1, MessageType DEF Messages!Size, Messages!TypeOK
    <3> QED
      BY <2>2, <3>2 DEF Messages!Read
  <2>3. CASE Messages!DrainByte
    <3>1. ~Messages!Read
      BY <2>3 DEF Messages!DrainByte, Messages!Read
    <3> QED
      BY <2>1, <2>3, <3>1 DEF Messages!DrainByte
  <2> QED
    BY <2>2, <2>3
<1>4. PICK C : C = Messages!Children
  OBVIOUS
<1>5. up' \in Seq(C) /\ Messages!First(up, n) \in Seq(C)
  BY <1>1, <1>3, <1>4, FirstAfter DEF Messages!TypeOK
<1>6. got' \in Seq(Seq(C))
  BY <1>1, <1>3, <1>4, <1>5, AppendProperties DEF Messages!TypeOK
<1>7. /\ pat' \in {"fork", "answer", "drain", "wait"}
      /\ i' \in 1 .. prog.count + 1
      /\ pat' \in {"read", "answer"} => i' \in Messages!Children
  BY <1>1, <1>2 DEF MessageInv, Messages!Read, Messages!DrainByte
<1>8. Messages!TypeOK'
  BY <1>1, <1>2, <1>4, <1>5, <1>6, <1>7 DEF Messages!TypeOK
<1>9. ASSUME prog.reads PROVE OneWrites' /\ ReadSoFar'
  <2>1. OneWrites /\ ReadSoFar
    BY <1>9 DEF MessageInv
  <2>2. Messages!Read /\ pat = "read" /\ i \in Messages!Children
    BY <1>1, <2>1 DEF OneWrites, Messages!Read, Messages!DrainByte, MessageInv
  <2>3. up = Messages!Message(i) /\ cat[i] # "write"
    BY <1>1, <2>1, <2>2 DEF OneWrites
  <2>4. n = Len(up)
    BY <1>1, <1>3, <2>2, <2>3, MessageType DEF Messages!Size, Messages!TypeOK
  <2>5. got' = Append(got, Messages!Message(i)) /\ up' = <<>>
    BY <1>1, <1>3, <1>4, <2>3, <2>4, FirstAfter DEF Messages!TypeOK
  <2>6. (pat' = "answer" /\ i' = i) \/ (pat' = "fork" /\ i' = i + 1)
    BY <2>2 DEF Messages!Read
  <2>7. \A c \in Messages!Children : cat[c] # "write"
    BY <2>1, <2>2, <2>3 DEF OneWrites
  <2>8. OneWrites'
    BY <1>1, <1>2, <2>5, <2>6, <2>7 DEF OneWrites
  <2>9. /\ Len(got) = i - 1 /\ Len(got') = i
        /\ \A k \in 1 .. i : got'[k] = Messages!Message(k)
    <3>1. Len(got) = i - 1 /\ i \in Nat
      BY <1>1, <2>1, <2>2 DEF ReadSoFar
    <3>2. /\ Len(got') = Len(got) + 1
          /\ got'[Len(got) + 1] = Messages!Message(i)
          /\ \A k \in 1 .. Len(got) : got'[k] = got[k]
      BY <1>1, <2>5, AppendProperties DEF Messages!TypeOK
    <3> QED
      BY <2>1, <3>1, <3>2 DEF ReadSoFar
  <2>10. ReadSoFar'
    BY <1>1, <1>2, <2>2, <2>6, <2>9 DEF ReadSoFar, Messages!Message
  <2> QED
    BY <2>8, <2>10
<1> QED
  BY <1>1, <1>2, <1>7, <1>8, <1>9 DEF MessageInv

\* A step of a child.
LEMMA ChildGoes ==
    ASSUME MessageInv, NEW c \in Messages!Children, Messages!Child(c)
    PROVE  MessageInv'
<1>1. /\ Messages!TypeOK
      /\ prog.count \in Nat /\ prog.count >= 2
      /\ UNCHANGED <<prog, pat, i, writeEnd, flag, got>>
  BY ParentFacts DEF MessageInv, Messages!TypeOK, Messages!Child, Messages!ChildWrites,
                     Messages!ChildReads
<1>2. Messages!Children' = Messages!Children /\ Messages!Children = 1 .. prog.count
  BY <1>1 DEF Messages!Children
<1>3. PICK C : C = Messages!Children
  OBVIOUS
<1>4. /\ Messages!Message(c) \in Seq(C) /\ DownLen[c] \in Nat
      /\ up \in Seq(C) /\ down \in Seq(C)
  BY <1>1, <1>3, MessageType DEF Messages!TypeOK
<1>5. PICK to \in {"read", "dead"} : cat' = [cat EXCEPT ![c] = to]
  BY DEF Messages!Child, Messages!ChildWrites, Messages!ChildReads
<1>6. /\ cat' \in [Messages!Children -> {"unborn", "write", "read", "dead"}]
      /\ \A d \in Messages!Children : cat'[d] = IF d = c THEN to ELSE cat[d]
  BY <1>1, <1>5 DEF Messages!TypeOK
<1>7. /\ up' = up \/ up' = up \o Messages!Message(c)
      /\ down' = down \/ down' = Messages!After(down, DownLen[c])
      /\ sent' = sent \/ sent' = sent \cup {c}
  BY DEF Messages!Child, Messages!ChildWrites, Messages!ChildReads
<1>8. up \o Messages!Message(c) \in Seq(C) /\ Messages!After(down, DownLen[c]) \in Seq(C)
  BY <1>4, ConcatProperties, FirstAfter
<1>9. Messages!TypeOK'
  <2>1. up' \in Seq(C) /\ down' \in Seq(C)
    BY <1>4, <1>7, <1>8
  <2>2. sent' \subseteq Messages!Children
    BY <1>1, <1>7 DEF Messages!TypeOK
  <2> QED
    BY <1>1, <1>2, <1>3, <1>6, <2>1, <2>2 DEF Messages!TypeOK
<1>10. ASSUME prog.reads PROVE OneWrites' /\ ReadSoFar'
  <2>1. OneWrites /\ ReadSoFar /\ ~prog.guarded
    BY <1>1, <1>10, ParentFacts DEF MessageInv, Messages!TypeOK
  <2>2. ReadSoFar'
    BY <1>1, <2>1 DEF ReadSoFar, Messages!Message
  <2>3. CASE pat = "failed"
    <3>1. pat' = "failed"
      BY <1>1, <2>3
    <3> QED
      BY <2>2, <3>1 DEF OneWrites
  <2>4. CASE pat # "failed" /\ Messages!ChildWrites(c)
    <3>1. /\ cat[c] = "write" /\ up' = up \o Messages!Message(c)
      BY <2>1, <2>4 DEF Messages!ChildWrites
    <3>2. pat = "read" /\ c = i /\ up = <<>>
      BY <2>1, <2>4, <3>1 DEF OneWrites
    <3>3. up' = Messages!Message(i)
      BY <1>4, <3>1, <3>2, ConcatEmptySeq
    <3>4. \A d \in Messages!Children : cat'[d] # "write"
      BY <1>6, <2>1, <2>4, <3>2 DEF OneWrites
    <3>5. pat' = "read" /\ i' = i /\ cat'[i] # "write" /\ up' = Messages!Message(i)'
      BY <1>1, <3>2, <3>3, <3>4 DEF Messages!Message
    <3> QED
      BY <1>2, <2>2, <3>4, <3>5 DEF OneWrites
  <2>5. CASE pat # "failed" /\ Messages!ChildReads(c)
    <3>1. cat[c] = "read" /\ up' = up
      BY <2>5 DEF Messages!ChildReads
    <3>2. /\ pat = "read" => i \in Messages!Children
      BY DEF MessageInv
    <3>3. \A d \in Messages!Children : cat'[d] = "write" <=> cat[d] = "write"
      BY <1>6, <3>1
    <3>4. pat' = pat /\ i' = i /\ Messages!Message(i)' = Messages!Message(i)
      BY <1>1 DEF Messages!Message
    <3>5. \A d \in Messages!Children : cat'[d] = "write" => pat' = "read" /\ d = i'
      BY <2>1, <2>5, <3>3, <3>4 DEF OneWrites
    <3>6. pat' = "read" =>
            up' = IF cat'[i] = "write" THEN <<>> ELSE Messages!Message(i)'
      BY <2>1, <3>1, <3>2, <3>3, <3>4 DEF OneWrites
    <3>7. pat' \notin {"read", "failed"} => up' = <<>>
      BY <2>1, <3>1, <3>4 DEF OneWrites
    <3> QED
      BY <1>2, <2>2, <3>4, <3>5, <3>6, <3>7 DEF OneWrites
  <2> QED
    BY <2>2, <2>3, <2>4, <2>5 DEF Messages!Child
<1> QED
  BY <1>1, <1>2, <1>9, <1>10 DEF MessageInv

\* Every step preserves the invariant.
LEMMA MessageNext == MessageInv /\ [Messages!Next]_(Messages!vars) => MessageInv'
<1> SUFFICES ASSUME MessageInv, [Messages!Next]_(Messages!vars) PROVE MessageInv'
  OBVIOUS
<1>1. CASE Messages!sig_handler \/ UNCHANGED Messages!vars
  <2>1. /\ UNCHANGED <<prog, pat, i, writeEnd, cat, up, down, got, sent>>
        /\ flag' \in BOOLEAN
    BY <1>1 DEF Messages!sig_handler, Messages!vars, MessageInv, Messages!TypeOK
  <2>2. Messages!Children' = Messages!Children
    BY <2>1 DEF Messages!Children
  <2>3. Messages!TypeOK'
    BY <2>1, <2>2 DEF MessageInv, Messages!TypeOK
  <2>4. (OneWrites /\ ReadSoFar) => (OneWrites' /\ ReadSoFar')
    BY <2>1, <2>2 DEF OneWrites, ReadSoFar, Messages!Message
  <2> QED
    BY <2>1, <2>2, <2>3, <2>4 DEF MessageInv
<1>2. CASE Messages!Parent
  BY <1>2, ParentGoes, ParentReads DEF Messages!Parent
<1> QED
  BY <1>1, <1>2, ChildGoes DEF Messages!Next

(* Where the parent reads byte by byte, after all forks: the bytes that have been written,
   read or not, are the messages of the children that have written, each in one piece. *)

AllBytes(g, u) ==
    [k \in 1 .. Len(g) + Len(u) |-> IF k <= Len(g) THEN g[k][1] ELSE u[k - Len(g)]]
Single(g) == \A k \in 1 .. Len(g) : \E c \in Messages!Children : g[k] = <<c>>
InPiece(w, c, f, n) ==
    f + n <= Len(w) /\ \A k \in 1 .. Len(w) : w[k] = c <=> f < k /\ k <= f + n
Pieces(w, S) ==
    \A c \in Messages!Children :
        \E f \in Nat : InPiece(w, c, f, IF c \in S THEN UpLen[c] ELSE 0)

\* Every child writes at most once, all are forked before the parent reads, and it reads
\* until none is left that could write.
ForkedInOrder ==
    /\ pat \in {"fork", "drain", "wait", "done", "failed"}
    /\ \A c \in sent : cat[c] \notin {"unborn", "write"}
    /\ pat = "fork" => \A c \in Messages!Children : c < i <=> cat[c] # "unborn"
    /\ pat \in {"drain", "wait", "done"} => \A c \in Messages!Children : cat[c] # "unborn"
    /\ pat \in {"wait", "done"} =>
          up = <<>> /\ \A c \in Messages!Children : cat[c] # "write"

BytesInv == ~prog.reads => ForkedInOrder /\ Single(got) /\ Pieces(AllBytes(got, up), sent)

\* Reading a byte leaves them as they are.
LEMMA ByteMoves ==
    ASSUME NEW C, NEW g \in Seq(Seq(C)), NEW u \in Seq(C), u # <<>>
    PROVE  /\ Messages!First(u, 1) = <<u[1]>> /\ u[1] \in C
           /\ AllBytes(Append(g, <<u[1]>>), Messages!After(u, 1)) = AllBytes(g, u)
<1>1. PICK n \in Nat : n = Len(u) /\ n >= 1
  BY EmptySeq, LenProperties
<1>2. PICK m \in Nat : m = Len(g)
  BY LenProperties
<1>3. u[1] \in C
  BY <1>1, ElementOfSeq
<1>4. Messages!First(u, 1) = <<u[1]>>
  <2>1. (IF 1 < Len(u) THEN 1 ELSE Len(u)) = 1
    BY <1>1
  <2>2. SubSeq(u, 1, 1) = <<u[1]>>
    <3>1. PICK r : r = SubSeq(u, 1, 1)
      OBVIOUS
    <3>2. r \in Seq(C) /\ Len(r) = 1 /\ r[1] = u[1]
      BY <1>1, <3>1, SubSeqProperties
    <3>3. r = <<u[1]>>
      BY <1>3, <3>2
    <3> QED
      BY <3>1, <3>3
  <2> QED
    BY <2>1, <2>2 DEF Messages!First
<1>5. PICK v : v = Messages!After(u, 1)
  OBVIOUS
<1>6. /\ v \in Seq(C) /\ Len(v) = n - 1
      /\ \A k \in 1 .. n - 1 : v[k] = u[k + 1]
  BY <1>1, <1>5 DEF Messages!After
<1>7. PICK h : h = Append(g, <<u[1]>>)
  OBVIOUS
<1>8. /\ Len(h) = m + 1 /\ h[m + 1] = <<u[1]>>
      /\ \A k \in 1 .. m : h[k] = g[k]
  <2>1. <<u[1]>> \in Seq(C)
    BY <1>3
  <2> QED
    BY <1>2, <1>7, <2>1, AppendProperties
<1>9. ASSUME NEW k \in 1 .. m + n
      PROVE  (IF k <= m + 1 THEN h[k][1] ELSE v[k - (m + 1)]) =
             (IF k <= m THEN g[k][1] ELSE u[k - m])
  <2>1. CASE k <= m
    BY <1>8, <2>1
  <2>2. CASE k = m + 1
    <3>1. h[k][1] = u[1] /\ k - m = 1
      BY <1>8, <2>2
    <3> QED
      BY <2>2, <3>1
  <2>3. CASE k > m + 1
    <3>1. PICK l \in 1 .. n - 1 : l = k - (m + 1) /\ l + 1 = k - m
      BY <2>3
    <3> QED
      BY <1>6, <2>3, <3>1
  <2> QED
    BY <2>1, <2>2, <2>3
<1>10. /\ AllBytes(h, v) = [k \in 1 .. (m + 1) + (n - 1) |->
                              IF k <= m + 1 THEN h[k][1] ELSE v[k - (m + 1)]]
       /\ AllBytes(g, u) = [k \in 1 .. m + n |-> IF k <= m THEN g[k][1] ELSE u[k - m]]
  BY <1>1, <1>2, <1>6, <1>8 DEF AllBytes
<1>11. (m + 1) + (n - 1) = m + n
  OBVIOUS
<1>12. AllBytes(h, v) = AllBytes(g, u)
  BY <1>9, <1>10, <1>11
<1> QED
  BY <1>3, <1>4, <1>5, <1>7, <1>12

\* A write adds a piece.
LEMMA PieceAdded ==
    ASSUME MessageInv, NEW c \in Messages!Children, c \notin sent,
           Pieces(AllBytes(got, up), sent)
    PROVE  Pieces(AllBytes(got, up \o Messages!Message(c)), sent \cup {c})
<1>1. PICK C : C = Messages!Children
  OBVIOUS
<1>2. PICK x : x = Messages!Message(c)
  OBVIOUS
<1>3. PICK len \in Nat : len = UpLen[c]
  BY MessageType DEF MessageInv, Messages!TypeOK
<1>4. x \in Seq(C) /\ Len(x) = len /\ \A k \in 1 .. len : x[k] = c
  BY <1>1, <1>2, <1>3, MessageType DEF MessageInv, Messages!TypeOK, Messages!Message
<1>5. PICK m \in Nat : m = Len(got)
  BY LenProperties DEF MessageInv, Messages!TypeOK
<1>6. up \in Seq(C)
  BY <1>1 DEF MessageInv, Messages!TypeOK
<1>7. PICK n \in Nat : n = Len(up)
  BY <1>6, LenProperties
<1>8. PICK v : v = up \o x
  OBVIOUS
<1>9. /\ Len(v) = n + len
      /\ \A k \in 1 .. n + len : v[k] = IF k <= n THEN up[k] ELSE x[k - n]
  BY <1>4, <1>6, <1>7, <1>8, ConcatProperties, ZenonT(40)
<1>10. PICK a : a = AllBytes(got, up)
  OBVIOUS
<1>11. PICK b : b = AllBytes(got, v)
  OBVIOUS
<1>12. Len(a) = m + n /\ Len(b) = m + n + len
  BY <1>5, <1>7, <1>9, <1>10, <1>11 DEF AllBytes
<1>13. \A k \in 1 .. m + n : b[k] = a[k]
  <2> SUFFICES ASSUME NEW k \in 1 .. m + n PROVE b[k] = a[k]
    OBVIOUS
  <2>1. /\ b[k] = IF k <= m THEN got[k][1] ELSE v[k - m]
        /\ a[k] = IF k <= m THEN got[k][1] ELSE up[k - m]
    BY <1>5, <1>7, <1>9, <1>10, <1>11 DEF AllBytes
  <2>2. k > m => v[k - m] = up[k - m]
    BY <1>9
  <2> QED
    BY <2>1, <2>2
<1>14. \A k \in m + n + 1 .. m + n + len : b[k] = c
  <2> SUFFICES ASSUME NEW k \in m + n + 1 .. m + n + len PROVE b[k] = c
    OBVIOUS
  <2>1. b[k] = v[k - m]
    BY <1>5, <1>7, <1>9, <1>11 DEF AllBytes
  <2>2. PICK l \in n + 1 .. n + len : l = k - m
    OBVIOUS
  <2>3. v[l] = x[l - n] /\ l - n \in 1 .. len
    BY <1>9
  <2> QED
    BY <1>4, <2>1, <2>2, <2>3
<1>15. ASSUME NEW d \in Messages!Children
       PROVE  \E f \in Nat : InPiece(b, d, f, IF d \in sent \cup {c} THEN UpLen[d] ELSE 0)
  <2>1. PICK s : s = IF d \in sent THEN UpLen[d] ELSE 0
    OBVIOUS
  <2>2. PICK f \in Nat : InPiece(a, d, f, s)
    BY <1>10, <2>1 DEF Pieces
  <2>3. s \in Nat
    BY <2>1, MessageType DEF MessageInv, Messages!TypeOK
  <2>4. /\ f + s <= m + n
        /\ \A k \in 1 .. m + n : a[k] = d <=> f < k /\ k <= f + s
    BY <1>12, <2>2 DEF InPiece
  <2>5. CASE d = c
    <3>1. s = 0
      BY <2>1, <2>5
    <3>2. ASSUME NEW k \in 1 .. m + n + len
          PROVE  b[k] = d <=> m + n < k /\ k <= m + n + len
      <4>1. CASE k <= m + n
        BY <1>13, <2>4, <3>1, <4>1
      <4>2. CASE k > m + n
        BY <1>14, <2>5, <4>2
      <4> QED
        BY <4>1, <4>2
    <3>3. InPiece(b, d, m + n, len)
      BY <1>12, <3>2 DEF InPiece
    <3> QED
      BY <1>3, <2>5, <3>3
  <2>6. CASE d # c
    <3>1. ASSUME NEW k \in 1 .. m + n + len PROVE b[k] = d <=> f < k /\ k <= f + s
      <4>1. CASE k <= m + n
        BY <1>13, <2>4, <4>1
      <4>2. CASE k > m + n
        BY <1>14, <2>3, <2>4, <2>6, <4>2
      <4> QED
        BY <4>1, <4>2
    <3>2. InPiece(b, d, f, s)
      BY <1>12, <2>3, <2>4, <3>1 DEF InPiece
    <3> QED
      BY <2>1, <2>6, <3>2
  <2> QED
    BY <2>5, <2>6
<1> QED
  BY <1>2, <1>8, <1>11, <1>15 DEF Pieces

\* A step of the parent.
LEMMA ParentBytes ==
    ASSUME MessageInv, BytesInv, Messages!Parent
    PROVE  BytesInv'
<1> SUFFICES ASSUME ~prog'.reads
             PROVE  (ForkedInOrder /\ Single(got) /\ Pieces(AllBytes(got, up), sent))'
  BY DEF BytesInv
<1>1. UNCHANGED <<prog, sent>> /\ ~prog.reads
  BY DEF Messages!Parent, Messages!Fork, Messages!ForkFails, Messages!Read,
         Messages!WriteAnswer, Messages!Close, Messages!DrainByte, Messages!DrainEnds,
         Messages!Wait
<1>2. Messages!TypeOK /\ prog.guarded /\ ~prog.answers /\ prog.count \in Nat
  <2>1. Messages!TypeOK
    BY DEF MessageInv
  <2>2. prog.guarded
    BY <1>1, <2>1 DEF Messages!TypeOK, Messages!task_04, Messages!task_05,
                      Messages!socketpair
  <2> QED
    BY <1>1, <2>1, <2>2, ParentFacts DEF Messages!TypeOK
<1>3. /\ Messages!Children' = Messages!Children /\ Messages!Children = 1 .. prog.count
      /\ i \in 1 .. prog.count + 1
  BY <1>1, <1>2 DEF Messages!Children, Messages!TypeOK
<1>4. ForkedInOrder /\ Single(got) /\ Pieces(AllBytes(got, up), sent)
  BY <1>1 DEF BytesInv
<1>5. \A g : Single(g) => Single(g)'
  BY <1>3 DEF Single
<1>6. \A w : Pieces(w, sent) => Pieces(w, sent)'
  BY <1>1, <1>3 DEF Pieces
<1>7. CASE Messages!DrainByte
  <2>1. PICK C : C = Messages!Children
    OBVIOUS
  <2>2. got \in Seq(Seq(C)) /\ up \in Seq(C) /\ up # <<>>
    BY <1>2, <1>7, <2>1 DEF Messages!TypeOK, Messages!DrainByte
  <2>3. /\ pat = "drain" /\ pat' = "drain" /\ UNCHANGED <<i, cat>>
        /\ got' = Append(got, Messages!First(up, 1)) /\ up' = Messages!After(up, 1)
    BY <1>2, <1>7 DEF Messages!DrainByte
  <2>4. /\ got' = Append(got, <<up[1]>>) /\ up[1] \in C
        /\ AllBytes(got', up') = AllBytes(got, up)
    BY <2>2, <2>3, ByteMoves
  <2>5. Single(got')
    <3>1. /\ Len(got) \in Nat /\ Len(got') = Len(got) + 1
          /\ got'[Len(got) + 1] = <<up[1]>>
          /\ \A k \in 1 .. Len(got) : got'[k] = got[k]
      <4>1. <<up[1]>> \in Seq(C)
        BY <2>4
      <4> QED
        BY <2>2, <2>4, <4>1, AppendProperties, LenProperties
    <3> QED
      BY <1>4, <2>1, <2>4, <3>1 DEF Single
  <2>6. ForkedInOrder'
    BY <1>1, <1>3, <1>4, <2>3 DEF ForkedInOrder
  <2>7. Single(got)' /\ Pieces(AllBytes(got, up), sent)'
    BY <1>1, <1>3, <1>4, <2>4, <2>5 DEF Single, Pieces
  <2> QED
    BY <2>6, <2>7
<1>8. CASE UNCHANGED <<got, up>>
  <2>1. Single(got)' /\ Pieces(AllBytes(got, up), sent)'
    BY <1>1, <1>3, <1>4, <1>8 DEF Single, Pieces
  <2>2. ForkedInOrder'
    <3>1. CASE Messages!Fork
      <4>1. /\ pat = "fork" /\ i \in Messages!Children /\ pat' = "fork" /\ i' = i + 1
            /\ \A c \in Messages!Children : cat'[c] = IF c = i THEN "write" ELSE cat[c]
        BY <1>1, <1>2, <3>1 DEF Messages!Fork, Messages!TypeOK
      <4>2. i \notin sent /\ sent \subseteq Messages!Children
        BY <1>2, <1>3, <1>4, <4>1 DEF ForkedInOrder, Messages!TypeOK
      <4> QED
        BY <1>1, <1>3, <1>4, <1>8, <4>1, <4>2 DEF ForkedInOrder
    <3>2. CASE Messages!Close
      BY <1>1, <1>2, <1>3, <1>4, <1>8, <3>2 DEF ForkedInOrder, Messages!Close
    <3>3. CASE Messages!ForkFails \/ Messages!DrainEnds \/ Messages!Wait
      BY <1>1, <1>3, <1>4, <1>8, <3>3
      DEF ForkedInOrder, Messages!ForkFails, Messages!DrainEnds, Messages!Wait
    <3>4. ~Messages!Read /\ ~Messages!WriteAnswer /\ ~Messages!DrainByte
      <4>1. ~Messages!Read /\ ~Messages!WriteAnswer
        BY <1>4 DEF ForkedInOrder, Messages!Read, Messages!WriteAnswer
      <4>2. ~Messages!DrainByte
        <5> SUFFICES ASSUME Messages!DrainByte PROVE FALSE
          OBVIOUS
        <5>1. got \in Seq(Seq(Messages!Children)) /\ Messages!First(up, 1) \in Seq(Messages!Children)
          BY <1>2, FirstAfter DEF Messages!TypeOK
        <5>2. got' = Append(got, Messages!First(up, 1))
          BY <1>2 DEF Messages!DrainByte
        <5>3. Len(got') = Len(got) + 1 /\ Len(got) \in Nat
          BY <5>1, <5>2, AppendProperties, LenProperties
        <5> QED
          BY <1>8, <5>3
      <4> QED
        BY <4>1, <4>2
    <3> QED
      BY <3>1, <3>2, <3>3, <3>4 DEF Messages!Parent
  <2> QED
    BY <2>1, <2>2
<1>9. Messages!DrainByte \/ UNCHANGED <<got, up>>
  BY <1>4 DEF ForkedInOrder, Messages!Parent, Messages!Fork, Messages!ForkFails,
              Messages!Read, Messages!WriteAnswer, Messages!Close, Messages!DrainEnds,
              Messages!Wait
<1> QED
  BY <1>7, <1>8, <1>9

\* Every step preserves it.
LEMMA BytesNext == MessageInv /\ BytesInv /\ [Messages!Next]_(Messages!vars) => BytesInv'
<1> SUFFICES ASSUME MessageInv, BytesInv, [Messages!Next]_(Messages!vars) PROVE BytesInv'
  OBVIOUS
<1>1. CASE Messages!sig_handler \/ UNCHANGED Messages!vars
  <2>1. UNCHANGED <<prog, pat, i, cat, up, got, sent>>
    BY <1>1 DEF Messages!sig_handler, Messages!vars
  <2>2. Messages!Children' = Messages!Children
    BY <2>1 DEF Messages!Children
  <2> QED
    BY <2>1, <2>2 DEF BytesInv, ForkedInOrder, Single, Pieces
<1>2. ASSUME NEW c \in Messages!Children, Messages!Child(c) PROVE BytesInv'
  <2> SUFFICES ASSUME ~prog'.reads
               PROVE  (ForkedInOrder /\ Single(got) /\ Pieces(AllBytes(got, up), sent))'
    BY DEF BytesInv
  <2>1. UNCHANGED <<prog, pat, i, got>> /\ ~prog.reads
    BY <1>2 DEF Messages!Child, Messages!ChildWrites, Messages!ChildReads
  <2>2. Messages!Children' = Messages!Children
    BY <2>1 DEF Messages!Children
  <2>3. ForkedInOrder /\ Single(got) /\ Pieces(AllBytes(got, up), sent)
    BY <2>1 DEF BytesInv
  <2>4. Messages!TypeOK
    BY DEF MessageInv
  <2>5. cat[c] \in {"write", "read"} /\ \E to \in {"read", "dead"} : cat' = [cat EXCEPT ![c] = to]
    BY <1>2 DEF Messages!Child, Messages!ChildWrites, Messages!ChildReads
  <2>6. /\ cat'[c] \in {"read", "dead"}
        /\ \A d \in Messages!Children : d # c => cat'[d] = cat[d]
    BY <2>4, <2>5 DEF Messages!TypeOK
  <2>7. CASE UNCHANGED <<up, sent>>
    <3>1. ForkedInOrder'
      BY <2>1, <2>2, <2>3, <2>4, <2>5, <2>6, <2>7 DEF ForkedInOrder, Messages!TypeOK
    <3>2. Single(got)' /\ Pieces(AllBytes(got, up), sent)'
      BY <2>1, <2>2, <2>3, <2>7 DEF Single, Pieces
    <3> QED
      BY <3>1, <3>2
  <2>8. CASE cat[c] = "write" /\ up' = up \o Messages!Message(c) /\ sent' = sent \cup {c}
    <3>1. c \notin sent /\ pat \notin {"wait", "done"}
      BY <2>3, <2>8 DEF ForkedInOrder
    <3>2. Pieces(AllBytes(got, up \o Messages!Message(c)), sent \cup {c})
      BY <2>3, <3>1, PieceAdded
    <3>3. Single(got)' /\ Pieces(AllBytes(got, up), sent)'
      BY <2>1, <2>2, <2>3, <2>8, <3>2 DEF Single, Pieces
    <3>4. ForkedInOrder'
      BY <2>1, <2>2, <2>3, <2>4, <2>6, <2>8, <3>1 DEF ForkedInOrder, Messages!TypeOK
    <3> QED
      BY <3>3, <3>4
  <2> QED
    BY <1>2, <2>7, <2>8 DEF Messages!Child, Messages!ChildWrites, Messages!ChildReads
<1> QED
  BY <1>1, <1>2, ParentBytes DEF Messages!Next

\* The initial states satisfy it.
LEMMA BytesInit == Messages!Init => BytesInv
<1> SUFFICES ASSUME Messages!Init, ~prog.reads PROVE BytesInv
  BY DEF BytesInv
<1>1. /\ prog.count \in Nat
      /\ \A c \in Messages!Children : cat[c] = "unborn"
      /\ pat = "fork" /\ i = 1 /\ got = <<>> /\ up = <<>> /\ sent = {}
  BY ParentFacts DEF Messages!Init
<1>2. ForkedInOrder /\ Single(got)
  BY <1>1 DEF ForkedInOrder, Single, Messages!Children
<1>3. Len(AllBytes(got, up)) = 0
  BY <1>1 DEF AllBytes
<1>4. Pieces(AllBytes(got, up), sent)
  <2>1. \A c \in Messages!Children : InPiece(AllBytes(got, up), c, 0, 0)
    BY <1>3 DEF InPiece
  <2> QED
    BY <1>1, <2>1 DEF Pieces
<1> QED
  BY <1>2, <1>4 DEF BytesInv

-----------------------------------------------------------------------------
(* TreeWalk.  That the walk stands in a directory is not inductive by itself: it goes up
   from where it stands, so the entries must lie in directories, moved ones too; and it
   takes from the stack after a directory it could not enter, so the stack is not empty
   while it is at one.  No name on the stack is too long for it: what was is garbled. *)

Fitting == {x \in Tree!Elems : x.name \notin long}

TreeInv ==
    /\ Tree!TypeOK
    /\ \A e \in Entries : parent[e] \in Tree!Dirs
    /\ pc \in {"opendir", "chdir", "readdir"} => stk # <<>>
    /\ stk \in Seq(Fitting)
    /\ pc \notin {"start", "failed", "aborted"} => elem \in Fitting

\* The walk stays in the tree when the others change it.
LEMMA OthersStep ==
    ASSUME TreeInv, Tree!Others
    PROVE  TreeInv'
<1>1. UNCHANGED <<name, isDir, closed, noEntry, long, pc, stk, elem, cwd, dp, stats,
               reported>>
  BY DEF Tree!Others, Tree!Unlink, Tree!Move
<1>2. Tree!Dirs' = Tree!Dirs
  BY <1>1 DEF Tree!Dirs
<1>3. /\ parent' \in [Entries -> Entries \cup {Root}] /\ present' \subseteq Entries
      /\ \A e \in Entries : parent'[e] \in Tree!Dirs
  <2>1. ASSUME NEW e \in Entries, Tree!Unlink(e)
        PROVE  UNCHANGED parent /\ present' \subseteq Entries
    BY <2>1 DEF TreeInv, Tree!TypeOK, Tree!Unlink
  <2>2. ASSUME NEW e \in Entries, NEW d \in Entries \cup {Root}, Tree!Move(e, d)
        PROVE  /\ parent' \in [Entries -> Entries \cup {Root}] /\ UNCHANGED present
               /\ \A f \in Entries : parent'[f] \in Tree!Dirs
    BY <2>2 DEF TreeInv, Tree!TypeOK, Tree!Move
  <2> QED
    BY <2>1, <2>2 DEF Tree!Others, TreeInv, Tree!TypeOK
<1>4. Tree!TypeOK'
  BY <1>1, <1>2, <1>3 DEF TreeInv, Tree!TypeOK, Tree!Elems
<1>5. Fitting' = Fitting
  BY <1>1 DEF Fitting, Tree!Elems
<1> QED
  BY <1>1, <1>2, <1>3, <1>4, <1>5 DEF TreeInv

\* What create_node makes of a name fits.
LEMMA NodeFits ==
    ASSUME TreeInv, NEW n \in Names \cup {Root, "..", "garbled"}, NEW d \in Nat \cup {-1}
    PROVE  /\ Tree!create_node(n, d) \in Fitting
           /\ n \notin long => Tree!create_node(n, d) = [name |-> n, depth |-> d]
<1>1. "garbled" \notin long
  BY Assumptions DEF TreeInv, Tree!TypeOK, Tree!TreeAssumption
<1>2. CASE n \in long
  BY <1>1, <1>2 DEF Tree!create_node, Fitting, Tree!Elems
<1>3. CASE n \notin long
  BY <1>3 DEF Tree!create_node, Fitting, Tree!Elems
<1> QED
  BY <1>2, <1>3

\* The way back fits as it is.
LEMMA BackFits ==
    ASSUME TreeInv
    PROVE  /\ Tree!create_node("..", -1) = [name |-> "..", depth |-> -1]
           /\ Tree!create_node("..", -1) \in Fitting
<1>1. ".." \notin long
  BY Assumptions DEF TreeInv, Tree!TypeOK, Tree!TreeAssumption
<1> QED
  BY <1>1, NodeFits

\* What is put on the stack before others.
LEMMA PushFits ==
    ASSUME TreeInv, NEW s \in Seq(Fitting), NEW x \in Fitting
    PROVE  Tree!push(s, x) = <<x>> \o s /\ Tree!push(s, x) \in Seq(Fitting)
<1>1. x \in Tree!Elems /\ x.name \notin long
  BY DEF Fitting
<1>2. x = [name |-> x.name, depth |-> x.depth]
  BY <1>1 DEF Tree!Elems
<1>3. Tree!create_node(x.name, x.depth) = x
  BY <1>1, <1>2 DEF Tree!create_node
<1>4. PICK E : E = Fitting
  OBVIOUS
<1>5. <<x>> \o s \in Seq(E)
  BY <1>4
<1> QED
  BY <1>3, <1>4, <1>5 DEF Tree!push

\* What is taken from a stack that is not empty.
LEMMA PopTypes ==
    ASSUME NEW E, NEW s \in Seq(E), s # <<>>, Tree!pop(s)
    PROVE  elem' \in E /\ stk' \in Seq(E) /\ pc' = "loop"
<1>1. Head(s) \in E /\ Tail(s) \in Seq(E)
  BY HeadTailProperties
<1> QED
  BY <1>1 DEF Tree!pop

\* What is looked up is an entry or the root, and the counters count on.
LEMMA LookupTypes ==
    ASSUME TreeInv
    PROVE  /\ Tree!Lookup \subseteq Entries \cup {Root}
           /\ Tree!Dirs \subseteq Entries \cup {Root}
           /\ [stats EXCEPT !.file = @ + 1] \in [file : Nat, dir : Nat]
           /\ [stats EXCEPT !.dir = @ + 1] \in [file : Nat, dir : Nat]
BY DEF TreeInv, Tree!TypeOK, Tree!Lookup, Tree!Children, Tree!Dirs

\* The names of a directory, in any order, are elements to be pushed.
LEMMA NamesRead ==
    ASSUME TreeInv, NEW order \in Tree!SetToSeqs(Tree!Children(dp))
    PROVE  /\ Len(order) \in Nat
           /\ order \in [1 .. Len(order) -> Tree!Children(dp)]
           /\ [k \in 1 .. Len(order) |->
                 Tree!create_node(name[order[k]], elem.depth + 1)] \in Seq(Fitting)
<1>1. /\ Tree!Children(dp) \subseteq Entries /\ Tree!IsFiniteSet(Entries)
  BY Assumptions DEF TreeInv, Tree!TypeOK, Tree!Children, Tree!TreeAssumption
<1>2. IsFiniteSet(Entries)
  BY <1>1 DEF IsFiniteSet, Tree!IsFiniteSet
<1>3. Cardinality(Tree!Children(dp)) \in Nat
  BY <1>1, <1>2, FS_Subset, FS_CardinalityType
<1>4. Tree!Cardinality(Tree!Children(dp)) = Cardinality(Tree!Children(dp))
  BY DEF Tree!Cardinality, Cardinality
<1>5. PICK n \in Nat : order \in [1 .. n -> Tree!Children(dp)]
  BY <1>3, <1>4 DEF Tree!SetToSeqs
<1>6. Len(order) = n
  BY <1>5
<1>7. ASSUME NEW k \in 1 .. n
      PROVE  Tree!create_node(name[order[k]], elem.depth + 1) \in Fitting
  <2>1. name[order[k]] \in Names
    BY <1>1, <1>5, <1>7 DEF TreeInv, Tree!TypeOK
  <2>2. elem.depth \in Nat \cup {-1}
    BY DEF TreeInv, Tree!TypeOK, Tree!Elems
  <2>3. elem.depth + 1 \in Nat
    BY <2>2
  <2> QED
    BY <2>1, <2>3, NodeFits
<1>8. PICK E : E = Fitting
  OBVIOUS
<1>9. [k \in 1 .. n |-> Tree!create_node(name[order[k]], elem.depth + 1)] \in Seq(E)
  BY <1>5, <1>7, <1>8
<1> QED
  BY <1>5, <1>6, <1>8, <1>9

\* A step of the walk.
LEMMA WalkStep ==
    ASSUME TreeInv, Tree!Walk
    PROVE  TreeInv'
<1>1. UNCHANGED <<parent, name, isDir, closed, noEntry, long, present, moved>>
  BY DEF Tree!Walk, Tree!tree, Tree!Begin, Tree!BeginFails, Tree!Finish, Tree!GoUp,
         Tree!LstatFails, Tree!VisitFile, Tree!VisitDir, Tree!Opendir,
         Tree!OpendirFails, Tree!Chdir, Tree!ChdirFails, Tree!Readdir,
         Tree!Abort
<1>2. Tree!Dirs' = Tree!Dirs
  BY <1>1 DEF Tree!Dirs
<1>3. Fitting' = Fitting
  BY <1>1 DEF Fitting, Tree!Elems
<1>4. Fitting \subseteq Tree!Elems /\ Seq(Fitting) \subseteq Seq(Tree!Elems)
  <2>1. PICK E, D : E = Fitting /\ D = Tree!Elems
    OBVIOUS
  <2>2. E \subseteq D
    BY <2>1 DEF Fitting
  <2> QED
    BY <2>1, <2>2
<1>5. SUFFICES
        /\ pc' \in {"start", "loop", "opendir", "chdir", "readdir", "done", "failed",
                    "aborted"}
        /\ stk' \in Seq(Fitting)
        /\ pc' \notin {"start", "failed", "aborted"} => elem' \in Fitting
        /\ pc' \in {"failed", "aborted"} => elem' = elem
        /\ pc' # "start"
        /\ cwd' \in Tree!Dirs \cup {Outside} /\ dp' \in Tree!Dirs \cup {Outside}
        /\ stats' \in [file : Nat, dir : Nat]
        /\ pc' \in {"opendir", "chdir", "readdir"} => stk' # <<>>
  BY <1>1, <1>2, <1>3, <1>4 DEF TreeInv, Tree!TypeOK, Tree!Elems
<1>6. /\ stk \in Seq(Fitting)
      /\ pc \notin {"start", "failed", "aborted"} => elem \in Fitting
      /\ cwd \in Tree!Dirs \cup {Outside} /\ dp \in Tree!Dirs \cup {Outside}
      /\ stats \in [file : Nat, dir : Nat]
  BY DEF TreeInv, Tree!TypeOK
<1>7. CASE Tree!Begin
  <2>1. elem' \in Fitting
    BY <1>7, NodeFits DEF Tree!Begin
  <2>2. stk' \in Seq(Fitting)
    BY <1>6, <1>7, <2>1, PushFits DEF Tree!Begin
  <2> QED
    BY <1>6, <1>7, <2>1, <2>2 DEF Tree!Begin, Tree!Dirs
<1>8. CASE Tree!BeginFails \/ Tree!Finish \/ Tree!Abort
  BY <1>6, <1>8 DEF Tree!BeginFails, Tree!Finish, Tree!Abort
<1>9. CASE Tree!GoUp
  <2>1. Tree!Up(cwd) \in Tree!Dirs \cup {Outside}
    BY <1>6 DEF Tree!Up, TreeInv, Tree!Dirs, Tree!TypeOK
  <2> QED
    BY <1>6, <1>9, <2>1, PopTypes DEF Tree!GoUp, Tree!InLoop
<1>10. CASE Tree!LstatFails
  BY <1>6, <1>10, PopTypes DEF Tree!LstatFails, Tree!InLoop
<1>11. CASE Tree!VisitFile
  BY <1>6, <1>11, PopTypes, LookupTypes DEF Tree!VisitFile, Tree!InLoop
<1>12. CASE Tree!VisitDir
  BY <1>6, <1>12, LookupTypes DEF Tree!VisitDir, Tree!InLoop
<1>13. CASE Tree!Opendir
  BY <1>6, <1>13 DEF Tree!Opendir, TreeInv
<1>14. CASE Tree!OpendirFails
  BY <1>6, <1>14, PopTypes DEF Tree!OpendirFails, TreeInv
<1>15. CASE Tree!Chdir
  BY <1>6, <1>15 DEF Tree!Chdir, TreeInv
<1>16. CASE Tree!ChdirFails
  BY <1>6, <1>16, PopTypes DEF Tree!ChdirFails, TreeInv
<1>17. CASE Tree!Readdir
  <2>1. PICK order \in Tree!SetToSeqs(Tree!Children(dp)) :
          Tree!pop([k \in 1 .. Len(order) |->
                      Tree!create_node(name[order[k]], elem.depth + 1)]
                   \o Tree!push(stk, Tree!create_node("..", -1)))
    BY <1>17 DEF Tree!Readdir
  <2> DEFINE read == [k \in 1 .. Len(order) |->
                        Tree!create_node(name[order[k]], elem.depth + 1)]
             left == Tree!push(stk, Tree!create_node("..", -1))
  <2>2. read \in Seq(Fitting)
    BY <2>1, NamesRead
  <2>3. PICK back \in Fitting : back = Tree!create_node("..", -1)
    BY BackFits
  <2>4. left = <<back>> \o stk /\ left \in Seq(Fitting)
    BY <1>6, <2>3, PushFits
  <2>5. Tree!pop(read \o left)
    BY <2>1
  <2> HIDE DEF read, left
  <2>6. read \o left \in Seq(Fitting) /\ read \o left # <<>>
    <3>1. PICK E : E = Fitting
      OBVIOUS
    <3>2. stk \in Seq(E) /\ back \in E /\ read \in Seq(E)
      BY <1>6, <2>2, <2>3, <3>1
    <3>3. Len(left) > 0 /\ left \in Seq(E)
      BY <2>4, <3>1, <3>2
    <3> QED
      BY <3>1, <3>2, <3>3
  <2> QED
    BY <1>6, <1>17, <2>5, <2>6, PopTypes DEF Tree!Readdir
<1> QED
  BY <1>7, <1>8, <1>9, <1>10, <1>11, <1>12, <1>13, <1>14, <1>15, <1>16, <1>17 DEF Tree!Walk

\* The initial states satisfy the invariant.
LEMMA TreeInit == Tree!Init => TreeInv
<1> SUFFICES ASSUME Tree!Init PROVE TreeInv
  OBVIOUS
<1>1. stk = <<>> /\ stk \in Seq(Tree!Elems) /\ stk \in Seq(Fitting) /\ pc = "start"
  BY DEF Tree!Init
<1>2. elem \in Tree!Elems
  BY DEF Tree!Init, Tree!Elems
<1> QED
  BY <1>1, <1>2 DEF Tree!Init, TreeInv, Tree!TypeOK, Tree!Dirs

\* Every step preserves the invariant.
LEMMA TreeNext == TreeInv /\ [Tree!Next]_(Tree!vars) => TreeInv'
<1> SUFFICES ASSUME TreeInv, [Tree!Next]_(Tree!vars) PROVE TreeInv'
  OBVIOUS
<1>1. CASE UNCHANGED Tree!vars
  BY <1>1 DEF Tree!vars, Tree!tree, TreeInv, Tree!TypeOK, Tree!Dirs, Tree!Elems, Fitting
<1> QED
  BY <1>1, WalkStep, OthersStep DEF Tree!Next

-----------------------------------------------------------------------------
(* What the walk does while nothing is moved.  The names on the stack are looked up in
   whatever directory the walk then stands in, so the invariant says which directory that
   will be for each of them: the one the walk is in, and after each ".." the one above.
   A directory is read once, and after that its entries are visited or on the stack.
   The operators are about any tree, with parents p, names nm and entries pres that can be
   found, and about any visits rep, so that the lemmas hold before and after a step.  A
   garbled name stands for no entry, and several elements may have it. *)

Nodes == Entries \cup {Root}

Above1(p, x) == IF x \in {Root, Outside} THEN Outside ELSE p[x]

\* Where the elements of q will be looked up when the walk stands in c; at the last, the
\* root again, it ends.
Places(p, q, c, d) ==
    /\ d \in [1 .. Len(q) -> Nodes \cup {Outside}]
    /\ d[1] = c
    /\ \A k \in 1 .. Len(q) - 1 : d[k + 1] = IF q[k].depth < 0 THEN Above1(p, d[k]) ELSE d[k]
    /\ d[Len(q)] = Outside

\* An element x that is looked up in c stands for e.
Denotes(p, nm, x, c, e) == x.depth >= 0 /\ c = p[e] /\ x.name = nm[e]

OrGarbled == Names \cup {"garbled"}

\* The elements are looked up in directories of S, and have the depth that follows.
InRead(rep, q, d, S) ==
    \A k \in 1 .. Len(q) - 1 :
        /\ d[k] \in S
        /\ q[k].depth >= 0 => q[k].name \in OrGarbled /\ q[k].depth = rep[d[k]][1] + 1

\* They stand for entries that are not visited yet, each for another one.
Unvisited(p, nm, rep, q, d) ==
    \A k \in 1 .. Len(q) - 1, e \in Entries :
        Denotes(p, nm, q[k], d[k], e) => rep[e] = <<>>

Different(q, d) ==
    \A k, l \in 1 .. Len(q) - 1 :
        k # l /\ q[k].depth >= 0 /\ q[l].depth >= 0 /\ d[k] = d[l] /\ q[k].name # "garbled" =>
            q[k].name # q[l].name

\* All entries of S that are not visited yet are among them.
NoneMissed(p, nm, pres, rep, q, d, S) ==
    \A e \in pres : p[e] \in S /\ rep[e] = <<>> =>
        \E k \in 1 .. Len(q) - 1 : Denotes(p, nm, q[k], d[k], e)

Listed(p, nm, pres, rep, q, d, S) ==
    /\ InRead(rep, q, d, S)
    /\ Unvisited(p, nm, rep, q, d)
    /\ Different(q, d)
    /\ NoneMissed(p, nm, pres, rep, q, d, S)

Work(p, nm, pres, rep, q, c, S) ==
    \E d : Places(p, q, c, d) /\ Listed(p, nm, pres, rep, q, d, S)

\* An element x that is looked up in c has a name and the depth that follows, and what it
\* stands for is not visited yet.
ToVisit(p, nm, rep, x, c) ==
    /\ x.depth >= 0 => x.name \in OrGarbled /\ x.depth = rep[c][1] + 1
    /\ \A e \in Entries : Denotes(p, nm, x, c, e) => rep[e] = <<>>

\* So it is with the first of the elements.
LEMMA WorkHead ==
    ASSUME NEW p, NEW nm, NEW pres, NEW rep, NEW q \in Seq(Tree!Elems), NEW c, NEW S,
           Work(p, nm, pres, rep, q, c, S), Len(q) > 1
    PROVE  c \in S /\ ToVisit(p, nm, rep, q[1], c)
<1>1. PICK d : Places(p, q, c, d) /\ Listed(p, nm, pres, rep, q, d, S)
  BY DEF Work
<1>2. 1 \in 1 .. Len(q) - 1 /\ d[1] = c
  BY <1>1 DEF Places
<1> QED
  BY <1>1, <1>2 DEF Listed, InRead, Unvisited, ToVisit

\* The last of them.
LEMMA WorkLast ==
    ASSUME NEW p, NEW nm, NEW pres, NEW rep, NEW q \in Seq(Tree!Elems), NEW c, NEW S,
           Work(p, nm, pres, rep, q, c, S), Len(q) = 1
    PROVE  c = Outside /\ \A e \in pres : p[e] \in S => rep[e] # <<>>
<1>1. PICK d : Places(p, q, c, d) /\ Listed(p, nm, pres, rep, q, d, S)
  BY DEF Work
<1> QED
  BY <1>1 DEF Places, Listed, NoneMissed

\* A list of one, when there is nothing to visit.
LEMMA WorkOne ==
    ASSUME NEW p, NEW nm, NEW pres, NEW rep, NEW q \in Seq(Tree!Elems), Len(q) = 1
    PROVE  Work(p, nm, pres, rep, q, Outside, {})
<1> DEFINE d == [k \in 1 .. Len(q) |-> Outside]
<1>1. Places(p, q, Outside, d)
  BY DEF Places
<1>2. Listed(p, nm, pres, rep, q, d, {})
  BY DEF Listed, InRead, Unvisited, Different, NoneMissed
<1> QED
  BY <1>1, <1>2 DEF Work

\* An entry less changes nothing.
LEMMA WorkUnlinked ==
    ASSUME NEW p, NEW nm, NEW pres, NEW rep, NEW q, NEW c, NEW S,
           Work(p, nm, pres, rep, q, c, S), NEW left \in SUBSET pres
    PROVE  Work(p, nm, left, rep, q, c, S)
BY DEF Work, Listed, NoneMissed

\* A directory that is not read counts as read when there is nothing in it.
LEMMA WorkWider ==
    ASSUME NEW p, NEW nm, NEW pres, NEW rep, NEW q, NEW c, NEW S, NEW h,
           Work(p, nm, pres, rep, q, c, S \ {h}),
           h \in S => \A e \in pres : p[e] # h
    PROVE  Work(p, nm, pres, rep, q, c, S)
<1>1. PICK d : Places(p, q, c, d) /\ Listed(p, nm, pres, rep, q, d, S \ {h})
  BY DEF Work
<1>2. InRead(rep, q, d, S)
  BY <1>1 DEF Listed, InRead
<1>3. NoneMissed(p, nm, pres, rep, q, d, S)
  BY <1>1 DEF Listed, NoneMissed
<1> QED
  BY <1>1, <1>2, <1>3 DEF Work, Listed

\* No entry has a garbled name.
LEMMA NamesClean ==
    ASSUME NEW nm \in [Entries -> Names], NEW e \in Entries
    PROVE  nm[e] # "garbled"
BY Assumptions DEF Tree!TreeAssumption

\* The first element is dealt with: what it stands for is visited, or gone.
LEMMA WorkDone ==
    ASSUME NEW p, NEW nm \in [Entries -> Names], NEW pres \in SUBSET Entries, NEW rep,
           NEW q \in Seq(Tree!Elems), NEW c, NEW S, NEW new,
           Work(p, nm, pres, rep, q, c, S), Len(q) > 1,
           \A x \in S : new[x] = rep[x],
           \A e, f \in Entries : p[e] = p[f] /\ nm[e] = nm[f] => e = f,
           \A e \in Entries : new[e] # rep[e] => Denotes(p, nm, q[1], c, e),
           \A e \in pres : Denotes(p, nm, q[1], c, e) => new[e] # <<>>
    PROVE  Work(p, nm, pres, new, Tail(q), IF q[1].depth < 0 THEN Above1(p, c) ELSE c, S)
<1> DEFINE r == Tail(q)
           to == IF q[1].depth < 0 THEN Above1(p, c) ELSE c
<1>1. PICK d : Places(p, q, c, d) /\ Listed(p, nm, pres, rep, q, d, S)
  BY DEF Work
<1>2. PICK n \in Nat : Len(q) = n + 1 /\ n > 0
  BY LenProperties
<1>3. Len(r) = n /\ \A k \in 1 .. n : r[k] = q[k + 1]
  BY <1>2
<1> DEFINE g == [k \in 1 .. n |-> d[k + 1]]
<1>4. Places(p, r, to, g)
  <2>1. g \in [1 .. Len(r) -> Nodes \cup {Outside}]
    BY <1>1, <1>2, <1>3 DEF Places
  <2>2. g[1] = to
    BY <1>1, <1>2 DEF Places
  <2>3. g[Len(r)] = Outside
    BY <1>1, <1>2, <1>3 DEF Places
  <2>4. ASSUME NEW k \in 1 .. Len(r) - 1
        PROVE  g[k + 1] = IF r[k].depth < 0 THEN Above1(p, g[k]) ELSE g[k]
    <3>1. k + 1 \in 1 .. Len(q) - 1 /\ k \in 1 .. n /\ k + 1 \in 1 .. n
      BY <1>2, <1>3, <2>4
    <3>2. d[(k + 1) + 1] = IF q[k + 1].depth < 0 THEN Above1(p, d[k + 1]) ELSE d[k + 1]
      BY <1>1, <3>1 DEF Places
    <3> QED
      BY <1>3, <3>1, <3>2
  <2> QED
    BY <2>1, <2>2, <2>3, <2>4 DEF Places
<1>5. \A k \in 1 .. Len(r) - 1 :
        /\ k + 1 \in 1 .. Len(q) - 1 /\ k + 1 # 1
        /\ r[k] = q[k + 1] /\ g[k] = d[k + 1]
  BY <1>2, <1>3
<1>6. 1 \in 1 .. Len(q) - 1 /\ d[1] = c
  BY <1>1, <1>2 DEF Places
<1> HIDE DEF r, g, to
<1>7. InRead(new, r, g, S)
  <2> SUFFICES ASSUME NEW k \in 1 .. Len(r) - 1
               PROVE  /\ g[k] \in S
                      /\ r[k].depth >= 0 => r[k].name \in OrGarbled
                                            /\ r[k].depth = new[g[k]][1] + 1
    BY DEF InRead
  <2>1. PICK l \in 1 .. Len(q) - 1 : r[k] = q[l] /\ g[k] = d[l]
    BY <1>5
  <2>2. d[l] \in S /\ new[d[l]] = rep[d[l]]
    BY <1>1, <2>1 DEF Listed, InRead
  <2>3. q[l].depth >= 0 => q[l].name \in OrGarbled /\ q[l].depth = rep[d[l]][1] + 1
    BY <1>1, <2>1 DEF Listed, InRead
  <2> QED
    BY <2>1, <2>2, <2>3
<1>8. Different(r, g)
  <2> SUFFICES ASSUME NEW k \in 1 .. Len(r) - 1, NEW l \in 1 .. Len(r) - 1, k # l,
                      r[k].depth >= 0, r[l].depth >= 0, g[k] = g[l], r[k].name # "garbled"
               PROVE  r[k].name # r[l].name
    BY DEF Different
  <2>1. k + 1 # l + 1
    OBVIOUS
  <2> QED
    BY <1>1, <1>5, <2>1, SMTT(30) DEF Listed, Different
<1>9. Unvisited(p, nm, new, r, g)
  <2> SUFFICES ASSUME NEW k \in 1 .. Len(r) - 1, NEW e \in Entries,
                      Denotes(p, nm, r[k], g[k], e)
               PROVE  new[e] = <<>>
    BY DEF Unvisited
  <2>1. /\ k + 1 \in 1 .. Len(q) - 1 /\ k + 1 # 1
        /\ Denotes(p, nm, q[k + 1], d[k + 1], e)
    BY <1>5
  <2>2. rep[e] = <<>>
    BY <1>1, <2>1 DEF Listed, Unvisited
  <2>3. ~Denotes(p, nm, q[1], c, e)
    <3>1. SUFFICES ASSUME Denotes(p, nm, q[1], c, e) PROVE FALSE
      OBVIOUS
    <3>2. /\ q[1].depth >= 0 /\ q[k + 1].depth >= 0 /\ d[1] = d[k + 1]
          /\ q[1].name = q[k + 1].name /\ q[1].name # "garbled"
      BY <1>6, <2>1, <3>1, NamesClean DEF Denotes
    <3> QED
      BY <1>1, <1>6, <2>1, <3>2 DEF Listed, Different
  <2> QED
    BY <2>2, <2>3
<1>10. NoneMissed(p, nm, pres, new, r, g, S)
  <2> SUFFICES ASSUME NEW e \in pres, p[e] \in S, new[e] = <<>>
               PROVE  \E k \in 1 .. Len(r) - 1 : Denotes(p, nm, r[k], g[k], e)
    BY DEF NoneMissed
  <2>1. ~Denotes(p, nm, q[1], c, e) /\ rep[e] = <<>>
    OBVIOUS
  <2>2. PICK k \in 1 .. Len(q) - 1 : Denotes(p, nm, q[k], d[k], e)
    BY <1>1, <2>1 DEF Listed, NoneMissed
  <2>3. k # 1
    BY <1>6, <2>1, <2>2
  <2>4. PICK m \in 1 .. Len(r) - 1 : k = m + 1
    <3>1. k - 1 \in 1 .. Len(r) - 1 /\ k = (k - 1) + 1
      BY <1>2, <1>3, <2>3 DEF r
    <3> QED
      BY <3>1
  <2>5. Denotes(p, nm, r[m], g[m], e)
    BY <1>5, <2>2, <2>4
  <2> QED
    BY <2>4, <2>5
<1>11. Work(p, nm, pres, new, r, to, S)
  BY <1>4, <1>7, <1>8, <1>9, <1>10 DEF Work, Listed
<1> QED
  BY <1>11 DEF r, to

\* The n entries of h among those of all, in some order.
Contents(p, all, h, n, order) ==
    /\ order \in [1 .. n -> {e \in all : p[e] = h}]
    /\ \A k, l \in 1 .. n : k # l => order[k] # order[l]
    /\ \A e \in all : p[e] = h => \E k \in 1 .. n : order[k] = e

\* The list w is q with the names of these entries, those of pres as they are, and the way
\* back before it.
Pushed(nm, pres, w, n, order, level, q) ==
    /\ Len(w) = n + 1 + Len(q)
    /\ \A k \in 1 .. n :
          /\ w[k].name \in {nm[order[k]], "garbled"} /\ w[k].depth = level + 1
          /\ order[k] \in pres => w[k].name = nm[order[k]]
    /\ w[n + 1].depth = -1
    /\ \A k \in 1 .. Len(q) : w[n + 1 + k] = q[k]

\* No two entries of a directory share a name.
OwnNames(p, nm) == \A e, f \in Entries : p[e] = p[f] /\ nm[e] = nm[f] => e = f

NoChildVisited(p, rep, h) == \A e \in Entries : p[e] = h => rep[e] = <<>>

\* The directory h is read: its entries come first, then the way back, then the rest.
LEMMA WorkRead ==
    ASSUME NEW p, NEW nm \in [Entries -> Names], NEW all \in SUBSET Entries,
           NEW pres \in SUBSET all, NEW rep, NEW q \in Seq(Tree!Elems), NEW S,
           NEW h \in S, NEW n \in Nat, NEW order, NEW w,
           Work(p, nm, pres, rep, q, Above1(p, h), S \ {h}), q # <<>>,
           h \in Nodes, rep[h][1] \in Nat, NoChildVisited(p, rep, h), OwnNames(p, nm),
           Contents(p, all, h, n, order), Pushed(nm, pres, w, n, order, rep[h][1], q)
    PROVE  Work(p, nm, pres, rep, w, h, S)
<1>1. PICK d : /\ Places(p, q, Above1(p, h), d)
               /\ Listed(p, nm, pres, rep, q, d, S \ {h})
  BY DEF Work
<1>2. PICK m \in Nat : Len(q) = m /\ m > 0
  BY LenProperties
<1>12. Len(w) = n + 1 + Len(q)
  BY Zenon DEF Pushed
<1>13. PICK v \in Nat : v = rep[h][1] + 1
  OBVIOUS
<1>16. \A k \in 1 .. n : /\ w[k].name \in {nm[order[k]], "garbled"} /\ w[k].depth = v
                         /\ order[k] \in pres => w[k].name = nm[order[k]]
  BY <1>13, Zenon DEF Pushed
<1>14. w[n + 1].depth = -1
  BY Zenon DEF Pushed
<1>15. \A k \in 1 .. Len(q) : w[n + 1 + k] = q[k]
  BY Zenon DEF Pushed
<1> DEFINE g == [k \in 1 .. n + 1 + m |-> IF k <= n + 1 THEN h ELSE d[k - n - 1]]
<1>3. \A k \in 1 .. Len(w) - 1 :
        \/ k \in 1 .. n /\ g[k] = h
        \/ k = n + 1 /\ g[k] = h
        \/ \E j \in 1 .. m - 1 : k = n + 1 + j
  <2>1. ASSUME NEW k \in 1 .. n + m, k > n + 1
        PROVE  \E j \in 1 .. m - 1 : k = n + 1 + j
    <3>1. k - n - 1 \in 1 .. m - 1 /\ k = n + 1 + (k - n - 1)
      BY <2>1
    <3> QED
      BY <3>1
  <2>2. Len(w) - 1 = n + m
    BY <1>2, <1>12
  <2>3. \A k \in 1 .. n + 1 : g[k] = h
    OBVIOUS
  <2> HIDE DEF g
  <2> QED
    BY <2>1, <2>2, <2>3
<1>4. /\ \A k \in 1 .. n + 1 : g[k] = h
      /\ \A j \in 1 .. m : n + 1 + j \in 1 .. n + 1 + m /\ g[n + 1 + j] = d[j]
  <2>1. ASSUME NEW j \in 1 .. m
        PROVE  n + 1 + j \in 1 .. n + 1 + m /\ g[n + 1 + j] = d[j]
    <3>1. n + 1 + j \in 1 .. n + 1 + m /\ ~(n + 1 + j <= n + 1) /\ (n + 1 + j) - n - 1 = j
      BY <2>1
    <3> QED
      BY <3>1
  <2> QED
    BY <2>1
<1>5. \A k \in 1 .. n : /\ w[k].depth >= 0 /\ w[k].name \in {nm[order[k]], "garbled"}
                        /\ order[k] \in Entries /\ nm[order[k]] \in Names
                        /\ order[k] \in all /\ p[order[k]] = h
                        /\ order[k] \in pres => w[k].name = nm[order[k]]
  <2>1. \A k \in 1 .. n : w[k].depth >= 0
    BY <1>13, <1>16
  <2>2. \A k \in 1 .. n : order[k] \in all /\ p[order[k]] = h
    BY DEF Contents
  <2> QED
    BY <1>16, <2>1, <2>2
<1>6. Places(p, w, h, g)
  <2>1. ASSUME NEW k \in 1 .. n + 1 + m PROVE g[k] \in Nodes \cup {Outside}
    <3>1. CASE k <= n + 1
      BY <3>1
    <3>2. CASE ~(k <= n + 1)
      <4>1. k - n - 1 \in 1 .. m
        BY <3>2
      <4> QED
        BY <1>1, <1>2, <3>2, <4>1 DEF Places
    <3> QED
      BY <3>1, <3>2
  <2>2. g \in [1 .. Len(w) -> Nodes \cup {Outside}]
    BY <1>2, <1>12, <2>1
  <2>3. g[1] = h
    BY <1>4
  <2>4. g[Len(w)] = Outside
    <3>1. Len(w) = n + 1 + m /\ m \in 1 .. m
      BY <1>2, <1>12
    <3> QED
      BY <1>1, <1>2, <1>4, <3>1 DEF Places
  <2> HIDE DEF g
  <2>5. ASSUME NEW k \in 1 .. Len(w) - 1
        PROVE  g[k + 1] = IF w[k].depth < 0 THEN Above1(p, g[k]) ELSE g[k]
    <3>1. CASE k \in 1 .. n
      <4>1. k + 1 \in 1 .. n + 1 /\ k \in 1 .. n + 1
        BY <3>1
      <4>2. w[k].depth \in Nat
        BY <1>13, <1>16, <3>1
      <4> QED
        BY <1>4, <4>1, <4>2
    <3>2. CASE k = n + 1
      <4>1. w[k].depth < 0 /\ k + 1 = n + 1 + 1 /\ 1 \in 1 .. m /\ k \in 1 .. n + 1
        BY <1>2, <1>14, <3>2
      <4>2. g[k + 1] = d[1] /\ g[k] = h
        BY <1>4, <4>1
      <4> QED
        BY <1>1, <4>1, <4>2 DEF Places
    <3>3. CASE \E j \in 1 .. m - 1 : k = n + 1 + j
      <4>1. PICK j \in 1 .. m - 1 : k = n + 1 + j
        BY <3>3
      <4>2. k + 1 = n + 1 + (j + 1) /\ j \in 1 .. m /\ j + 1 \in 1 .. m
        BY <4>1, SMTT(40)
      <4>3. g[k] = d[j] /\ g[k + 1] = d[j + 1] /\ w[k] = q[j]
        BY <1>2, <1>4, <1>15, <4>1, <4>2
      <4> QED
        BY <1>1, <1>2, <4>1, <4>3 DEF Places
    <3> QED
      BY <1>3, <3>1, <3>2, <3>3
  <2> QED
    BY <2>2, <2>3, <2>4, <2>5 DEF Places
<1>7. \A j \in 1 .. m - 1 : /\ w[n + 1 + j] = q[j] /\ g[n + 1 + j] = d[j] /\ d[j] # h
                            /\ j \in 1 .. Len(q) - 1 /\ d[j] \in S
  <2>1. ASSUME NEW j \in 1 .. m - 1
        PROVE  /\ w[n + 1 + j] = q[j] /\ g[n + 1 + j] = d[j] /\ d[j] # h
               /\ j \in 1 .. Len(q) - 1 /\ d[j] \in S
    <3>1. j \in 1 .. m /\ j \in 1 .. Len(q) - 1 /\ j \in 1 .. Len(q)
      BY <1>2
    <3>2. d[j] \in S \ {h}
      BY <1>1, <3>1 DEF Listed, InRead
    <3> HIDE DEF g
    <3> QED
      BY <1>4, <1>15, <3>1, <3>2
  <2> HIDE DEF g
  <2> QED
    BY <2>1
<1> HIDE DEF g
<1>8. InRead(rep, w, g, S)
  <2> SUFFICES ASSUME NEW k \in 1 .. Len(w) - 1
               PROVE  /\ g[k] \in S
                      /\ w[k].depth >= 0 => w[k].name \in OrGarbled
                                            /\ w[k].depth = rep[g[k]][1] + 1
    BY DEF InRead
  <2>1. CASE k \in 1 .. n
    <3>1. g[k] = h
      BY <1>4, <2>1
    <3> QED
      BY <1>5, <1>13, <1>16, <2>1, <3>1 DEF OrGarbled
  <2>2. CASE k = n + 1
    <3>1. g[k] = h /\ ~(w[k].depth >= 0)
      BY <1>4, <1>14, <2>2
    <3> QED
      BY <3>1
  <2>3. CASE \E j \in 1 .. m - 1 : k = n + 1 + j
    <3>1. PICK j \in 1 .. m - 1 : k = n + 1 + j
      BY <2>3
    <3>2. g[k] = d[j] /\ d[j] \in S /\ w[k] = q[j] /\ j \in 1 .. Len(q) - 1
      BY <1>7, <3>1
    <3>3. q[j].depth >= 0 => q[j].name \in OrGarbled /\ q[j].depth = rep[d[j]][1] + 1
      BY <1>1, <3>2 DEF Listed, InRead
    <3> QED
      BY <3>2, <3>3
  <2> QED
    BY <1>3, <2>1, <2>2, <2>3
<1>9. Unvisited(p, nm, rep, w, g)
  <2> SUFFICES ASSUME NEW k \in 1 .. Len(w) - 1, NEW e \in Entries,
                      Denotes(p, nm, w[k], g[k], e)
               PROVE  rep[e] = <<>>
    BY DEF Unvisited
  <2>1. CASE k \in 1 .. n + 1
    BY <1>4, <2>1 DEF Denotes, NoChildVisited
  <2>2. CASE \E j \in 1 .. m - 1 : k = n + 1 + j
    BY <1>1, <1>7, <2>2 DEF Listed, Unvisited
  <2> QED
    BY <1>3, <2>1, <2>2, SMTT(30)
<1>10. Different(w, g)
  <2> SUFFICES ASSUME NEW k \in 1 .. Len(w) - 1, NEW l \in 1 .. Len(w) - 1, k # l,
                      w[k].depth >= 0, w[l].depth >= 0, g[k] = g[l],
                      w[k].name # "garbled"
               PROVE  w[k].name # w[l].name
    BY DEF Different
  <2>1. ASSUME NEW x \in {k, l}
        PROVE  \/ x \in 1 .. n /\ g[x] = h
               \/ \E j \in 1 .. m - 1 : x = n + 1 + j /\ g[x] # h
    <3>1. x # n + 1
      <4>1. ~(w[n + 1].depth >= 0)
        BY <1>14
      <4> QED
        BY <2>1, <4>1
    <3> QED
      <4>1. x \in 1 .. Len(w) - 1
        BY <2>1
      <4>2. (x \in 1 .. n /\ g[x] = h) \/ \E j \in 1 .. m - 1 : x = n + 1 + j
        BY <1>3, <3>1, <4>1
      <4>3. \A j \in 1 .. m - 1 : g[n + 1 + j] # h
        BY <1>7
      <4> QED
        BY <4>2, <4>3
  <2>2. CASE k \in 1 .. n /\ l \in 1 .. n
    <3>1. nm[order[k]] # nm[order[l]]
      BY <1>5, <2>2 DEF Contents, OwnNames
    <3>2. w[k].name = nm[order[k]] /\ w[l].name \in {nm[order[l]], "garbled"}
      BY <1>5, <2>2
    <3> QED
      BY <3>1, <3>2
  <2>3. CASE /\ \E j \in 1 .. m - 1 : k = n + 1 + j
             /\ \E j \in 1 .. m - 1 : l = n + 1 + j
    <3>1. PICK i1 \in 1 .. m - 1, i2 \in 1 .. m - 1 : k = n + 1 + i1 /\ l = n + 1 + i2
      BY <2>3
    <3>2. i1 # i2
      BY <3>1
    <3>3. w[k] = q[i1] /\ w[l] = q[i2] /\ d[i1] = d[i2]
      BY <1>7, <3>1
    <3> QED
      BY <1>1, <1>7, <3>1, <3>2, <3>3 DEF Listed, Different
  <2> QED
    BY <2>1, <2>2, <2>3
<1>11. NoneMissed(p, nm, pres, rep, w, g, S)
  <2> SUFFICES ASSUME NEW e \in pres, p[e] \in S, rep[e] = <<>>
               PROVE  \E k \in 1 .. Len(w) - 1 : Denotes(p, nm, w[k], g[k], e)
    BY DEF NoneMissed
  <2>1. CASE p[e] = h
    <3>1. PICK k \in 1 .. n : order[k] = e
      BY <2>1 DEF Contents
    <3>2. k \in 1 .. Len(w) - 1 /\ g[k] = h
      BY <1>2, <1>4, <1>12, <3>1
    <3>3. Denotes(p, nm, w[k], g[k], e)
      BY <1>5, <2>1, <3>1, <3>2 DEF Denotes
    <3> QED
      BY <3>2, <3>3
  <2>2. CASE p[e] # h
    <3>1. PICK j \in 1 .. Len(q) - 1 : Denotes(p, nm, q[j], d[j], e)
      BY <1>1, <2>2 DEF Listed, NoneMissed
    <3>2. j \in 1 .. m - 1 /\ n + 1 + j \in 1 .. Len(w) - 1
      BY <1>2, <1>12, <3>1
    <3> QED
      BY <1>7, <3>1, <3>2
  <2> QED
    BY <2>1, <2>2
<1> QED
  BY <1>6, <1>8, <1>9, <1>10, <1>11 DEF Work, Listed

\* The calls that are refused, and the directories that were visited and are not.
Refused == closed \cup noEntry
Open == {x \in Tree!Dirs : reported[x] # <<>>} \ Refused

\* What lstat finds by its name, which was not too long.
Findable == {e \in present : name[e] \notin long}
NameOf(x) == IF x = Root THEN Root ELSE name[x]

\* The depth at which x was visited.
Level(x) == reported[x][1]

\* The tree: numbered from the root on, no two entries of a directory of the same name,
\* and nothing in a directory that was removed.
Shape ==
    /\ \A e \in Entries : parent[e] = Root \/ parent[e] < e
    /\ OwnNames(parent, name)
    /\ \A e \in present : parent[e] \in present \cup {Root}

\* The visits so far: none twice, none of an entry whose name was too long, and an entry
\* after its directory and one deeper.
Visited ==
    /\ \A x \in Nodes : Len(reported[x]) <= 1
    /\ \A e \in Entries : reported[e] # <<>> =>
          parent[e] \in Open /\ Level(e) = Level(parent[e]) + 1
    /\ reported[Root] \in {<<>>, <<0>>}
    /\ \A x \in Nodes : reported[x] # <<>> => NameOf(x) \notin long

EntriesUnvisited == \A e \in Entries : reported[e] = <<>>
NoneVisited == reported[Root] = <<>> /\ EntriesUnvisited

\* The directory h was visited and is not read yet.
Hand(h) ==
    /\ h \in Tree!Dirs /\ reported[h] # <<>> /\ elem.depth = Level(h)
    /\ NoChildVisited(parent, reported, h)
    /\ h = Root => Len(stk) = 1 /\ EntriesUnvisited
    /\ h # Root => Root \in Open
    /\ Work(parent, name, Findable, reported, stk, Above1(parent, h), Open \ {h})

\* The name in hand stands for it, where the walk is.
NamesHand(h) ==
    \/ h = Root /\ elem.name = Root /\ cwd = Root
    \/ h \in Entries /\ elem.name = name[h] /\ cwd = parent[h]

\* The places of the loop: before the root, after a root that was not found or cannot be
\* opened, and at an element; and the end.
AtRoot ==
    Len(stk) = 1 /\ cwd = Root /\ elem = Tree!create_node(Root, 0) /\ NoneVisited
RootLost == stk = <<>> /\ cwd = Root /\ Root \in long /\ NoneVisited
RootClosed ==
    /\ stk = <<>> /\ cwd = Root /\ reported[Root] # <<>>
    /\ Root \in closed /\ EntriesUnvisited
AtElement ==
    Root \in Open /\ Work(parent, name, Findable, reported, <<elem>> \o stk, cwd, Open)
Through ==
    /\ Root \in long \/ reported[Root] # <<>>
    /\ \A e \in Findable : parent[e] \in Open => reported[e] # <<>>
    /\ cwd = IF Root \in closed \cup long THEN Root ELSE Outside

AtDirectory ==
    \E h \in Tree!Dirs : Hand(h) /\ NamesHand(h) /\ (pc = "chdir" => h \notin closed /\ dp = h)
InDirectory == Hand(cwd) /\ dp = cwd /\ cwd \notin Refused

Place ==
    /\ pc = "start" => stk = <<>> /\ NoneVisited
    /\ pc \notin {"start", "failed"} => Root \notin noEntry
    /\ pc = "loop" => AtRoot \/ RootLost \/ RootClosed \/ AtElement
    /\ pc \in {"opendir", "chdir"} => AtDirectory
    /\ pc = "readdir" => InDirectory
    /\ pc = "done" => Through

WalkInv == Shape /\ Visited /\ Place

\* The visits that were counted, moved entries or not.
VisitsIn(rep, E) == UNION {{e} \X (1 .. Len(rep[e])) : e \in E}
Counted(n, rep, E) == IsFiniteSet(VisitsIn(rep, E)) /\ n = Cardinality(VisitsIn(rep, E))

CountInv ==
    /\ reported \in [Nodes -> Seq(Nat)]
    /\ Counted(stats.file, reported, Entries \ Tree!Dirs)
    /\ Counted(stats.dir, reported, Tree!Dirs)

\* One visit more, of x at depth v, and what it does to the numbers.
WithVisit(rep, x, v) == [rep EXCEPT ![x] = Append(@, v)]
OneCounted(rep, new, x) ==
    \A n \in Nat, E \in SUBSET Nodes :
        Counted(n, rep, E) => Counted(IF x \in E THEN n + 1 ELSE n, new, E)

\* A visit is counted once.
LEMMA OneMore ==
    ASSUME NEW rep \in [Nodes -> Seq(Nat)], NEW x \in Nodes, NEW new, NEW v \in Nat,
           new = WithVisit(rep, x, v)
    PROVE  /\ new \in [Nodes -> Seq(Nat)]
           /\ new[x] = Append(rep[x], v) /\ new[x] # <<>> /\ Len(new[x]) = Len(rep[x]) + 1
           /\ \A y \in Nodes : y # x => new[y] = rep[y]
           /\ OneCounted(rep, new, x)
<1>1. Append(rep[x], v) \in Seq(Nat) /\ Append(rep[x], v) # <<>>
      /\ Len(Append(rep[x], v)) = Len(rep[x]) + 1 /\ Len(rep[x]) \in Nat
  BY AppendProperties, LenProperties
<1>2. /\ new \in [Nodes -> Seq(Nat)] /\ new[x] = Append(rep[x], v)
      /\ \A y \in Nodes : y # x => new[y] = rep[y]
  BY <1>1 DEF WithVisit
<1>3. ASSUME NEW n \in Nat, NEW E \in SUBSET Nodes, Counted(n, rep, E)
      PROVE  Counted(IF x \in E THEN n + 1 ELSE n, new, E)
  <2>1. CASE x \notin E
    <3>1. \A y \in E : new[y] = rep[y]
      BY <1>2, <2>1
    <3>2. VisitsIn(new, E) = VisitsIn(rep, E)
      BY <3>1 DEF VisitsIn
    <3> QED
      BY <1>3, <2>1, <3>2 DEF Counted
  <2>2. CASE x \in E
    <3> DEFINE one == <<x, Len(rep[x]) + 1>>
    <3>1. 1 .. Len(new[x]) = (1 .. Len(rep[x])) \cup {Len(rep[x]) + 1}
      BY <1>1, <1>2
    <3>2. VisitsIn(new, E) \subseteq VisitsIn(rep, E) \cup {one}
      <4> SUFFICES ASSUME NEW y \in E, NEW k \in 1 .. Len(new[y]), <<y, k>> # one
                   PROVE  k \in 1 .. Len(rep[y])
        BY DEF VisitsIn
      <4> QED
        BY <1>2, <3>1
    <3>3. VisitsIn(rep, E) \cup {one} \subseteq VisitsIn(new, E)
      <4>1. \A y \in E : 1 .. Len(rep[y]) \subseteq 1 .. Len(new[y])
        BY <1>2, <3>1
      <4>2. one \in {x} \X (1 .. Len(new[x]))
        BY <3>1
      <4> QED
        BY <2>2, <4>1, <4>2 DEF VisitsIn
    <3>4. one \notin VisitsIn(rep, E)
      <4>1. Len(rep[x]) + 1 \notin 1 .. Len(rep[x])
        BY <1>1
      <4> QED
        BY <4>1 DEF VisitsIn
    <3>5. VisitsIn(new, E) = VisitsIn(rep, E) \cup {one}
      BY <3>2, <3>3
    <3> HIDE DEF one
    <3>6. /\ IsFiniteSet(VisitsIn(new, E))
          /\ Cardinality(VisitsIn(new, E)) = Cardinality(VisitsIn(rep, E)) + 1
      <4>1. PICK V : V = VisitsIn(rep, E)
        OBVIOUS
      <4>2. IsFiniteSet(V) /\ one \notin V /\ VisitsIn(new, E) = V \cup {one}
        BY <1>3, <3>4, <3>5, <4>1 DEF Counted
      <4>3. IsFiniteSet(V \cup {one}) /\ Cardinality(V \cup {one}) = Cardinality(V) + 1
        BY <4>2, FS_AddElement
      <4> QED
        BY <4>1, <4>2, <4>3
    <3> QED
      BY <1>3, <2>2, <3>6 DEF Counted
  <2> QED
    BY <2>1, <2>2
<1>4. OneCounted(rep, new, x)
  BY <1>3 DEF OneCounted
<1> QED
  BY <1>1, <1>2, <1>4

\* The initial states satisfy the invariants.
LEMMA WalkInit == Tree!Init => WalkInv /\ CountInv
<1> SUFFICES ASSUME Tree!Init PROVE WalkInv /\ CountInv
  OBVIOUS
<1>1. /\ reported = [e \in Nodes |-> <<>>] /\ present = Entries
      /\ elem = [name |-> Root, depth |-> 0] /\ stk = <<>> /\ pc = "start"
      /\ stats = [file |-> 0, dir |-> 0] /\ isDir \subseteq Entries
  BY DEF Tree!Init, Nodes
<1>2. \A x \in Nodes : reported[x] = <<>>
  BY <1>1
<1>3. Shape
  BY <1>1 DEF Tree!Init, Shape, OwnNames
<1>4. Visited
  BY <1>2 DEF Visited, Nodes
<1>5. Place
  BY <1>1, <1>2 DEF Place, NoneVisited, EntriesUnvisited, Nodes
<1>6. ASSUME NEW E \in SUBSET Nodes PROVE Counted(0, reported, E)
  <2>1. VisitsIn(reported, E) = {}
    BY <1>2 DEF VisitsIn
  <2> QED
    BY <2>1, FS_EmptySet DEF Counted
<1>7. CountInv
  <2>1. reported \in [Nodes -> Seq(Nat)]
    BY <1>1
  <2>2. Entries \ Tree!Dirs \in SUBSET Nodes /\ Tree!Dirs \in SUBSET Nodes
    BY <1>1 DEF Tree!Dirs, Nodes
  <2> QED
    BY <1>1, <1>6, <2>1, <2>2 DEF CountInv
<1> QED
  BY <1>3, <1>4, <1>5, <1>7 DEF WalkInv

\* The constants and the variables of the tree.
LEMMA TreeFacts ==
    ASSUME TreeInv
    PROVE  /\ Root \notin Names /\ Root # Outside /\ Entries \subseteq Nat
           /\ Root \notin Entries /\ Outside \notin Entries /\ Root \in Tree!Dirs
           /\ Tree!Dirs \subseteq Nodes /\ present \subseteq Entries
           /\ parent \in [Entries -> Nodes] /\ name \in [Entries -> Names]
           /\ \A e \in Entries : parent[e] \in Tree!Dirs
           /\ stk \in Seq(Tree!Elems) /\ elem \in Tree!Elems
           /\ elem.depth \in Nat \cup {-1}
           /\ "garbled" \notin Names /\ Root # "garbled" /\ Findable \subseteq present
<1>1. /\ Root \notin Names /\ Root # Outside /\ Entries \subseteq Nat
      /\ Root \notin Entries /\ Outside \notin Entries
      /\ "garbled" \notin Names /\ Root # "garbled"
  BY Assumptions DEF Tree!TreeAssumption
<1>2. elem.depth \in Nat \cup {-1}
  BY DEF TreeInv, Tree!TypeOK, Tree!Elems
<1> QED
  BY <1>1, <1>2 DEF TreeInv, Tree!TypeOK, Tree!Dirs, Nodes, Findable

\* A visit is counted, and no other step counts.
LEMMA CountStep ==
    ASSUME TreeInv, CountInv, [Tree!Next]_(Tree!vars)
    PROVE  CountInv'
<1>1. UNCHANGED isDir
  BY DEF Tree!Next, Tree!vars, Tree!tree, Tree!Walk, Tree!Begin, Tree!BeginFails,
         Tree!Finish, Tree!GoUp, Tree!LstatFails, Tree!VisitFile, Tree!VisitDir,
         Tree!Opendir, Tree!OpendirFails, Tree!Chdir, Tree!ChdirFails, Tree!Readdir,
         Tree!Abort,
         Tree!Others, Tree!Unlink, Tree!Move
<1>2. Tree!Dirs' = Tree!Dirs
  BY <1>1 DEF Tree!Dirs
<1>3. /\ Entries \ Tree!Dirs \in SUBSET Nodes /\ Tree!Dirs \in SUBSET Nodes
      /\ stats.file \in Nat /\ stats.dir \in Nat /\ reported \in [Nodes -> Seq(Nat)]
  BY TreeFacts DEF TreeInv, Tree!TypeOK, CountInv, Nodes
<1>4. CASE UNCHANGED <<reported, stats>>
  BY <1>2, <1>4 DEF CountInv
<1>5. ASSUME Tree!VisitFile \/ Tree!VisitDir PROVE CountInv'
  <2>1. PICK x \in Tree!Lookup :
          /\ reported' = [reported EXCEPT ![x] = Append(@, elem.depth)]
          /\ \/ x \notin Tree!Dirs /\ stats' = [stats EXCEPT !.file = @ + 1]
             \/ x \in Tree!Dirs /\ stats' = [stats EXCEPT !.dir = @ + 1]
          /\ elem.depth >= 0
    BY <1>5 DEF Tree!VisitFile, Tree!VisitDir, Tree!Report
  <2>2. x \in Nodes /\ elem.depth \in Nat
    BY <2>1, LookupTypes, TreeFacts DEF Nodes
  <2>3. reported' \in [Nodes -> Seq(Nat)] /\ OneCounted(reported, reported', x)
    <3>1. reported' = WithVisit(reported, x, elem.depth)
      BY <2>1 DEF WithVisit
    <3> QED
      BY <1>3, <2>2, <3>1, OneMore
  <2>4. /\ Counted(IF x \in Entries \ Tree!Dirs THEN stats.file + 1 ELSE stats.file,
                   reported', Entries \ Tree!Dirs)
        /\ Counted(IF x \in Tree!Dirs THEN stats.dir + 1 ELSE stats.dir, reported', Tree!Dirs)
    BY <1>3, <2>3 DEF CountInv, OneCounted
  <2>5. /\ x \notin Tree!Dirs => /\ stats'.file = stats.file + 1 /\ stats'.dir = stats.dir
                                 /\ x \in Entries
        /\ x \in Tree!Dirs => stats'.dir = stats.dir + 1 /\ stats'.file = stats.file
    BY <2>1, <2>2, TreeFacts DEF TreeInv, Tree!TypeOK, Nodes
  <2> QED
    BY <1>2, <2>3, <2>4, <2>5 DEF CountInv
<1> QED
  BY <1>4, <1>5
  DEF Tree!Next, Tree!vars, Tree!Walk, Tree!Begin, Tree!BeginFails,
      Tree!Finish, Tree!GoUp, Tree!LstatFails,
      Tree!Opendir, Tree!OpendirFails, Tree!Chdir, Tree!ChdirFails, Tree!Readdir,
         Tree!Abort,
      Tree!Others

\* The name in hand stands for the directory in hand, or for nothing when it is gone.
LEMMA LookupHand ==
    ASSUME TreeInv, Shape, NEW h \in Tree!Dirs, NamesHand(h)
    PROVE  /\ Tree!Lookup \subseteq {h}
           /\ h \notin Tree!Lookup => h \in Entries /\ h \notin present
<1>1. CASE h = Root
  BY <1>1, TreeFacts DEF NamesHand, Tree!Lookup
<1>2. CASE h \in Entries
  <2>1. elem.name = name[h] /\ cwd = parent[h] /\ elem.name # Root
    BY <1>2, TreeFacts DEF NamesHand
  <2>2. Tree!Lookup = {e \in present : parent[e] = cwd /\ name[e] = elem.name}
    BY <2>1 DEF Tree!Lookup, Tree!Children
  <2> QED
    BY <1>2, <2>1, <2>2, TreeFacts DEF Shape, OwnNames
<1> QED
  BY <1>1, <1>2, TreeFacts DEF Nodes

\* What a step of the walk leaves alone, and what follows when nothing is visited.
LEMMA WalkLeaves ==
    ASSUME Tree!Walk, Shape, Visited
    PROVE  /\ UNCHANGED <<parent, name, isDir, closed, noEntry, long, present, moved>>
           /\ Tree!Dirs' = Tree!Dirs /\ Refused' = Refused /\ Findable' = Findable /\ Shape'
           /\ UNCHANGED reported =>
                 Open' = Open /\ Visited' /\ (EntriesUnvisited' <=> EntriesUnvisited)
<1>1. UNCHANGED <<parent, name, isDir, closed, noEntry, long, present, moved>>
  BY DEF Tree!Walk, Tree!tree, Tree!Begin, Tree!BeginFails, Tree!Finish, Tree!GoUp,
         Tree!LstatFails, Tree!VisitFile, Tree!VisitDir, Tree!Opendir,
         Tree!OpendirFails, Tree!Chdir, Tree!ChdirFails, Tree!Readdir,
         Tree!Abort
<1>2. Tree!Dirs' = Tree!Dirs /\ Refused' = Refused /\ Findable' = Findable
  BY <1>1 DEF Tree!Dirs, Refused, Findable
<1>3. Shape'
  BY <1>1 DEF Shape, OwnNames
<1>4. ASSUME UNCHANGED reported
      PROVE  Open' = Open /\ Visited' /\ (EntriesUnvisited' <=> EntriesUnvisited)
  <2>1. Open' = Open
    BY <1>2, <1>4 DEF Open
  <2>2. Visited'
    BY <1>1, <1>4, <2>1 DEF Visited, Level, NameOf
  <2> QED
    BY <1>4, <2>1, <2>2 DEF EntriesUnvisited
<1> QED
  BY <1>1, <1>2, <1>3, <1>4

\* An element before a list, and the list again when it is taken.
LEMMA ElemBefore ==
    ASSUME NEW x \in Tree!Elems, NEW s \in Seq(Tree!Elems)
    PROVE  /\ <<x>> \o s \in Seq(Tree!Elems) /\ Len(<<x>> \o s) = Len(s) + 1
           /\ (<<x>> \o s)[1] = x /\ Tail(<<x>> \o s) = s
           /\ \A k \in 1 .. Len(s) : (<<x>> \o s)[k + 1] = s[k]
<1>1. PICK E : E = Tree!Elems
  OBVIOUS
<1>2. <<x>> \in Seq(E) /\ s \in Seq(E) /\ Len(<<x>>) = 1 /\ <<x>>[1] = x
  BY <1>1
<1>3. /\ <<x>> \o s \in Seq(E) /\ Len(<<x>> \o s) = Len(s) + 1
      /\ (<<x>> \o s)[1] = x /\ Len(s) \in Nat
      /\ \A k \in 1 .. Len(s) : (<<x>> \o s)[k + 1] = s[k]
  BY <1>2
<1>4. /\ Tail(<<x>> \o s) \in Seq(E) /\ Len(Tail(<<x>> \o s)) = Len(s)
      /\ \A k \in 1 .. Len(s) : Tail(<<x>> \o s)[k] = s[k]
  BY <1>3
<1>5. Tail(<<x>> \o s) = s
  BY <1>2, <1>4, SeqEqual
<1> QED
  BY <1>1, <1>3, <1>5

LEMMA PopBefore ==
    ASSUME NEW s \in Seq(Tree!Elems), s # <<>>, Tree!pop(s)
    PROVE  <<elem'>> \o stk' = s /\ Len(stk') = Len(s) - 1
<1>1. elem' = Head(s) /\ stk' = Tail(s)
  BY DEF Tree!pop
<1>2. PICK E : E = Tree!Elems
  OBVIOUS
<1>3. Head(s) \in E /\ Tail(s) \in Seq(E) /\ s \in Seq(E) /\ Len(Tail(s)) = Len(s) - 1
  BY <1>2, HeadTailProperties
<1>4. <<Head(s)>> \o Tail(s) = s
  BY <1>2, <1>3
<1> QED
  BY <1>1, <1>3, <1>4

\* The loop goes on with the list s, in cwd'.
LEMMA GoesOn ==
    ASSUME TreeInv, WalkInv, Tree!Walk, NEW s \in Seq(Tree!Elems), s # <<>>, Tree!pop(s),
           Shape', Visited', Root \notin noEntry, Root \in Open',
           Work(parent, name, Findable, reported', s, cwd', Open')
    PROVE  WalkInv'
<1>1. <<elem'>> \o stk' = s /\ pc' = "loop"
  BY PopBefore, PopTypes
<1>2. /\ UNCHANGED <<parent, name, present, closed, noEntry, long>>
      /\ Findable' = Findable
  BY WalkLeaves DEF WalkInv
<1>3. AtElement'
  BY <1>1, <1>2 DEF AtElement
<1>4. Place'
  BY <1>1, <1>2, <1>3 DEF Place
<1> QED
  BY <1>4 DEF WalkInv

\* An element that leads back, and one that stands for nothing any more.
LEMMA NothingVisited ==
    ASSUME TreeInv, WalkInv, Tree!Walk, Tree!GoUp \/ Tree!LstatFails
    PROVE  WalkInv'
<1>1. /\ pc = "loop" /\ stk # <<>> /\ UNCHANGED reported /\ Tree!pop(stk)
      /\ elem.depth < 0 => cwd' = Tree!Up(cwd)
      /\ ~(elem.depth < 0) => cwd' = cwd /\ Tree!Lookup = {}
  BY TreeFacts DEF Tree!GoUp, Tree!LstatFails, Tree!InLoop
<1>2. CASE AtRoot
  <2>1. elem = Tree!create_node(Root, 0) /\ Len(stk) = 1 /\ cwd = Root /\ NoneVisited
    BY <1>2 DEF AtRoot
  <2>2. Root \in long /\ cwd' = cwd
    <3>1. elem.depth = 0 /\ (Root \notin long => elem.name = Root)
      BY <2>1 DEF Tree!create_node
    <3>2. Tree!Lookup = {} /\ cwd' = cwd
      BY <1>1, <3>1
    <3> QED
      BY <3>1, <3>2 DEF Tree!Lookup
  <2>3. stk' = <<>> /\ pc' = "loop"
    <3>1. PICK E : E = Tree!Elems
      OBVIOUS
    <3>2. stk \in Seq(E)
      BY <3>1, TreeFacts
    <3>3. stk' \in Seq(E) /\ pc' = "loop"
      BY <1>1, <3>2, PopTypes
    <3>4. Len(stk') = 0
      BY <1>1, <2>1, TreeFacts, PopBefore
    <3> QED
      BY <3>3, <3>4
  <2>4. /\ UNCHANGED <<parent, name, present, closed, noEntry, long, reported>>
        /\ Shape' /\ Visited' /\ (EntriesUnvisited' <=> EntriesUnvisited)
    BY <1>1, WalkLeaves DEF WalkInv
  <2>5. RootLost'
    BY <2>1, <2>2, <2>3, <2>4 DEF RootLost, NoneVisited
  <2>6. Place'
    BY <1>1, <2>3, <2>4, <2>5 DEF Place, WalkInv
  <2> QED
    BY <2>4, <2>6 DEF WalkInv
<1> SUFFICES ASSUME ~AtRoot PROVE WalkInv'
  BY <1>2
<1>3. AtElement
  BY <1>1 DEF WalkInv, Place, RootClosed, RootLost
<1> DEFINE q == <<elem>> \o stk
<1>4. /\ q \in Seq(Tree!Elems) /\ Len(q) > 1 /\ q[1] = elem /\ Tail(q) = stk
  BY <1>1, TreeFacts, ElemBefore
<1>5. Work(parent, name, Findable, reported, q, cwd, Open)
  BY <1>3 DEF AtElement
<1> HIDE DEF q
<1>6. \A e \in Findable : ~Denotes(parent, name, q[1], cwd, e)
  <2> SUFFICES ASSUME NEW e \in Findable, Denotes(parent, name, q[1], cwd, e) PROVE FALSE
    OBVIOUS
  <2>1. elem.depth >= 0 /\ cwd = parent[e] /\ elem.name = name[e]
    BY <1>4 DEF Denotes
  <2>2. elem.name # Root /\ Tree!Lookup = {} /\ e \in present /\ e \in Entries
    BY <1>1, <2>1, TreeFacts
  <2> QED
    BY <2>1, <2>2 DEF Tree!Lookup, Tree!Children
<1>7. /\ Findable \in SUBSET Entries /\ OwnNames(parent, name)
      /\ name \in [Entries -> Names]
  BY TreeFacts DEF WalkInv, Shape
<1>8. Work(parent, name, Findable, reported, Tail(q),
           IF q[1].depth < 0 THEN Above1(parent, cwd) ELSE cwd, Open)
  BY <1>4, <1>5, <1>6, <1>7, WorkDone DEF OwnNames
<1>9. cwd' = IF q[1].depth < 0 THEN Above1(parent, cwd) ELSE cwd
  BY <1>1, <1>4 DEF Tree!Up, Above1
<1>10. Shape' /\ Visited' /\ Open' = Open /\ Findable' = Findable
  BY <1>1, WalkLeaves DEF WalkInv
<1>11. Work(parent, name, Findable, reported', stk, cwd', Open')
  BY <1>1, <1>4, <1>8, <1>9, <1>10
<1>12. Root \notin noEntry /\ Root \in Open' /\ stk \in Seq(Tree!Elems)
  BY <1>1, <1>10, <1>3, TreeFacts DEF WalkInv, Place, AtElement
<1> QED
  BY <1>1, <1>10, <1>11, <1>12, GoesOn

\* An entry is visited: for the first time, in a directory that was, and one deeper.
LEMMA EntryVisited ==
    ASSUME TreeInv, CountInv, WalkInv, Tree!Walk, pc = "loop", stk # <<>>, elem.depth >= 0,
           NEW e \in Tree!Lookup, e # Root, reported' = WithVisit(reported, e, elem.depth)
    PROVE  /\ e \in Entries /\ cwd = parent[e] /\ elem.name = name[e] /\ Root \in Open
           /\ reported[e] = <<>> /\ reported'[e] = <<elem.depth>> /\ elem.depth \in Nat
           /\ \A x \in Nodes : x # e => reported'[x] = reported[x]
           /\ Visited' /\ Open' \ {e} = Open /\ (e \notin Tree!Dirs => Open' = Open)
           /\ Work(parent, name, Findable, reported', stk, cwd, Open)
<1>1. /\ elem.name # Root /\ e \in present /\ e \in Entries /\ e \in Nodes
      /\ cwd = parent[e] /\ elem.name = name[e] /\ name[e] \in Names /\ name[e] \notin long
  BY TreeFacts DEF Tree!Lookup, Tree!Children, Nodes, TreeInv, Fitting
<1>2. AtElement /\ elem.depth \in Nat
  <2>1. ~AtRoot
    BY <1>1, TreeFacts DEF AtRoot, Tree!create_node
  <2> QED
    BY <2>1, TreeFacts DEF WalkInv, Place, RootClosed, RootLost
<1> DEFINE q == <<elem>> \o stk
<1>3. q \in Seq(Tree!Elems) /\ Len(q) > 1 /\ q[1] = elem /\ Tail(q) = stk
  BY TreeFacts, ElemBefore
<1>4. Root \in Open /\ Work(parent, name, Findable, reported, q, cwd, Open)
  BY <1>2 DEF AtElement
<1> HIDE DEF q
<1>5. Denotes(parent, name, q[1], cwd, e)
  BY <1>1, <1>3 DEF Denotes
<1>6. cwd \in Open /\ elem.depth = Level(cwd) + 1 /\ reported[e] = <<>>
  <2>1. cwd \in Open /\ ToVisit(parent, name, reported, q[1], cwd)
    BY <1>3, <1>4, WorkHead
  <2> QED
    BY <1>1, <1>3, <1>5, <2>1 DEF Level, ToVisit
<1>7. /\ reported \in [Nodes -> Seq(Nat)]
      /\ reported'[e] = Append(reported[e], elem.depth)
      /\ reported'[e] # <<>> /\ Len(reported'[e]) = Len(reported[e]) + 1
      /\ \A x \in Nodes : x # e => reported'[x] = reported[x]
  <2>1. reported \in [Nodes -> Seq(Nat)]
    BY DEF CountInv
  <2> QED
    BY <1>1, <1>2, <2>1, OneMore
<1>8. reported'[e] = <<elem.depth>> /\ Len(reported'[e]) = 1
  BY <1>2, <1>6, <1>7
<1>9. /\ UNCHANGED <<parent, name, present>> /\ Tree!Dirs' = Tree!Dirs
      /\ Refused' = Refused /\ Tree!Dirs \subseteq Nodes
  BY WalkLeaves, TreeFacts DEF WalkInv
<1>10. Open' = Open \cup ({e} \cap (Tree!Dirs \ Refused)) /\ e \notin Open
  BY <1>1, <1>6, <1>7, <1>8, <1>9 DEF Open
<1>11. Visited'
  <2>1. \A x \in Nodes : Len(reported'[x]) <= 1
    <3>1. \A x \in Nodes : Len(reported[x]) <= 1
      BY DEF WalkInv, Visited
    <3>2. Len(reported'[e]) <= 1
      BY <1>8
    <3> QED
      BY <1>7, <3>1, <3>2
  <2>2. ASSUME NEW f \in Entries, reported'[f] # <<>>
        PROVE  parent[f] \in Open' /\ reported'[f][1] = reported'[parent[f]][1] + 1
    <3>1. CASE f = e
      <4>1. cwd \in Nodes /\ cwd # e /\ reported'[cwd] = reported[cwd]
        BY <1>6, <1>7, <1>9, <1>10 DEF Open
      <4>2. reported'[e][1] = elem.depth
        BY <1>8
      <4> QED
        BY <1>1, <1>6, <1>10, <3>1, <4>1, <4>2 DEF Level
    <3>2. CASE f # e
      <4>1. f \in Nodes /\ reported'[f] = reported[f]
        BY <1>7, <3>2 DEF Nodes
      <4>2. parent[f] \in Open /\ reported[f][1] = reported[parent[f]][1] + 1
        BY <2>2, <4>1 DEF WalkInv, Visited, Level
      <4>3. parent[f] \in Nodes /\ reported'[parent[f]] = reported[parent[f]]
        BY <1>7, <1>9, <1>10, <4>2 DEF Open
      <4> QED
        BY <1>10, <4>1, <4>2, <4>3
    <3> QED
      BY <3>1, <3>2
  <2>3. reported'[Root] \in {<<>>, <<0>>}
    BY <1>7 DEF WalkInv, Visited, Nodes
  <2>4. \A x \in Nodes : reported'[x] # <<>> => NameOf(x) \notin long
    <3>1. NameOf(e) \notin long
      BY <1>1 DEF NameOf
    <3> QED
      BY <1>7, <3>1 DEF WalkInv, Visited
  <2>5. UNCHANGED <<parent, name, long>>
    BY WalkLeaves DEF WalkInv
  <2> QED
    BY <2>1, <2>2, <2>3, <2>4, <2>5 DEF Visited, Level, NameOf
<1>12. /\ Findable \in SUBSET Entries /\ OwnNames(parent, name)
       /\ name \in [Entries -> Names]
  BY TreeFacts DEF WalkInv, Shape
<1>13. Work(parent, name, Findable, reported', Tail(q),
            IF q[1].depth < 0 THEN Above1(parent, cwd) ELSE cwd, Open)
  <2>1. \A x \in Open : reported'[x] = reported[x]
    BY <1>7, <1>9, <1>10 DEF Open
  <2>2. \A f \in Entries : reported'[f] # reported[f] =>
                           Denotes(parent, name, q[1], cwd, f)
    BY <1>5, <1>7 DEF Nodes
  <2>3. \A f \in Findable : Denotes(parent, name, q[1], cwd, f) => reported'[f] # <<>>
    BY <1>1, <1>3, <1>7, <1>12 DEF Denotes, OwnNames
  <2> QED
    BY <1>3, <1>4, <1>12, <2>1, <2>2, <2>3, WorkDone DEF OwnNames
<1>14. ~(q[1].depth < 0)
  BY <1>2, <1>3
<1>15. Work(parent, name, Findable, reported', stk, cwd, Open)
  BY <1>3, <1>13, <1>14
<1> QED
  BY <1>1, <1>2, <1>4, <1>6, <1>7, <1>8, <1>10, <1>11, <1>15

LEMMA FileVisited ==
    ASSUME TreeInv, CountInv, WalkInv, Tree!Walk, Tree!VisitFile
    PROVE  WalkInv'
<1>1. /\ pc = "loop" /\ stk # <<>> /\ elem.depth >= 0 /\ Tree!pop(stk) /\ UNCHANGED cwd
      /\ \E e \in Tree!Lookup \ Tree!Dirs :
            reported' = WithVisit(reported, e, elem.depth)
  BY DEF Tree!VisitFile, Tree!InLoop, Tree!Report, WithVisit
<1>2. PICK e \in Tree!Lookup \ Tree!Dirs :
        reported' = WithVisit(reported, e, elem.depth)
  BY <1>1
<1>3. e # Root
  BY TreeFacts
<1>4. /\ Visited' /\ Open' = Open /\ Root \in Open
      /\ Work(parent, name, Findable, reported', stk, cwd, Open)
  BY <1>1, <1>2, <1>3, EntryVisited
<1>5. Shape' /\ Root \notin noEntry /\ stk \in Seq(Tree!Elems)
  BY <1>1, WalkLeaves, TreeFacts DEF WalkInv, Place
<1> QED
  BY <1>1, <1>4, <1>5, GoesOn

\* A directory is visited: the root, or an entry.
LEMMA DirVisited ==
    ASSUME TreeInv, CountInv, WalkInv, Tree!Walk, Tree!VisitDir
    PROVE  WalkInv'
<1>1. /\ pc = "loop" /\ stk # <<>> /\ elem.depth >= 0 /\ pc' = "opendir"
      /\ UNCHANGED <<stk, elem, cwd, dp>>
      /\ \E e \in Tree!Lookup \cap Tree!Dirs :
            reported' = WithVisit(reported, e, elem.depth)
  BY DEF Tree!VisitDir, Tree!InLoop, Tree!Report, WithVisit
<1>2. PICK h \in Tree!Lookup \cap Tree!Dirs :
        reported' = WithVisit(reported, h, elem.depth)
  BY <1>1
<1>3. /\ UNCHANGED <<parent, name, present, closed, noEntry, long>> /\ Tree!Dirs' = Tree!Dirs
      /\ Refused' = Refused /\ Findable' = Findable /\ Tree!Dirs \subseteq Nodes /\ Shape'
      /\ Root \notin noEntry /\ Root # Outside /\ Root \notin Entries
      /\ stk \in Seq(Tree!Elems) /\ reported \in [Nodes -> Seq(Nat)]
      /\ Root \in Tree!Dirs
  BY <1>1, WalkLeaves, TreeFacts DEF WalkInv, Place, CountInv
<1>4. SUFFICES Visited' /\ Hand(h)' /\ NamesHand(h)'
  BY <1>1, <1>2, <1>3 DEF WalkInv, Place, AtDirectory
<1>5. CASE h = Root
  <2>1. AtRoot
    <3>1. elem.name = Root
      BY <1>2, <1>3, <1>5, TreeFacts DEF Tree!Lookup, Tree!Children
    <3>2. ~AtElement
      <4>1. SUFFICES ASSUME AtElement PROVE FALSE
        OBVIOUS
      <4>2. /\ <<elem>> \o stk \in Seq(Tree!Elems) /\ Len(<<elem>> \o stk) > 1
            /\ (<<elem>> \o stk)[1] = elem
        BY <1>1, TreeFacts, ElemBefore
      <4>3. Work(parent, name, Findable, reported, <<elem>> \o stk, cwd, Open)
        BY <4>1 DEF AtElement
      <4>4. PICK q : q = <<elem>> \o stk
        OBVIOUS
      <4>5. ToVisit(parent, name, reported, q[1], cwd)
        BY <4>2, <4>3, <4>4, WorkHead
      <4>6. elem.name \in OrGarbled
        BY <1>1, <4>2, <4>4, <4>5 DEF ToVisit
      <4> QED
        BY <3>1, <4>6, TreeFacts DEF OrGarbled
    <3> QED
      BY <1>1, <3>2 DEF WalkInv, Place, RootClosed, RootLost
  <2>2. /\ reported[Root] = <<>> /\ EntriesUnvisited /\ Len(stk) = 1 /\ cwd = Root
        /\ elem.depth = 0 /\ elem.name = Root /\ Root \notin long
    <3>1. elem.name = Root /\ elem \in Fitting
      BY <1>1, <1>2, <1>3, <1>5, TreeFacts DEF Tree!Lookup, Tree!Children, TreeInv
    <3> QED
      BY <2>1, <3>1 DEF AtRoot, NoneVisited, Tree!create_node, Fitting
  <2>3. reported'[Root] = <<0>> /\ \A e \in Entries : reported'[e] = <<>>
    <3>1. Append(reported[Root], elem.depth) = <<0>>
      BY <2>2
    <3> QED
      BY <1>2, <1>3, <1>5, <2>2, <3>1 DEF EntriesUnvisited, Nodes, WithVisit
  <2>4. Open' \ {h} = {}
    BY <1>3, <1>5, <2>3 DEF Open, Nodes
  <2>5. Visited'
    <3>1. Len(reported'[Root]) <= 1 /\ \A e \in Entries : Len(reported'[e]) <= 1
      BY <2>3
    <3> QED
      BY <1>3, <2>2, <2>3, <3>1 DEF Visited, Nodes, NameOf
  <2>6. Work(parent, name, Findable, reported', stk, Above1(parent, h), Open' \ {h})
    <3>1. Above1(parent, h) = Outside
      BY <1>5 DEF Above1
    <3>2. Work(parent, name, Findable, reported', stk, Outside, {})
      BY <1>3, <2>2, WorkOne
    <3> QED
      BY <2>4, <3>1, <3>2
  <2>7. reported'[h] # <<>> /\ reported'[h][1] = 0
    BY <1>5, <2>3
  <2>8. Hand(h)'
    BY <1>1, <1>2, <1>3, <1>5, <2>2, <2>3, <2>6, <2>7
    DEF Hand, Level, NoChildVisited, EntriesUnvisited
  <2> QED
    BY <1>1, <1>5, <2>2, <2>5, <2>8 DEF NamesHand
<1>6. CASE h # Root
  <2>1. /\ h \in Entries /\ cwd = parent[h] /\ elem.name = name[h] /\ Root \in Open
        /\ reported[h] = <<>> /\ reported'[h] = <<elem.depth>>
        /\ \A x \in Nodes : x # h => reported'[x] = reported[x]
        /\ Visited' /\ Open' \ {h} = Open
        /\ Work(parent, name, Findable, reported', stk, cwd, Open)
    BY <1>1, <1>2, <1>6, EntryVisited
  <2>2. Above1(parent, h) = cwd
    BY <1>6, <2>1, TreeFacts DEF Above1
  <2>3. NoChildVisited(parent, reported', h)
    <3> SUFFICES ASSUME NEW e \in Entries, parent[e] = h PROVE reported'[e] = <<>>
      BY DEF NoChildVisited
    <3>1. reported[e] = <<>>
      BY <2>1 DEF WalkInv, Visited, Open
    <3>2. e # h
      <4>1. e \in Nat
        BY TreeFacts
      <4> QED
        BY <1>6, <4>1 DEF WalkInv, Shape
    <3> QED
      BY <2>1, <3>1, <3>2 DEF Nodes
  <2>4. Work(parent, name, Findable, reported', stk, Above1(parent, h), Open' \ {h})
    BY <2>1, <2>2
  <2>5. reported'[h] # <<>> /\ reported'[h][1] = elem.depth
    BY <2>1
  <2>6. Root \in Open'
    BY <2>1
  <2>7. Hand(h)'
    BY <1>1, <1>2, <1>3, <1>6, <2>3, <2>4, <2>5, <2>6 DEF Hand, Level
  <2> QED
    BY <1>1, <1>3, <2>1, <2>7 DEF NamesHand
<1> QED
  BY <1>5, <1>6

\* A directory that cannot be opened or entered, or is gone, is passed over.
LEMMA DirPassed ==
    ASSUME TreeInv, WalkInv, Tree!Walk, Tree!OpendirFails \/ Tree!ChdirFails
    PROVE  WalkInv'
<1>1. /\ pc \in {"opendir", "chdir"} /\ Tree!pop(stk) /\ UNCHANGED <<cwd, reported>>
      /\ (Tree!Lookup \cap Tree!Dirs) \ Refused = {}
      /\ pc = "chdir" => (Tree!Lookup \cap Tree!Dirs) \ noEntry = {}
      /\ pc = "opendir" => (Tree!Lookup \cap Tree!Dirs) \ closed = {}
  BY DEF Tree!OpendirFails, Tree!ChdirFails, Refused
<1>2. PICK h \in Tree!Dirs : Hand(h) /\ NamesHand(h)
  BY <1>1 DEF WalkInv, Place, AtDirectory
<1>3. h \notin Tree!Lookup => h \in Entries /\ h \notin present
  BY <1>2, LookupHand DEF WalkInv
<1>4. /\ UNCHANGED <<parent, name, present, closed, noEntry, long>> /\ Open' = Open
      /\ Findable' = Findable /\ Shape' /\ Visited' /\ (EntriesUnvisited' <=> EntriesUnvisited)
  BY <1>1, WalkLeaves DEF WalkInv
<1>5. Root \notin noEntry /\ stk \in Seq(Tree!Elems) /\ stk # <<>>
  BY <1>1, TreeFacts DEF WalkInv, Place, TreeInv
<1>6. CASE h = Root
  <2>1. Root \in Tree!Lookup /\ cwd = Root
    BY <1>2, <1>3, <1>6, TreeFacts DEF NamesHand
  <2>2. Root \in closed /\ reported[Root] # <<>> /\ Len(stk) = 1 /\ EntriesUnvisited
    BY <1>1, <1>2, <1>5, <1>6, <2>1, TreeFacts DEF Hand
  <2>3. Len(stk') = 0 /\ stk' \in Seq(Tree!Elems) /\ pc' = "loop"
    BY <1>1, <1>5, <2>2, PopBefore, PopTypes
  <2>4. stk' = <<>>
    BY <2>3
  <2>5. RootClosed'
    BY <1>1, <1>4, <2>1, <2>2, <2>4 DEF RootClosed
  <2>6. Place'
    BY <1>4, <1>5, <2>3, <2>5 DEF Place
  <2> QED
    BY <1>4, <2>6 DEF WalkInv
<1>7. CASE h # Root
  <2>1. h \in Entries /\ cwd = parent[h] /\ Above1(parent, h) = cwd
    BY <1>2, <1>7, TreeFacts DEF NamesHand, Above1
  <2>2. h \in Open => \A e \in Findable : parent[e] # h
    <3>1. h \in Open => h \notin present
      BY <1>1, <1>2, <1>3 DEF Open
    <3> QED
      BY <1>7, <3>1, TreeFacts DEF WalkInv, Shape
  <2>3. Root \in Open /\ Work(parent, name, Findable, reported, stk, cwd, Open \ {h})
    BY <1>2, <1>7, <2>1 DEF Hand
  <2>4. Work(parent, name, Findable, reported, stk, cwd, Open)
    BY <2>2, <2>3, WorkWider
  <2> QED
    BY <1>1, <1>4, <1>5, <2>3, <2>4, GoesOn
<1> QED
  BY <1>6, <1>7

\* A directory is opened and entered.
LEMMA DirEntered ==
    ASSUME TreeInv, WalkInv, Tree!Walk, Tree!Opendir \/ Tree!Chdir
    PROVE  WalkInv'
<1>1. UNCHANGED <<stk, elem, stats, reported>>
  BY DEF Tree!Opendir, Tree!Chdir
<1>2. /\ UNCHANGED <<parent, name, present, closed, noEntry, long>> /\ Open' = Open
      /\ Findable' = Findable /\ Shape' /\ Visited' /\ (EntriesUnvisited' <=> EntriesUnvisited)
      /\ Tree!Dirs' = Tree!Dirs /\ Refused' = Refused
  BY <1>1, WalkLeaves DEF WalkInv
<1>3. PICK h \in Tree!Dirs : /\ Hand(h) /\ NamesHand(h)
                             /\ pc = "chdir" => h \notin closed /\ dp = h
  BY DEF WalkInv, Place, AtDirectory, Tree!Opendir, Tree!Chdir
<1>4. Tree!Lookup \subseteq {h} /\ Root \notin noEntry
  BY <1>3, LookupHand DEF WalkInv, Place, Tree!Opendir, Tree!Chdir
<1>5. Hand(h)'
  BY <1>1, <1>2, <1>3 DEF Hand, Level
<1>6. CASE Tree!Opendir
  <2>1. dp' = h /\ h \notin closed /\ pc' = "chdir" /\ UNCHANGED cwd
    BY <1>4, <1>6 DEF Tree!Opendir
  <2>2. NamesHand(h)'
    BY <1>1, <1>2, <1>3, <2>1 DEF NamesHand
  <2>3. AtDirectory'
    BY <1>2, <1>3, <1>5, <2>1, <2>2 DEF AtDirectory
  <2> QED
    BY <1>2, <1>4, <2>1, <2>3 DEF WalkInv, Place
<1>7. CASE Tree!Chdir
  <2>1. cwd' = h /\ h \notin noEntry /\ pc' = "readdir" /\ UNCHANGED dp /\ pc = "chdir"
    BY <1>4, <1>7 DEF Tree!Chdir
  <2>2. Hand(cwd)'
    BY <1>5, <2>1 DEF Hand, Level
  <2>3. InDirectory'
    BY <1>2, <1>3, <2>1, <2>2 DEF InDirectory, Refused
  <2> QED
    BY <1>2, <1>4, <2>1, <2>3 DEF WalkInv, Place
<1> QED
  BY <1>6, <1>7

\* Any order in which readdir may give the names has every entry once.
LEMMA OrderIsContents ==
    ASSUME TreeInv, NEW order \in Tree!SetToSeqs(Tree!Children(dp))
    PROVE  Len(order) \in Nat /\ Contents(parent, present, dp, Len(order), order)
<1> DEFINE C == {e \in present : parent[e] = dp}
<1>1. Tree!Children(dp) = C
  BY DEF Tree!Children
<1>2. Len(order) \in Nat /\ order \in [1 .. Len(order) -> C]
  BY <1>1, NamesRead
<1>3. Tree!Cardinality(C) = Cardinality(C)
  BY DEF Tree!Cardinality, Cardinality
<1>4. IsFiniteSet(C)
  <2>1. IsFiniteSet(Entries) /\ C \in SUBSET Entries
    BY Assumptions, TreeFacts DEF Tree!TreeAssumption, IsFiniteSet, Tree!IsFiniteSet
  <2> HIDE DEF C
  <2> QED
    BY <2>1, FS_Subset
<1> HIDE DEF C
<1>5. /\ order \in [1 .. Cardinality(C) -> C]
      /\ \A k, l \in 1 .. Cardinality(C) : k # l => order[k] # order[l]
      /\ Cardinality(C) \in Nat
  BY <1>1, <1>3, <1>4, FS_CardinalityType DEF Tree!SetToSeqs
<1>6. PICK n \in Nat : n = Cardinality(C)
  BY <1>5
<1>7. Len(order) = n
  BY <1>5, <1>6
<1>8. order \in Injection(1 .. n, C)
  BY <1>5, <1>6 DEF Injection, IsInjective
<1>9. Cardinality(1 .. n) = n
  BY FS_Interval
<1>10. order \in Surjection(1 .. n, C)
  BY <1>4, <1>6, <1>8, <1>9, FS_Injection
<1>11. \A e \in C : \E k \in 1 .. n : order[k] = e
  BY <1>10 DEF Surjection
<1> QED
  BY <1>2, <1>5, <1>6, <1>7, <1>11 DEF Contents, C

\* A directory is read.
LEMMA DirRead ==
    ASSUME TreeInv, CountInv, WalkInv, Tree!Walk, Tree!Readdir
    PROVE  WalkInv'
<1> DEFINE back == Tree!create_node("..", -1)
<1>1. PICK order \in Tree!SetToSeqs(Tree!Children(dp)) :
        Tree!pop([k \in 1 .. Len(order) |->
                    Tree!create_node(name[order[k]], elem.depth + 1)]
                 \o Tree!push(stk, back))
  BY DEF Tree!Readdir
<1>2. /\ pc = "readdir" /\ UNCHANGED <<cwd, reported>>
  BY DEF Tree!Readdir
<1>3. /\ Hand(cwd) /\ dp = cwd /\ cwd \notin Refused /\ Root \notin noEntry
      /\ cwd \in Open /\ Root \in Open
  <2>1. Hand(cwd) /\ dp = cwd /\ cwd \notin Refused /\ Root \notin noEntry
    BY <1>2 DEF WalkInv, Place, InDirectory
  <2> QED
    BY <2>1 DEF Hand, Open
<1>4. /\ UNCHANGED <<parent, name, present>> /\ Open' = Open /\ Shape' /\ Visited'
      /\ Findable' = Findable
      /\ stk \in Seq(Tree!Elems) /\ stk # <<>> /\ Tree!Dirs \subseteq Nodes
  BY <1>2, WalkLeaves, TreeFacts DEF WalkInv, TreeInv
<1>5. PICK n \in Nat : n = Len(order) /\ Contents(parent, present, cwd, n, order)
  BY <1>1, <1>3, OrderIsContents
<1> DEFINE read == [k \in 1 .. n |-> Tree!create_node(name[order[k]], elem.depth + 1)]
           left == <<back>> \o stk
           w == read \o left
<1>6. read \in Seq(Tree!Elems) /\ Len(read) = n
  <2>1. PICK E, D : E = Fitting /\ D = Tree!Elems
    OBVIOUS
  <2>2. E \subseteq D
    BY <2>1 DEF Fitting
  <2>3. read \in Seq(E)
    BY <1>1, <1>5, <2>1, NamesRead
  <2> QED
    BY <1>5, <2>1, <2>2, <2>3
<1>7. /\ \A k \in 1 .. n : /\ read[k].name \in {name[order[k]], "garbled"}
                           /\ read[k].depth = elem.depth + 1
                           /\ order[k] \in Findable => read[k].name = name[order[k]]
      /\ back \in Tree!Elems /\ back \in Fitting /\ back.depth = -1
  <2>1. back \in Tree!Elems /\ back \in Fitting /\ back.depth = -1
    BY BackFits DEF Fitting
  <2>2. ASSUME NEW k \in 1 .. n
        PROVE  /\ read[k].name \in {name[order[k]], "garbled"}
               /\ read[k].depth = elem.depth + 1
               /\ order[k] \in Findable => read[k].name = name[order[k]]
    BY DEF Tree!create_node, Findable
  <2> QED
    BY <2>1, <2>2
<1>8. /\ left \in Seq(Tree!Elems) /\ Len(left) = Len(stk) + 1 /\ left[1] = back
      /\ \A k \in 1 .. Len(stk) : left[k + 1] = stk[k]
  BY <1>4, <1>7, ElemBefore
<1>9. Tree!pop(w)
  <2>1. Tree!push(stk, back) = left
    BY <1>7, PushFits DEF TreeInv
  <2> QED
    BY <1>1, <1>5, <2>1
<1> HIDE DEF back, read, left
<1>10. Len(stk) \in Nat /\ Len(stk) > 0
  BY <1>4
<1>11. /\ w \in Seq(Tree!Elems) /\ Len(w) = n + Len(left)
       /\ \A k \in 1 .. n : w[k] = read[k]
       /\ \A k \in 1 .. Len(left) : w[n + k] = left[k]
  <2>1. PICK E : E = Tree!Elems
    OBVIOUS
  <2>2. read \in Seq(E) /\ left \in Seq(E)
    BY <1>6, <1>8, <2>1
  <2>3. /\ w \in Seq(E) /\ Len(w) = Len(read) + Len(left)
        /\ \A k \in 1 .. Len(read) + Len(left) :
              w[k] = IF k <= Len(read) THEN read[k] ELSE left[k - Len(read)]
    BY <2>2, ConcatProperties
  <2>4. ASSUME NEW k \in 1 .. Len(left) PROVE w[n + k] = left[k]
    <3>1. n + k \in 1 .. n + Len(left) /\ ~(n + k <= n) /\ (n + k) - n = k
      BY <1>8, <1>10
    <3> QED
      BY <1>6, <2>3, <3>1
  <2>5. \A k \in 1 .. n : w[k] = read[k]
    BY <1>6, <1>8, <1>10, <2>3
  <2> QED
    BY <1>6, <2>1, <2>3, <2>4, <2>5
<1> HIDE DEF w
<1>12. elem.depth = reported[cwd][1] /\ reported[cwd][1] \in Nat
  <2>1. elem.depth = reported[cwd][1] /\ cwd \in Nodes /\ reported[cwd] # <<>>
    BY <1>3, <1>4 DEF Hand, Level
  <2>2. reported[cwd] \in Seq(Nat)
    BY <2>1 DEF CountInv
  <2>3. 1 \in 1 .. Len(reported[cwd])
    BY <2>1, <2>2
  <2>4. reported[cwd][1] \in Nat
    BY <2>2, <2>3, ElementOfSeq
  <2> QED
    BY <2>1, <2>4
<1>13. Pushed(name, Findable, w, n, order, reported[cwd][1], stk)
  <2>1. Len(w) = n + 1 + Len(stk)
    BY <1>8, <1>10, <1>11
  <2>2. \A k \in 1 .. n : /\ w[k].name \in {name[order[k]], "garbled"}
                          /\ w[k].depth = reported[cwd][1] + 1
                          /\ order[k] \in Findable => w[k].name = name[order[k]]
    BY <1>7, <1>11, <1>12
  <2>3. w[n + 1].depth = -1
    <3>1. 1 \in 1 .. Len(left)
      BY <1>8, <1>10
    <3> QED
      BY <1>7, <1>8, <1>11, <3>1
  <2>4. ASSUME NEW k \in 1 .. Len(stk) PROVE w[n + 1 + k] = stk[k]
    <3>1. PICK m \in Nat : Len(stk) = m /\ Len(left) = m + 1
      BY <1>8, <1>10
    <3>2. k + 1 \in 1 .. m + 1 /\ n + 1 + k = n + (k + 1)
      BY <3>1
    <3> QED
      BY <1>8, <1>11, <3>1, <3>2
  <2> QED
    BY <2>1, <2>2, <2>3, <2>4 DEF Pushed
<1>14. Work(parent, name, Findable, reported, w, cwd, Open)
  <2>1. /\ name \in [Entries -> Names] /\ present \in SUBSET Entries
        /\ Findable \in SUBSET present
        /\ cwd \in Nodes /\ OwnNames(parent, name)
    BY <1>3, <1>4, TreeFacts DEF WalkInv, Shape, Hand
  <2>2. /\ NoChildVisited(parent, reported, cwd)
        /\ Work(parent, name, Findable, reported, stk, Above1(parent, cwd), Open \ {cwd})
    BY <1>3 DEF Hand
  <2> QED
    BY <1>3, <1>4, <1>5, <1>12, <1>13, <2>1, <2>2, WorkRead
<1>15. w # <<>>
  BY <1>8, <1>10, <1>11
<1> QED
  BY <1>2, <1>3, <1>4, <1>9, <1>11, <1>14, <1>15, GoesOn

\* The walk begins, and ends.
LEMMA BeginEnd ==
    ASSUME TreeInv, WalkInv, Tree!Walk, 
           Tree!Begin \/ Tree!BeginFails \/ Tree!Finish \/ Tree!Abort
    PROVE  WalkInv'
<1>1. UNCHANGED reported
  BY DEF Tree!Begin, Tree!BeginFails, Tree!Finish, Tree!Abort
<1>2. /\ UNCHANGED <<parent, name, present, closed, noEntry, long>> /\ Open' = Open
      /\ Findable' = Findable /\ Shape' /\ Visited' /\ (EntriesUnvisited' <=> EntriesUnvisited)
  BY <1>1, WalkLeaves DEF WalkInv
<1>3. CASE Tree!Begin
  <2>1. /\ pc' = "loop" /\ cwd' = Root /\ stk = <<>> /\ NoneVisited /\ Root \notin noEntry
        /\ elem' = Tree!create_node(Root, 0) /\ stk' = Tree!push(stk, elem')
    BY <1>3 DEF Tree!Begin, WalkInv, Place
  <2>2. Len(stk') = 1
    <3>1. PICK x : x = Tree!create_node(elem'.name, elem'.depth)
      OBVIOUS
    <3>2. stk' = <<x>> \o <<>>
      BY <2>1, <3>1 DEF Tree!push
    <3> QED
      BY <3>2
  <2>3. elem' = Tree!create_node(Root, 0)'
    BY <1>2, <2>1 DEF Tree!create_node
  <2>4. AtRoot'
    BY <1>1, <1>2, <2>1, <2>2, <2>3 DEF AtRoot, NoneVisited
  <2> QED
    BY <1>2, <2>1, <2>4 DEF WalkInv, Place
<1>4. CASE Tree!BeginFails \/ Tree!Abort
  BY <1>2, <1>4 DEF WalkInv, Place, Tree!BeginFails, Tree!Abort
<1>5. CASE Tree!Finish
  <2>1. pc = "loop" /\ stk = <<>> /\ pc' = "done" /\ UNCHANGED cwd /\ Root \notin noEntry
    BY <1>5 DEF Tree!Finish, WalkInv, Place
  <2>2. ASSUME RootClosed PROVE Through
    <3>1. \A e \in Entries : parent[e] \notin Open
      BY <2>2, TreeFacts DEF RootClosed, EntriesUnvisited, Open, Refused, Nodes
    <3> QED
      BY <2>2, <3>1, TreeFacts DEF RootClosed, Through
  <2>3. ASSUME RootLost PROVE Through
    <3>1. \A e \in Entries : parent[e] \notin Open
      BY <2>3, TreeFacts DEF RootLost, NoneVisited, EntriesUnvisited, Open, Nodes
    <3> QED
      BY <2>3, <3>1, TreeFacts DEF RootLost, Through
  <2>4. ASSUME AtElement PROVE Through
    <3>1. /\ <<elem>> \o stk \in Seq(Tree!Elems) /\ Len(<<elem>> \o stk) = 1
      BY <2>1, TreeFacts, ElemBefore
    <3>2. cwd = Outside /\ \A e \in Findable : parent[e] \in Open => reported[e] # <<>>
      BY <2>4, <3>1, WorkLast DEF AtElement
    <3>3. Root \notin closed \cup long /\ reported[Root] # <<>>
      BY <2>4 DEF AtElement, Open, Refused, WalkInv, Visited, NameOf, Nodes
    <3> QED
      BY <3>2, <3>3 DEF Through
  <2>5. ~AtRoot
    <3>1. Len(<<>>) = 0 /\ Len(stk) = Len(<<>>)
      BY <2>1
    <3> QED
      BY <3>1 DEF AtRoot
  <2>6. Through
    BY <2>1, <2>2, <2>3, <2>4, <2>5 DEF WalkInv, Place
  <2>7. Through'
    BY <1>1, <1>2, <2>1, <2>6 DEF Through
  <2> QED
    BY <1>2, <2>1, <2>7 DEF WalkInv, Place
<1> QED
  BY <1>3, <1>4, <1>5

\* An entry is removed.
LEMMA EntryUnlinked ==
    ASSUME TreeInv, WalkInv, NEW x \in Entries, Tree!Unlink(x),
           UNCHANGED <<pc, stk, elem, cwd, dp, stats, reported>>
    PROVE  WalkInv'
<1>1. /\ UNCHANGED <<parent, name, isDir, closed, noEntry, long>>
      /\ present' = present \ {x} /\ \A e \in present : parent[e] # x
  BY DEF Tree!Unlink, Tree!Children
<1>2. Tree!Dirs' = Tree!Dirs /\ Refused' = Refused
  BY <1>1 DEF Tree!Dirs, Refused
<1>3. Open' = Open /\ (EntriesUnvisited' <=> EntriesUnvisited)
  BY <1>2 DEF Open, EntriesUnvisited
<1>4. Shape'
  BY <1>1 DEF WalkInv, Shape
<1>5. Visited'
  BY <1>1, <1>3 DEF WalkInv, Visited, Level, NameOf
<1>6. \A q, c, S : Work(parent, name, Findable, reported, q, c, S) =>
                   Work(parent, name, Findable', reported, q, c, S)
  <2>1. Findable' \in SUBSET Findable
    BY <1>1 DEF Findable
  <2> QED
    BY <2>1, WorkUnlinked
<1>7. ASSUME NEW h, Hand(h) PROVE Hand(h)'
  BY <1>1, <1>2, <1>3, <1>6, <1>7 DEF Hand, Level
<1>8. Place'
  <2>1. /\ (AtRoot => AtRoot') /\ (RootLost => RootLost')
        /\ (RootClosed => RootClosed') /\ (NoneVisited => NoneVisited')
    BY <1>1, <1>3 DEF AtRoot, RootLost, RootClosed, NoneVisited, Tree!create_node
  <2>2. AtElement => AtElement'
    BY <1>1, <1>3, <1>6 DEF AtElement
  <2>3. \A h : NamesHand(h) => NamesHand(h)'
    BY <1>1 DEF NamesHand
  <2>4. AtDirectory => AtDirectory'
    BY <1>1, <1>2, <1>7, <2>3 DEF AtDirectory
  <2>5. Hand(cwd) => Hand(cwd)'
    BY <1>1, <1>2, <1>3, <1>6 DEF Hand, Level
  <2>6. InDirectory => InDirectory'
    BY <1>2, <2>5 DEF InDirectory
  <2>7. Through => Through'
    BY <1>1, <1>3 DEF Through, Findable
  <2> QED
    BY <1>1, <2>1, <2>2, <2>4, <2>6, <2>7 DEF WalkInv, Place
<1> QED
  BY <1>4, <1>5, <1>8 DEF WalkInv

\* While nothing is moved, every step preserves the invariant.
LEMMA WalkNext ==
    ASSUME TreeInv, CountInv, ~moved => WalkInv, [Tree!Next]_(Tree!vars)
    PROVE  ~moved' => WalkInv'
<1> SUFFICES ASSUME ~moved' PROVE WalkInv'
  OBVIOUS
<1>1. CASE Tree!Walk
  <2>1. moved' = moved
    BY <1>1 DEF Tree!Walk, Tree!tree, Tree!Begin, Tree!BeginFails, Tree!Finish, Tree!GoUp,
         Tree!LstatFails, Tree!VisitFile, Tree!VisitDir, Tree!Opendir,
         Tree!OpendirFails, Tree!Chdir, Tree!ChdirFails, Tree!Readdir,
         Tree!Abort
  <2>2. WalkInv
    BY <2>1
  <2> QED
    BY <1>1, <2>2, BeginEnd, NothingVisited, FileVisited, DirVisited, DirEntered,
       DirPassed, DirRead DEF Tree!Walk
<1>2. CASE Tree!Others
  <2>1. PICK x \in Entries : Tree!Unlink(x)
    BY <1>2 DEF Tree!Others, Tree!Move
  <2>2. WalkInv
    BY <2>1 DEF Tree!Unlink
  <2> QED
    BY <1>2, <2>1, <2>2, EntryUnlinked DEF Tree!Others
<1>3. CASE UNCHANGED Tree!vars
  <2>1. /\ UNCHANGED <<parent, name, isDir, closed, noEntry, long, present, moved, pc>>
        /\ UNCHANGED <<stk, elem, cwd, dp, stats, reported>> /\ WalkInv
    BY <1>3 DEF Tree!vars, Tree!tree
  <2>2. Tree!Dirs' = Tree!Dirs /\ Refused' = Refused /\ Findable' = Findable
    BY <2>1 DEF Tree!Dirs, Refused, Findable
  <2>3. Open' = Open /\ (EntriesUnvisited' <=> EntriesUnvisited)
    BY <2>1, <2>2 DEF Open, EntriesUnvisited
  <2>4. Shape' /\ Visited'
    BY <2>1, <2>3 DEF WalkInv, Shape, Visited, Level, NameOf
  <2>5. /\ (AtRoot => AtRoot') /\ (RootLost => RootLost')
        /\ (RootClosed => RootClosed') /\ (NoneVisited => NoneVisited')
    BY <2>1, <2>3 DEF AtRoot, RootLost, RootClosed, NoneVisited, Tree!create_node
  <2>6. (AtElement => AtElement') /\ (Through => Through')
    BY <2>1, <2>2, <2>3 DEF AtElement, Through
  <2>7. ASSUME NEW h, Hand(h) PROVE Hand(h)'
    BY <2>1, <2>2, <2>3, <2>7 DEF Hand, Level
  <2>8. \A h : NamesHand(h) => NamesHand(h)'
    BY <2>1 DEF NamesHand
  <2>9. AtDirectory => AtDirectory'
    BY <2>1, <2>2, <2>7, <2>8 DEF AtDirectory
  <2>10. InDirectory => InDirectory'
    BY <2>1, <2>2, <2>3 DEF InDirectory, Hand, Level
  <2>11. Place'
    BY <2>1, <2>5, <2>6, <2>9, <2>10 DEF WalkInv, Place
  <2> QED
    BY <2>4, <2>11 DEF WalkInv
<1> QED
  BY <1>1, <1>2, <1>3 DEF Tree!Next

-----------------------------------------------------------------------------
(* The directories above an entry, and what the walk has visited of them. *)

\* Some natural number of a set is the least.
LEMMA LeastOne ==
    ASSUME NEW S, S \subseteq Nat, S # {}
    PROVE  \E m \in S : \A k \in S : m <= k
<1>1. PICK R : R = OpToRel(<, Nat)
  OBVIOUS
<1>2. IsWellFoundedOn(R, Nat)
  BY <1>1, NatLessThanWellFounded
<1>3. PICK m \in S : \A k \in S : ~(<<k, m>> \in R)
  BY <1>2, WFMin
<1>4. \A k \in S : k < m => <<k, m>> \in R
  BY <1>1 DEF OpToRel
<1>5. m \in Nat /\ \A k \in S : k \in Nat /\ ~(k < m)
  BY <1>3, <1>4
<1>6. \A k \in S : m <= k
  BY <1>5
<1> QED
  BY <1>6

\* g gives every entry what is above it, for the tree p.
IsAbove(p, g) ==
    g = [x \in Entries \cup {Root} |-> IF x = Root THEN {} ELSE {p[x]} \cup g[p[x]]]

\* What can be reached from x by going up, at least once.
Climbs(p, T) == \A y \in T \ {Root} : p[y] \in T
UpFrom(p, x) == {a \in Nodes : \A T \in SUBSET Nodes : p[x] \in T /\ Climbs(p, T) => a \in T}
AllUp(p, x) == IF x = Root THEN {} ELSE UpFrom(p, x)

\* There is such a g, so that Above means what it says.
LEMMA AboveExists ==
    ASSUME NEW p \in [Entries -> Nodes], Root \notin Entries
    PROVE  IsAbove(p, [x \in Nodes |-> AllUp(p, x)])
<1>1. ASSUME NEW x \in Entries PROVE UpFrom(p, x) = {p[x]} \cup AllUp(p, p[x])
  <2>1. p[x] \in Nodes /\ p[x] \in UpFrom(p, x)
    BY DEF UpFrom
  <2>2. AllUp(p, p[x]) \subseteq UpFrom(p, x)
    <3> SUFFICES ASSUME NEW a \in UpFrom(p, p[x]), p[x] # Root,
                        NEW T \in SUBSET Nodes, p[x] \in T, Climbs(p, T)
                 PROVE  a \in T
      BY DEF AllUp, UpFrom
    <3>1. p[p[x]] \in T
      BY DEF Climbs
    <3> QED
      BY <3>1 DEF UpFrom
  <2>3. ASSUME NEW a \in UpFrom(p, x) PROVE a \in {p[x]} \cup AllUp(p, p[x])
    <3>1. PICK T : T = {p[x]} \cup AllUp(p, p[x])
      OBVIOUS
    <3>2. T \in SUBSET Nodes /\ p[x] \in T
      BY <2>1, <3>1 DEF AllUp, UpFrom
    <3>3. ASSUME NEW y \in T, y # Root PROVE p[y] \in T
      <4>1. p[x] # Root /\ p[x] \in Entries /\ AllUp(p, p[x]) = UpFrom(p, p[x])
        BY <2>1, <3>1, <3>3 DEF AllUp, Nodes
      <4>2. CASE y = p[x]
        <5>1. p[y] \in UpFrom(p, y)
          BY <4>1, <4>2 DEF UpFrom
        <5> QED
          BY <3>1, <4>1, <4>2, <5>1
      <4>3. CASE y \in UpFrom(p, p[x])
        <5>1. y \in Entries /\ p[y] \in Nodes
          BY <3>3, <4>3 DEF UpFrom, Nodes
        <5>2. \A U \in SUBSET Nodes : p[p[x]] \in U /\ Climbs(p, U) => p[y] \in U
          BY <3>3, <4>3 DEF UpFrom, Climbs
        <5>3. p[y] \in UpFrom(p, p[x])
          BY <5>1, <5>2 DEF UpFrom
        <5> QED
          BY <3>1, <4>1, <5>3
      <4> QED
        BY <3>1, <4>1, <4>2, <4>3
    <3>4. Climbs(p, T)
      BY <3>3 DEF Climbs
    <3> QED
      BY <2>3, <3>1, <3>2, <3>4 DEF UpFrom
  <2> QED
    BY <2>1, <2>2, <2>3
<1>2. PICK g : g = [x \in Nodes |-> AllUp(p, x)]
  OBVIOUS
<1>3. ASSUME NEW x \in Nodes
      PROVE  g[x] = IF x = Root THEN {} ELSE {p[x]} \cup g[p[x]]
  <2>1. CASE x = Root
    BY <1>2, <2>1 DEF AllUp
  <2>2. CASE x # Root
    <3>1. x \in Entries /\ p[x] \in Nodes
      BY <2>2 DEF Nodes
    <3> QED
      BY <1>1, <1>2, <2>2, <3>1 DEF AllUp
  <2> QED
    BY <2>1, <2>2
<1>4. g = [x \in Nodes |-> IF x = Root THEN {} ELSE {p[x]} \cup g[p[x]]]
  BY <1>2, <1>3
<1> QED
  BY <1>2, <1>4 DEF IsAbove, Nodes

LEMMA AboveFacts ==
    ASSUME TreeInv
    PROVE  \E g : IsAbove(parent, g) /\ \A e \in Nodes : Tree!Above(e) = g[e]
<1>1. \E g : IsAbove(parent, g)
  BY TreeFacts, AboveExists
<1>2. PICK g : g = CHOOSE h : IsAbove(parent, h)
  OBVIOUS
<1>3. IsAbove(parent, g)
  BY <1>1, <1>2
<1>4. \A e \in Nodes : Tree!Above(e) = g[e]
  BY <1>2, Zenon DEF Tree!Above, IsAbove
<1> QED
  BY <1>3, <1>4

OnlyLess(g, x) == g[x] \subseteq Nodes /\ \A a \in g[x] : a = Root \/ a < x
NextAbove(g) == g[Root] = {} /\ \A e \in Entries : g[e] = {parent[e]} \cup g[parent[e]]

\* The tree is numbered from the root on, so nothing is above itself: an entry has one
\* more above it than its directory has.
LEMMA AboveCounts ==
    ASSUME TreeInv, Shape, NEW g, IsAbove(parent, g)
    PROVE  /\ NextAbove(g)
           /\ \A e \in Entries : Cardinality(g[e]) = Cardinality(g[parent[e]]) + 1
<1>1. /\ Entries \subseteq Nat /\ Root \notin Entries
      /\ \A e \in Entries : parent[e] \in Nodes /\ (parent[e] = Root \/ parent[e] < e)
  BY TreeFacts DEF Shape
<1>2. NextAbove(g)
  BY <1>1 DEF IsAbove, NextAbove, Nodes
<1>3. \A e \in Entries : OnlyLess(g, e)
  <2> SUFFICES ASSUME NEW b \in Entries, ~OnlyLess(g, b) PROVE FALSE
    OBVIOUS
  <2>1. PICK S : S = {e \in Entries : ~OnlyLess(g, e)}
    OBVIOUS
  <2>2. S \subseteq Nat /\ S # {}
    BY <1>1, <2>1
  <2>3. PICK m \in S : \A k \in S : m <= k
    BY <2>2, LeastOne
  <2>4. m \in Entries /\ m \in Nat /\ ~OnlyLess(g, m) /\ g[m] = {parent[m]} \cup g[parent[m]]
    BY <1>2, <2>1, <2>2, <2>3 DEF NextAbove
  <2>5. CASE parent[m] = Root
    BY <1>2, <2>4, <2>5 DEF NextAbove, OnlyLess, Nodes
  <2>6. CASE parent[m] # Root
    <3>1. PICK u \in Entries : u = parent[m] /\ u \in Nat /\ u < m
      BY <1>1, <2>4, <2>6 DEF Nodes
    <3>2. OnlyLess(g, u)
      BY <2>1, <2>3, <2>4, <3>1
    <3>3. g[m] = {u} \cup g[u] /\ g[m] \subseteq Nodes
      BY <2>4, <3>1, <3>2 DEF OnlyLess, Nodes
    <3>4. ASSUME NEW a \in g[m], a # Root PROVE a < m
      <4>1. a \in Nat /\ (a = u \/ a < u)
        BY <1>1, <3>2, <3>3, <3>4 DEF OnlyLess, Nodes
      <4> QED
        BY <2>4, <3>1, <4>1
    <3> QED
      BY <2>4, <3>3, <3>4 DEF OnlyLess
  <2> QED
    BY <2>5, <2>6
<1>4. ASSUME NEW e \in Entries PROVE Cardinality(g[e]) = Cardinality(g[parent[e]]) + 1
  <2>1. PICK u \in Nodes : u = parent[e]
    BY <1>1
  <2>2. u \notin g[u] /\ g[u] \subseteq Nodes
    <3>1. CASE u = Root
      BY <1>2, <3>1 DEF NextAbove
    <3>2. CASE u # Root
      <4>1. OnlyLess(g, u) /\ u \in Nat
        BY <1>1, <1>3, <3>2 DEF Nodes
      <4> QED
        BY <3>2, <4>1 DEF OnlyLess
    <3> QED
      BY <3>1, <3>2
  <2>3. IsFiniteSet(Nodes)
    <3>1. IsFiniteSet(Entries)
      BY Assumptions DEF Tree!TreeAssumption, Tree!IsFiniteSet, IsFiniteSet
    <3> QED
      BY <3>1, FS_AddElement DEF Nodes
  <2>4. IsFiniteSet(g[u])
    BY <2>2, <2>3, FS_Subset
  <2>5. Cardinality(g[u] \cup {u}) = Cardinality(g[u]) + 1
    BY <2>2, <2>4, FS_AddElement
  <2>6. g[e] = g[u] \cup {u}
    BY <1>2, <2>1 DEF NextAbove
  <2> QED
    BY <2>1, <2>5, <2>6
<1> QED
  BY <1>2, <1>4

Clear(g, x) == g[x] \cap Refused = {} /\ \A y \in {x} \cup g[x] : NameOf(y) \notin long
GotAt(g, x) == reported[x] # <<>> => Clear(g, x) /\ Level(x) = Cardinality(g[x])

\* What was visited has no name that is too long and no refused directory above it, and was
\* visited at its depth.
LEMMA VisitedClear ==
    ASSUME TreeInv, Shape, Visited, NEW g, IsAbove(parent, g)
    PROVE  \A e \in Entries : GotAt(g, e)
<1>1. /\ Entries \subseteq Nat /\ Root \notin Entries
      /\ \A e \in Entries : parent[e] \in Nodes /\ (parent[e] = Root \/ parent[e] < e)
  BY TreeFacts DEF Shape
<1>2. /\ NextAbove(g)
      /\ \A e \in Entries : Cardinality(g[e]) = Cardinality(g[parent[e]]) + 1
  BY AboveCounts
<1>3. GotAt(g, Root)
  <2>1. Cardinality(g[Root]) = 0 /\ (reported[Root] # <<>> => Clear(g, Root))
    BY <1>2, FS_EmptySet DEF NextAbove, Clear, Visited, Nodes
  <2>2. reported[Root] # <<>> => Level(Root) = 0
    BY DEF Visited, Level
  <2> QED
    BY <2>1, <2>2 DEF GotAt
<1> SUFFICES ASSUME NEW b \in Entries, ~GotAt(g, b) PROVE FALSE
  OBVIOUS
<1>4. PICK S : S = {e \in Entries : ~GotAt(g, e)}
  OBVIOUS
<1>5. S \subseteq Nat /\ S # {}
  BY <1>1, <1>4
<1>6. PICK m \in S : \A k \in S : m <= k
  BY <1>5, LeastOne
<1>7. m \in Entries /\ m \in Nat /\ ~GotAt(g, m)
  BY <1>4, <1>5, <1>6
<1>8. PICK u \in Nodes : u = parent[m] /\ (u = Root \/ (u \in Entries /\ u \in Nat /\ u < m))
  BY <1>1, <1>7 DEF Nodes
<1>9. GotAt(g, u)
  BY <1>3, <1>4, <1>6, <1>7, <1>8
<1>10. reported[m] # <<>> /\ u \in Open /\ Level(m) = Level(u) + 1
  BY <1>7, <1>8 DEF GotAt, Visited
<1>11. reported[u] # <<>> /\ u \notin Refused
  BY <1>10 DEF Open
<1>12. Level(m) = Cardinality(g[m])
  BY <1>2, <1>7, <1>8, <1>9, <1>10, <1>11 DEF GotAt
<1>13. Clear(g, m)
  <2>1. Clear(g, u) /\ g[m] = {u} \cup g[u]
    BY <1>2, <1>7, <1>8, <1>9, <1>11 DEF GotAt, NextAbove
  <2>2. NameOf(m) \notin long
    BY <1>7, <1>10 DEF Visited, Nodes
  <2> QED
    BY <1>11, <2>1, <2>2 DEF Clear
<1> QED
  BY <1>7, <1>12, <1>13 DEF GotAt

\* At the end, what has no such name and is below no directory that is refused was visited.
LEMMA ClearVisited ==
    ASSUME TreeInv, Shape, Through, NEW g, IsAbove(parent, g)
    PROVE  \A e \in present : Clear(g, e) => reported[e] # <<>>
<1>1. /\ Entries \subseteq Nat /\ Root \notin Entries /\ present \subseteq Entries
      /\ \A e \in Entries : parent[e] \in Tree!Dirs /\ (parent[e] = Root \/ parent[e] < e)
      /\ \A e \in present : parent[e] \in present \cup {Root}
  BY TreeFacts DEF Shape
<1>2. NextAbove(g)
  BY AboveCounts
<1> SUFFICES ASSUME NEW b \in present, Clear(g, b), reported[b] = <<>> PROVE FALSE
  OBVIOUS
<1>3. PICK S : S = {e \in present : Clear(g, e) /\ reported[e] = <<>>}
  OBVIOUS
<1>4. S \subseteq Nat /\ S # {}
  BY <1>1, <1>3
<1>5. PICK m \in S : \A k \in S : m <= k
  BY <1>4, LeastOne
<1>6. /\ m \in present /\ m \in Entries /\ m \in Nat
      /\ Clear(g, m) /\ reported[m] = <<>>
  BY <1>1, <1>3, <1>4, <1>5
<1>7. PICK u \in Tree!Dirs : /\ u = parent[m]
                             /\ u = Root \/ (u \in present /\ u \in Nat /\ u < m)
  BY <1>1, <1>6
<1>8. Clear(g, u) /\ u \notin Refused
  BY <1>2, <1>6, <1>7 DEF Clear, NextAbove
<1>9. reported[u] # <<>>
  <2>1. CASE u = Root
    BY <1>8, <2>1 DEF Through, Clear, NameOf
  <2>2. CASE u # Root
    BY <1>3, <1>5, <1>6, <1>7, <1>8, <2>2
  <2> QED
    BY <2>1, <2>2
<1>10. u \in Open
  BY <1>7, <1>8, <1>9 DEF Open
<1>11. m \in Findable
  BY <1>1, <1>6 DEF Clear, NameOf, Findable
<1> QED
  BY <1>6, <1>7, <1>10, <1>11 DEF Through

\* What the walk leaves, from its invariants.
LEMMA WalkLeft ==
    ASSUME TreeInv, CountInv, ~moved => WalkInv
    PROVE  WalkComplete
<1> SUFFICES ASSUME pc = "done" PROVE Tree!WalkComplete
  BY DEF WalkComplete, Tree!WalkComplete
<1>1. /\ stats.file = Tree!Cardinality(Tree!Visits(Entries \ Tree!Dirs))
      /\ stats.dir = Tree!Cardinality(Tree!Visits(Tree!Dirs))
  <2>1. \A E : Tree!Visits(E) = VisitsIn(reported, E)
    BY DEF Tree!Visits, VisitsIn
  <2>2. \A V : Tree!Cardinality(V) = Cardinality(V)
    BY DEF Tree!Cardinality, Cardinality
  <2> QED
    BY <2>1, <2>2 DEF CountInv, Counted
<1>2. ASSUME ~moved
      PROVE  /\ \A e \in Tree!Reachable \cap present :
                    reported[e] = <<Tree!Cardinality(Tree!Above(e))>>
             /\ \A e \in Entries :
                    Len(reported[e]) <= (IF e \in Tree!Reachable THEN 1 ELSE 0)
             /\ reported[Root] = (IF Root \in long THEN <<>> ELSE <<0>>)
             /\ cwd = IF Root \in closed \cup long THEN Root ELSE Outside
  <2>1. Shape /\ Visited /\ Through
    BY <1>2 DEF WalkInv, Place
  <2>2. PICK g : IsAbove(parent, g) /\ \A e \in Nodes : Tree!Above(e) = g[e]
    BY AboveFacts
  <2>3. /\ \A e \in Entries : GotAt(g, e)
        /\ \A e \in present : Clear(g, e) => reported[e] # <<>>
    BY <2>1, <2>2, VisitedClear, ClearVisited
  <2>4. ASSUME NEW e \in Entries PROVE e \in Tree!Reachable <=> Clear(g, e)
    BY <2>2 DEF Tree!Reachable, Clear, Refused, Nodes, NameOf
  <2>5. ASSUME NEW e \in Tree!Reachable \cap present
        PROVE  reported[e] = <<Tree!Cardinality(Tree!Above(e))>>
    <3>1. e \in Entries /\ reported[e] # <<>> /\ reported[e][1] = Cardinality(g[e])
      BY <2>3, <2>4, TreeFacts DEF GotAt, Level
    <3>2. PICK n : n = Cardinality(g[e])
      OBVIOUS
    <3>3. PICK r \in Seq(Nat) : r = reported[e] /\ r # <<>> /\ Len(r) <= 1 /\ r[1] = n
      BY <2>1, <3>1, <3>2 DEF CountInv, Visited, Nodes
    <3>4. r = <<n>>
      BY <3>3
    <3>5. Tree!Cardinality(Tree!Above(e)) = n
      BY <2>2, <3>1, <3>2 DEF Nodes, Tree!Cardinality, Cardinality
    <3> QED
      BY <3>3, <3>4, <3>5
  <2>6. ASSUME NEW e \in Entries
        PROVE  Len(reported[e]) <= (IF e \in Tree!Reachable THEN 1 ELSE 0)
    <3>1. reported[e] \in Seq(Nat) /\ Len(reported[e]) <= 1
      BY <2>1 DEF CountInv, Visited, Nodes
    <3>2. e \notin Tree!Reachable => Len(reported[e]) = 0
      BY <2>3, <2>4 DEF GotAt
    <3> QED
      BY <3>1, <3>2
  <2>7. /\ reported[Root] = (IF Root \in long THEN <<>> ELSE <<0>>)
        /\ cwd = IF Root \in closed \cup long THEN Root ELSE Outside
    BY <2>1 DEF Visited, Through, NameOf, Nodes
  <2> QED
    BY <2>5, <2>6, <2>7
<1> QED
  BY <1>1, <1>2 DEF Tree!WalkComplete

-----------------------------------------------------------------------------
(* The program that runs, and the others that stay as they are. *)

\* A step of the whole is a step or none of each of the programs.
LEMMA OneRuns ==
    ASSUME [Next]_vars
    PROVE  /\ [Daemons!Next]_(Daemons!vars) /\ [Files!Next]_(Files!vars)
           /\ [Messages!Next]_(Messages!vars) /\ [Tree!Next]_(Tree!vars)
<1> USE DEF Next, vars, Ftw, Bio, Dmn, Chl, treeVars, fileVars, daemonVars, messageVars
<1>1. [Daemons!Next]_(Daemons!vars) /\ [Files!Next]_(Files!vars)
  BY DEF Daemons!vars, Files!vars
<1>2. [Messages!Next]_(Messages!vars)
  BY DEF Messages!vars
<1>3. [Tree!Next]_(Tree!vars)
  BY DEF Tree!vars, Tree!tree
<1> QED
  BY <1>1, <1>2, <1>3

\* The invariants hold throughout.
Walked == CountInv /\ (~moved => WalkInv)
LabInv == DaemonInv /\ FileInv /\ MessageInv /\ BytesInv /\ TreeInv /\ Walked

LEMMA LabInvariant == FairSpec => []LabInv
<1>1. Init => LabInv
  BY DaemonInit, FileInit, MessageInit, BytesInit, TreeInit, WalkInit, Assumptions
     DEF Init, LabInv, Walked
<1>2. LabInv /\ [Next]_vars => LabInv'
  <2> SUFFICES ASSUME LabInv, [Next]_vars PROVE LabInv'
    OBVIOUS
  <2>1. (DaemonInv /\ FileInv /\ MessageInv /\ BytesInv /\ TreeInv)'
    BY OneRuns, DaemonNext, FileNext, MessageNext, BytesNext, TreeNext, Assumptions
       DEF LabInv
  <2>2. Walked'
    BY OneRuns, CountStep, WalkNext, Assumptions DEF LabInv, Walked
  <2> QED
    BY <2>1, <2>2 DEF LabInv
<1> QED
  BY <1>1, <1>2, PTL DEF FairSpec

\* The types of all four programs, whatever the tree, the files and the messages are: the
\* walk always stands in a directory, takes nothing from an empty stack and looks up
\* elements only (doPath, pop), and a read returns bytes of the children only.
THEOREM LabTypes == FairSpec => []TypeOK
<1>1. LabInv => TypeOK
  BY DEF LabInv, DaemonInv, FileInv, MessageInv, TreeInv, TypeOK
<1> QED
  BY <1>1, LabInvariant, PTL

\* A walk that is through has visited every entry that was there all the time and that
\* neither a refused directory nor a name too long for the stack hides, once, at its depth,
\* and no entry twice, and stands where it should, in every tree, with any number of such
\* directories and names and however many entries are removed while it goes; and whatever
\* is moved, it has counted the visits it made (ftw, doPath, create_node).
THEOREM WalkIsComplete == FairSpec => []WalkComplete
<1>1. LabInv => WalkComplete
  BY WalkLeft DEF LabInv, Walked
<1> QED
  BY <1>1, LabInvariant, PTL

\* Where the parent reads after every fork, each read returns the whole message of the
\* child that was forked before it, and where it reads byte by byte after all forks, the
\* messages of the children that have seen the signal come each in one piece, for every
\* number of children that share the end and all lengths of the messages (task_04.c,
\* task_05.c, and main of lab-socket/task-01).
THEOREM MessagesAreWhole == FairSpec => []MessagesWhole
<1>1. MessageInv => Messages!ReadsWhole
  <2> SUFFICES ASSUME MessageInv, prog.reads, NEW k \in 1 .. Len(got)
               PROVE  k \in Messages!Children /\ got[k] = Messages!Message(k)
    BY DEF Messages!ReadsWhole
  <2>1. prog.count \in Nat /\ Len(got) \in Nat /\ Len(got) <= prog.count
    BY ParentFacts, LenProperties DEF MessageInv, Messages!TypeOK, ReadSoFar
  <2> QED
    BY <2>1 DEF MessageInv, ReadSoFar, Messages!Children
<1>2. MessageInv /\ BytesInv => Messages!BytesWhole
  <2> SUFFICES ASSUME MessageInv, BytesInv, ~prog.reads, pat \in {"wait", "done"}
               PROVE  Messages!BytesWhole
    BY DEF Messages!BytesWhole
  <2>1. up = <<>> /\ Single(got) /\ Pieces(AllBytes(got, up), sent)
    BY DEF BytesInv, ForkedInOrder
  <2>2. PICK n \in Nat : n = Len(got)
    BY LenProperties DEF MessageInv, Messages!TypeOK
  <2>3. PICK w : w = AllBytes(got, up)
    OBVIOUS
  <2>4. Len(w) = n /\ \A k \in 1 .. n : w[k] = got[k][1]
    BY <2>1, <2>2, <2>3 DEF AllBytes
  <2>5. \A k \in 1 .. n, c \in Messages!Children : w[k] = c <=> got[k] = <<c>>
    BY <2>1, <2>2, <2>4 DEF Single
  <2>6. ASSUME NEW c \in Messages!Children
        PROVE  \E f \in 0 .. n : {k \in 1 .. n : got[k] = <<c>>} =
                                     f + 1 .. f + (IF c \in sent THEN UpLen[c] ELSE 0)
    <3>1. PICK s \in Nat : s = IF c \in sent THEN UpLen[c] ELSE 0
      BY MessageType DEF MessageInv, Messages!TypeOK
    <3>2. PICK f \in Nat : InPiece(w, c, f, s)
      BY <2>1, <2>3, <3>1 DEF Pieces
    <3>3. f + s <= n /\ \A k \in 1 .. n : w[k] = c <=> f < k /\ k <= f + s
      BY <2>4, <3>2 DEF InPiece
    <3>4. f \in 0 .. n /\ {k \in 1 .. n : got[k] = <<c>>} = f + 1 .. f + s
      BY <2>5, <3>3
    <3> QED
      BY <3>1, <3>4
  <2> QED
    BY <2>1, <2>2, <2>6 DEF Single, Messages!BytesWhole
<1>3. MessageInv /\ BytesInv => MessagesWhole
  BY <1>1, <1>2 DEF MessagesWhole, Messages!MessagesWhole
<1> QED
  BY <1>3, LabInvariant, PTL DEF LabInv

\* However many instances are started, and whatever they are sent, the ones that serve
\* signals are at most one, the one that has the pid file locked; the file names it, or its
\* pid could not be written and the file names nobody or a daemon that has ended
\* (already_running, lockfile).
THEOREM DaemonIsOne == FairSpec => []OneDaemon
<1>1. DaemonInv => OneDaemon
  <2> SUFFICES ASSUME DaemonInv, NEW d \in Instances, dat[d] \in Daemons!Blocked
               PROVE  /\ lock = d
                      /\ \A j \in Instances \ {d} :
                            dat[j] \notin Daemons!Blocked \cup {"locked", "truncated", "named"}
                      /\ pidfile # d => /\ d \in unwritten
                                        /\ pidfile = Nobody \/ dat[pidfile] = "dead"
    BY DEF OneDaemon, Daemons!OneDaemon
  <2>1. lock = d /\ \A j \in Instances : dat[j] \in Holding => j = d
    BY DEF DaemonInv, HolderHasLock, Holding, Named
  <2>2. pidfile = d \/ d \in unwritten
    BY DEF DaemonInv, NamedIsInFile, Named
  <2>3. pidfile \in Instances /\ pidfile # d => dat[pidfile] = "dead"
    BY <2>1 DEF DaemonInv, FileIsOld
  <2>4. pidfile \in Instances \cup {Nobody}
    BY DEF DaemonInv, Daemons!TypeOK
  <2> QED
    BY <2>1, <2>2, <2>3, <2>4 DEF Holding, Named
<1> QED
  BY <1>1, LabInvariant, PTL DEF LabInv

\* Of two streams that write the same file the one that is closed last is left, letter by
\* letter, for every even number of letters and however the threads are scheduled
\* (task-06, task-07).
THEOREM LastCloseIsLeft == FairSpec => []LastCloseWins
<1>1. FileInv => LastCloseWins
  <2> SUFFICES ASSUME FileInv, task.writes, ~refused,
                      main \in {"closed1", "info1", "end"}
               PROVE  /\ main = "end" => file = [k \in 1 .. LAST \div 2 |-> 2 * k]
                      /\ main \in {"closed1", "info1"} =>
                            file = [k \in 1 .. LAST \div 2 |-> 2 * k - 1]
    BY DEF LastCloseWins, Files!LastCloseWins
  <2>1. 1 \in Files!Streams /\ 2 \in Files!Streams
    BY DEF Files!Streams
  <2>2. fat[1] = "end" /\ fat[2] = "end"
    BY <2>1 DEF FileInv, Joined
  <2>3. LAST \in Nat /\ buf[1] \in Seq(Nat) /\ buf[2] \in Seq(Nat)
    BY <2>1, TakenTypes, Assumptions DEF FileInv, Files!LettersAssumption
  <2>4. PICK h \in Nat : h = LAST \div 2
    BY <2>3
  <2>5. /\ Len(buf[1]) = h /\ \A k \in 1 .. h : buf[1][k] = 1 + 2 * (k - 1)
        /\ Len(buf[2]) = h /\ \A k \in 1 .. h : buf[2][k] = 2 + 2 * (k - 1)
    BY <2>1, <2>2, <2>4, HalfEach
  <2>6. \A k \in 1 .. h : buf[1][k] = 2 * k - 1 /\ buf[2][k] = 2 * k
    BY <2>4, <2>5
  <2>7. buf[1] = [k \in 1 .. h |-> 2 * k - 1]
    BY <2>3, <2>5, <2>6
  <2>8. buf[2] = [k \in 1 .. h |-> 2 * k]
    BY <2>3, <2>5, <2>6
  <2>9. /\ main = "end" => file = buf[2]
        /\ main \in {"closed1", "info1"} => file = buf[1]
    BY DEF FileInv, WriteInv, Written
  <2> QED
    BY <2>4, <2>7, <2>8, <2>9
<1> QED
  BY <1>1, LabInvariant, PTL DEF LabInv

\* Every letter that is read through an open file is handed out once and in order, to one
\* of the streams on it, and a program that ends has printed all it took; for every number
\* of letters, every size of the buffers and every interleaving (task-01 to task-05).
THEOREM LettersHandedOnce == FairSpec => []EachLetterOnce
<1>1. FileInv => EachLetterOnce
  <2> SUFFICES ASSUME FileInv, ~task.writes
               PROVE  Files!EachLetterOnce
    BY DEF EachLetterOnce, Files!EachLetterOnce
  <2>1. 1 \in Files!Streams /\ 2 \in Files!Streams /\ Files!Streams = {1, 2}
    BY DEF Files!Streams
  <2>2. Handed /\ \A s \in Files!Streams : InHand(s)
    BY DEF FileInv, ReadInv
  <2>3. ASSUME task.shared, NEW d \in {Files!Desc(s) : s \in Files!Streams}
        PROVE  UNION {Holds(s) : s \in {t \in Files!Streams : Files!Desc(t) = d}}
                 = 1 .. offset[d]
    <3>1. d = 1 /\ {t \in Files!Streams : Files!Desc(t) = d} = {1, 2}
      BY <2>1, <2>3 DEF Files!Desc
    <3>2. UNION {Holds(s) : s \in {1, 2}} = Holds(1) \cup Holds(2)
      OBVIOUS
    <3> QED
      BY <2>2, <2>3, <3>1, <3>2 DEF Handed
  <2>4. ASSUME ~task.shared, NEW d \in {Files!Desc(s) : s \in Files!Streams}
        PROVE  UNION {Holds(s) : s \in {t \in Files!Streams : Files!Desc(t) = d}}
                 = 1 .. offset[d]
    <3>1. d \in Files!Streams /\ {t \in Files!Streams : Files!Desc(t) = d} = {d}
      BY <2>4 DEF Files!Desc
    <3>2. UNION {Holds(s) : s \in {d}} = Holds(d)
      OBVIOUS
    <3> QED
      BY <2>2, <2>4, <3>1, <3>2 DEF Handed
  <2>5. ASSUME main = "end", NEW s \in Files!Streams
        PROVE  out[s] = Files!Taken(s) /\ offset[Files!Desc(s)] = LAST
    <3>1. fat[s] = "end"
      BY <2>5 DEF FileInv, Joined
    <3>2. hand[s] = 0 /\ buf[s] = <<>> /\ offset[Files!Desc(s)] = LAST
      BY <2>2, <3>1 DEF InHand
    <3>3. out[s] \in Seq(Nat)
      BY TakenTypes DEF FileInv
    <3>4. Files!Taken(s) = (out[s] \o <<>>) \o <<>>
      BY <3>2 DEF Files!Taken
    <3> QED
      BY <3>2, <3>3, <3>4, ConcatEmptySeq
  <2> QED
    BY <2>2, <2>3, <2>4, <2>5 DEF Files!EachLetterOnce, Handed, Holds
<1> QED
  BY <1>1, LabInvariant, PTL DEF LabInv

-----------------------------------------------------------------------------
(* Why the walk ends.  A directory that is read puts more on the stack than it took, but
   only names of entries that were not visited; so the entries to visit, then the calls
   left of the directory in hand, then the stack run down. *)

Unseen == {x \in Nodes : reported[x] = <<>>}

CallsLeft ==
    CASE pc = "start"   -> 5
      [] pc = "opendir" -> 4
      [] pc = "chdir"   -> 3
      [] pc = "readdir" -> 2
      [] pc = "loop"    -> 1
      [] OTHER          -> 0

LeftToDo == <<Cardinality(Unseen), CallsLeft, Len(stk)>>
LeftIsNatural == LeftToDo \in Nat \X Nat \X Nat

\* The order of the dictionary, which has no endless descent in triples of naturals.
Before(a, b) ==
    \/ a[1] < b[1]
    \/ a[1] = b[1] /\ a[2] < b[2]
    \/ a[1] = b[1] /\ a[2] = b[2] /\ a[3] < b[3]

\* What is left to do is three naturals.
LEMMA LeftTypes ==
    ASSUME TreeInv
    PROVE  /\ IsFiniteSet(Unseen) /\ Cardinality(Unseen) \in Nat
           /\ CallsLeft \in Nat /\ Len(stk) \in Nat
<1>1. Tree!IsFiniteSet(Entries)
  BY Assumptions DEF Tree!TreeAssumption
<1>2. IsFiniteSet(Entries)
  BY <1>1 DEF IsFiniteSet, Tree!IsFiniteSet
<1>3. IsFiniteSet(Nodes)
  BY <1>2, FS_AddElement DEF Nodes
<1>4. IsFiniteSet(Unseen) /\ Cardinality(Unseen) \in Nat
  BY <1>3, FS_Subset, FS_CardinalityType DEF Unseen
<1>5. Len(stk) \in Nat
  BY LenProperties DEF TreeInv, Tree!TypeOK
<1>6. CallsLeft \in Nat
  BY DEF CallsLeft
<1> QED
  BY <1>4, <1>5, <1>6

\* A visit is of an entry that was not visited.
LEMMA VisitIsFirst ==
    ASSUME TreeInv, CountInv, WalkInv', Tree!VisitFile \/ Tree!VisitDir
    PROVE  Cardinality(Unseen') < Cardinality(Unseen)
<1>1. PICK x \in Tree!Lookup :
        reported' = [reported EXCEPT ![x] = Append(@, elem.depth)] /\ elem.depth >= 0
  BY DEF Tree!VisitFile, Tree!VisitDir, Tree!Report
<1>2. x \in Nodes /\ elem.depth \in Nat /\ reported \in [Nodes -> Seq(Nat)]
  BY <1>1, LookupTypes, TreeFacts DEF CountInv, Nodes
<1>3. /\ reported'[x] # <<>> /\ Len(reported'[x]) = Len(reported[x]) + 1
      /\ \A y \in Nodes : y # x => reported'[y] = reported[y]
  <2>1. reported' = WithVisit(reported, x, elem.depth)
    BY <1>1 DEF WithVisit
  <2> QED
    BY <1>2, <2>1, OneMore
<1>4. Len(reported'[x]) <= 1 /\ Len(reported[x]) \in Nat
  BY <1>2, LenProperties DEF WalkInv, Visited
<1>5. reported[x] = <<>>
  <2>1. Len(reported[x]) = 0
    BY <1>3, <1>4
  <2>2. reported[x] \in Seq(Nat)
    BY <1>2
  <2> QED
    BY <2>1, <2>2, EmptySeq
<1>6. Unseen' = Unseen \ {x} /\ x \in Unseen
  BY <1>2, <1>3, <1>5 DEF Unseen
<1>7. IsFiniteSet(Unseen) /\ Cardinality(Unseen) \in Nat
  BY LeftTypes
<1>8. Cardinality(Unseen \ {x}) = Cardinality(Unseen) - 1
  BY <1>6, <1>7, FS_RemoveElement
<1> QED
  BY <1>6, <1>7, <1>8

\* What is popped makes the stack shorter.
LEMMA PopShortens ==
    ASSUME TreeInv, stk # <<>>, Tree!pop(stk)
    PROVE  Len(stk') < Len(stk) /\ pc' = "loop"
<1>1. PICK E : E = Tree!Elems
  OBVIOUS
<1>2. stk \in Seq(E) /\ stk' = Tail(stk)
  BY <1>1 DEF TreeInv, Tree!TypeOK, Tree!pop
<1>3. Len(Tail(stk)) = Len(stk) - 1 /\ Len(stk) \in Nat
  BY <1>2, HeadTailProperties, LenProperties
<1> QED
  BY <1>2, <1>3 DEF Tree!pop

\* Every call of the walk leaves less to do.
LEMMA WalkDescends ==
    ASSUME TreeInv, CountInv, WalkInv, Tree!Walk
    PROVE  Before(LeftToDo', LeftToDo)
<1>1. WalkInv'
  <2>1. moved' = moved
    BY DEF Tree!Walk, Tree!tree, Tree!Begin, Tree!BeginFails, Tree!Finish, Tree!GoUp,
         Tree!LstatFails, Tree!VisitFile, Tree!VisitDir, Tree!Opendir,
         Tree!OpendirFails, Tree!Chdir, Tree!ChdirFails, Tree!Readdir,
         Tree!Abort
  <2> QED
    BY BeginEnd, NothingVisited, FileVisited, DirVisited, DirEntered,
       DirPassed, DirRead DEF Tree!Walk
<1>2. CASE Tree!VisitFile \/ Tree!VisitDir
  BY <1>1, <1>2, VisitIsFirst DEF Before, LeftToDo
<1>3. CASE UNCHANGED reported
  <2>1. Cardinality(Unseen') = Cardinality(Unseen)
    BY <1>3 DEF Unseen
  <2>2. CASE Tree!GoUp \/ Tree!LstatFails
    <3>1. pc = "loop" /\ pc' = "loop" /\ Len(stk') < Len(stk)
      BY <2>2, PopShortens DEF Tree!GoUp, Tree!LstatFails, Tree!InLoop
    <3>2. CallsLeft' = CallsLeft
      BY <3>1 DEF CallsLeft
    <3> QED
      BY <2>1, <3>1, <3>2 DEF Before, LeftToDo
  <2>3. CASE CallsLeft' < CallsLeft
    BY <2>1, <2>3 DEF Before, LeftToDo
  <2>4. CASE Tree!Begin \/ Tree!BeginFails \/ Tree!Finish \/ Tree!Abort
    BY <2>3, <2>4 DEF Tree!Begin, Tree!BeginFails, Tree!Finish, Tree!Abort, CallsLeft
  <2>5. CASE Tree!Opendir \/ Tree!Chdir
    BY <2>3, <2>5 DEF Tree!Opendir, Tree!Chdir, CallsLeft
  <2>6. CASE Tree!OpendirFails \/ Tree!ChdirFails \/ Tree!Readdir
    <3>1. pc \in {"opendir", "chdir", "readdir"} /\ pc' = "loop"
      BY <2>6 DEF Tree!OpendirFails, Tree!ChdirFails, Tree!Readdir, Tree!pop
    <3> QED
      BY <2>3, <3>1 DEF CallsLeft
  <2>7. CASE Tree!VisitFile \/ Tree!VisitDir
    BY <1>2, <2>7
  <2> QED
    BY <2>2, <2>4, <2>5, <2>6, <2>7 DEF Tree!Walk
<1> QED
  BY <1>2, <1>3 DEF Tree!Walk, Tree!Begin, Tree!BeginFails, Tree!Finish, Tree!GoUp,
     Tree!LstatFails, Tree!Opendir, Tree!OpendirFails, Tree!Chdir, Tree!ChdirFails,
     Tree!Readdir, Tree!Abort

\* In every tree, as long as nothing was moved, each call of ftw and doPath leaves less to
\* do: entries to visit, calls at the directory in hand, or elements on the stack, whatever
\* is refused or removed between the calls.  So the walk, which does not wait for anybody,
\* makes no endless way through a tree.
THEOREM WalkRunsDown ==
    FairSpec => [][~moved /\ Tree!Walk =>
                       LeftIsNatural /\ LeftIsNatural' /\ Before(LeftToDo', LeftToDo)]_vars
<1>1. ASSUME LabInv, ~moved, Tree!Walk PROVE Before(LeftToDo', LeftToDo)
  BY <1>1, WalkDescends DEF LabInv, Walked
<1>2. LabInv => LeftIsNatural
  BY LeftTypes DEF LabInv, LeftIsNatural, LeftToDo
<1> QED
  BY <1>1, <1>2, LabInvariant, PTL DEF FairSpec
=============================================================================

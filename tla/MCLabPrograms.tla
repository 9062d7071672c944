--------------------------- MODULE MCLabPrograms ----------------------------
(***************************************************************************)
(* Four programs that have nothing in common but the machine: the tree     *)
(* walk, the open files, the daemon and the children's messages.  The one  *)
(* that runs is chosen in Init; the others stay as they are, in one of     *)
(* their initial states.                                                   *)
(***************************************************************************)
EXTENDS Naturals, Sequences

CONSTANTS Entries, Names, Root, Outside, MaxFaults, LAST, BUFF_SIZE,
          Instances, Users, MaxHup, Nobody, UpLen, DownLen

VARIABLES
    program,
    parent, name, isDir, closed, noEntry, long, present, moved, pc, stk, elem, cwd, dp, stats,
    reported,
    task, main, born, refused, turn, fat, hand, buf, offset, out, file,
    dat, lock, pidfile, pending, hup, conf, uid, termed, unwritten,
    prog, pat, i, writeEnd, flag, cat, up, down, got, sent

Tree == INSTANCE TreeWalk
Files == INSTANCE OpenFiles WITH prog <- task, at <- fat
Daemons == INSTANCE Daemon WITH at <- dat
Messages == INSTANCE ChildMessages WITH at <- pat

ASSUME Assumptions ==
    /\ Tree!TreeAssumption /\ Files!LettersAssumption
    /\ Daemons!DaemonAssumption /\ Messages!ChildAssumption

treeVars == <<parent, name, isDir, closed, noEntry, long, present, moved, pc, stk, elem, cwd,
              dp, stats, reported>>
fileVars == <<task, main, born, refused, turn, fat, hand, buf, offset, out, file>>
daemonVars == <<dat, lock, pidfile, pending, hup, conf, uid, termed, unwritten>>
messageVars == <<prog, pat, i, writeEnd, flag, cat, up, down, got, sent>>
vars == <<program, treeVars, fileVars, daemonVars, messageVars>>

Init ==
    /\ program \in {"ftw", "bio", "daemon", "children"}
    /\ Tree!Init
    /\ program # "ftw" =>
          /\ parent = [e \in Entries |-> IF e = 1 THEN Root ELSE e - 1]
          /\ \A e, f \in Entries : name[e] = name[f]
          /\ name[1] = CHOOSE n \in Names : TRUE
          /\ isDir = Entries /\ closed = {} /\ noEntry = {} /\ long = {}
    /\ Files!Init /\ (program # "bio" => task = Files!task_01)
    /\ Daemons!Init /\ (program # "daemon" => conf = {0})
    /\ Messages!Init /\ (program # "children" => prog = Messages!task_04)

(* An action of one program; the others do nothing. *)
Ftw(A) == program = "ftw" /\ A /\ UNCHANGED <<program, fileVars, daemonVars, messageVars>>
Bio(A) == program = "bio" /\ A /\ UNCHANGED <<program, treeVars, daemonVars, messageVars>>
Dmn(A) == program = "daemon" /\ A /\ UNCHANGED <<program, treeVars, fileVars, messageVars>>
Chl(A) == program = "children" /\ A /\ UNCHANGED <<program, treeVars, fileVars, daemonVars>>

Next == Ftw(Tree!Next) \/ Bio(Files!Next) \/ Dmn(Daemons!Next) \/ Chl(Messages!Next)

\* Every process of the program that runs is scheduled; nothing is assumed about
\* what comes from outside: signals, other processes at the tree, starting a daemon.
Fairness ==
    /\ WF_vars(Ftw(Tree!Walk))
    /\ \A d \in Instances : WF_vars(Dmn(Daemons!Step(d)))
    /\ WF_vars(Chl(Messages!Parent))
    /\ \A c \in 1 .. Len(UpLen) : WF_vars(Chl(c \in Messages!Children /\ Messages!Child(c)))

FairSpec == Init /\ [][Next]_vars /\ Fairness

-----------------------------------------------------------------------------
\* Messages of three children, and answers to them, for TLC.
ThreeMessages == <<3, 2, 4>>
ThreeAnswers  == <<2, 1, 3>>

\* The types of all four.
TypeOK == Tree!TypeOK /\ Files!TypeOK /\ Daemons!TypeOK /\ Messages!TypeOK

\* The properties of the programs; see their modules.
WalkComplete   == Tree!WalkComplete
EachLetterOnce == Files!EachLetterOnce
LastCloseWins  == Files!LastCloseWins
OneDaemon      == Daemons!OneDaemon
MessagesWhole  == Messages!MessagesWhole

\* The walk ends, whatever is refused, removed or moved around it; parent and children
\* end, though reads sleep and answers are stolen; a daemon that was sent SIGTERM ends,
\* though SIGHUPs get ahead.
ProgramsEnd ==
    []<>(CASE program = "ftw"      -> Tree!WalkEnded
           [] program = "children" -> Messages!Finished
           [] program = "daemon"   -> Daemons!TermObeyed
           [] OTHER                -> TRUE)
=============================================================================

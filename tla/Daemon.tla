------------------------------- MODULE Daemon -------------------------------
(***************************************************************************)
(* The daemon (lab-processes/daemon/mydaemon.c): started any number of     *)
(* times, kept single by a locked file that also holds its pid, and        *)
(* controlled by SIGHUP and SIGTERM, which a thread of it waits for.       *)
(*                                                                         *)
(* Each instance is one process, the child daemonize leaves; its name      *)
(* stands for its pid.  The lock (external: fcntl) belongs to the process  *)
(* and goes with it; the file stays, with whatever pid is in it.  The      *)
(* kernel hands out the pending signal with the lowest number first, which *)
(* is SIGHUP.                                                              *)
(*                                                                         *)
(* Nobody looks at the results of ftruncate and write: a daemon whose pid  *)
(* could not be written goes on, with whatever the file holds.             *)
(*                                                                         *)
(* Signals are blocked late: until then, and that includes the time in     *)
(* which the file already names the process, SIGHUP and SIGTERM kill it.   *)
(***************************************************************************)
EXTENDS Naturals

CONSTANTS
    Instances,   \* the daemons that are ever started
    Users,       \* user ids above 0 that a configuration can name
    MaxHup,      \* SIGHUPs sent in a run
    Nobody       \* no process

DaemonAssumption == Users \subseteq Nat \ {0} /\ MaxHup \in Nat /\ Nobody \notin Instances

VARIABLES
    at,         \* where each instance is
    lock,       \* the process that has the lock on LOCKFILE
    pidfile,    \* the pid in it; Nobody when it is empty
    pending,    \* blocked signals of each instance
    hup,        \* the SIGHUPs sent so far
    conf,       \* what reading the configuration may leave in userID
    uid,        \* the user each instance runs as
    termed,     \* history: the living instances that were sent SIGTERM after the mask
    unwritten   \* history: the instances whose pid could not be written

vars == <<at, lock, pidfile, pending, hup, conf, uid, termed, unwritten>>

Unblocked == {"daemonize", "sleep", "opened", "locked", "truncated", "named"}
Blocked   == {"masked", "waiting", "reread"}

\* The file names a user; or there is no file, or a userID of 0, and reread does
\* nothing; or there is no userID, and the variable stays unset: anything.
Confs == {{u} : u \in Users \cup {0}} \cup {Users \cup {0}}

TypeOK ==
    /\ at \in [Instances -> {"absent", "dead"} \cup Unblocked \cup Blocked]
    /\ lock \in Instances \cup {Nobody}
    /\ pidfile \in Instances \cup {Nobody}
    /\ pending \in [Instances -> SUBSET {"SIGHUP", "SIGTERM"}]
    /\ hup \in 0 .. MaxHup
    /\ conf \in Confs
    /\ uid \in [Instances -> Users \cup {0}]
    /\ termed \subseteq Instances /\ unwritten \subseteq Instances

Init ==
    /\ at = [i \in Instances |-> "absent"]
    /\ lock = Nobody
    /\ pidfile = Nobody
    /\ pending = [i \in Instances |-> {}]
    /\ hup = 0
    /\ conf \in Confs
    /\ uid = [i \in Instances |-> 0]
    /\ termed = {} /\ unwritten = {}

Goes(i, from, to) == at[i] = from /\ at' = [at EXCEPT ![i] = to]

\* The process ends; its lock goes with it, the file stays.
Ends(i) ==
    /\ at' = [at EXCEPT ![i] = "dead"]
    /\ lock' = IF lock = i THEN Nobody ELSE lock
    /\ pending' = [pending EXCEPT ![i] = {}]
    /\ termed' = termed \ {i}
    /\ UNCHANGED <<pidfile, hup, conf, uid, unwritten>>

-----------------------------------------------------------------------------
(* main *)

\* The first fork has worked and the parent is gone.
Start(i) ==
    /\ Goes(i, "absent", "daemonize")
    /\ UNCHANGED <<lock, pidfile, pending, hup, conf, uid, termed, unwritten>>

\* setsid, chdir, the descriptors.
daemonize(i) ==
    /\ Goes(i, "daemonize", "sleep")
    /\ UNCHANGED <<lock, pidfile, pending, hup, conf, uid, termed, unwritten>>

daemonizeFails(i) ==
    /\ at[i] = "daemonize"
    /\ Ends(i)

\* A slip: the file is opened with O_TRUNC.
OpenLockFileTrunc(i) ==
    /\ Goes(i, "sleep", "opened")
    /\ pidfile' = Nobody
    /\ UNCHANGED <<lock, pending, hup, conf, uid, termed, unwritten>>

\* already_running: open
OpenLockFile(i) ==
    /\ Goes(i, "sleep", "opened")
    /\ UNCHANGED <<lock, pidfile, pending, hup, conf, uid, termed, unwritten>>

\* It cannot be opened, or not be locked and not because another has the lock.
OpenLockFileFails(i) ==
    /\ at[i] \in {"sleep", "opened"}
    /\ Ends(i)

\* lockfile: F_SETLK
lockfile(i) ==
    /\ Goes(i, "opened", "locked")
    /\ lock = Nobody
    /\ lock' = i
    /\ UNCHANGED <<pidfile, pending, hup, conf, uid, termed, unwritten>>

\* Another has the lock: "daemon already running".
AlreadyRunning(i) ==
    /\ at[i] = "opened" /\ lock # Nobody
    /\ Ends(i)

Truncate(i) ==
    /\ Goes(i, "locked", "truncated")
    /\ pidfile' = Nobody
    /\ UNCHANGED <<lock, pending, hup, conf, uid, termed, unwritten>>

\* The result is ignored, and the pid of an earlier daemon stays in the file.
TruncateFails(i) ==
    /\ Goes(i, "locked", "truncated")
    /\ UNCHANGED <<lock, pidfile, pending, hup, conf, uid, termed, unwritten>>

\* The 0 after the digits hides what may be left of a longer pid.
WritePid(i) ==
    /\ Goes(i, "truncated", "named")
    /\ pidfile' = i
    /\ UNCHANGED <<lock, pending, hup, conf, uid, termed, unwritten>>

\* The result is ignored; the few bytes are written or not.
WriteFails(i) ==
    /\ Goes(i, "truncated", "named")
    /\ unwritten' = unwritten \cup {i}
    /\ UNCHANGED <<lock, pidfile, pending, hup, conf, uid, termed>>

\* sigaction(SIGHUP, SIG_DFL) and pthread_sigmask.
BlockSignals(i) ==
    /\ Goes(i, "named", "masked")
    /\ UNCHANGED <<lock, pidfile, pending, hup, conf, uid, termed, unwritten>>

\* pthread_create; the thread inherits the mask.
CreateThread(i) ==
    /\ Goes(i, "masked", "waiting")
    /\ UNCHANGED <<lock, pidfile, pending, hup, conf, uid, termed, unwritten>>

\* One of these calls fails, and main exits.
SignalsFail(i) ==
    /\ at[i] \in {"named", "masked"}
    /\ Ends(i)

-----------------------------------------------------------------------------
(* thr_fn *)

\* SIGTERM: exit(0)
SigwaitTerm(i) ==
    /\ at[i] = "waiting" /\ pending[i] = {"SIGTERM"}
    /\ Ends(i)

\* sigwait returns SIGHUP.
SigwaitHup(i) ==
    /\ Goes(i, "waiting", "reread")
    /\ "SIGHUP" \in pending[i]
    /\ pending' = [pending EXCEPT ![i] = @ \ {"SIGHUP"}]
    /\ UNCHANGED <<lock, pidfile, hup, conf, uid, termed, unwritten>>

\* reread: setuid to the user of the configuration, which only root can do.
reread(i) ==
    /\ Goes(i, "reread", "waiting")
    /\ \E userID \in conf :
          uid' = IF userID # 0 /\ uid[i] = 0 THEN [uid EXCEPT ![i] = userID] ELSE uid
    /\ UNCHANGED <<lock, pidfile, pending, hup, conf, termed, unwritten>>

-----------------------------------------------------------------------------
(* From outside. *)

\* kill: the default action, or the signal stays pending.
Kill(i, sig) ==
    \/ at[i] \in Unblocked /\ Ends(i)
    \/ /\ at[i] \in Blocked
       /\ sig = "SIGHUP" => hup < MaxHup
       /\ hup' = IF sig = "SIGHUP" THEN hup + 1 ELSE hup
       /\ pending' = [pending EXCEPT ![i] = @ \cup {sig}]
       /\ termed' = IF sig = "SIGTERM" THEN termed \cup {i} ELSE termed
       /\ UNCHANGED <<at, lock, pidfile, conf, uid, unwritten>>

\* The configuration is edited between two signals.
Edit ==
    /\ conf' \in Confs
    /\ UNCHANGED <<at, lock, pidfile, pending, hup, uid, termed, unwritten>>

Step(i) ==
    \/ daemonize(i) \/ OpenLockFile(i) \/ lockfile(i) \/ AlreadyRunning(i)
    \/ Truncate(i) \/ TruncateFails(i) \/ WritePid(i) \/ WriteFails(i)
    \/ BlockSignals(i) \/ CreateThread(i)
    \/ SigwaitTerm(i) \/ SigwaitHup(i) \/ reread(i)

Next ==
    \/ \E i \in Instances :
          \/ Start(i) \/ Step(i)
          \/ daemonizeFails(i) \/ OpenLockFileFails(i) \/ SignalsFail(i)
          \/ \E sig \in {"SIGHUP", "SIGTERM"} : Kill(i, sig)
    \/ Edit

Spec == Init /\ [][Next]_vars

-----------------------------------------------------------------------------
(* Properties *)

\* The one daemon that serves signals is the one that has the file locked, however many
\* were started, killed or refused around it and whenever.  The file names it, and a
\* starting instance does not touch its pid; only when the pid could not be written, the
\* file is empty or names a daemon that has ended, never another one that runs.
OneDaemon ==
    \A i \in Instances : at[i] \in Blocked =>
        /\ lock = i
        /\ \A j \in Instances \ {i} : at[j] \notin Blocked \cup {"locked", "truncated", "named"}
        /\ pidfile # i => i \in unwritten /\ (pidfile = Nobody \/ at[pidfile] = "dead")

\* It comes to this again and again: a daemon that was sent SIGTERM ends, also when
\* SIGHUPs get ahead of it.
TermObeyed == termed = {}
=============================================================================

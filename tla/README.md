# TLA+ models of the operating-systems labs

The repository is a collection of lab programs for two semesters of a course on operating
systems. There is no single application: the "system" is a set of independent C programs that
coordinate processes, threads, network clients or interrupts, or are loaded into the kernel.
This project models every one of them that keeps state over more than one step; the rest prints
something once and ends.

## 1. Inventory

All paths are below `src/`; `S1` is `semester-01/lab`, `S2` is `semester-02/lab`.

| Component | State | Operations | Hard because | What makes it correct |
|---|---|---|---|---|
| `S1/lab-shmemory/semaphore/wr.c`: readers and writers | one shared int, five semaphores, a `flag` per process | `start_read`, `stop_read`, `start_write`, `stop_write`, `sig_catch`, fork/wait/cleanup in `main` | processes interleave; SIGINT interrupts a semop; a release reads past its array | semaphores count the processes inside; writers exclude each other; no lost update; nobody starves; IPC objects outlive the children |
| `S1/lab-shmemory/semaphore/pc.c`: producers and consumers | a segment with two cursors and cells, three semaphores | lock, write/read, advance, release; SIGINT; `main` | as above; cursors never wrap | the segment is a bounded FIFO queue; every item is consumed |
| `S1/lab-shmemory/mutex/main.c`: a monitor from Windows events | two events, a mutex, three counters, a flag | `start_read` ... `stop_write` by threads | tests and updates are separate; a poll consumes an event | counters are right, writers are alone, nobody is put off for ever |
| `S1/lab-rpc/bakery`: calculator with numbers | numbers and a static result in the server; client processes | `get_number`, `bakery_service`, retries, timeouts | UDP loses, repeats, delays; the server executes every copy | unique numbers, service in order, own answers, the parent ends |
| `S1/lab-rpc/prodcons`: producers and consumers over RPC | a ring, semaphores, result table in the server; a static reply shared by client threads | start request, poll, server threads, SIGINT | server threads beside the dispatcher; doubled requests; shared static reply; the letter is a char that wraps | a production is consumed once; semaphores balance |
| `S2/lab-socket/task-04`, `task-05`: symbol servers | array of symbols, four semaphores, a handler per connection | read the array, take a symbol; shutdown by SIGINT | handlers of many clients; the server removes the objects under them; threads share an index; a failing `send` ends a handler inside | a copy is consistent, a symbol is given once, semaphores count who is and who was left inside |
| `S2/lab-socket/task-06`: symbol server with `select` | descriptors, array | select loop, blocking accept and recv, client threads | one thread that may block on the wrong descriptor | every client ends, a symbol is given once |
| `S2/lab-irq/task-02/wq.c`: keyboard interrupt with two work items | the code in each item, pending bits, `shift_pressed`, `caps_lock_on` | the interrupt handler, the two work functions, loading and unloading | interrupts come at any moment; a pending item is not queued again; the line is requested before the items exist | the last code is handled by both items |
| `S2/lab-socket/task-03`: calculator over local sockets | a flag, a queue of connections, one at a time served | accept, recv, send; the alarm; clients that ask again and again | clients and server may vanish; an answer to a dead client kills the server; the alarm restarts accept | everybody ends |
| `S1/lab-processes/daemon/mydaemon.c` | a lock file with a pid, pending signals, the user id | start, lock, truncate, write the pid, block signals, wait for them, reread | several instances at a time; signals before they are blocked; nobody looks whether the pid was written | at most one serves signals, and the file names it or, unwritten, no other that runs; SIGTERM ends it |
| `S1/lab-processes/part-02/task_04.c`, `task_05.c`, `S2/lab-socket/task-01`: parent and children | a pipe or a pair of sockets with shared ends | write, read, answer, close, wait; SIGINT | reads sleep while anybody has the other end; answers are taken by the wrong child | messages arrive whole, everybody ends |
| `S2/lab-bio`: two streams on one file | offsets, buffers, the file | refill, take, print; write, close; threads | refills interleave on a shared offset; both streams write from the start | each letter is handed out once per open file; the last close decides |
| `S2/lab-fileSystem/task-ftw`: tree walk | a stack of names, the working directory, counters | lstat, visit, opendir, chdir, readdir, the way back | names are looked up later and elsewhere than read; calls are refused; others change the tree; names may be longer than their place on the stack | what can be reached is visited once at its depth; the walk ends |
| `S2/lab-module/task-03`: fortune file | a pot, two indices, four resources | write, read, loading, unloading | the file can be used before loading is over; copies fail half way; a write may hold null bytes | reads go round what was written, a whole string at a time; nothing is left behind |
| `S2/lab-module/task-04`: pid tables | three places and a count | unlocked writes, reads by iterator or loop, loading, unloading | `pids[count++]` is three accesses | counted places are filled; nothing is left behind |
| `S2/lab-vfs`: file system module | the registered type, an array, a slab cache and its objects, mounts | loading, mounting, unmounting, unloading | the type can be mounted while loading may still fail | what is left behind |

Interaction is by shared memory and semaphores inside a program (wr.c, pc.c, the handlers of
task-04 and task-05, the threads of the prodcons server), by events (mutex/main.c), and by
messages between a server and its clients (RPC over UDP, TCP connections).

Components that are not modelled are listed in section 8.

## 2. Modules

| Module | Models | State and actions |
|---|---|---|
| `SysVSem` | `semop(2)`, external: the kernel | `Passes(sem, ops)` and `After(sem, ops)`: an array of operations is done all or nothing. Written out up to five operations so that it needs no recursion and can be used in proofs |
| `ReadersWriters` | `wr.c` | one action per semop, done or put to sleep; the load and the store of `(*shm)++`; every return path of `main`; `Sigint` in any process at any moment |
| `BoundedQueue` | what a producers-consumers buffer promises | `Put`, `Get` on a bounded FIFO queue; after `Lifetime` items it promises nothing (`WornOut`) |
| `ProducersConsumers` | `pc.c` | lock, access, advance, release; `Setup`, in which any SETVAL may fail; implements `BoundedQueue`. `first`, the values `main` forked with, is history |
| `EventMonitor` | `mutex/main.c` | every access to a shared variable and every system call is a step |
| `Bakery` | `lab-rpc/bakery` | server handlers run to the end (`svc_run` is single-threaded); the client's calls; UDP as a set of requests and replies; `network`, chosen in `Init`, is `"smooth"` or `"lossy"` |
| `RpcProdCons` | `lab-rpc/prodcons` | dispatcher, server threads, client threads and the static `clnt_res`; the letter is a char that wraps. `made`, `stamp` and `num` (which production is in a cell or a result) are history |
| `SymbolPool` | `task-04` and `task-05`; the variable `threaded`, chosen in `Init`, says which | reading and writing handler of each client, the failing `send`s included, clients, shutdown; `left`, the handlers that ended inside, is history |
| `SelectServer` | `task-06` | the scan over descriptors, client threads |
| `KeyWorkqueue` | `lab-irq/task-02/wq.c`; the kernel's queue is external | one action per call of `keylogger_init` and `keylogger_exit`, per store and `queue_work` of the handler, per load and store of an item; `handled` is history |
| `UnixCalculator` | `task-03` | accept, recv, send and `handler` of the server; connect, send and recv of each client, which may be killed |
| `Daemon` | `mydaemon.c`; `fcntl` and the delivery of signals are external | one action per call of `main` after `daemonize`, `sigwait` and `reread` of the thread, the `ftruncate` and `write` that fail unnoticed; `Kill` and `Edit` from outside; `termed` and `unwritten` are history |
| `ChildMessages` | `task_04.c`, `task_05.c`, socket `task-01`; `prog`, chosen in `Init`, is a record of what tells them apart | the parent's loop, a child's write and read, `sig_handler` |
| `OpenFiles` | `lab-bio` task-01 to task-07; `prog` as above | refill, take, peek, print, end of file, put and flush of each stream; `main` |
| `TreeWalk` | `task-ftw` with `lib/stack.c` and `lib/statistics.c` | one action per system call of `doPath` and its outcome; `create_node` with its `strcpy`; `Unlink` and `Move` by others |
| `Fortune` | `fortune.c` | one action per step of `md_init`; `fortuneRead`, `fortuneWrite` of any bytes and their failures; `written`, `heard`, `got` are history |
| `PidTable` | `seq.c` and `task-seq-single/my_module.c`; `iter`, chosen in `Init`, says which | the check, load, count and store of `my_write`; start, show and next of a read; loading and unloading |
| `VfsModule` | `lab-vfs/src/main.c`, `main_comm.c` | one action per step of `myvfs_init` and per way it fails; mount, unmount, `myvfs_exit` |
| `MCSysVLiveness`, `MCSocketPrograms`, `MCKernelModules`, `MCLabPrograms` | | programs that do not interact share a model: the one that runs is chosen in `Init`, and the variables of the others stay in an initial state. The sets of states are disjoint, so what TLC finds is what it would find in each module alone. Fairness is stated here |
| `ReadersWritersProofs`, `ProducersConsumersProofs`, `BakeryProofs`, `RpcProdConsProofs`, `SymbolPoolProofs` | | theorems about the module of that name; the first also about `EventMonitor`, through `MCEventMonitor` |
| `SocketProgramsProofs`, `KernelModulesProofs`, `LabProgramsProofs` | | theorems about the programs that share `MCSocketPrograms`, `MCKernelModules` and `MCLabPrograms` |
| `MCEventMonitor` | | the threads of `EventMonitor` beside `ReadersWriters`, which does not start, for the same readers and writers |
| other `MC...` | | symmetry sets for TLC; constants are given in the `.cfg` files |

Operators whose name extends that of an operation array, a handler or an action and whose
comment says "a slip" are deliberately wrong variants of it. They show that each property can
fail: replacing the definition by its variant makes TLC report the property (`mutants` in
`PROJECT.json`).

### Undefined behaviour and external parts

* `wr.c:76` passes `nsops = 3` with an array of two. What lies behind the array depends on the
  build. `layout` is chosen in `Init`: `"adjacent"` (the int `flag` follows, as gcc -O0 places
  it) or `"padded"` (zeros follow, as gcc -O2 places it).
* `wr.c:166` tests an uninitialised `pid`: `Setup` goes on to fork or skips both loops.
* `pc.c:44` past the last cell: the store goes to a page of the process alone, or the process is
  killed where it stands.
* `task-05/server.c:234` detaches the array while threads use it: `SegFault`.
* UDP: a request or reply may be lost, repeated and delayed; the RPC library drops a reply that
  nobody waits for. Datagrams are sets, so any number of copies is covered by `Retransmit`.
* `wq.c:102` with items that are not there or no longer there: the model stops (`Oops`). An item
  that is queued while it runs is run again afterwards, never twice at a time; two items may run
  together on two processors.
* `lab-bio` task-06 and task-07 call `ftell` on a closed stream, and with a refused thread close
  the stream of a running one: the process goes on or dies.
* `mydaemon.c:34` reads an uninitialised `userID` when the configuration has none: anything.
* `lib/stack.c:12` copies a name into a field of 200 bytes; a directory entry may have 255, the
  path of the root more. `long` is the set of the names that do not fit, chosen in `Init`. What
  such a node then says (`"garbled"`) names no entry: 200 bytes of the name and the depth behind
  them; or the heap is damaged and the program aborts (`Abort`).
* `fortune.c:45` lets a write through that is one byte too long, `:54` stores in front of the pot
  after an empty first write, `seq.c:127` may store beyond the table, `lab-vfs/src/main.c:118`
  beyond the array, `:120` frees a null object, `:63` puts an inode twice: the models stop there.
* A write of a few bytes to a pipe or socket is one step, a read takes what there is up to its
  size; a `read` from a file locks its offset; `kmem_cache_destroy` keeps a cache that has
  objects; `remove_proc_entry` waits for the calls under way.
* A Windows auto-reset event releases one sleeping thread or stays signalled until somebody
  waits.

### What is abstracted

Printed text, sleep times and random numbers; the value of the shared int is kept modulo `ShmMod`;
letters are numbers, a char of prodcons one of `0 .. Chars - 1` (of which `'a'` is `First`), so
that signed chars are counted as unsigned ones; a client's answer in `Bakery` is the client's
index (each operation has one true answer; only "own", "another's", `0.0` and `INFINITY` are told
apart); connect, accept, the start of a handler and its first recv are one step in `SymbolPool`,
since nothing shared is touched before the first semop. A `send` of the symbol servers that fails
has sent nothing. Above the directory a walk was given nothing is found: only a walk that went
astray after a move stands there, and other entries of the same name are not of the tree. The four
sends of a request in `UnixCalculator` and each call on the fortune file are one step; the seven
kinds of files `incStat` counts are one; pids are few and never looked up; the bytes of a message
are the number of its child. Where `copy_from_user` fails half way it has stored any bytes and has
filled up the rest of the write's length; where it stops is part of what those bytes are.

## 3. Runs

| Run | Question | Result |
|---|---|---|
| `rw_safety` | do the semaphores account for every process, in both layouts, with SIGINT anywhere? do writers exclude each other, and who starts beside whom? when do all of them sleep? | holds; a writer starts without readers, a reader starts only beside a writer; all sleep for one of three reasons (`StandstillExplained`) |
| `rw_starvation` | ... and with `flag` behind it? | violated: a writer in `stop_write` and a reader in `stop_read` wait for each other |
| `pc_safety` | accounting and exclusion with SIGINT, SIGSEGV and SETVALs that fail; is the segment a bounded FIFO queue (refinement)? | holds; the queue as long as the cells last |
| `sysv_live` | undisturbed, with zeros behind the array of `wr.c`: does everybody get in and out? is every item of `pc.c` consumed? | holds; the items as long as the cells last |
| `bakery_calls` | unique numbers, own answers and the end of the parent on any network; order and place on a smooth one | holds |
| `symbol_safety` | consistent copies, accounting with handlers that end inside (an index out of range, a failing `send`), the previous handler's end when a client connects again, in task-04 and task-05 | holds |
| `symbol_twice` | is a symbol given once? | violated: two writers are inside together |
| `event_threads` | do the interlocked counters count, and does every reader get in? | holds |
| `rpc_safety` | accounting, and each production consumed once, with doubled requests and a char that wraps | holds |
| `socket_programs` | task-06: a symbol given once; task-06 and task-03: do all clients end although the only thread blocks, is interrupted or killed? | holds |
| `kernel_modules` | is the last key handled by both items, although codes are coalesced? do reads of the fortune file go round what was written, null bytes included, a whole string at a time? does a pid table have holes? what do modules leave behind? | holds; the file system module leaves objects, its cache and its type behind when loading fails, and `LeftBehind` says which: the objects and the cache exactly, the type whenever anything else is left |
| `lab_programs` | is the walk complete under removals, refusals and names that are too long? is each letter handed out once, and what is in the file after both closes? is there one daemon, and whom does the file name, also when the pid could not be written? are messages whole? do the walk, the daemon and the children end? | holds |

Each violated run states what a README of the repository says; `findings` in `PROJECT.json`
quotes the line. Two properties of passing runs
state what the code does where a document says otherwise: `ReaderStartsBesideWriter`
(`lab-shmemory/README.md:122` says the opposite of what `wr.c` does) and `LeftBehind` (the
comment at `lab-vfs/src/main_comm.c:165` says that all objects are freed when one cannot be
allocated; only the first is).

### Disagreements seen while modelling, without a run of their own

The models reach these states too; no run is kept for them.

* `pc.c:45`: the cursors never return to the first cell, while `SE` is given back for every
  item: after the last cell a producer passes `P(SE)` without having a cell. `ImplementsQueue`
  therefore ends with the segment (`Lifetime`).
* `bakery_server.c:37`: a repeated `get_number` moves a client behind later ones on the server,
  so order holds on a smooth network only.
* `bakery_server.c:37`, again: a copy of `get_number` that arrives after its client was served
  gives it a number that nobody will give back, while
  `lab-rpc/README.md:258` says a process resets its number when it is done.
* `bakery_server.c:73`: a division by zero answers with the result of an earlier request, not
  with the `0.0` of the message on the next line. `AnswerIsOwn` is about the other clients.
* `task-04/server.c:89`: a writer with an index out of range returns without `stop_write`, and
  where `send` fails (`:99`, `:121`; `task-05/server.c:95`, `:114`) a handler ends without its
  second semop. `SemAccounting` counts these units (`left`); nobody takes them back.
* `mydaemon.c:107`, `:109`: the results of `ftruncate` and `write` are ignored, so on a full disk
  the daemon serves signals with a file that is empty or names one that has ended.
* `lib/stack.c:12`: an entry whose name has 200 bytes or more is not visited, nor anything below
  it, or the walk aborts.
* `pc.c:102`: a SETVAL that fails is reported only; with `SB` unset nobody ever gets in.
* `mutex/main.c:65`: `writing` is tested and set apart, so two writers can be inside; and `:35`:
  readers that overlap put a writer off for ever.
* `prodcons_server.c:41`: `SE` counts the header as cells, so a producer may run over a letter
  that was not consumed; `ConsumedOnce` holds all the same. `:93`: the letter wraps, and what a
  client is given then is a char that others were given before; `ConsumedOnce` is about
  productions.
* `prodcons_clnt.c:10`: the stub's static reply is shared by the client threads, so two of them
  can go on with one index; `prodcons_client.c:47`: one failed poll ends all of them;
  `prodcons_server.c:93`: a letter past `z` is polled for until the time is over.
* `wr.c:82`: a SIGINT between the test of `flag` and the semop leaves a child asleep for ever;
  `mutex/main.c:129`: after SIGINT the last thread that signals may be gone.
* `mydaemon.c:161`: signals are blocked long after the process has written its pid; a SIGHUP
  before that kills it, while `lab-processes/README.md` describes SIGHUP as the signal that makes
  it reread its configuration.
* `task-01/main.c:37`: a child may be answered with another child's answer; `MessagesWhole` is
  about the way up.
* `seq.c:127`: two writers may take one place, so that a pid that was accepted is lost; a reader
  may see a counted place before it is filled ("Invalid PID").
* `task-04/server.c:209`: handlers are never waited for; every request leaves a zombie.

### Bounds

* Processes: two readers and two writers (two producers and two consumers) are the smallest
  population in which each kind meets its own kind and the other. `SymbolPool` and
  `SelectServer` use two clients, each of which is first a reader and then a writer, so that a
  writer meets a reader and another writer.
* `ShmMod`, `Size`, `Slots`, `Letters` (of `ProducersConsumers`): small, but large enough to wrap
  or to run out.
* `MaxItems` (`ProducersConsumers`) stops the producers; in `pc_safety` it exceeds `SegSize`, so
  the cursors leave the segment, in `sysv_live` it equals it, so they do not.
* `MaxNumber` (`Bakery`) bounds the numbers the server gives out and so the repeated executions
  of `get_number`; it exceeds the number of clients, so that one of them is given two.
* `MaxResend` (`RpcProdCons`): two extra copies, so that up to four threads meet on one cell.
  `Chars` = 2 with `First` = 1 and `Letters` = 1: the second production is past `z` and the third
  is the same char as the first.
* `Keys` (`KeyWorkqueue`): one key beside shift and caps lock. The number of interrupts is not
  bounded.
* `TreeWalk`: all trees of three entries with two names, so that a directory inside a directory
  meets an entry of the same name elsewhere; at most one refused call or name too long
  (`MaxFaults`), any removals, one rename.
* `OpenFiles`: six letters and a buffer of four, so that a buffer is refilled and the last read is
  short. `Daemon`: three instances and `MaxHup` = 2 SIGHUPs. `ChildMessages`: three children with
  messages of different lengths (`UpLen`, `DownLen`, in the model `ThreeMessages` and
  `ThreeAnswers`).
* `Fortune`: a pot of four bytes (`SIZE`) and two letters beside the null byte, in writes of any
  length, so that it gets full and overfull; nothing bounds the writes but the pot.
  `PidTable`: the three places of the code and two writers. `VfsModule`: an array of three
  places and up to one object more, `MaxMounts` = 2.
* `PaddedNobodyStarves` is checked for one reader and one writer of two each; the others differ
  in name only.
* Symmetry is used in runs without liveness only.

Deadlock is not checked: the programs end, and several of them may stop with sleeping processes,
which the liveness properties are about.

## 4. Fairness

* `wr.c` and `pc.c` (`MCSysVLiveness`): no SIGINT (the property is about undisturbed runs),
  weak fairness for every process (the system schedules it) and strong fairness for a semop that
  sleeps: the kernel tries the queue of sleepers on every change of the set.
* `EventMonitor`: weak fairness for every thread, strong fairness for the mutex, which Windows
  gives to waiters in turn. Nothing is assumed about who is released by an event beyond one
  sleeper.
* `Bakery`: the parent runs, and a client's call returns or times out (`clnt_call` has a time
  limit). On a smooth network the server answers. On a lossy one neither the network nor the
  server is assumed to do anything.
* `MCSocketPrograms`: weak fairness for the servers and for each client; none for the `main` of
  the task-06 clients, whose empty loop on an ordinary int may never see the flag change. The
  alarm of task-03 goes off.
* `MCLabPrograms`: weak fairness for the walk, every instance of the daemon, the parent and each
  child; none for what comes from outside: signals, edits, other processes at the tree, starts.

## 5. Proofs

Every invariant, every action property and the refinement that a passing run checks has a theorem:
the runs show it on a small instance, the theorems for every value of the constants. A second
group of theorems is what the liveness runs rest on. Bounds such as `MaxItems`, `MaxNumber`,
`MaxResend`, `MaxFaults` or `MaxMounts` are constants too, so no theorem depends on how large they
are.

| Module | Theorem | Property |
|---|---|---|
| `ReadersWritersProofs` (`wr.c`) | `StandstillOnlyThen` | `StandstillExplained` |
| | `SemaphoresAccount` | `SemAccounting` |
| | `WritersMutex` | `WritersExclusive` |
| | `IpcSafe` | `IpcOutlivesChildren` |
| | `UpdatesCount` | `NoLostUpdate` (action property) |
| | `WritersWaitForReaders` | `WriterStartsAlone` (action property) |
| | `ReadersStartBesideWriters` | `ReaderStartsBesideWriter` (action property) |
| (`mutex/main.c`) | `MonitorCounts` | `CountersCount` |
| `ProducersConsumersProofs` (`pc.c`) | `SemaphoresAccount` | `SemAccounting` |
| | `Mutex` | `MutualExclusion` |
| | `Refinement` | `ImplementsQueue` (refinement of `BoundedQueue`) |
| `BakeryProofs` | `Types` | `TypeOK` |
| | `TicketsUnique` | `UniqueTickets` |
| | `OwnAnswer` | `AnswerIsOwn` |
| | `PlaceKept` | `RefusedKeepsPlace` |
| | `InOrder` | `ServedInOrder` (action property) |
| `SymbolPoolProofs` (task-04, task-05) | `SemaphoresCount` | `SemAccounting` |
| | `CopiesAreCurrent` | `CopyIsCurrent` |
| | `HandlersHaveEnded` | `HandlersEnd` |
| `RpcProdConsProofs` | `SemaphoresCount` | `SemAccounting` |
| | `EachConsumedOnce` | `ConsumedOnce` |
| `SocketProgramsProofs` (task-06, task-03) | `SocketTypes` | `SocketTypeOK` |
| | `GivenOnce` | `SymbolGivenOnce` |
| `KernelModulesProofs` | `KernelTypes` | `KernelTypeOK` |
| | `LastKey` | `LastKeyHandled` |
| | `WholeCookies` | `ReadsWholeCookie` |
| | `TableHasNoHoles` | `NoHoles` |
| | `WhatIsLeft` | `LeftBehind` |
| `LabProgramsProofs` | `DaemonIsOne` | `OneDaemon` |
| | `LettersHandedOnce` | `EachLetterOnce` |
| | `LastCloseIsLeft` | `LastCloseWins` |
| | `MessagesAreWhole` | `MessagesWhole` |
| | `WalkIsComplete` | `WalkComplete` |
| | `LabTypes` | `TypeOK` |

Nothing can be proved here about fairness, but what stands between fairness and "eventually" can:
that the processes do not all wait for each other, and that steps use something up. These theorems
have no run of their own; TLC has checked each formula on the instances of the runs before.
`TypeCorrect` (`TypeOK` of `wr.c`, which only the proofs need) is another one without a run, and
the first one below is `StandstillExplained` again, in words.

| Module | Theorem | What it says |
|---|---|---|
| `ReadersWritersProofs` (`wr.c`) | `StandstillOnlyThen` | all children sleep only if no writer lives, one died inside, or `flag` lies behind the array and readers and writers are inside |
| | `AdjacentTrapsReaders` | with `flag` behind the array, undisturbed: a reader inside never gets out (action property) |
| (`mutex/main.c`) | `MonitorRunsOn` | while the loops run, some thread can do its next step |
| `ProducersConsumersProofs` | `StandstillOnlyThen` | all sleep only after a SIGSEGV inside, when a SETVAL of `SE` or `SB` failed, or when one kind is gone and the buffer is full or empty |
| | `SegvLocksOut` | after a SIGSEGV inside nobody gets in (action property) |
| `SymbolPoolProofs` | `LeakIsTheOnlyStop` | all handlers sleep only after one has ended inside (an index out of range, a failing `send`), and then all that sleep are of the other kind |
| | `LeakLocksOthersOut` | after a writer that ended inside no reader starts, after such a reader no writer (action property) |
| `RpcProdConsProofs` | `StandstillOnlyThen` | threads wait only for a full or an empty ring, as `SE` counts it; producers and consumers never both |
| | `ResultsStay` | a result stays in `resultBuffer`, so repeated polls agree (action property) |
| `BakeryProofs` | `ClientsRunDown` | a client's steps are numbered downwards, on any network (action property) |
| | `NobodyStranded` | on a smooth network a client that waits has its request or reply under way |
| `SocketProgramsProofs` (task-03) | `CalculatorServes` | the server sleeps only when no connection waits, or for a living client that has yet to send |
| (task-06) | `SelectRunsOn` | the server or a client can go on, as long as a client is there |
| `LabProgramsProofs` (`task-ftw`) | `WalkRunsDown` | each step of a walk leaves less to do, as long as nothing is moved (action property) |

Each proof has the same shape. The invariant is not inductive as it stands; a stronger one is
(`IInv`, or a name of its own where a module proves several), and one lemma per action shows that
the action keeps it. A last temporal step puts initial states, steps and consequence together.
Where several programs share a model (`KernelSpec`, `FairSpec`), the lemmas are about one program
alone and a lemma says that the steps of the others leave its variables as they are.

**`wr.c`.** `IInv` is `TypeOK`, `SemAccounting` and `WritersExclusive` with three additions.
`NobodyBornBeforeSetup`: without it a child could take a lock before `main` has set the
semaphores, and nothing could be said of their values. `LoadedIsCurrent`: a writer between load
and store holds the current value, which makes its store an increment. `ReapedAreDead`: what
`main` has waited for stays dead, and it leaves the loop with all of them. Four lemmas
(`ReaderLock`, `ReaderRelease`, `WriterLock`, `WriterRelease`) compute what each operation array
needs and does, for any set of values with no waiting count; `WriterRelease` covers every third
operation the layouts can produce. `start_write` needs `ACTIVE_READERS = 0`, so by the accounting
there is no reader inside, and `BIN_WRITER > 0`, so there is no writer: that gives both mutual
exclusion and `WriterStartsAlone`. `start_read` needs `BIN_WRITER = 0`, so by the same accounting
there is a writer inside: `ReaderStartsBesideWriter`.

The same accounting explains a standstill (`StandstillOnlyThen`). If a writer lives and nobody is
inside, `start_write` passes; if only readers are inside, `stop_read` passes; a writer inside leaves
unless its third operation waits, which it does only when that operation reads `flag`. With
`flag` there a reader inside is always beside a writer inside (`ReaderKeepsWriter`): the writer
cannot give the semaphore back while a reader is counted, the reader cannot leave while the writer
is. So the state that `rw_starvation` finds is no accident of timing: the first reader that gets
in ends the work (`AdjacentTrapsReaders`).

**`mutex/main.c`.** `MonitorInv` is `CountersCount` with the domain of the pcs and `AllEnded`: after
a failed `CreateThread` every thread is at its end, so that the counters, which nobody corrects
then, are not asked for any more. Six actions write a counter, and each moves one thread into or
out of the set it counts; setting an event may move a second thread, from sleep to the next place
of the same set.

`RunInv` is why they do not all sleep. Readers are let in one after another by a pass
(`PassIsOut`): `can_read` is signalled, or a reader between the event and its own signal has it.
When the pass is not out, no reader is inside or coming, and a writer is awake (`PassGoesRound`).
The pass alone is not inductive: a reader that holds the mutex must be one that runs (`MutexHeld`),
nobody sleeps on a signalled event (`SleepersOK`), and `writing` belongs to a writer inside.

**`pc.c`.** `IInv` adds `BeforeSetup` and `CellsWritten` to the accounting and the exclusion: every
cell behind the producers' cursor, and the one at it when a producer is about to advance, holds
the letter of its number. The refinement mapping reads the queue off the cells between the cursors.
A producer's advance is a `Put` because the accounting leaves room, a consumer's a `Get` because
`CellsWritten` names the letter in front; all other steps leave the cells between the cursors
alone, by exclusion. Once a cursor has left the segment the queue is `WornOut`, and stays so.
The accounting starts from what `main` forked with (`first`): `N` or, after a failed SETVAL, 0. It
alone gives `StandstillOnlyThen`: with nobody inside `SB` is free, so a lock that does not pass is
for want of `SE` or `SF`, and these add up to `first[SE]`. A child killed past the last cell
stays counted in `SB` (`SegvLocksOut`).

**Bakery.** Unique numbers are inductive. The rest is about what a datagram may say, so the
invariant follows each call: `CallsInOrder` (the first is `get_number`), `RepliesAwaited` (a reply
belongs to the call its client waits for, with a number or an answer of its own) and, on a smooth
network only, `Smooth`: a call has one datagram at a time, and the number the server holds is
the one its client knows. Without the last part neither place nor order could be shown, and on a
lossy network both fail. `StepsLeft` counts a client's calls and pauses up to its last attempt; no
datagram and no other process changes it, so `ClientsRunDown` needs no network at all. That a
waiting client has a datagram under way (`NobodyStranded`) does need the smooth one.

**Symbol servers.** `Counted` and `Apart` (readers and writers are never inside together while the
set exists) keep a copy current; `InRange` says that an index found free is one of the array,
without which a mark could be a store elsewhere; `Rounds` says where the two handlers of a client
may be at each point of its round, which is what makes the previous handler's end provable; `Gone`
is the crash of task-05. The semaphores count who is inside and who was left inside (`left`), and
are never both up. The waiting counts stay 0, so with nobody inside only a unit that was never
given back keeps a semop asleep: `LeakIsTheOnlyStop`; and as nothing gives it back later, it keeps
the other kind out for ever (`LeakLocksOthersOut`). In task-06 the invariant counts a symbol as
held from its mark on (`HeldOnce`, `HeldMarked`), since it may still be on its way, and
`OneMessage` says that a connection never has a request and an answer at once. That its one thread
does not block for ever (`SelectRunsOn`) has a reason the code does not show: the first scan goes
over the standard descriptors too and closes them, so every connection is accepted as descriptor
0, which the next scan serves before it comes to `accept` (`ScanInv`); the clients that wait are
those in the backlog and the one on descriptor 0 (`LineInv`). The calculator of task-03 has the
same two places to sleep in; `CalculatorInv` says which clients its connections belong to.

**Prodcons.** `RingInv` is about the ring: semaphores count (`SemsCount`), one thread is inside
(`AloneInside`), the productions in cells differ and are older than the next one (`CellsDiffer`,
`NumbersOld`), and one taken is in no cell (`TakenIsOut`), although a producer may overwrite a
cell. Productions are numbered, since their chars come again; `CharInv` says that every cell and
every result is the char of its production. `NetInv` is about the network: each index is paid for
by a first call or by a repeated datagram (`PaidFor`), so that indices do not run out.
`StandstillOnlyThen` reads the numbers of letters stored and taken off `SemsCount`; `ResultsStay`
holds because a thread stores its result once and an index is given to one thread.

**Kernel modules.** `VfsInv`: the load takes its steps in order, so what a failure leaves depends
on how far it came (`LoadOrder`). `TableInv`: below the count, and below the value a writer has
loaded, every place is filled or has a writer that is about to fill it (`Filling`); a reader that
is not disturbed shows the places in order (`Reading`). `PotInv`: the pot up to the write index is
what was written, and up to the read index what the round has returned; both indices stand behind
a null byte. A failed copy stores behind the write index only, where no read of a whole string
comes. What a read returns ends at the first null byte, which is not behind the write index.
`KeyInv`: the last code is with each item in one of three ways: to come, in hand, or handled
(`OnTheWay`); `shift_pressed` agrees with it or is still to be set (`ShiftSays`).

**Daemon and files.** Whoever is past `lockfile` has the lock (`HolderHasLock`), and past
`WritePid` is the one the file names unless the write failed (`NamedIsInFile`); whom the file
names has the lock or has ended (`FileIsOld`), which is what an unwritten pid leaves. For reading,
the letters taken from a descriptor (in hand, in the buffer or printed) are those before its
offset, each in one place (`Handed`); for writing, a stream's buffer holds every second letter
from its number on (`PutByOne`) and the file is what was closed last.

**Messages.** Where the parent reads after every fork, at most one child is still to write, the one
forked last (`OneWrites`), so what is on the way is that child's message or nothing. Where it reads
byte by byte, the invariant is about the bytes written so far, read or not (`AllBytes`): a read
moves one and changes none, a write adds a piece that no other child has a byte in (`Pieces`), and
`ForkedInOrder` says that nobody writes twice or after the parent has seen the end. The pipes have
two children in the code; the socket pair's number of children and all lengths are constants
(`UpLen`, `DownLen`).

**Tree walk.** `TypeOK` needs two additions (`TreeInv`): every entry is in a directory, so that
".." leads to one, and the stack is not empty after a directory was visited. The attempt to prove
the bound that `TypeOK` had on the depths showed that it was false: with four entries, one of them
moved below the place where the walk already is, depths go beyond it. TLC confirmed this with
four entries; the run has three. The depths are natural numbers now.

`WalkComplete` is about a tree that is only removed from. The elements on the stack are looked up
where the walk then stands, so the invariant (`Work`) says where each of them will be looked up
(`Places`: a ".." moves the place up, the last element has the place outside), and what they then
stand for (`Listed`): entries of directories that were entered, not visited yet, no two the same,
at the right depth, and all such entries that are left. `Visited` says that an entry was visited
after its directory and one deeper; both are local. That they give the right depth and the right
set of entries for the whole tree is shown by least counterexamples: entries are numbered from
the root on, so of the entries that were visited at a wrong depth, or not visited though nothing
above is refused, there would be a least one, and its directory would contradict `Visited` or
`Through`. `Above` is a recursive function; `AboveExists` gives a function that satisfies its
equation, without induction, as the smallest set that is closed under going up. The counters are
right even after a move (`CountInv`): they are compared with the numbers of visits (`Visits`). A
name that is too long denotes nothing, so the entry and what is below it are left out of
`Reachable`, as below a directory that refuses a call.

`WalkRunsDown` compares triples in the order of the dictionary (`LeftToDo`): the entries not yet
visited, the calls left at the directory in hand, the length of the stack. The stack alone grows
with every directory that is read, but only by entries that were not visited. After a move an entry
may be visited again, and TLC shows steps that do not descend; hence `~moved`.

Assumptions, all of them evaluated by TLC: sets of processes, threads and clients are finite where
they are counted, disjoint and not empty; sizes are natural numbers, positive where the code has a
positive constant; `Clients # {}` in `RpcProdCons`, because the static reply starts with index 0
and the client program starts a fixed positive number of threads; `LAST` is even in `OpenFiles`
(26 letters); `'a'` is a char other than 0 and the letters fit into the chars in `RpcProdCons`;
the bytes of `Fortune` are natural numbers, 0 among them; messages are not empty, there are two or
more children and as many answers as messages in `ChildMessages`; no client of `SelectServer` is
called `"free"`, `"std"` or `"socket"`, which are what else a descriptor may refer to; entries are
natural numbers and finitely many, and no entry has the name of the root, ".." or what a name too
long leaves in `TreeWalk`; special values (`None`, `Nobody`, `NoCode`, `Zero`, `Inf`) are no
ordinary ones. The theorems about `FairSpec` do not use its fairness.

## 6. Only model-checked

* Liveness under fairness, which is out of the prover's reach: `PaddedNobodyStarves`,
  `EveryItemConsumed`, `ParentEnds`, `ReadersGetIn`, `ClientsEnd`, `ProgramsEnd`, and the
  violated `NobodyStarves`. The steps between are proved as safety (the second table of section 5);
  what stays with TLC is that fairness then leads to the end, and all of it after a move in
  the tree.
* `SymbolGivenOnce` of `SymbolPool` is violated; the counterexample is the result.
* That the wrong variants ("a slip") break the properties.

## 7. Plan

1. Done: `wr.c`, `pc.c`, bakery, task-04/05, the event monitor, prodcons, task-06 and task-03, the
   work items of `lab-irq`, the daemon, the pipes and the socket pair, `lab-bio`, the tree walk,
   the fortune file, the pid tables and the file system module, each with the proofs of its
   safety properties.
2. Done: the safety that the liveness runs rest on, as deadlock freedom and as measures. Left are
   measures for the scan of task-06, the daemon and the messages, and the individual waits: the
   theorems say that somebody goes on, not that everybody does.
3. Modelling that is left: overlapping calls on the fortune file (the module has no lock), and
   the failing `pthread_create` of task-05.

## 8. Not modelled

* `S1/lab-rpc/calculator`: one stateless request; the transport is in `Bakery`. The XDR routines
  and headers of `lab-rpc` are generated.
* `S1/lab-processes/part-02/task_01` to `task_03` and `iu7-54b`: fork, exec and wait once each.
* `S2/lab-fileSystem/task-proc`: text of `/proc` files, reformatted.
* `S2/lab-irq/task-01/tasklet.c`: in spite of its name it has no tasklet; the interrupt handler
  looks the code up and logs it, and nothing runs beside it.
* `S2/lab-module/task-01`, `task-02`: log lines when a module is loaded.
* `S2/lab-socket/task-02`: single datagrams one way; `task-07`: a table of measurements.
* Inside modelled programs: failures of `malloc` in the tree walk, of `pthread_join`, and of
  `pthread_create` in task-05 (which reads freed memory); the fields of super block and root
  inode in `lab-vfs`.
* `S1/lab-interrupt`: reports and listings.

\* Two readers and two writers.
CONSTANTS
    Readers = {r1, r2}
    Writers = {w1, w2}
    Main = parent
    ShmMod = 2
SPECIFICATION MonitorFair
INVARIANTS
    CountersCount
PROPERTY ReadersGetIn
\* Threads end, and may sleep for ever once SIGINT has ended the others.
CHECK_DEADLOCK FALSE

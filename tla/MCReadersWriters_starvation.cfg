\* Liveness without SIGINT.
CONSTANTS
    Readers = {r1}
    Writers = {w1}
    Main = main
    ShmMod = 2
SPECIFICATION FairSpec
PROPERTIES
    NobodyStarves
\* Readers and writers can block each other for good.
CHECK_DEADLOCK FALSE

\* SIGINT at any moment; MaxItems > SegSize, so the cursors leave the segment.
CONSTANTS
    Producers = {p1, p2}
    Consumers = {c1, c2}
    Main = main
    None = none
    N = 2
    SegSize = 3
    Letters = 2
    MaxItems = 4
SPECIFICATION Spec
SYMMETRY Symmetry
INVARIANTS
    SemAccounting
    MutualExclusion
PROPERTY ImplementsQueue
\* The program ends, and a child killed inside leaves the lock taken.
CHECK_DEADLOCK FALSE

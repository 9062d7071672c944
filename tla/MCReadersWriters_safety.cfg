\* SIGINT at any moment, both layouts, two readers and two writers.
CONSTANTS
    Readers = {r1, r2}
    Writers = {w1, w2}
    Main = main
    ShmMod = 3
SPECIFICATION Spec
SYMMETRY Symmetry
INVARIANTS
    StandstillExplained
    SemAccounting
    WritersExclusive
    IpcOutlivesChildren
PROPERTIES
    NoLostUpdate
    WriterStartsAlone
    ReaderStartsBesideWriter
\* The program ends, and readers and writers can block each other for good.
CHECK_DEADLOCK FALSE

\* Nobody sends SIGINT; the cells last.
CONSTANTS
    Ins = {p1, p2}
    Outs = {q1, q2}
    ShmMod = 2
    N = 1
    SegSize = 3
    Letters = 2
    MaxItems = 3
    Main = main
    None = none
SPECIFICATION FairSpec
PROPERTIES
    PaddedNobodyStarves
    EveryItemConsumed
\* The producers stop after MaxItems.
CHECK_DEADLOCK FALSE

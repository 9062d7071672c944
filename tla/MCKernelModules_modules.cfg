\* One key beside the modifiers; writes of any bytes, null bytes too, in a pot of four; two
\* writers on three places; one object more than the array has places.
CONSTANTS
    Keys = {k}
    NoCode = none
    SIZE = 4
    Letters = {1, 2}
    MAX_PIDS = 3
    Writers = {w1, w2}
    Pids = {1}
    PAGE_SIZE = 3
    MaxCount = 4
    MaxMounts = 2
SPECIFICATION KernelSpec
INVARIANTS
    KernelTypeOK
    LastKeyHandled
    ReadsWholeCookie
    NoHoles
    LeftBehind
\* A module is unloaded, or something it needs is not there.
CHECK_DEADLOCK FALSE

\* Two clients; both programs.
CONSTANTS
    Clients = {c1, c2}
    Size = 3
    Shared = shared
SPECIFICATION Spec
SYMMETRY Symmetry
INVARIANTS
    CopyIsCurrent
    SemAccounting
    HandlersEnd
\* Clients and server end, and a unit left behind blocks the other kind for good.
CHECK_DEADLOCK FALSE

\* Two writers test a symbol before one of them marks it.
CONSTANTS
    Clients = {c1, c2}
    Size = 2
    Shared = shared
SPECIFICATION Spec
SYMMETRY Symmetry
INVARIANT SymbolGivenOnce
\* Clients and server end, and a unit left behind blocks the other kind for good.
CHECK_DEADLOCK FALSE

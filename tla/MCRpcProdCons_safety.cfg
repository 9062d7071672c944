\* A producer and a consumer on one cell; requests are doubled, so that up to
\* four threads meet.  With two chars, the letter and 0, the third production is
\* the same char as the first.
CONSTANTS
    Producers = {p1}
    Consumers = {c1}
    Slots = 1
    Header = 1
    Chars = 2
    First = 1
    Letters = 1
    MaxResend = 2
SPECIFICATION Spec
SYMMETRY Symmetry
INVARIANTS
    SemAccounting
    ConsumedOnce
\* The clients end, and threads wait for cells that never come.
CHECK_DEADLOCK FALSE

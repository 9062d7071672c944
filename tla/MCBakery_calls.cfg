\* A smooth network or one that loses, repeats and delays every datagram;
\* client 1 divides by zero.
CONSTANTS
    CLNT_CNT = 2
    ATTEMPTS = 2
    DivByZero = {1}
    MaxNumber = 3
    Zero = zero
    Inf = inf
SPECIFICATION FairSpec
INVARIANTS
    TypeOK
    UniqueTickets
    AnswerIsOwn
    RefusedKeepsPlace
PROPERTIES
    ServedInOrder
    ParentEnds
\* The clients end; the server then has nothing to do.
CHECK_DEADLOCK FALSE

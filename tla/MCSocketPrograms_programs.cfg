\* Two clients and three symbols.
CONSTANTS
    Clients = {c1, c2}
    Size = 3
    StdFds = 2
    Nobody = nobody
SPECIFICATION FairSpec
INVARIANTS
    SocketTypeOK
    SymbolGivenOnce
PROPERTY ClientsEnd
\* Servers and clients end; without clients a server waits for ever.
CHECK_DEADLOCK FALSE

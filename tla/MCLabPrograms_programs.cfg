\* Trees of three entries and two names, six letters, three daemons.
CONSTANTS
    Entries = {1, 2, 3}
    Names = {a, b}
    Root = root
    Outside = outside
    MaxFaults = 1
    LAST = 6
    BUFF_SIZE = 4
    Instances = {d1, d2, d3}
    Users = {1}
    MaxHup = 2
    Nobody = nobody
    UpLen <- ThreeMessages
    DownLen <- ThreeAnswers
SPECIFICATION FairSpec
INVARIANTS
    TypeOK
    WalkComplete
    EachLetterOnce
    LastCloseWins
    OneDaemon
    MessagesWhole
PROPERTY ProgramsEnd
\* All programs end.
CHECK_DEADLOCK FALSE

CONSTANTS
    Client = {c1, c2}
    File = {f1}
    Version = {v1, v2}
    Copies <- OwnVersion
    Rpc = {r1, r2}
    NChunks = 2
    NoEntry = NoEntry
    NoClient = NoClient
    Absent = Absent
    Hole = Hole
SPECIFICATION FairSpec
INVARIANTS
    TypeOK
    OneWriterPerFile
    AcknowledgedIsDone
    WholeFilesOnServer
    SuccessReleasesLock
    NoOwnerlessLock
    SkippedIsSame
PROPERTIES
    OnlyHolderReleases
    NeverStolen
    ImplementsLocks
    OperationsReturn

CONSTANTS
    Client = {c1}
    File = {f1, f2}
    Ignored = {f2}
    Stored = {f1}
    Data = {d1, d2}
    Empty = Empty
    Initial = {d1, d2}
    Written = {d1, d2}
    Absent = Absent
    NoClient = NoClient
    Deleted = {f1}
    MaxTime = 2
    MaxEdits = 2
    MaxFailures = 1
    MaxInterruptions = 1
    MaxTrouble = 1
SYMMETRY Symmetry
SPECIFICATION Spec
CHECK_DEADLOCK FALSE
INVARIANTS
    TypeOK
    SettledIsInSync
    OneThreadSyncs

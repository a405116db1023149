CONSTANTS
    Client = {c1, c2}
    File = {f1}
    Ignored = {}
    Stored = {f1}
    Data = {d1, d2}
    Empty = Empty
    Initial = {d1}
    Written = {d1, d2}
    Absent = Absent
    NoClient = NoClient
    Deleted = {}
    MaxTime = 2
    MaxEdits = 2
    MaxFailures = 0
    MaxInterruptions = 0
    MaxTrouble = 0
SPECIFICATION FairSpec
INVARIANTS
    OneStorer
PROPERTIES
    UpdatesStop

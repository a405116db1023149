CONSTANTS
    Client = {c1}
    File = {f1}
    Ignored = {}
    Stored = {f1}
    Data = {d1, d2}
    Empty = Empty
    Initial = {d1}
    Written = {d1, d2}
    Absent = Absent
    NoClient = NoClient
    Deleted = {}
    MaxTime = 3
    MaxEdits = 1
    MaxFailures = 0
    MaxInterruptions = 2
    MaxTrouble = 2
SPECIFICATION FairSpec
PROPERTIES
    Converges
    ImplementsListings

CONSTANTS
    Client = {c1, c2}
    File = {f1}
    Ignored = {}
    Stored = {f1}
    Data = {d1, d2}
    Empty = Empty
    Initial = {d1}
    Written = {}
    Absent = Absent
    NoClient = NoClient
    Deleted = {f1}
    MaxTime = 2
    MaxEdits = 1
    MaxFailures = 0
    MaxInterruptions = 0
    MaxTrouble = 0
SPECIFICATION Spec
PROPERTIES
    OnlyUsersCreate

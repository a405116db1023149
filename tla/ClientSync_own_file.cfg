CONSTANTS
    Client = {c1}
    File = {f1}
    Ignored = {}
    Stored = {}
    Data = {d1, d2}
    Empty = Empty
    Initial = {d1}
    Written = {d1}
    Absent = Absent
    NoClient = NoClient
    Deleted = {}
    MaxTime = 2
    MaxEdits = 1
    MaxFailures = 0
    MaxInterruptions = 0
    MaxTrouble = 0
SPECIFICATION Spec
PROPERTIES
    OnlyUsersDelete

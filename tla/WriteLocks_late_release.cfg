CONSTANTS
    Client = {c1, c2}
    File = {f1}
    Version = {v1}
    Copies <- AnyVersion
    Rpc = {r1, r2, r3}
    NChunks = 2
    NoEntry = NoEntry
    NoClient = NoClient
    Absent = Absent
    Hole = Hole
SYMMETRY Symmetry
SPECIFICATION Spec
INVARIANTS
    OnlyOneWriter

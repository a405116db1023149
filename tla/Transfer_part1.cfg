CONSTANTS
    Client = {c1, c2}
    File = {f1}
    v1 = v1
    v2 = v2
    Version <- Versions
    Size <- Sizes
    Buffer = 2
    Rpc = {r1, r2}
    Inode = {i1, i2}
    MaxGone = 1
    Fetchers = {c1}
    Absent = Absent
    Hole = Hole
SYMMETRY Symmetry
SPECIFICATION Spec
INVARIANTS
    TypeOK
    ChunksInPlace
    FetchedIsSame
    StoredIsSame
    AnsweredIsCurrent
    MixedIsFilled

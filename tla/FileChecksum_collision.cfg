CONSTANTS
    Side = {local, server}
    CRCWidth = 4
    CHAR_BIT = 2
    Polynomial = {0, 1}
    Byte = {{0}, {0, 1}}
    BufferSize = 6
    MaxSize = 6
    MaxChanges = 0
    Absent = Absent
    Uninit = Uninit
SYMMETRY Symmetry
SPECIFICATION Spec
CHECK_DEADLOCK FALSE
INVARIANTS
    AlreadyExistsIsUnchanged

CONSTANTS
    Side = {local, server}
    CRCWidth = 4
    CHAR_BIT = 2
    Polynomial = {0, 1}
    Byte = {{0}, {0, 1}}
    BufferSize = 3
    MaxSize = 5
    MaxChanges = 2
    Absent = Absent
    Uninit = Uninit
SYMMETRY Symmetry
SPECIFICATION Spec
CHECK_DEADLOCK FALSE
INVARIANTS
    TypeOK
    ChecksumOfFile
    CrcIsRemainder
    ByteChangeDetected

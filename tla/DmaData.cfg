CONSTANTS
    Modes = {"MSI"}
    Byte = {0, 1}
    XorByte <- XorBit
    MEM_SIZE = 3
    MAX_SEG = 2
    MAX_DESC = 2
    CHUNK = 2
    Threads = {t1}
    Leftover <- LeftByNone
    None = None
    t1 = t1
    t2 = t2
SPECIFICATION Spec
INVARIANTS DataMoved

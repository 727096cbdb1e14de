CONSTANTS
    Modes = {"INTX"}
    Byte = {0}
    XorByte <- XorBit
    MEM_SIZE = 1
    MAX_SEG = 1
    MAX_DESC = 2
    CHUNK = 1
    Threads = {t1}
    Leftover <- LeftByAny
    None = None
    t1 = t1
    t2 = t2
SPECIFICATION Spec
INVARIANTS BufferOwnership

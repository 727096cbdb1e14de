CONSTANTS
    Modes = {"MSI", "INTX"}
    Byte = {0}
    XorByte <- XorBit
    MEM_SIZE = 1
    MAX_SEG = 1
    MAX_DESC = 2
    CHUNK = 1
    Threads = {t1, t2}
    Leftover <- LeftByMsi
    None = None
    t1 = t1
    t2 = t2
SPECIFICATION FairSpec
INVARIANTS BufferOwnership StartAccepted OwnCompletion InterruptNotLost NoUseAfterFree
PROPERTIES CallReturns RemoveEnds

CONSTANTS
    Pieces = 2
    ShortThreads = {t1, t2}
    Tries = 2
    Spans <- ShortSpans
    Widths = {0, 8}
    MaxLoads = 2
    MaxBytes = 2
    MaxCalls = 2
    Modes = {"MSI", "INTX"}
    Byte = {0, 1, 2, 3, 4, 5, 6, 7}
    XorByte <- XorThree
    MEM_SIZE = 5
    MAX_SEG = 4
    MAX_DESC = 2
    SgThreads = {t1, t2}
    PAGE = 2
    PageTable <- ScatteredPages
    Xors = {5}
    SgCalls <- SgCallSet
    MaxSgCalls = 2
    TtyFiles = {t1, t2}
    LINE_LONG = 2
    TtyTexts <- Texts
    MaxText = 4
    MaxFlip = 1
    DeferThreads = {t1, t2}
    LOOPS = 2
    LINES = 3
    MaxReads = 2
    AioSlots = {t1, t2}
    AIO_BUFF = 3
    AioCounts = {0, 1, 3}
    MaxAioBytes = 6
    PollThreads = {t1, t2}
    MaxTicks = 3
    MaxPolls = 3
    t1 = t1
    t2 = t2
SYMMETRY Symmetry
SPECIFICATION Spec
INVARIANTS BytesTaken ByteNotStuck InterruptOwned PictureWhole PanelFollows PagesHeld ScatterExact TimerOff LinesAsWritten SleeperWoken OutputOwned RingExact FlagServed

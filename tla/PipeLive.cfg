CONSTANTS
    Readers = {r1, r2}
    Writers = {w1}
    Byte = {0}
    NUL = 0
    BUFF_SIZE = 1
    MaxCount = 1
    Message <- UpToOne
    Nonblock = {FALSE}
    None = None
    r1 = r1
    r2 = r2
    w1 = w1
SPECIFICATION MCFairSpec
PROPERTIES CallServed

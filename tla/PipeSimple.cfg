CONSTANTS
    Readers = {r1}
    Writers = {w1, w2}
    Byte = {0, 1}
    NUL = 0
    BUFF_SIZE = 2
    MaxCount = 2
    Message <- UpToThree
    Nonblock = {TRUE, FALSE}
    None = None
    r1 = r1
    r2 = r2
    w1 = w1
    w2 = w2
SPECIFICATION SpecSimple
SYMMETRY Symmetry
PROPERTIES ImplementsPipe

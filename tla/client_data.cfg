CONSTANTS
    Char = {x}
    LF = LF
    MaxCommandSize = 3
    MaxData = 2
    MaxChunk = 4
    MaxBytes = 9
SPECIFICATION Spec
CHECK_DEADLOCK FALSE
INVARIANTS NothingLost Framed CommandBound
PROPERTY QuietAfterDisconnect

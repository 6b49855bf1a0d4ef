CONSTANTS
    Size = {1, 2}
    MaxBufferSize = 2
    WriteBytes = 2
    OverflowTimeout = 1
    WriteTimeout = 2
    DisconnectTimeout = 1
    MaxBytes = 5
    Never = Never
SPECIFICATION FairSpec
CHECK_DEADLOCK FALSE
INVARIANTS TypeOK Stream ShutdownDrained OverflowExact
PROPERTY DisconnectCompletes

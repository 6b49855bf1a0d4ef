CONSTANTS
    o1 = o1
    Observer = {o1}
    First = "4"
    DualStack = TRUE
    Infs <- MCInfs
    Tcps <- MCTcps
    Supports <- MCSupports
    MaxTokens = 2
    NoBuffer = NoBuffer
SPECIFICATION Spec
CHECK_DEADLOCK FALSE
INVARIANT FiltersAreSU

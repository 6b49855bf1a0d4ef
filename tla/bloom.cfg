SPECIFICATION Spec
CONSTANTS
    Bits = 6
    H = 3
    Unit = 2
    Octet = 2
    Files <- MCFiles
    MaxChanges = 4
    MaxSearches = 1
INVARIANTS TypeOK NoLostFile Settled OneRequest
PROPERTY FilterArrives
CHECK_DEADLOCK FALSE

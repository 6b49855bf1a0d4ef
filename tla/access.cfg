SPECIFICATION Spec
CONSTANTS
    Client = {c1, c2}
    CID = {x, y}
    Nick = {n, o}
    NoCID = NoCID
    AllowNickChange = TRUE
    AllowReg = TRUE
    Table = {1, 2, 3, 4}
    MaxLevel = 2
    MaxChanges = 3
INVARIANTS TypeOK IndexesAgree Persisted
PROPERTIES PasOwnsAccount StoreSpec
SYMMETRY MCSymmetry

CONSTANTS
    c1 = c1  c2 = c2  c3 = c3  b1 = b1  n1 = n1  n2 = n2
    Client = {c1, c2}
    Bot = {}
    SID = {s1, s2}
    CID = {k1, k2}
    Nick = {n1, n2}
    Token = {t1, t2}
    V6 = {c2}
    None = None
    DualStack = TRUE
    FreshSid = TRUE
    Revalidate = TRUE
    SecondToken = FALSE
    DropHbri = FALSE
    ClearNick = TRUE
    BotNick <- MCBotNick
SPECIFICATION Spec
SYMMETRY SidSymmetry
CHECK_DEADLOCK FALSE
INVARIANTS CidIndex LoginsWatched TokensValid
PROPERTY GhostStaysOut

CONSTANTS
    c1 = c1  c2 = c2  c3 = c3  b1 = b1  n1 = n1  n2 = n2
    Client = {c1, c2, c3}
    Bot = {}
    SID = {s1, s2, s3}
    CID = {k1}
    Nick = {}
    Token = {t1}
    V6 = {c2}
    None = None
    DualStack = TRUE
    FreshSid = TRUE
    Revalidate = TRUE
    SecondToken = FALSE
    DropHbri = TRUE
    ClearNick = FALSE
    BotNick <- MCBotNick
SPECIFICATION Spec
SYMMETRY ClientSymmetry
CHECK_DEADLOCK FALSE
PROPERTY GhostStaysOut

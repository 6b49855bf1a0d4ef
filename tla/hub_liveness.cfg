CONSTANTS
    c1 = c1  c2 = c2  c3 = c3  b1 = b1  n1 = n1  n2 = n2
    Client = {c1, c2}
    Bot = {}
    SID = {s1}
    CID = {k1}
    Nick = {n1}
    Token = {t1, t2}
    V6 = {c2}
    None = None
    DualStack = TRUE
    FreshSid = FALSE
    Revalidate = TRUE
    SecondToken = TRUE
    DropHbri = TRUE
    ClearNick = FALSE
    BotNick <- MCBotNick
SPECIFICATION FairSpec
CHECK_DEADLOCK FALSE
PROPERTIES LoginEnds DisconnectEnds

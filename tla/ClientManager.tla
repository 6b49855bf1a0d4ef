---- MODULE ClientManager ----
(***************************************************************************)
(* The hub's core: who is connected, how far each login has come, and the  *)
(* four indexes ClientManager keeps over the entities (by SID, nick, CID   *)
(* and HBRI token).  Everything here runs on the one io_service thread, so *)
(* a handler is one step; steps interleave at the io_service queue: reads, *)
(* the one-second timer, and the Reporter / BotRemover jobs that           *)
(* disconnect() posts and that delete the object later.                    *)
(*                                                                         *)
(* A member of Client is one Client object, used once: after it is deleted *)
(* only stale pointers can mention it.  Using such a pointer is undefined  *)
(* behaviour, recorded by fault, after which nothing more is modelled.     *)
(*                                                                         *)
(* FreshSid, Revalidate, SecondToken, DropHbri and ClearNick say what the  *)
(* surroundings may do; README.md explains each.                           *)
(***************************************************************************)
EXTENDS Naturals

CONSTANTS
    Client,     \* Client objects, one per accepted connection
    Bot,        \* Bot objects scripts may create
    SID,        \* session identifiers makeSID can draw
    CID,        \* client identifiers; a bot's generated CID is the bot itself
    Nick,       \* nicks
    BotNick,    \* [Bot -> Nick], the nick a script gives its bot
    Token,      \* HBRI validation tokens
    V6,         \* the connections that arrived over IPv6
    DualStack,  \* does the server have an address of the other protocol?
    FreshSid,   \* TRUE: Util::rand never draws the SID of a pending login
    Revalidate, \* TRUE: connected users may announce a secondary address
    SecondToken, \* TRUE: a login may be sent a token while it has another
    DropHbri,   \* TRUE: clients may send SUP RMHBRI while being validated
    ClearNick,  \* TRUE: connected users may send an INF with an empty NI
    None

Ent == Client \cup Bot

ASSUME ConstantsAssumption ==
    /\ Client \cap Bot = {}
    /\ CID \cap Bot = {}
    /\ BotNick \in [Bot -> Nick]
    /\ V6 \subseteq Client
    /\ {DualStack, FreshSid, Revalidate, SecondToken, DropHbri, ClearNick} \subseteq BOOLEAN
    /\ None \notin Ent \cup SID \cup CID \cup Nick \cup Token
    \* nor is it the identity of a user
    /\ None \notin [sid : SID, cid : CID \cup Bot \cup {None}, nick : Nick \cup {None}]

State == {"PROTOCOL", "HBRI", "IDENTIFY", "VERIFY", "NORMAL"}

VARIABLES
    life,       \* "new", "accepted" (TLS handshake), "open", "deleted"
    sid, state, cid, nick,   \* Entity: sid, state, cid, field NI
    ghost,      \* FLAG_GHOST
    validate,   \* FLAG_VALIDATE_HBRI
    hbriSup,    \* hasSupport("HBRI")
    closing,    \* Client::disconnecting, Bot::disconnecting
    failJob,    \* a Reporter or BotRemover job is queued
    entities, nicks, cids,   \* the indexes, by SID, nick and CID
    hbriTokens, \* validation token -> the client being validated
    logins,     \* client -> arrival time in the login list, 0 when not in it
    clock,      \* arrivals so far, the time that stamps logins
    view,       \* client -> SIDs it has been told of (INF) and not lost (QUI)
    fault       \* a deleted object has been used, or is in the entity list

entVars   == <<life, sid, state, cid, nick, ghost, validate, hbriSup>>
indexVars == <<entities, nicks, cids, hbriTokens, logins>>
vars == <<entVars, closing, failJob, indexVars, clock, view, fault>>

----------------------------------------------------------------------------
(* The unordered_maps: insert keeps an existing entry, erase of a missing  *)
(* key does nothing.                                                       *)
\* Fault: an empty key is inserted like any other.
InsertAnyKey(m, k, e) ==
    [x \in DOMAIN m \cup {k} |->
        IF x = k /\ (x \in DOMAIN m => m[x] = None) THEN e ELSE m[x]]
Insert(m, k, e) ==
    [x \in DOMAIN m |-> IF x = k /\ m[x] = None THEN e ELSE m[x]]
Erase(m, k) == [x \in DOMAIN m |-> IF x = k THEN None ELSE m[x]]

\* Nothing is modelled once a deleted object has been used.
Running == ~fault

Live(e) == life[e] \in {"accepted", "open"}
Listed(e) == Live(e) /\ e \notin ghost /\ state[e] = "NORMAL"

\* Client::onData hands over no command once the client is disconnecting.
Receives(c) == life[c] = "open" /\ c \notin closing

\* Fault: the drawn SID is not looked up.
MakeSIDUnchecked == SID

\* makeSID looks at entities only: a login in progress is not there yet.
MakeSID == {s \in SID : /\ entities[s] = None
                        /\ FreshSid => \A e \in Ent : Live(e) => sid[e] # s}

\* Fault: no job is posted.
DisconnectNoJob(D) == closing' = closing \cup D /\ UNCHANGED failJob

\* Entity::disconnect of each entity in D: mark it and queue its job.
Disconnect(D) == closing' = closing \cup D /\ failJob' = failJob \cup D

----------------------------------------------------------------------------
(* removeEntity(e), one piece of state at a time; e = None removes nobody. *)
\* Fault: who is disconnecting already is not taken out of entities.
QuitSidsNotClosing(e) ==
    IF e # None /\ state[e] = "NORMAL" /\ e \notin closing THEN {sid[e]} ELSE {}
QuitSids(e) == IF e # None /\ state[e] = "NORMAL" THEN {sid[e]} ELSE {}
EntitiesWithout(e) ==
    [s \in SID |-> IF s \in QuitSids(e) THEN None ELSE entities[s]]
\* Faults: nicks, or cids, keeps who is removed.
NicksWithoutNobody(e) == nicks
CidsWithoutNobody(e) == cids
NicksWithout(e) == IF e = None THEN nicks ELSE Erase(nicks, nick[e])
CidsWithout(e) == IF e = None THEN cids ELSE Erase(cids, cid[e])

\* removeLogins for the clients in R.
LoginsWithout(R) == [c \in Client |-> IF c \in R THEN 0 ELSE logins[c]]

\* Of the tokens in m, one of each client in C that has any: the first that a
\* search of the unordered_map finds.
TokensOf(m, c) == {t \in Token : m[t] = c}
OneOfEach(m, C) ==
    {D \in SUBSET Token :
        /\ \A t \in D : m[t] \in C
        /\ \A c \in C : TokensOf(m, c) # {} =>
                \E t \in Token : D \cap TokensOf(m, c) = {t}}
Without(m, D) == [t \in Token |-> IF t \in D THEN None ELSE m[t]]

\* removeLogins takes one token of each client with HBRI support; it stops at
\* the first.  Fault: it takes none.
TokensKept(m, R) == {m}
TokensWithout(m, R) == {Without(m, D) : D \in OneOfEach(m, R \cap hbriSup)}

\* Fault: removeEntity forgets removeLogins.
PendingOfNobody(e) == {}
PendingOf(e) == IF e # None /\ state[e] # "NORMAL" THEN {e} ELSE {}

\* What the members of the entity list ents know after the QUIs of quit and
\* the INFs of the entities N that enter NORMAL; the clients in N get the
\* whole list.
Sids(ents) == {s \in SID : ents[s] # None}
\* Fault: a newcomer is not sent its own INF.
AnnounceToOthers(ents, quit, N) ==
    [c \in Client |->
        IF c \in N THEN Sids(ents) \cup {sid[e] : e \in N \ {c}}
        ELSE IF \E s \in SID : ents[s] = c
             THEN (view[c] \ quit) \cup {sid[e] : e \in N}
             ELSE view[c]]
Announce(ents, quit, N) ==
    [c \in Client |->
        IF c \in N THEN Sids(ents) \cup {sid[e] : e \in N}
        ELSE IF \E s \in SID : ents[s] = c
             THEN (view[c] \ quit) \cup {sid[e] : e \in N}
             ELSE view[c]]

\* entities.insert for the entities in N: a SID already there stays.
InsertAll(ents, N) ==
    [s \in SID |-> IF ents[s] = None /\ \E e \in N : sid[e] = s
                   THEN CHOOSE e \in N : sid[e] = s
                   ELSE ents[s]]

\* A handler that removes o (None: nobody) and then lets the entities in N
\* enter NORMAL: the tail of enterNormal, on the token map tokens.
Relist(N, o) ==
    /\ entities' = InsertAll(EntitiesWithout(o), N)
    /\ view' = Announce(EntitiesWithout(o), QuitSids(o), N)
Enlist(N, o, tokens) ==
    /\ Relist(N, o)
    /\ hbriTokens' \in TokensWithout(tokens, PendingOf(o) \cup N)
    /\ logins' = LoginsWithout(PendingOf(o) \cup N)

Normal(N) == [e \in Ent |-> IF e \in N THEN "NORMAL" ELSE state[e]]

\* sendHBRI's conditions: client support and an address to connect to.
CanValidate(c) == c \in hbriSup /\ DualStack
FreeTokens == {t \in Token : hbriTokens[t] = None}

\* enterNormal(c) in a handler that has removed o; flagged says whether
\* FLAG_VALIDATE_HBRI is set, which sends the client to HBRI first.
EnterNormal(c, flagged, o) ==
    IF flagged /\ CanValidate(c)
    THEN /\ \E t \in FreeTokens :
                Enlist({}, o, [hbriTokens EXCEPT ![t] = c])
         /\ state' = [state EXCEPT ![c] = "HBRI"]
         /\ validate' = validate \cup {c}
    ELSE /\ Enlist({c}, o, hbriTokens)
         /\ state' = Normal({c})
         /\ validate' = validate \ {c}

----------------------------------------------------------------------------
Init ==
    /\ life = [e \in Ent |-> "new"]
    /\ sid = [e \in Ent |-> None]
    /\ state = [e \in Ent |-> "PROTOCOL"]
    /\ cid = [e \in Ent |-> None]
    /\ nick = [e \in Ent |-> None]
    /\ ghost = {} /\ validate = {} /\ hbriSup = {}
    /\ closing = {} /\ failJob = {}
    /\ entities = [s \in SID |-> None]
    /\ nicks = [n \in Nick |-> None]
    /\ cids = [k \in CID \cup Bot |-> None]
    /\ hbriTokens = [t \in Token |-> None]
    /\ logins = [c \in Client |-> 0]
    /\ clock = 0
    /\ view = [c \in Client |-> {}]
    /\ fault = FALSE

\* handleIncoming and onConnected: the accept succeeded.
Accept(c, s) ==
    /\ Running
    /\ life[c] = "new"
    /\ s \in MakeSID
    /\ life' = [life EXCEPT ![c] = "accepted"]
    /\ sid' = [sid EXCEPT ![c] = s]
    /\ clock' = clock + 1
    /\ logins' = [logins EXCEPT ![c] = clock']
    /\ UNCHANGED <<state, cid, nick, ghost, validate, hbriSup, closing,
                   failJob, entities, nicks, cids, hbriTokens, view, fault>>

\* handleIncoming, then the accept's error reaches onFailed: the client was
\* never in logins.
AcceptFailed(c) ==
    /\ Running
    /\ life[c] = "new"
    /\ life' = [life EXCEPT ![c] = "deleted"]
    /\ UNCHANGED <<sid, state, cid, nick, ghost, validate, hbriSup, closing,
                   failJob, indexVars, clock, view, fault>>

\* The handshake is done: ManagedSocket::ready starts reading.
Ready(c) ==
    /\ Running
    /\ life[c] = "accepted"
    /\ life' = [life EXCEPT ![c] = "open"]
    /\ UNCHANGED <<sid, state, cid, nick, ghost, validate, hbriSup, closing,
                   failJob, indexVars, clock, view, fault>>

\* A command the hub refuses (bad state, bad type, bad SID, too long, failed
\* verification, unknown token) or a script's kick: STA, QUI and disconnect.
Kick(e) ==
    /\ Running
    /\ Live(e) /\ e \notin closing
    /\ Disconnect({e})
    /\ UNCHANGED <<entVars, indexVars, clock, view, fault>>

\* The socket disconnects itself: write overflow or write timeout.  The
\* client does not know, and goes on receiving until the job runs.
SocketDisconnect(c) ==
    /\ Running
    /\ Live(c) /\ c \notin failJob
    /\ failJob' = failJob \cup {c}
    /\ UNCHANGED <<entVars, closing, indexVars, clock, view, fault>>

\* handle(SUP): the supports are updated before anything is checked; ok says
\* whether BASE and TIGR are among them.
Sup(c, hbri, ok) ==
    /\ Running
    /\ Receives(c)
    /\ state[c] = "HBRI" /\ ~DropHbri => hbri
    /\ hbriSup' = IF hbri THEN hbriSup \cup {c} ELSE hbriSup \ {c}
    /\ IF ok /\ state[c] \in {"PROTOCOL", "NORMAL"}
       THEN /\ state' = [state EXCEPT ![c] =
                            IF @ = "PROTOCOL" THEN "IDENTIFY" ELSE @]
            /\ UNCHANGED <<closing, failJob>>
       ELSE Disconnect({c}) /\ UNCHANGED state
    /\ UNCHANGED <<life, sid, cid, nick, ghost, validate, indexVars, clock,
                   view, fault>>

\* verifyINF of a login: nick n (None: no NI) must be free, the holder of CID
\* k is removed as a ghost.  The nick is looked at before the ghost goes.
VerifyINF(c, k, n) ==
    /\ n # None => nicks[n] = None
    /\ cid' = [cid EXCEPT ![c] = k]
    /\ cids' = Insert(CidsWithout(cids[k]), k, c)
    /\ nick' = [nick EXCEPT ![c] = n]
    /\ nicks' = Insert(NicksWithout(cids[k]), n, c)
    /\ ghost' = ghost \cup ({cids[k]} \ {None})
    /\ UNCHANGED <<life, sid, hbriSup, clock, fault>>

\* handle(INF) in IDENTIFY; secondary says whether the INF names an address
\* of the other protocol, bandwidth whether verifyOverflow lets it pass.
InfLogin(c, k, n, secondary, bandwidth) ==
    /\ Running
    /\ Receives(c) /\ state[c] = "IDENTIFY"
    /\ VerifyINF(c, k, n)
    /\ LET other == cids[k] IN
       IF bandwidth
       THEN /\ Disconnect({other} \ {None})
            /\ EnterNormal(c, secondary, other)
       ELSE /\ Disconnect({c} \cup ({other} \ {None}))
            /\ Enlist({}, other, hbriTokens)
            /\ validate' = IF secondary THEN validate \cup {c} ELSE validate
            /\ UNCHANGED state

\* A script stops the INF of a registered user, has it verified and asks for the
\* password: verifyINF and enterVerify.  This is the INF in IDENTIFY, with a CID.
InfVerify(c, k, n, secondary) ==
    /\ Running
    /\ Receives(c) /\ state[c] = "IDENTIFY"
    /\ VerifyINF(c, k, n)
    /\ Disconnect({cids[k]} \ {None})
    /\ Enlist({}, cids[k], hbriTokens)
    /\ validate' = IF secondary THEN validate \cup {c} ELSE validate
    /\ state' = [state EXCEPT ![c] = "VERIFY"]

\* A present entity takes the nick n, which nobody else has.
TakeNick(c, n) ==
    /\ n = nick[c] \/ nicks[n] = None
    /\ nick' = [nick EXCEPT ![c] = n]
    /\ nicks' = Insert(IF n = nick[c] THEN nicks ELSE Erase(nicks, nick[c]), n, c)

\* An INF with the nick of a registered user and no CID, before the SUP, while
\* the client is being validated or is asked for the password: the script only
\* lets those in NORMAL pass.  The client goes (back) to VERIFY, and a token of
\* its stays.
InfVerifyNoCid(c, n, secondary) ==
    /\ Running
    /\ Receives(c) /\ state[c] \in {"PROTOCOL", "HBRI", "VERIFY"}
    /\ TakeNick(c, n)
    /\ validate' = IF secondary THEN validate \cup {c} ELSE validate
    /\ state' = [state EXCEPT ![c] = "VERIFY"]
    /\ UNCHANGED <<life, sid, cid, ghost, hbriSup, closing, failJob, entities,
                   cids, hbriTokens, logins, clock, view, fault>>

\* A script accepts the password of a client in VERIFY: enterNormal.
Pas(c) ==
    /\ Running
    /\ Receives(c) /\ state[c] = "VERIFY"
    /\ c \in validate /\ CanValidate(c) /\ ~SecondToken =>
           TokensOf(hbriTokens, c) = {}
    /\ EnterNormal(c, c \in validate, None)
    /\ UNCHANGED <<life, sid, cid, nick, ghost, hbriSup, closing, failJob,
                   nicks, cids, clock, fault>>

\* handle(INF) in NORMAL with nick n (None: no NI).
InfUpdate(c, n, secondary) ==
    /\ Running
    /\ Receives(c) /\ state[c] = "NORMAL"
    /\ IF n = None THEN UNCHANGED <<nick, nicks>> ELSE TakeNick(c, n)
    /\ IF secondary /\ CanValidate(c)
       THEN /\ Revalidate
            /\ validate' = validate \cup {c}
            /\ \E t \in FreeTokens :
                   hbriTokens' = [hbriTokens EXCEPT ![t] = c]
       ELSE UNCHANGED <<validate, hbriTokens>>
    /\ UNCHANGED <<life, sid, state, cid, ghost, hbriSup, closing, failJob,
                   entities, cids, logins, clock, view, fault>>

\* The same with an empty NI: it passes verifyNick, the index is left alone,
\* and updateFields erases the field.
InfClearNick(c) ==
    /\ Running
    /\ ClearNick
    /\ Receives(c) /\ state[c] = "NORMAL" /\ nick[c] # None
    /\ nick' = [nick EXCEPT ![c] = None]
    /\ UNCHANGED <<life, sid, state, cid, ghost, validate, hbriSup, closing,
                   failJob, indexVars, clock, view, fault>>
----------------------------------------------------------------------------
(* HBRI: c delivers the token t over the other protocol.                   *)
\* A token's client is there and may be validated, or may not.
Validating(t) ==
    hbriTokens[t] # None /\ life[hbriTokens[t]] # "deleted"
    /\ state[hbriTokens[t]] \in {"HBRI", "NORMAL"}
Suspended(t) ==
    hbriTokens[t] # None /\ life[hbriTokens[t]] # "deleted"
    /\ state[hbriTokens[t]] \notin {"HBRI", "NORMAL"}

\* It is in VERIFY: only c is disconnected, and the token stays.
TcpBadState(c, t) ==
    /\ Running
    /\ Receives(c) /\ Suspended(t)
    /\ validate' = validate \ {hbriTokens[t]}
    /\ Disconnect({c})
    /\ UNCHANGED <<life, sid, state, cid, nick, ghost, hbriSup, indexVars,
                   clock, view, fault>>

Tcp(c, t) ==
    /\ Running
    /\ Receives(c) /\ Validating(t)
    /\ Disconnect({c})
    /\ UNCHANGED <<life, sid, cid, nick, ghost, hbriSup, nicks, cids, clock,
                   fault>>

\* Wrong protocol: failHBRI is called for the validating connection.
TcpWrongProtocol(c, t) ==
    /\ Tcp(c, t)
    /\ LET N == {c} \cap {x \in Client : state[x] = "HBRI"} IN
       /\ (hbriTokens[t] \in V6) = (c \in V6)
       /\ validate' = validate \ {hbriTokens[t], c}
       /\ Enlist(N, None, Erase(hbriTokens, t))
       /\ state' = Normal(N)

\* verifyIp fails: failHBRI for the client that is being validated.
TcpBadIp(c, t) ==
    /\ Tcp(c, t)
    /\ LET N == {hbriTokens[t]} \cap {x \in Client : state[x] = "HBRI"} IN
       /\ (hbriTokens[t] \in V6) # (c \in V6)
       /\ validate' = validate \ {hbriTokens[t]}
       /\ Enlist(N, None, Erase(hbriTokens, t))
       /\ state' = Normal(N)

\* Validated: a login continues, a connected user's INF is sent to all.
TcpValidated(c, t) ==
    /\ Tcp(c, t)
    /\ LET m == hbriTokens[t] IN
       /\ (m \in V6) # (c \in V6)
       /\ validate' = validate \ {m}
       /\ state' = Normal({m})
       /\ IF state[m] = "HBRI"
          THEN Enlist({m}, None, Erase(hbriTokens, t))
          ELSE /\ view' = [x \in Client |->
                              IF \E s \in SID : entities[s] = x
                              THEN view[x] \cup {sid[m]} ELSE view[x]]
               /\ hbriTokens' = Erase(hbriTokens, t)
               /\ UNCHANGED <<entities, logins>>

\* onTimerSecond: the tokens X have expired (failHBRI each), then the logins
\* that arrived up to cut.  A client in HBRI enters NORMAL at the first of its
\* tokens (F); if it has others, removeLogins takes one (D), which may be the one
\* the loop's iterator is at.
OnTimerSecond(X, cut) ==
    LET N == {c \in Client : state[c] = "HBRI"
                             /\ \E t \in X : hbriTokens[t] = c}
        late == {c \in Client \ N : logins[c] \in 1..cut}
    IN
    /\ Running
    /\ \A t \in X : hbriTokens[t] # None /\ life[hbriTokens[t]] # "deleted"
    /\ X # {} \/ late # {}
    /\ UNCHANGED <<life, sid, cid, nick, ghost, hbriSup, nicks, cids, clock>>
    /\ validate' = {c \in validate : \A t \in X : hbriTokens[t] # c}
    /\ logins' = LoginsWithout(N \cup late)
    /\ state' = Normal(N)
    /\ Disconnect(late)
    /\ Relist(N, None)
    /\ \E F \in OneOfEach(Without(hbriTokens, Token \ X), N) :
       \E D \in OneOfEach(Without(hbriTokens, F), N \cap hbriSup) :
           /\ hbriTokens' = Without(hbriTokens, X \cup D)
           /\ fault' \in IF D = {} THEN {fault} ELSE BOOLEAN

\* The timer or handle(TCP) follows a token to a client deleted meanwhile.
UseStaleToken(t) ==
    /\ Running
    /\ hbriTokens[t] # None /\ life[hbriTokens[t]] = "deleted"
    /\ fault' = TRUE
    /\ UNCHANGED <<entVars, closing, failJob, indexVars, clock, view>>
----------------------------------------------------------------------------
(* removeEntity, unless it has been done already, and delete.  A ghost that *)
(* has come back among the users stays in the entity list: the next         *)
(* broadcast uses what is deleted.                                          *)
RemoveAndDelete(e) ==
    LET o == IF e \in ghost THEN None ELSE e IN
    /\ Running
    /\ life' = [life EXCEPT ![e] = "deleted"]
    /\ Enlist({}, o, hbriTokens)
    /\ nicks' = NicksWithout(o)
    /\ cids' = CidsWithout(o)
    /\ sid' = [sid EXCEPT ![e] = None]
    /\ cid' = [cid EXCEPT ![e] = None]
    /\ nick' = [nick EXCEPT ![e] = None]
    /\ state' = [state EXCEPT ![e] = "PROTOCOL"]
    /\ ghost' = ghost \ {e} /\ validate' = validate \ {e}
    /\ hbriSup' = hbriSup \ {e}
    /\ closing' = closing \ {e} /\ failJob' = failJob \ {e}
    /\ fault' = (\E s \in SID : entities'[s] = e)
    /\ UNCHANGED clock

\* Fault: the job of a removed entity is dropped.
RunJobUnlessGhost(e) ==
    Live(e) /\ e \in failJob \ ghost /\ RemoveAndDelete(e)

\* The Reporter job of a disconnected client, or the BotRemover of a bot.
RunJob(e) == Live(e) /\ e \in failJob /\ RemoveAndDelete(e)

\* A read or write fails before the job runs, or without one.
SocketError(c) == Live(c) /\ RemoveAndDelete(c)

\* createBot.  A script sets the nick before it calls regBot, which looks at
\* no index: that the nick is free is the script's business.
CreateBot(b, s) ==
    /\ Running
    /\ life[b] = "new"
    /\ s \in MakeSID
    /\ life' = [life EXCEPT ![b] = "open"]
    /\ sid' = [sid EXCEPT ![b] = s]
    /\ cid' = [cid EXCEPT ![b] = b]
    /\ UNCHANGED <<state, nick, ghost, validate, hbriSup, closing, failJob,
                   indexVars, clock, view, fault>>

RegBot(b) ==
    /\ Running
    /\ life[b] = "open" /\ b \notin closing /\ state[b] = "PROTOCOL"
    /\ nicks[BotNick[b]] = None
    /\ nick' = [nick EXCEPT ![b] = BotNick[b]]
    /\ nicks' = Insert(nicks, BotNick[b], b)
    /\ cids' = Insert(cids, b, b)
    /\ Enlist({b}, None, hbriTokens)
    /\ state' = Normal({b})
    /\ UNCHANGED <<life, sid, cid, ghost, validate, hbriSup, closing,
                   failJob, clock, fault>>

ClientStep(c) ==
    \/ \E s \in SID : Accept(c, s)
    \/ AcceptFailed(c)
    \/ Ready(c)
    \/ \E hbri, ok \in BOOLEAN : Sup(c, hbri, ok)
    \/ \E k \in CID, n \in Nick \cup {None}, secondary, bandwidth \in BOOLEAN :
            InfLogin(c, k, n, secondary, bandwidth)
    \/ \E k \in CID, n \in Nick \cup {None}, secondary \in BOOLEAN :
            InfVerify(c, k, n, secondary)
    \/ \E n \in Nick, secondary \in BOOLEAN : InfVerifyNoCid(c, n, secondary)
    \/ Pas(c)
    \/ \E n \in Nick \cup {None}, secondary \in BOOLEAN :
            InfUpdate(c, n, secondary)
    \/ InfClearNick(c)
    \/ \E t \in Token : TcpBadState(c, t)
    \/ \E t \in Token : TcpWrongProtocol(c, t)
    \/ \E t \in Token : TcpBadIp(c, t)
    \/ \E t \in Token : TcpValidated(c, t)
    \/ SocketDisconnect(c)
    \/ SocketError(c)

BotStep(b) == (\E s \in SID : CreateBot(b, s)) \/ RegBot(b)

Next ==
    \/ \E c \in Client : ClientStep(c)
    \/ \E b \in Bot : BotStep(b)
    \/ \E e \in Ent : Kick(e)
    \/ \E e \in Ent : RunJob(e)
    \/ \E X \in SUBSET Token, cut \in 0..clock : OnTimerSecond(X, cut)
    \/ \E t \in Token : UseStaleToken(t)

Spec == Init /\ [][Next]_vars

\* What the event loop gives: a queued job runs, and the timer comes round
\* every second until a login that stays in the list has expired.
FairSpec ==
    /\ Spec
    /\ \A e \in Ent : WF_vars(RunJob(e))
    /\ \A c \in Client :
        WF_vars(/\ logins[c] # 0
                /\ \E X \in SUBSET Token :
                        OnTimerSecond(X, logins[c]))
----------------------------------------------------------------------------
\* Every variable holds a value of its type.
TypeOK ==
    /\ life \in [Ent -> {"new", "accepted", "open", "deleted"}]
    /\ sid \in [Ent -> SID \cup {None}]
    /\ state \in [Ent -> State]
    /\ cid \in [Ent -> CID \cup Bot \cup {None}]
    /\ nick \in [Ent -> Nick \cup {None}]
    /\ ghost \subseteq Ent /\ validate \subseteq Ent /\ hbriSup \subseteq Ent
    /\ closing \subseteq Ent /\ failJob \subseteq Ent
    /\ entities \in [SID -> Ent \cup {None}]
    /\ nicks \in [Nick -> Ent \cup {None}]
    /\ cids \in [CID \cup Bot -> Ent \cup {None}]
    /\ hbriTokens \in [Token -> Client \cup {None}]
    /\ logins \in [Client -> Nat]
    /\ clock \in Nat
    /\ view \in [Client -> SUBSET SID]
    /\ fault \in BOOLEAN

Present(e) == Live(e) /\ e \notin ghost

\* No entry of the entity list leads to an entity that has been deleted,
\* removed as a ghost, or is still logging in.
EntitiesLive ==
    \A s \in SID : entities[s] # None =>
        Listed(entities[s]) /\ sid[entities[s]] = s

\* getEntity finds every user under its SID (ClientManager.h: "The entity
\* associated with a certain SID").
SidLookup == \A e \in Ent : Listed(e) => entities[sid[e]] = e

\* The entity list is exactly the users, each under its own SID: nothing
\* deleted or kicked stays in it, nobody is lost by another's removal.
EntityList == EntitiesLive /\ SidLookup

\* getSID finds a nick's present owner, never an entity that has gone
\* (ClientManager.h: "SID of entity or INVALID_SID if not found").
NickLookup ==
    \A n \in Nick : nicks[n] # None =>
        Present(nicks[n]) /\ nick[nicks[n]] = n

\* And every nick in use is found, so no two users share one.
NickIndex ==
    /\ NickLookup
    /\ \A e \in Ent : Present(e) /\ nick[e] # None => nicks[nick[e]] = e

\* The same for CIDs, which a later login takes over from an earlier one; a
\* bot's CID counts once it is registered.
CidIndex ==
    /\ \A k \in CID \cup Bot : cids[k] # None =>
            Present(cids[k]) /\ cid[cids[k]] = k
    /\ \A e \in Ent : /\ Present(e) /\ cid[e] # None
                      /\ e \in Bot => state[e] = "NORMAL"
                      => cids[cid[e]] = e

\* The login list holds live clients that are not in NORMAL, and a login that
\* is not in it is on its way out: none escapes the login timeout.
LoginsWatched ==
    \A c \in Client :
        /\ logins[c] # 0 => Present(c) /\ state[c] # "NORMAL"
        /\ Present(c) /\ state[c] # "NORMAL" /\ logins[c] = 0 => c \in failJob

\* A token whose client still exists belongs to a user, or to a login that is
\* being validated or, after another INF, asked for its password.  A login has one
\* token; in HBRI its flag and its support are set, and it is no ghost: it loses
\* the token when it is removed, though removeLogins takes only one.
TokensValid ==
    \A t \in Token : \A c \in Client : hbriTokens[t] = c =>
        /\ life[c] # "new"
        /\ Live(c) => state[c] \in {"HBRI", "VERIFY", "NORMAL"}
        /\ Live(c) /\ state[c] # "NORMAL" =>
                \A u \in Token : hbriTokens[u] = c => u = t
        /\ Live(c) /\ state[c] = "HBRI" =>
                c \in validate \cap hbriSup /\ c \notin ghost

\* An object that is not live is blank: fields, flags and lists forgot it.
Blank ==
    \A e \in Ent :
        /\ ~Live(e) =>
            /\ e \notin ghost \cup closing \cup failJob \cup validate
            /\ state[e] = "PROTOCOL" /\ cid[e] = None
        /\ Live(e) => sid[e] \in SID

\* No two live objects have the same SID, those that are still logging in
\* included: what EntityList needs when a login enters NORMAL.
SidsDistinct ==
    \A e, f \in Ent : e # f /\ Live(e) /\ Live(f) => sid[e] # sid[f]

\* A client that can still send its first INF has no CID yet; a bot keeps
\* the CID it was created with.
FirstCid ==
    /\ \A c \in Client :
        /\ cid[c] \in CID \cup {None}
        /\ state[c] \in {"PROTOCOL", "IDENTIFY"} /\ c \notin closing =>
                cid[c] = None
    /\ \A b \in Bot : /\ cid[b] = IF Live(b) THEN b ELSE None
                      /\ state[b] \in {"PROTOCOL", "NORMAL"}
                      /\ b \notin ghost

\* Every connected user knows exactly the SIDs of the entity list: INF and
\* QUI reach everyone, in an order that loses nobody.
Roster ==
    \A c \in Client : Listed(c) => view[c] = Sids(entities)

\* A removed entity (FLAG_GHOST) has been told to disconnect, so it receives
\* nothing more, and whatever was told so is waiting for its job.
GhostsLeave ==
    /\ ghost \subseteq closing
    /\ \A e \in closing : Live(e) /\ e \in failJob

\* The inductive invariant behind EntityList, CidIndex, TokensValid and
\* LoginsWatched, for surroundings in which SIDs are fresh, a client being
\* validated keeps its HBRI support, and a login is not sent a second token.
WellBehaved == FreshSid /\ ~DropHbri /\ ~SecondToken
IInv ==
    /\ TypeOK /\ Blank /\ GhostsLeave /\ FirstCid
    /\ EntityList /\ SidsDistinct /\ CidIndex /\ TokensValid /\ LoginsWatched

\* Once removed, an entity is never seen among the users again.
GhostStaysOut ==
    [][\A e \in ghost : \A s \in SID : entities'[s] # e]_vars

\* A connection either becomes a user or is deleted: the handshake, the
\* validation, the password cannot keep it for ever.
LoginEnds ==
    \A c \in Client : life[c] = "accepted" ~>
        (Listed(c) \/ life[c] = "deleted" \/ fault)

\* What has been told to disconnect is deleted.
DisconnectEnds ==
    \A e \in Ent : e \in failJob ~> (life[e] = "deleted" \/ fault)
----------------------------------------------------------------------------
\* The users are the listed entities; removed and deleted ones are gone.
Directory == INSTANCE UserDirectory WITH
    CID <- CID \cup Bot,
    user <- [e \in Ent |-> IF Listed(e)
                THEN [sid |-> sid[e], cid |-> cid[e], nick |-> nick[e]]
                ELSE None],
    gone <- {e \in Ent : life[e] = "deleted" \/ e \in ghost}

\* The core keeps the promise of UserDirectory: identities are unique and
\* stable, takeover by CID is one step, and nobody comes back.
DirectorySpec == Directory!Spec
====

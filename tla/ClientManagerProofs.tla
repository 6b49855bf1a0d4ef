---- MODULE ClientManagerProofs ----
(***************************************************************************)
(* Proofs about ClientManager for every number of connections, bots, SIDs, *)
(* CIDs, nicks and tokens.  IInv is inductive: one lemma per action, each  *)
(* with one step per conjunct of IInv, over lemmas about the operators the *)
(* actions share (InsertAll, Relist, Enlist, VerifyINF, EnterNormal).      *)
(***************************************************************************)
EXTENDS ClientManager, TLAPS

----------------------------------------------------------------------------
(* The actions that touch few of the indexes: each conjunct of IInv follows *)
(* from the definitions.                                                   *)

\* A kick only marks the entity and queues its job.
LEMMA KickStep ==
    ASSUME IInv, NEW e \in Ent, Kick(e)
    PROVE  IInv'
<1>1. TypeOK' BY DEF IInv, Kick, Disconnect, TypeOK, entVars, indexVars
<1>2. Blank' /\ GhostsLeave' /\ FirstCid'
    BY DEF IInv, Kick, Disconnect, TypeOK, entVars, indexVars, Blank,
        GhostsLeave, FirstCid, Live, Ent
<1>3. EntityList' /\ SidsDistinct' /\ CidIndex' /\ TokensValid'
    BY DEF IInv, Kick, entVars, indexVars, EntityList, EntitiesLive,
        SidLookup, Listed, Live, SidsDistinct, CidIndex, TokensValid, Present
<1>4. LoginsWatched'
    BY DEF IInv, Kick, Disconnect, entVars, indexVars, LoginsWatched, Live,
        Present
<1> QED BY <1>1, <1>2, <1>3, <1>4 DEF IInv

\* An accepted connection starts blank, under a SID nobody live has.
LEMMA AcceptStep ==
    ASSUME IInv, WellBehaved, NEW c \in Client, NEW s \in SID, Accept(c, s)
    PROVE  IInv'
<1>1. TypeOK' BY DEF IInv, Accept, MakeSID, TypeOK, Ent
<1>2. Blank' /\ GhostsLeave'
    BY DEF IInv, Accept, MakeSID, TypeOK, Blank, GhostsLeave, FirstCid, Live,
        Ent
<1>8. FirstCid'
    BY ConstantsAssumption DEF IInv, TypeOK, Accept, FirstCid, Live, Blank, Ent
<1>3. EntityList'
    BY DEF IInv, TypeOK, WellBehaved, Accept, MakeSID, EntityList,
        EntitiesLive, SidLookup, Listed, Live, SidsDistinct, Present, Blank,
            Ent
<1>4. SidsDistinct'
    BY DEF IInv, TypeOK, WellBehaved, Accept, MakeSID, SidsDistinct, Live, Ent
<1>5. CidIndex'
    BY ConstantsAssumption
    DEF IInv, TypeOK, Accept, CidIndex, Present, Live, Blank, Ent
<1>6. TokensValid'
    BY ConstantsAssumption
    DEF IInv, TypeOK, Accept, TokensValid, Live, Blank, Ent
<1>7. LoginsWatched'
    BY ConstantsAssumption
    DEF IInv, TypeOK, Accept, LoginsWatched, Present, Live, Blank, Ent
<1> QED BY <1>1, <1>2, <1>8, <1>3, <1>4, <1>5, <1>6, <1>7 DEF IInv

\* A failed accept turns a blank object into a deleted blank one.
LEMMA AcceptFailedStep ==
    ASSUME IInv, NEW c \in Client, AcceptFailed(c)
    PROVE  IInv'
<1>1. TypeOK'
    BY ConstantsAssumption
    DEF IInv, TypeOK, AcceptFailed, entVars, indexVars, Ent, State
<1>2. Blank'
    BY ConstantsAssumption
    DEF IInv, TypeOK, AcceptFailed, entVars, indexVars, Ent, Blank, Live,
        GhostsLeave
<1>3. GhostsLeave'
    BY ConstantsAssumption
    DEF IInv, TypeOK, AcceptFailed, entVars, indexVars, Ent, GhostsLeave,
        Live, Blank
<1>4. FirstCid'
    BY ConstantsAssumption
    DEF IInv, TypeOK, AcceptFailed, entVars, indexVars, Ent, FirstCid, State,
        Blank, Live
<1>5. EntityList'
    BY ConstantsAssumption
    DEF IInv, TypeOK, AcceptFailed, entVars, indexVars, Ent, EntityList,
        EntitiesLive, SidLookup, Listed, Live, Blank, SidsDistinct, FirstCid
<1>6. SidsDistinct'
    BY ConstantsAssumption
    DEF IInv, TypeOK, AcceptFailed, entVars, indexVars, Ent, SidsDistinct,
        Live, Blank
<1>7. CidIndex'
    BY ConstantsAssumption
    DEF IInv, TypeOK, AcceptFailed, entVars, indexVars, Ent, CidIndex,
        Present, Live, Blank, FirstCid
<1>8. TokensValid'
    BY ConstantsAssumption
    DEF IInv, TypeOK, AcceptFailed, entVars, indexVars, Ent, TokensValid,
        Live, Blank, FirstCid, GhostsLeave
<1>9. LoginsWatched'
    BY ConstantsAssumption
    DEF IInv, TypeOK, AcceptFailed, entVars, indexVars, Ent, LoginsWatched,
        Present, Live, Blank
<1> QED BY <1>1, <1>2, <1>3, <1>4, <1>5, <1>6, <1>7, <1>8, <1>9 DEF IInv

\* The end of the handshake changes nothing the indexes look at.
LEMMA ReadyStep ==
    ASSUME IInv, NEW c \in Client, Ready(c)
    PROVE  IInv'
<1>1. TypeOK'
    BY ConstantsAssumption
    DEF IInv, TypeOK, Ready, entVars, indexVars, Ent, State
<1>2. Blank'
    BY ConstantsAssumption
    DEF IInv, TypeOK, Ready, entVars, indexVars, Ent, Blank, Live, GhostsLeave
<1>3. GhostsLeave'
    BY ConstantsAssumption
    DEF IInv, TypeOK, Ready, entVars, indexVars, Ent, GhostsLeave, Live, Blank
<1>4. FirstCid'
    BY ConstantsAssumption
    DEF IInv, TypeOK, Ready, entVars, indexVars, Ent, FirstCid, State, Blank,
        Live
<1>5. EntityList'
    BY ConstantsAssumption
    DEF IInv, TypeOK, Ready, entVars, indexVars, Ent, EntityList,
        EntitiesLive, SidLookup, Listed, Live, Blank, SidsDistinct, FirstCid
<1>6. SidsDistinct'
    BY ConstantsAssumption
    DEF IInv, TypeOK, Ready, entVars, indexVars, Ent, SidsDistinct, Live, Blank
<1>7. CidIndex'
    BY ConstantsAssumption
    DEF IInv, TypeOK, Ready, entVars, indexVars, Ent, CidIndex, Present,
        Live, Blank, FirstCid
<1>8. TokensValid'
    BY ConstantsAssumption
    DEF IInv, TypeOK, Ready, entVars, indexVars, Ent, TokensValid, Live,
        Blank, FirstCid, GhostsLeave
<1>9. LoginsWatched'
    BY ConstantsAssumption
    DEF IInv, TypeOK, Ready, entVars, indexVars, Ent, LoginsWatched, Present,
        Live, Blank
<1> QED BY <1>1, <1>2, <1>3, <1>4, <1>5, <1>6, <1>7, <1>8, <1>9 DEF IInv

\* A disconnect from below only queues the job.
LEMMA SocketDisconnectStep ==
    ASSUME IInv, NEW c \in Client, SocketDisconnect(c)
    PROVE  IInv'
<1>1. TypeOK'
    BY ConstantsAssumption
    DEF IInv, TypeOK, SocketDisconnect, entVars, indexVars, Ent, State
<1>2. Blank'
    BY ConstantsAssumption
    DEF IInv, TypeOK, SocketDisconnect, entVars, indexVars, Ent, Blank, Live,
        GhostsLeave
<1>3. GhostsLeave'
    BY ConstantsAssumption
    DEF IInv, TypeOK, SocketDisconnect, entVars, indexVars, Ent, GhostsLeave,
        Live, Blank
<1>4. FirstCid'
    BY ConstantsAssumption
    DEF IInv, TypeOK, SocketDisconnect, entVars, indexVars, Ent, FirstCid,
        State, Blank, Live
<1>5. EntityList'
    BY ConstantsAssumption
    DEF IInv, TypeOK, SocketDisconnect, entVars, indexVars, Ent, EntityList,
        EntitiesLive, SidLookup, Listed, Live, Blank, SidsDistinct, FirstCid
<1>6. SidsDistinct'
    BY ConstantsAssumption
    DEF IInv, TypeOK, SocketDisconnect, entVars, indexVars, Ent,
        SidsDistinct, Live, Blank
<1>7. CidIndex'
    BY ConstantsAssumption
    DEF IInv, TypeOK, SocketDisconnect, entVars, indexVars, Ent, CidIndex,
        Present, Live, Blank, FirstCid
<1>8. TokensValid'
    BY ConstantsAssumption
    DEF IInv, TypeOK, SocketDisconnect, entVars, indexVars, Ent, TokensValid,
        Live, Blank, FirstCid, GhostsLeave
<1>9. LoginsWatched'
    BY ConstantsAssumption
    DEF IInv, TypeOK, SocketDisconnect, entVars, indexVars, Ent,
        LoginsWatched, Present, Live, Blank
<1> QED BY <1>1, <1>2, <1>3, <1>4, <1>5, <1>6, <1>7, <1>8, <1>9 DEF IInv

\* A SUP may end HBRI support, but not of a client under validation.
LEMMA SupStep ==
    ASSUME IInv, WellBehaved, NEW c \in Client, NEW hbri \in BOOLEAN,
        NEW ok \in BOOLEAN, Sup(c, hbri, ok)
    PROVE  IInv'
<1>1. TypeOK'
    BY ConstantsAssumption
    DEF IInv, TypeOK, Sup, Disconnect, Receives, WellBehaved, entVars,
        indexVars, Ent, State
<1>2. Blank'
    BY ConstantsAssumption
    DEF IInv, TypeOK, Sup, Disconnect, Receives, WellBehaved, entVars,
        indexVars, Ent, Blank, Live, GhostsLeave
<1>3. GhostsLeave'
    BY ConstantsAssumption
    DEF IInv, TypeOK, Sup, Disconnect, Receives, WellBehaved, entVars,
        indexVars, Ent, GhostsLeave, Live, Blank
<1>4. FirstCid'
    BY ConstantsAssumption
    DEF IInv, TypeOK, Sup, Disconnect, Receives, WellBehaved, entVars,
        indexVars, Ent, FirstCid, State, Blank, Live
<1>5. EntityList'
    BY ConstantsAssumption
    DEF IInv, TypeOK, Sup, Disconnect, Receives, WellBehaved, entVars,
        indexVars, Ent, EntityList, EntitiesLive, SidLookup, Listed, Live,
            Blank, SidsDistinct, FirstCid
<1>6. SidsDistinct'
    BY ConstantsAssumption
    DEF IInv, TypeOK, Sup, Disconnect, Receives, WellBehaved, entVars,
        indexVars, Ent, SidsDistinct, Live, Blank
<1>7. CidIndex'
    BY ConstantsAssumption
    DEF IInv, TypeOK, Sup, Disconnect, Receives, WellBehaved, entVars,
        indexVars, Ent, CidIndex, Present, Live, Blank, FirstCid
<1>8. TokensValid'
    BY ConstantsAssumption
    DEF IInv, TypeOK, Sup, Disconnect, Receives, WellBehaved, entVars,
        indexVars, Ent, TokensValid, Live, Blank, FirstCid, GhostsLeave
<1>9. LoginsWatched'
    BY ConstantsAssumption
    DEF IInv, TypeOK, Sup, Disconnect, Receives, WellBehaved, entVars,
        indexVars, Ent, LoginsWatched, Present, Live, Blank
<1> QED BY <1>1, <1>2, <1>3, <1>4, <1>5, <1>6, <1>7, <1>8, <1>9 DEF IInv

\* A user's INF may add a token, for a client in NORMAL.
LEMMA InfUpdateStep ==
    ASSUME IInv, NEW c \in Client, NEW n \in Nick \cup {None},
        NEW secondary \in BOOLEAN, InfUpdate(c, n, secondary)
    PROVE  IInv'
<1>1. TypeOK'
    BY ConstantsAssumption
    DEF IInv, TypeOK, InfUpdate, TakeNick, Receives, FreeTokens, Erase, Insert,
        CanValidate, entVars, indexVars, Ent, State
<1>2. Blank'
    BY ConstantsAssumption
    DEF IInv, TypeOK, InfUpdate, TakeNick, Receives, FreeTokens, Erase, Insert,
        CanValidate, entVars, indexVars, Ent, Blank, Live, GhostsLeave
<1>3. GhostsLeave'
    BY ConstantsAssumption
    DEF IInv, TypeOK, InfUpdate, TakeNick, Receives, FreeTokens, Erase, Insert,
        CanValidate, entVars, indexVars, Ent, GhostsLeave, Live, Blank
<1>4. FirstCid'
    BY ConstantsAssumption
    DEF IInv, TypeOK, InfUpdate, TakeNick, Receives, FreeTokens, Erase, Insert,
        CanValidate, entVars, indexVars, Ent, FirstCid, State, Blank, Live
<1>5. EntityList'
    BY ConstantsAssumption
    DEF IInv, TypeOK, InfUpdate, TakeNick, Receives, FreeTokens, Erase, Insert,
        CanValidate, entVars, indexVars, Ent, EntityList, EntitiesLive,
            SidLookup, Listed, Live, Blank, SidsDistinct, FirstCid
<1>6. SidsDistinct'
    BY ConstantsAssumption
    DEF IInv, TypeOK, InfUpdate, TakeNick, Receives, FreeTokens, Erase, Insert,
        CanValidate, entVars, indexVars, Ent, SidsDistinct, Live, Blank
<1>7. CidIndex'
    BY ConstantsAssumption
    DEF IInv, TypeOK, InfUpdate, TakeNick, Receives, FreeTokens, Erase, Insert,
        CanValidate, entVars, indexVars, Ent, CidIndex, Present, Live, Blank,
            FirstCid
<1>8. TokensValid'
    BY ConstantsAssumption
    DEF IInv, TypeOK, InfUpdate, TakeNick, Receives, FreeTokens, Erase, Insert,
        CanValidate, entVars, indexVars, Ent, TokensValid, Live, Blank,
            FirstCid, GhostsLeave
<1>9. LoginsWatched'
    BY ConstantsAssumption
    DEF IInv, TypeOK, InfUpdate, TakeNick, Receives, FreeTokens, Erase, Insert,
        CanValidate, entVars, indexVars, Ent, LoginsWatched, Present, Live,
            Blank
<1> QED BY <1>1, <1>2, <1>3, <1>4, <1>5, <1>6, <1>7, <1>8, <1>9 DEF IInv

\* An empty NI touches nothing that IInv speaks of.
LEMMA InfClearNickStep ==
    ASSUME IInv, NEW c \in Client, InfClearNick(c)
    PROVE  IInv'
<1>1. TypeOK'
    BY ConstantsAssumption
    DEF IInv, TypeOK, InfClearNick, Receives, entVars, indexVars, Ent, State
<1>2. Blank'
    BY ConstantsAssumption
    DEF IInv, TypeOK, InfClearNick, Receives, entVars, indexVars, Ent, Blank,
        Live, GhostsLeave
<1>3. GhostsLeave'
    BY ConstantsAssumption
    DEF IInv, TypeOK, InfClearNick, Receives, entVars, indexVars, Ent,
        GhostsLeave, Live, Blank
<1>4. FirstCid'
    BY ConstantsAssumption
    DEF IInv, TypeOK, InfClearNick, Receives, entVars, indexVars, Ent,
        FirstCid, State, Blank, Live
<1>5. EntityList'
    BY ConstantsAssumption
    DEF IInv, TypeOK, InfClearNick, Receives, entVars, indexVars, Ent,
        EntityList, EntitiesLive, SidLookup, Listed, Live, Blank,
            SidsDistinct, FirstCid
<1>6. SidsDistinct'
    BY ConstantsAssumption
    DEF IInv, TypeOK, InfClearNick, Receives, entVars, indexVars, Ent,
        SidsDistinct, Live, Blank
<1>7. CidIndex'
    BY ConstantsAssumption
    DEF IInv, TypeOK, InfClearNick, Receives, entVars, indexVars, Ent,
        CidIndex, Present, Live, Blank, FirstCid
<1>8. TokensValid'
    BY ConstantsAssumption
    DEF IInv, TypeOK, InfClearNick, Receives, entVars, indexVars, Ent,
        TokensValid, Live, Blank, FirstCid, GhostsLeave
<1>9. LoginsWatched'
    BY ConstantsAssumption
    DEF IInv, TypeOK, InfClearNick, Receives, entVars, indexVars, Ent,
        LoginsWatched, Present, Live, Blank
<1> QED BY <1>1, <1>2, <1>3, <1>4, <1>5, <1>6, <1>7, <1>8, <1>9 DEF IInv

\* Only fault changes.
LEMMA UseStaleTokenStep ==
    ASSUME IInv, NEW t \in Token, UseStaleToken(t)
    PROVE  IInv'
<1>1. TypeOK'
    BY ConstantsAssumption
    DEF IInv, TypeOK, UseStaleToken, entVars, indexVars, Ent, State
<1>2. Blank'
    BY ConstantsAssumption
    DEF IInv, TypeOK, UseStaleToken, entVars, indexVars, Ent, Blank, Live,
        GhostsLeave
<1>3. GhostsLeave'
    BY ConstantsAssumption
    DEF IInv, TypeOK, UseStaleToken, entVars, indexVars, Ent, GhostsLeave,
        Live, Blank
<1>4. FirstCid'
    BY ConstantsAssumption
    DEF IInv, TypeOK, UseStaleToken, entVars, indexVars, Ent, FirstCid,
        State, Blank, Live
<1>5. EntityList'
    BY ConstantsAssumption
    DEF IInv, TypeOK, UseStaleToken, entVars, indexVars, Ent, EntityList,
        EntitiesLive, SidLookup, Listed, Live, Blank, SidsDistinct, FirstCid
<1>6. SidsDistinct'
    BY ConstantsAssumption
    DEF IInv, TypeOK, UseStaleToken, entVars, indexVars, Ent, SidsDistinct,
        Live, Blank
<1>7. CidIndex'
    BY ConstantsAssumption
    DEF IInv, TypeOK, UseStaleToken, entVars, indexVars, Ent, CidIndex,
        Present, Live, Blank, FirstCid
<1>8. TokensValid'
    BY ConstantsAssumption
    DEF IInv, TypeOK, UseStaleToken, entVars, indexVars, Ent, TokensValid,
        Live, Blank, FirstCid, GhostsLeave
<1>9. LoginsWatched'
    BY ConstantsAssumption
    DEF IInv, TypeOK, UseStaleToken, entVars, indexVars, Ent, LoginsWatched,
        Present, Live, Blank
<1> QED BY <1>1, <1>2, <1>3, <1>4, <1>5, <1>6, <1>7, <1>8, <1>9 DEF IInv

\* A bot starts with a fresh SID and itself as its CID.
LEMMA CreateBotStep ==
    ASSUME IInv, WellBehaved, NEW b \in Bot, NEW s \in SID, CreateBot(b, s)
    PROVE  IInv'
<1>1. TypeOK'
    BY ConstantsAssumption
    DEF IInv, TypeOK, CreateBot, MakeSID, WellBehaved, entVars, indexVars,
        Ent, State
<1>2. Blank'
    BY ConstantsAssumption
    DEF IInv, TypeOK, CreateBot, MakeSID, WellBehaved, entVars, indexVars,
        Ent, Blank, Live, GhostsLeave
<1>3. GhostsLeave'
    BY ConstantsAssumption
    DEF IInv, TypeOK, CreateBot, MakeSID, WellBehaved, entVars, indexVars,
        Ent, GhostsLeave, Live, Blank
<1>4. FirstCid'
    BY ConstantsAssumption
    DEF IInv, TypeOK, CreateBot, MakeSID, WellBehaved, entVars, indexVars,
        Ent, FirstCid, State, Blank, Live
<1>5. EntityList'
    BY ConstantsAssumption
    DEF IInv, TypeOK, CreateBot, MakeSID, WellBehaved, entVars, indexVars,
        Ent, EntityList, EntitiesLive, SidLookup, Listed, Live, Blank,
            SidsDistinct, FirstCid
<1>6. SidsDistinct'
    BY ConstantsAssumption
    DEF IInv, TypeOK, CreateBot, MakeSID, WellBehaved, entVars, indexVars,
        Ent, SidsDistinct, Live, Blank
<1>7. CidIndex'
    BY ConstantsAssumption
    DEF IInv, TypeOK, CreateBot, MakeSID, WellBehaved, entVars, indexVars,
        Ent, CidIndex, Present, Live, Blank, FirstCid
<1>8. TokensValid'
    BY ConstantsAssumption
    DEF IInv, TypeOK, CreateBot, MakeSID, WellBehaved, entVars, indexVars,
        Ent, TokensValid, Live, Blank, FirstCid, GhostsLeave
<1>9. LoginsWatched'
    BY ConstantsAssumption
    DEF IInv, TypeOK, CreateBot, MakeSID, WellBehaved, entVars, indexVars,
        Ent, LoginsWatched, Present, Live, Blank
<1> QED BY <1>1, <1>2, <1>3, <1>4, <1>5, <1>6, <1>7, <1>8, <1>9 DEF IInv

----------------------------------------------------------------------------
(* Operators, and the actions built on them.                               *)

\* What InsertAll returns: an old entry, or a member of N under its own SID;
\* and every member of N whose SID was free finds its SID taken.
LEMMA InsertAllFacts ==
    ASSUME NEW ents \in [SID -> Ent \cup {None}], NEW N \in SUBSET Ent, TypeOK
    PROVE  /\ InsertAll(ents, N) \in [SID -> Ent \cup {None}]
           /\ \A s \in SID :
                \/ InsertAll(ents, N)[s] = ents[s]
                \/ /\ ents[s] = None
                   /\ InsertAll(ents, N)[s] \in N
                   /\ sid[InsertAll(ents, N)[s]] = s
           /\ \A s \in SID : ents[s] # None => InsertAll(ents, N)[s] = ents[s]
           /\ \A e \in N : sid[e] \in SID => InsertAll(ents, N)[sid[e]] # None
<1>1. ASSUME NEW s \in SID, \E e \in N : sid[e] = s
      PROVE  /\ (CHOOSE e \in N : sid[e] = s) \in N
             /\ sid[CHOOSE e \in N : sid[e] = s] = s
    BY <1>1
<1>2. InsertAll(ents, N) \in [SID -> Ent \cup {None}]
    BY <1>1 DEF InsertAll
<1>3. ASSUME NEW s \in SID
      PROVE  \/ InsertAll(ents, N)[s] = ents[s]
             \/ /\ ents[s] = None
                /\ InsertAll(ents, N)[s] \in N
                /\ sid[InsertAll(ents, N)[s]] = s
    BY <1>1 DEF InsertAll
<1>4. ASSUME NEW s \in SID, ents[s] # None
      PROVE  InsertAll(ents, N)[s] = ents[s]
    BY <1>4 DEF InsertAll
<1>5. ASSUME NEW e \in N, sid[e] \in SID
      PROVE  InsertAll(ents, N)[sid[e]] # None
    <2>1. CASE ents[sid[e]] # None
        BY <1>4, <1>5, <2>1
    <2>2. CASE ents[sid[e]] = None
        <3>1. InsertAll(ents, N)[sid[e]] \in N
            BY <1>1, <1>5, <2>2 DEF InsertAll
        <3> QED BY <3>1, ConstantsAssumption
    <2> QED BY <2>1, <2>2
<1> QED BY <1>2, <1>3, <1>4, <1>5

\* A handler that removes o and enlists N keeps the entity list exact.
LEMMA EnlistEntities ==
    ASSUME IInv, NEW o \in Ent \cup {None}, NEW N \in SUBSET Ent,
           o # None => Present(o),
           \A e \in N : Present(e) /\ state[e] # "NORMAL" /\ e # o,
           entities' = InsertAll(EntitiesWithout(o), N),
           \A e \in Ent : Listed(e)' <=> (Listed(e) /\ e # o) \/ e \in N,
           \A e \in Ent : Listed(e)' => sid'[e] = sid[e]
    PROVE  EntityList'
<1> DEFINE ents == EntitiesWithout(o)
<1>0. o = None \/ o \in Ent  OBVIOUS
<1>1. ents \in [SID -> Ent \cup {None}]
    BY DEF IInv, TypeOK, EntitiesWithout
<1>2. \A s \in SID : ents[s] =
        IF o # None /\ state[o] = "NORMAL" /\ sid[o] = s
        THEN None ELSE entities[s]
    BY DEF EntitiesWithout, QuitSids
<1>3. \A s \in SID : ents[s] # None =>
            /\ ents[s] = entities[s] /\ ents[s] \in Ent
            /\ Listed(ents[s]) /\ sid[ents[s]] = s /\ ents[s] # o
    BY <1>1, <1>2 DEF IInv, EntityList, EntitiesLive, Listed
<1>4. \A e \in Ent : Listed(e) /\ e # o => sid[e] \in SID /\ ents[sid[e]] = e
    <2> SUFFICES ASSUME NEW e \in Ent, Listed(e), e # o
                 PROVE  sid[e] \in SID /\ ents[sid[e]] = e
        OBVIOUS
    <2>1. sid[e] \in SID /\ entities[sid[e]] = e
        BY DEF IInv, Blank, Listed, EntityList, SidLookup
    <2>2. CASE o # None /\ state[o] = "NORMAL"
        <3>1. sid[o] # sid[e]
            BY <1>0, <2>2 DEF IInv, SidsDistinct, Present, Listed
        <3> QED BY <2>1, <3>1, <1>2
    <2>3. CASE ~(o # None /\ state[o] = "NORMAL")
        BY <2>1, <2>3, <1>2
    <2> QED BY <2>2, <2>3
<1>5. \A e \in N : sid[e] \in SID /\ ents[sid[e]] = None
    <2> SUFFICES ASSUME NEW e \in N, sid[e] \in SID, ents[sid[e]] # None
                 PROVE  FALSE
        BY DEF IInv, Blank, Present
    <2>1. ents[sid[e]] \in Ent /\ Listed(ents[sid[e]]) /\ sid[ents[sid[e]]] = sid[e]
        BY <1>3
    <2>2. Live(e) /\ state[e] # "NORMAL"
        BY DEF Present
    <2>3. ents[sid[e]] # e
        BY <2>1, <2>2 DEF Listed
    <2> QED BY <2>1, <2>2, <2>3 DEF IInv, SidsDistinct, Listed
<1>6. TypeOK BY DEF IInv
<1> HIDE DEF ents
<1>7. /\ \A s \in SID :
            \/ entities'[s] = ents[s]
            \/ /\ ents[s] = None /\ entities'[s] \in N
               /\ sid[entities'[s]] = s
      /\ \A s \in SID : ents[s] # None => entities'[s] = ents[s]
      /\ \A e \in N : sid[e] \in SID => entities'[sid[e]] # None
    <2>1. entities' = InsertAll(ents, N) BY DEF ents
    <2> QED BY <2>1, <1>1, <1>6, InsertAllFacts
<1>8. EntitiesLive'
    <2>1. ASSUME NEW s \in SID, entities'[s] # None
          PROVE  \E e \in Ent : e = entities'[s] /\ Listed(e)' /\ sid'[e] = s
        <3>1. CASE entities'[s] = ents[s]
            BY <1>3, <2>1, <3>1
        <3>2. CASE entities'[s] \in N /\ sid[entities'[s]] = s
            BY <3>2
        <3> QED BY <1>7, <3>1, <3>2
    <2> QED BY <2>1 DEF EntitiesLive, Listed, Live
<1>9. SidLookup'
    <2> SUFFICES ASSUME NEW e \in Ent, Listed(e)'
                 PROVE  entities'[sid[e]] = e
        BY DEF SidLookup
    <2>1. CASE e \notin N
        <3>1. sid[e] \in SID /\ ents[sid[e]] = e
            BY <1>4, <2>1
        <3> QED BY <3>1, <1>7, ConstantsAssumption
    <2>2. CASE e \in N
        <3>1. /\ entities'[sid[e]] \in N
              /\ sid[entities'[sid[e]]] = sid[e]
            BY <1>5, <1>7, <2>2
        <3> QED BY <3>1, <2>2 DEF IInv, SidsDistinct, Present
    <2> QED BY <2>1, <2>2
<1> QED BY <1>8, <1>9 DEF EntityList

\* TokensWithout only takes tokens away, and a client that has HBRI support
\* and is in R loses one if it has any.
LEMMA TokensWithoutFacts ==
    ASSUME NEW m \in [Token -> Client \cup {None}], NEW R \in SUBSET Ent,
           NEW m2 \in TokensWithout(m, R)
    PROVE  /\ m2 \in [Token -> Client \cup {None}]
           /\ \A t \in Token : m2[t] \in {None, m[t]}
           /\ \A t \in Token : m2[t] # None /\ m2[t] \in R \cap hbriSup =>
                \E u \in Token : u # t /\ m[u] = m2[t]
<1>1. PICK D \in OneOfEach(m, R \cap hbriSup) : m2 = Without(m, D)
    BY DEF TokensWithout
<1>2. /\ m2 \in [Token -> Client \cup {None}]
      /\ \A t \in Token : m2[t] = IF t \in D THEN None ELSE m[t]
    BY <1>1 DEF Without
<1>3. ASSUME NEW t \in Token, m2[t] # None, m2[t] \in R \cap hbriSup
      PROVE  \E u \in Token : u # t /\ m[u] = m2[t]
    <2>1. t \notin D /\ m2[t] = m[t] /\ t \in TokensOf(m, m2[t])
        BY <1>2, <1>3 DEF TokensOf
    <2>2. PICK u \in Token : D \cap TokensOf(m, m2[t]) = {u}
        BY <1>3, <2>1 DEF OneOfEach
    <2> QED BY <2>1, <2>2 DEF TokensOf
<1> QED BY <1>2, <1>3

\* Relist keeps the types.
LEMMA RelistTypes ==
    ASSUME IInv, NEW o \in Ent \cup {None}, NEW N \in SUBSET Ent,
           \A e \in N : Live(e),
           Relist(N, o)
    PROVE  /\ entities' \in [SID -> Ent \cup {None}]
           /\ view' \in [Client -> SUBSET SID]
<1>1. EntitiesWithout(o) \in [SID -> Ent \cup {None}]
    BY DEF IInv, TypeOK, EntitiesWithout
<1>2. entities' \in [SID -> Ent \cup {None}]
    BY <1>1, InsertAllFacts DEF IInv, Relist
<1>3. {sid[e] : e \in N} \subseteq SID
    BY DEF IInv, Blank
<1>4. view' \in [Client -> SUBSET SID]
    <2> DEFINE ents == EntitiesWithout(o)
    <2>1. Sids(ents) \subseteq SID  BY DEF Sids
    <2> QED BY <1>3, <2>1 DEF IInv, TypeOK, Relist, Announce
<1> QED BY <1>2, <1>4

\* Enlist as well; a token that survives it is an old one, and not the only one
\* of a client it removed from the logins.
LEMMA EnlistTypes ==
    ASSUME IInv, NEW o \in Ent \cup {None}, NEW N \in SUBSET Ent,
           \A e \in N : Live(e),
           NEW tokens \in [Token -> Client \cup {None}],
           Enlist(N, o, tokens)
    PROVE  /\ entities' \in [SID -> Ent \cup {None}]
           /\ view' \in [Client -> SUBSET SID]
           /\ logins' \in [Client -> Nat]
           /\ hbriTokens' \in [Token -> Client \cup {None}]
           /\ \A t \in Token : hbriTokens'[t] # None =>
                /\ hbriTokens'[t] = tokens[t]
                /\ hbriTokens'[t] \in PendingOf(o) \cap hbriSup =>
                     \E u \in Token : u # t /\ tokens[u] = hbriTokens'[t]
<1>1. logins' \in [Client -> Nat]
    BY DEF IInv, TypeOK, Enlist, LoginsWithout
<1>2. Relist(N, o)
    BY DEF Enlist
<1>3. /\ entities' \in [SID -> Ent \cup {None}]
      /\ view' \in [Client -> SUBSET SID]
    BY <1>2, RelistTypes
<1> DEFINE R == PendingOf(o) \cup N
<1>4. /\ R \in SUBSET Ent /\ PendingOf(o) \subseteq R
      /\ hbriTokens' \in TokensWithout(tokens, R)
    BY DEF PendingOf, Enlist
<1> HIDE DEF R
<1>5. /\ hbriTokens' \in [Token -> Client \cup {None}]
      /\ \A t \in Token : hbriTokens'[t] \in {None, tokens[t]}
      /\ \A t \in Token : hbriTokens'[t] # None
                          /\ hbriTokens'[t] \in R \cap hbriSup =>
            \E u \in Token : u # t /\ tokens[u] = hbriTokens'[t]
    BY <1>4, TokensWithoutFacts
<1> QED BY <1>1, <1>3, <1>4, <1>5

\* verifyINF hands the CID over: the present holder, if any, is another
\* client, and afterwards the index leads to c.
LEMMA VerifyCid ==
    ASSUME IInv, NEW c \in Client, NEW k \in CID, NEW n \in Nick \cup {None},
           Receives(c), state[c] = "IDENTIFY", VerifyINF(c, k, n)
    PROVE  /\ cids[k] \in Client \cup {None} /\ cids[k] # c
           /\ cids[k] # None => Present(cids[k])
           /\ Present(c)
           /\ cid' \in [Ent -> CID \cup Bot \cup {None}]
           /\ nick' \in [Ent -> Nick \cup {None}]
           /\ nicks' \in [Nick -> Ent \cup {None}]
           /\ cids' \in [CID \cup Bot -> Ent \cup {None}]
           /\ ghost' \subseteq Ent
           /\ cid'[c] = k
           /\ \A e \in Ent : e # c => cid'[e] = cid[e]
           /\ \A x \in CID \cup Bot : cids'[x] =
                IF x = k THEN c ELSE cids[x]
           /\ (\A e \in Ent : e # c => state'[e] = state[e]) => CidIndex'
<1>1. Present(c)
    BY DEF IInv, GhostsLeave, Present, Receives, Live, Ent
<1>2. cid[c] = None
    BY DEF IInv, FirstCid, Receives
<1>3. cids[k] # None => Present(cids[k]) /\ cid[cids[k]] = k
    BY DEF IInv, CidIndex
<1>4. cids[k] \in Client \cup {None} /\ cids[k] # c
    BY <1>2, <1>3, ConstantsAssumption DEF IInv, TypeOK, FirstCid, Ent
<1>5. \A x \in CID \cup Bot : cids'[x] = IF x = k THEN c ELSE cids[x]
    <2>1. CidsWithout(cids[k]) =
            [x \in CID \cup Bot |-> IF x = k THEN None ELSE cids[x]]
        <3>1. CASE cids[k] = None
            BY <3>1 DEF CidsWithout, IInv, TypeOK
        <3>2. CASE cids[k] # None
            BY <3>2, <1>3 DEF CidsWithout, Erase, IInv, TypeOK
        <3> QED BY <3>1, <3>2
    <2> QED BY <2>1 DEF VerifyINF, Insert
<1>6. cids' \in [CID \cup Bot -> Ent \cup {None}]
    <2>1. CidsWithout(cids[k]) \in [CID \cup Bot -> Ent \cup {None}]
        BY DEF IInv, TypeOK, CidsWithout, Erase
    <2> QED BY <2>1 DEF VerifyINF, Insert, Ent
<1>7. nicks' \in [Nick -> Ent \cup {None}]
    <2>1. NicksWithout(cids[k]) \in [Nick -> Ent \cup {None}]
        BY DEF IInv, TypeOK, NicksWithout, Erase
    <2> QED BY <2>1 DEF VerifyINF, Insert, Ent
<1>8. /\ cid' \in [Ent -> CID \cup Bot \cup {None}]
      /\ nick' \in [Ent -> Nick \cup {None}]
      /\ ghost' \subseteq Ent
      /\ cid'[c] = k
      /\ \A e \in Ent : e # c => cid'[e] = cid[e]
    BY <1>4 DEF IInv, TypeOK, VerifyINF, Ent
<1>9. ASSUME \A e \in Ent : e # c => state'[e] = state[e]
      PROVE  CidIndex'
    <2>1. /\ \A e \in Ent : Present(e)' <=> Present(e) /\ e # cids[k]
          /\ c \in Ent
        BY <1>4, ConstantsAssumption DEF VerifyINF, Present, Live, Ent
    <2>2. ASSUME NEW x \in CID \cup Bot, cids'[x] # None
          PROVE  \E e \in Ent : e = cids'[x] /\ Present(e)' /\ cid'[e] = x
        <3>1. CASE x = k
            BY <1>1, <1>4, <1>5, <1>8, <2>1, <3>1
        <3>2. CASE x # k
            <4>1. /\ cids'[x] = cids[x] /\ cids[x] \in Ent
                  /\ Present(cids[x]) /\ cid[cids[x]] = x
                BY <1>5, <2>2, <3>2 DEF IInv, TypeOK, CidIndex
            <4>2. cids[x] # c
                BY <1>2, <4>1, ConstantsAssumption DEF Ent
            <4>3. cids[x] # cids[k]
                BY <1>3, <2>2, <3>2, <4>1
            <4> QED BY <1>8, <2>1, <4>1, <4>2, <4>3
        <3> QED BY <3>1, <3>2
    <2>3. ASSUME NEW e \in Ent, Present(e)', cid'[e] # None,
                 e \in Bot => state'[e] = "NORMAL"
          PROVE  cids'[cid'[e]] = e
        <3>1. CASE e = c
            BY <1>5, <1>8, <3>1
        <3>2. CASE e # c
            <4>1. /\ Present(e) /\ e # cids[k] /\ cid'[e] = cid[e]
                  /\ e \in Bot => state[e] = "NORMAL"
                BY <1>8, <1>9, <2>1, <2>3, <3>2
            <4>2. cids[cid[e]] = e /\ cid[e] \in CID \cup Bot
                BY <2>3, <4>1 DEF IInv, TypeOK, CidIndex
            <4> QED BY <1>5, <4>1, <4>2
        <3> QED BY <3>1, <3>2
    <2> QED BY <2>2, <2>3 DEF CidIndex, Present, Live
<1> QED BY <1>1, <1>3, <1>4, <1>5, <1>6, <1>7, <1>8, <1>9

\* enterNormal, for a client on its way in and a handler that removed o.
LEMMA EnterNormalFacts ==
    ASSUME IInv, NEW c \in Client, NEW flagged \in BOOLEAN,
           NEW o \in Client \cup {None}, o # c, o # None => Present(o),
           Present(c), state[c] \in {"IDENTIFY", "VERIFY"},
           flagged /\ CanValidate(c) => TokensOf(hbriTokens, c) = {},
           EnterNormal(c, flagged, o),
           UNCHANGED <<life, sid, hbriSup>>,
           ghost' = ghost \cup ({o} \ {None})
    PROVE  /\ EntityList' /\ TokensValid'
           /\ entities' \in [SID -> Ent \cup {None}]
           /\ view' \in [Client -> SUBSET SID]
           /\ logins' \in [Client -> Nat]
           /\ hbriTokens' \in [Token -> Client \cup {None}]
           /\ state' \in [Ent -> State]
           /\ state'[c] \in {"HBRI", "NORMAL"}
           /\ \A e \in Ent : e # c => state'[e] = state[e]
           /\ validate' \subseteq validate \cup {c}
           /\ \A x \in Client : logins'[x] =
                IF x \in PendingOf(o) \/ (x = c /\ state'[c] = "NORMAL")
                THEN 0 ELSE logins[x]
<1>1. CASE flagged /\ CanValidate(c)
    <2>1. PICK t \in FreeTokens : Enlist({}, o, [hbriTokens EXCEPT ![t] = c])
        BY <1>1 DEF EnterNormal
    <2>2. /\ state' = [state EXCEPT ![c] = "HBRI"]
          /\ validate' = validate \cup {c}
          /\ c \in hbriSup
        BY <1>1 DEF EnterNormal, CanValidate
    <2> DEFINE tokens == [hbriTokens EXCEPT ![t] = c]
    <2>3. tokens \in [Token -> Client \cup {None}] /\ t \in Token
        BY DEF IInv, TypeOK, FreeTokens
    <2>4. /\ entities' \in [SID -> Ent \cup {None}]
          /\ view' \in [Client -> SUBSET SID]
          /\ logins' \in [Client -> Nat]
          /\ hbriTokens' \in [Token -> Client \cup {None}]
          /\ \A u \in Token : hbriTokens'[u] # None =>
                /\ hbriTokens'[u] = tokens[u]
                /\ hbriTokens'[u] \in PendingOf(o) \cap hbriSup =>
                     \E w \in Token : w # u /\ tokens[w] = hbriTokens'[u]
        <3>1. o \in Ent \cup {None}  BY DEF Ent
        <3> HIDE DEF tokens
        <3>2. Enlist({}, o, tokens) BY <2>1 DEF tokens
        <3> QED BY <2>3, <3>1, <3>2, EnlistTypes
    <2>5. EntityList'
        <3>1. o \in Ent \cup {None} /\ c \in Ent BY DEF Ent
        <3>2. \A e \in Ent : Listed(e)' <=> (Listed(e) /\ e # o) \/ e \in {}
            BY <2>2, <3>1, ConstantsAssumption DEF Listed, Live, IInv, TypeOK
        <3>3. \A e \in Ent : Listed(e)' => sid'[e] = sid[e]
            OBVIOUS
        <3>4. entities' = InsertAll(EntitiesWithout(o), {})
            BY <2>1 DEF Enlist, Relist
        <3> QED BY <3>1, <3>2, <3>3, <3>4, EnlistEntities
    <2>6. TokensValid'
        <3> SUFFICES ASSUME NEW u \in Token, NEW x \in Client, hbriTokens'[u] = x
                     PROVE  /\ life'[x] # "new"
                            /\ Live(x)' => state'[x] \in {"HBRI", "VERIFY", "NORMAL"}
                            /\ Live(x)' /\ state'[x] # "NORMAL" =>
                                 \A w \in Token : hbriTokens'[w] = x => w = u
                            /\ Live(x)' /\ state'[x] = "HBRI" =>
                                 x \in validate' \cap hbriSup' /\ x \notin ghost'
            BY DEF TokensValid, Live
        <3>1. /\ x # None /\ c # None /\ x \in Ent /\ c \in Ent
              /\ state' = [state EXCEPT ![c] = "HBRI"] /\ state \in [Ent -> State]
              /\ Live(x)' <=> Live(x)
            BY <2>2, ConstantsAssumption DEF Ent, IInv, TypeOK, Live
        <3>2. \A w \in Token : tokens[w] = IF w = t THEN c ELSE hbriTokens[w]
            BY <2>3 DEF IInv, TypeOK
        <3>3. \A w \in Token : hbriTokens[w] # c
            BY <1>1 DEF TokensOf
        <3>4. \A w \in Token : hbriTokens'[w] = x => tokens[w] = x
            BY <2>4, <3>1
        <3> HIDE DEF tokens
        <3>5. CASE x = c
            <4>1. \A w \in Token : hbriTokens'[w] = x => w = t
                BY <3>2, <3>3, <3>4, <3>5
            <4> QED BY <2>2, <3>1, <3>5, <4>1 DEF Present, Live
        <3>6. CASE x # c
            <4>1. hbriTokens[u] = x /\ state'[x] = state[x]
                BY <3>1, <3>2, <3>4, <3>6
            <4>2. /\ life[x] # "new"
                  /\ Live(x) => state[x] \in {"HBRI", "VERIFY", "NORMAL"}
                  /\ Live(x) /\ state[x] # "NORMAL" =>
                        \A w \in Token : hbriTokens[w] = x => w = u
                  /\ Live(x) /\ state[x] = "HBRI" =>
                        x \in validate \cap hbriSup /\ x \notin ghost
                BY <4>1 DEF IInv, TokensValid
            <4>3. \A w \in Token : hbriTokens'[w] = x => hbriTokens[w] = x
                BY <3>2, <3>4, <3>6
            <4>4. ASSUME Live(x), state[x] = "HBRI", x = o
                  PROVE  FALSE
                <5>1. x \in PendingOf(o) \cap hbriSup
                    BY <3>1, <4>2, <4>4 DEF PendingOf
                <5>2. PICK w \in Token : w # u /\ tokens[w] = x
                    BY <2>4, <3>1, <5>1
                <5> QED BY <3>2, <3>6, <4>2, <4>4, <5>2
            <4> QED BY <2>2, <3>1, <4>1, <4>2, <4>3, <4>4
        <3> QED BY <3>5, <3>6
    <2>7. state'[c] = "HBRI"
        BY <2>2 DEF IInv, TypeOK, Ent
    <2>8. \A x \in Client : logins'[x] = IF x \in PendingOf(o) THEN 0 ELSE logins[x]
        BY <2>1 DEF Enlist, LoginsWithout
    <2> QED BY <2>2, <2>4, <2>5, <2>6, <2>7, <2>8 DEF IInv, TypeOK, State, Ent
<1>2. CASE ~(flagged /\ CanValidate(c))
    <2>1. /\ Enlist({c}, o, hbriTokens)
          /\ state' = Normal({c})
          /\ validate' = validate \ {c}
        BY <1>2 DEF EnterNormal
    <2>2. o \in Ent \cup {None} /\ c \in Ent BY DEF Ent
    <2>3. /\ entities' \in [SID -> Ent \cup {None}]
          /\ view' \in [Client -> SUBSET SID]
          /\ logins' \in [Client -> Nat]
          /\ hbriTokens' \in [Token -> Client \cup {None}]
          /\ \A u \in Token : hbriTokens'[u] # None =>
                /\ hbriTokens'[u] = hbriTokens[u]
                /\ hbriTokens'[u] \in PendingOf(o) \cap hbriSup =>
                     \E w \in Token : w # u /\ hbriTokens[w] = hbriTokens'[u]
        <3>1. hbriTokens \in [Token -> Client \cup {None}]
            BY DEF IInv, TypeOK
        <3>2. \A e \in {c} : Live(e) BY DEF Present
        <3> QED BY <2>1, <2>2, <3>1, <3>2, EnlistTypes
    <2>4. EntityList'
        <3>1. \A e \in Ent : Listed(e)' <=> (Listed(e) /\ e # o) \/ e \in {c}
            BY <2>1, <2>2, ConstantsAssumption
            DEF Listed, Live, Present, Normal
        <3>2. \A e \in {c} : Present(e) /\ state[e] # "NORMAL" /\ e # o
            OBVIOUS
        <3>3. entities' = InsertAll(EntitiesWithout(o), {c})
            BY <2>1 DEF Enlist, Relist
        <3>4. \A e \in Ent : Listed(e)' => sid'[e] = sid[e]
            OBVIOUS
        <3>5. {c} \in SUBSET Ent BY <2>2
        <3> QED BY <2>2, <3>1, <3>2, <3>3, <3>4, <3>5, EnlistEntities
    <2>5. TokensValid'
        BY <2>1, <2>2, <2>3, ConstantsAssumption
        DEF IInv, TypeOK, TokensValid, Present, Live, PendingOf, Normal, Ent
    <2>6. \A x \in Client : logins'[x] =
                IF x \in PendingOf(o) \/ x = c THEN 0 ELSE logins[x]
        BY <2>1 DEF Enlist, LoginsWithout
    <2> QED BY <2>1, <2>2, <2>3, <2>4, <2>5, <2>6
    DEF IInv, TypeOK, State, Normal
<1> QED BY <1>1, <1>2

\* A handler that removes o and lets nobody in.
LEMMA RemoveFacts ==
    ASSUME IInv, NEW o \in Ent \cup {None}, o # None => Present(o),
           Enlist({}, o, hbriTokens),
           \A e \in Ent : Listed(e)' <=> Listed(e) /\ e # o,
           \A e \in Ent : Listed(e)' => sid'[e] = sid[e],
           \A c \in Client :
                /\ life'[c] = "new" => life[c] = "new"
                /\ Live(c)' /\ state[c] \in {"HBRI", "VERIFY", "NORMAL"} =>
                        state'[c] = state[c]
                /\ Live(c)' => Live(c)
                /\ Live(c)' /\ state[c] = "HBRI" =>
                    /\ c \in validate => c \in validate'
                    /\ c \in hbriSup => c \in hbriSup'
                    /\ c \notin ghost /\ c # o => c \notin ghost'
    PROVE  /\ EntityList' /\ TokensValid'
           /\ entities' \in [SID -> Ent \cup {None}]
           /\ view' \in [Client -> SUBSET SID]
           /\ logins' \in [Client -> Nat]
           /\ hbriTokens' \in [Token -> Client \cup {None}]
<1>1. /\ entities' \in [SID -> Ent \cup {None}]
      /\ view' \in [Client -> SUBSET SID]
      /\ logins' \in [Client -> Nat]
      /\ hbriTokens' \in [Token -> Client \cup {None}]
      /\ \A u \in Token : hbriTokens'[u] # None =>
            /\ hbriTokens'[u] = hbriTokens[u]
            /\ hbriTokens'[u] \in PendingOf(o) \cap hbriSup =>
                 \E w \in Token : w # u /\ hbriTokens[w] = hbriTokens'[u]
    <2>1. hbriTokens \in [Token -> Client \cup {None}]
        BY DEF IInv, TypeOK
    <2> DEFINE N == {}
               tokens == hbriTokens
    <2>2. /\ N \in SUBSET Ent /\ \A e \in N : Live(e)
          /\ Enlist(N, o, tokens) /\ tokens \in [Token -> Client \cup {None}]
        BY <2>1
    <2> HIDE DEF N, tokens
    <2>3. /\ entities' \in [SID -> Ent \cup {None}]
          /\ view' \in [Client -> SUBSET SID]
          /\ logins' \in [Client -> Nat]
          /\ hbriTokens' \in [Token -> Client \cup {None}]
          /\ \A u \in Token : hbriTokens'[u] # None =>
                /\ hbriTokens'[u] = tokens[u]
                /\ hbriTokens'[u] \in PendingOf(o) \cap hbriSup =>
                     \E w \in Token : w # u /\ tokens[w] = hbriTokens'[u]
        BY <2>2, EnlistTypes
    <2> QED BY <2>3 DEF tokens
<1>2. EntityList'
    <2>1. \A e \in Ent : Listed(e)' <=> (Listed(e) /\ e # o) \/ e \in {}
        OBVIOUS
    <2>2. entities' = InsertAll(EntitiesWithout(o), {})
        BY DEF Enlist, Relist
    <2> QED BY <2>1, <2>2, EnlistEntities
<1>3. TokensValid'
    <2> SUFFICES ASSUME NEW t \in Token, NEW c \in Client, hbriTokens'[t] = c
                 PROVE  /\ life'[c] # "new"
                        /\ Live(c)' => state'[c] \in {"HBRI", "VERIFY", "NORMAL"}
                        /\ Live(c)' /\ state'[c] # "NORMAL" =>
                             \A u \in Token : hbriTokens'[u] = c => u = t
                        /\ Live(c)' /\ state'[c] = "HBRI" =>
                             c \in validate' \cap hbriSup' /\ c \notin ghost'
        BY DEF TokensValid, Live
    <2>1. c # None  BY ConstantsAssumption DEF Ent
    <2>2. hbriTokens[t] = c
        BY <1>1, <2>1
    <2>3. /\ life[c] # "new"
          /\ Live(c) => state[c] \in {"HBRI", "VERIFY", "NORMAL"}
          /\ Live(c) /\ state[c] # "NORMAL" =>
               \A u \in Token : hbriTokens[u] = c => u = t
          /\ Live(c) /\ state[c] = "HBRI" =>
               c \in validate \cap hbriSup /\ c \notin ghost
        BY <2>2 DEF IInv, TokensValid
    <2>4. /\ life'[c] # "new"
          /\ Live(c)' => Live(c) /\ state'[c] = state[c]
        BY <2>3
    <2>5. \A u \in Token : hbriTokens'[u] = c => hbriTokens[u] = c
        BY <1>1, <2>1
    <2>6. ASSUME Live(c)', state'[c] = "HBRI"
          PROVE  c \in validate' \cap hbriSup' /\ c \notin ghost'
        <3>1. Live(c) /\ state[c] = "HBRI"  BY <2>4, <2>6
        <3>2. ASSUME c = o PROVE FALSE
            <4>1. c \in PendingOf(o) \cap hbriSup
                BY <2>1, <2>3, <3>1, <3>2 DEF PendingOf
            <4>2. PICK u \in Token : u # t /\ hbriTokens[u] = c
                BY <1>1, <2>1, <4>1
            <4> QED BY <2>3, <3>1, <4>2
        <3> QED BY <2>3, <2>6, <3>1, <3>2
    <2> QED BY <2>3, <2>4, <2>5, <2>6
<1> QED BY <1>1, <1>2, <1>3

\* A login's INF, with the takeover of its CID.
LEMMA InfLoginStep ==
    ASSUME IInv, NEW c \in Client, NEW k \in CID, NEW n \in Nick \cup {None},
           NEW secondary \in BOOLEAN, NEW bandwidth \in BOOLEAN,
           InfLogin(c, k, n, secondary, bandwidth)
    PROVE  IInv'
<1> DEFINE other == cids[k]
           D == IF bandwidth THEN {other} \ {None}
                ELSE {c} \cup ({other} \ {None})
<1>1. /\ Receives(c) /\ state[c] = "IDENTIFY" /\ VerifyINF(c, k, n)
    BY DEF InfLogin
<1>2. /\ other \in Client \cup {None} /\ other # c
      /\ other # None => Present(other)
      /\ Present(c)
      /\ cid' \in [Ent -> CID \cup Bot \cup {None}]
      /\ nick' \in [Ent -> Nick \cup {None}]
      /\ nicks' \in [Nick -> Ent \cup {None}]
      /\ cids' \in [CID \cup Bot -> Ent \cup {None}]
      /\ ghost' \subseteq Ent
      /\ cid'[c] = k
      /\ \A e \in Ent : e # c => cid'[e] = cid[e]
      /\ \A x \in CID \cup Bot : cids'[x] = IF x = k THEN c ELSE cids[x]
    BY <1>1, VerifyCid
<1>3. /\ UNCHANGED <<life, sid, hbriSup, clock, fault>>
      /\ ghost' = ghost \cup ({other} \ {None})
    BY <1>1 DEF VerifyINF
<1>4. /\ closing' = closing \cup D /\ failJob' = failJob \cup D
      /\ state'[c] \in {"IDENTIFY", "HBRI", "NORMAL"}
      /\ state'[c] = "IDENTIFY" => c \in closing'
      /\ \A e \in Ent : e # c => state'[e] = state[e]
      /\ state' \in [Ent -> State]
      /\ validate' \subseteq validate \cup {c}
      /\ EntityList' /\ TokensValid'
      /\ entities' \in [SID -> Ent \cup {None}]
      /\ view' \in [Client -> SUBSET SID]
      /\ logins' \in [Client -> Nat]
      /\ hbriTokens' \in [Token -> Client \cup {None}]
      /\ \A x \in Client : logins'[x] =
           IF x \in PendingOf(other) \/ (x = c /\ state'[c] = "NORMAL")
           THEN 0 ELSE logins[x]
    <2>1. CASE bandwidth
        <3>1. EnterNormal(c, secondary, other) /\ Disconnect(D)
            BY <2>1 DEF InfLogin
        <3>2. TokensOf(hbriTokens, c) = {}
            BY <1>1, <1>2 DEF IInv, TokensValid, TokensOf, Present
        <3> HIDE DEF other
        <3> QED BY <1>1, <1>2, <1>3, <2>1, <3>1, <3>2, EnterNormalFacts
        DEF Disconnect
    <2>2. CASE ~bandwidth
        <3>1. /\ Enlist({}, other, hbriTokens) /\ Disconnect(D)
              /\ validate' \in {validate, validate \cup {c}}
              /\ state' = state
            BY <2>2 DEF InfLogin
        <3>2. other \in Ent \cup {None} /\ c \in Ent  BY <1>2 DEF Ent
        <3>3. \A e \in Ent : Listed(e)' <=> Listed(e) /\ e # other
            BY <1>2, <1>3, <3>1, ConstantsAssumption DEF Listed, Live
        <3>4. \A x \in Client :
                /\ life'[x] = "new" => life[x] = "new"
                /\ Live(x)' /\ state[x] \in {"HBRI", "VERIFY", "NORMAL"} =>
                        state'[x] = state[x]
                /\ Live(x)' => Live(x)
                /\ Live(x)' /\ state[x] = "HBRI" =>
                    /\ x \in validate => x \in validate'
                    /\ x \in hbriSup => x \in hbriSup'
                    /\ x \notin ghost /\ x # other => x \notin ghost'
            BY <1>3, <3>1 DEF Live
        <3>5. \A e \in Ent : Listed(e)' => sid'[e] = sid[e]
            BY <1>3
        <3>6. /\ EntityList' /\ TokensValid'
              /\ entities' \in [SID -> Ent \cup {None}]
              /\ view' \in [Client -> SUBSET SID]
              /\ logins' \in [Client -> Nat]
              /\ hbriTokens' \in [Token -> Client \cup {None}]
            <4> HIDE DEF other
            <4> QED BY <1>2, <3>1, <3>2, <3>3, <3>4, <3>5, RemoveFacts
        <3>7. \A x \in Client : logins'[x] =
                    IF x \in PendingOf(other) THEN 0 ELSE logins[x]
            BY <3>1 DEF Enlist, LoginsWithout
        <3> QED BY <1>1, <2>2, <3>1, <3>2, <3>6, <3>7
        DEF Disconnect, IInv, TypeOK
    <2> QED BY <2>1, <2>2
<1>5. TypeOK'
    BY <1>2, <1>3, <1>4 DEF IInv, TypeOK, Ent
<1>6. Blank'
    BY <1>2, <1>3, <1>4
    DEF IInv, TypeOK, Blank, Live, Present, Ent, GhostsLeave
<1>7. GhostsLeave'
    BY <1>2, <1>3, <1>4 DEF IInv, TypeOK, Live, Present, Ent, GhostsLeave
<1>8. FirstCid'
    BY <1>2, <1>3, <1>4, ConstantsAssumption
    DEF IInv, TypeOK, FirstCid, Ent, Live
<1>9. SidsDistinct'
    BY <1>3 DEF IInv, SidsDistinct, Live
<1>10. CidIndex'
    BY <1>1, <1>4, VerifyCid
<1>11. LoginsWatched'
    <2> SUFFICES ASSUME NEW x \in Client
                 PROVE  /\ logins'[x] # 0 => Present(x)' /\ state'[x] # "NORMAL"
                        /\ Present(x)' /\ state'[x] # "NORMAL"
                            /\ logins'[x] = 0 => x \in failJob'
        BY DEF LoginsWatched, Present, Live
    <2>1. /\ logins[x] # 0 => Present(x) /\ state[x] # "NORMAL"
          /\ Present(x) /\ state[x] # "NORMAL" /\ logins[x] = 0 => x \in failJob
        BY DEF IInv, LoginsWatched
    <2>2. /\ Present(x)' <=> Present(x) /\ x # other
          /\ x \in Ent /\ x # None /\ failJob \subseteq failJob'
        BY <1>2, <1>3, <1>4, ConstantsAssumption DEF Present, Live, Ent
    <2>3. CASE x = other
        BY <1>2, <1>4, <2>1, <2>2, <2>3 DEF PendingOf
    <2>4. CASE x # other /\ x # c
        BY <1>4, <2>1, <2>2, <2>4 DEF PendingOf
    <2>5. CASE x # other /\ x = c
        BY <1>1, <1>2, <1>4, <2>1, <2>2, <2>5 DEF PendingOf
    <2> QED BY <2>3, <2>4, <2>5
<1> QED BY <1>4, <1>5, <1>6, <1>7, <1>8, <1>9, <1>10, <1>11 DEF IInv

\* The same INF when a script asks for a password.
LEMMA InfVerifyStep ==
    ASSUME IInv, NEW c \in Client, NEW k \in CID, NEW n \in Nick \cup {None},
           NEW secondary \in BOOLEAN, InfVerify(c, k, n, secondary)
    PROVE  IInv'
<1> DEFINE other == cids[k]
<1>1. /\ Receives(c) /\ state[c] = "IDENTIFY" /\ VerifyINF(c, k, n)
      /\ Disconnect({other} \ {None}) /\ Enlist({}, other, hbriTokens)
      /\ validate' \in {validate, validate \cup {c}}
      /\ state' = [state EXCEPT ![c] = "VERIFY"]
    BY DEF InfVerify
<1>2. /\ other \in Client \cup {None} /\ other # c
      /\ other # None => Present(other)
      /\ Present(c)
      /\ cid' \in [Ent -> CID \cup Bot \cup {None}]
      /\ nick' \in [Ent -> Nick \cup {None}]
      /\ nicks' \in [Nick -> Ent \cup {None}]
      /\ cids' \in [CID \cup Bot -> Ent \cup {None}]
      /\ ghost' \subseteq Ent
      /\ cid'[c] = k
      /\ \A e \in Ent : e # c => cid'[e] = cid[e]
    BY <1>1, VerifyCid
<1>3. /\ UNCHANGED <<life, sid, hbriSup, clock, fault>>
      /\ ghost' = ghost \cup ({other} \ {None})
      /\ other \in Ent \cup {None} /\ c \in Ent
    BY <1>1, <1>2 DEF VerifyINF, Ent
<1>4. /\ state' \in [Ent -> State] /\ state'[c] = "VERIFY"
      /\ \A e \in Ent : e # c => state'[e] = state[e]
    BY <1>1, <1>3 DEF IInv, TypeOK, State
<1>5. /\ EntityList' /\ TokensValid'
      /\ entities' \in [SID -> Ent \cup {None}]
      /\ view' \in [Client -> SUBSET SID]
      /\ logins' \in [Client -> Nat]
      /\ hbriTokens' \in [Token -> Client \cup {None}]
    <2>1. \A e \in Ent : Listed(e)' <=> Listed(e) /\ e # other
        BY <1>1, <1>2, <1>3, <1>4, ConstantsAssumption DEF Listed, Live
    <2>2. \A x \in Client :
            /\ life'[x] = "new" => life[x] = "new"
            /\ Live(x)' /\ state[x] \in {"HBRI", "VERIFY", "NORMAL"} =>
                    state'[x] = state[x]
            /\ Live(x)' => Live(x)
            /\ Live(x)' /\ state[x] = "HBRI" =>
                /\ x \in validate => x \in validate'
                /\ x \in hbriSup => x \in hbriSup'
                /\ x \notin ghost /\ x # other => x \notin ghost'
        BY <1>1, <1>3, <1>4 DEF Live, Ent
    <2>3. \A e \in Ent : Listed(e)' => sid'[e] = sid[e]
        BY <1>3
    <2> HIDE DEF other
    <2> QED BY <1>1, <1>2, <1>3, <2>1, <2>2, <2>3, RemoveFacts
<1>6. TypeOK'
    BY <1>1, <1>2, <1>3, <1>4, <1>5 DEF IInv, TypeOK, Disconnect
<1>7. Blank'
    BY <1>1, <1>2, <1>3, <1>4
    DEF IInv, TypeOK, Blank, Live, Present, Disconnect
<1>8. GhostsLeave'
    BY <1>1, <1>2, <1>3 DEF IInv, Live, Present, GhostsLeave, Disconnect
<1>9. FirstCid'
    BY <1>1, <1>2, <1>3, <1>4, ConstantsAssumption
    DEF IInv, TypeOK, FirstCid, Ent, Disconnect, Live
<1>10. SidsDistinct'
    BY <1>3 DEF IInv, SidsDistinct, Live
<1>11. CidIndex'
    BY <1>1, <1>4, VerifyCid
<1>12. LoginsWatched'
    <2>1. \A x \in Client : logins'[x] =
                IF x \in PendingOf(other) THEN 0 ELSE logins[x]
        BY <1>1 DEF Enlist, LoginsWithout
    <2> QED BY <1>1, <1>2, <1>3, <1>4, <2>1, ConstantsAssumption
            DEF IInv, LoginsWatched, Present, Live, PendingOf, Disconnect, Ent
<1> QED BY <1>5, <1>6, <1>7, <1>8, <1>9, <1>10, <1>11, <1>12 DEF IInv

\* Such an INF without a CID: the state goes (back) to VERIFY, a token stays.
LEMMA InfVerifyNoCidStep ==
    ASSUME IInv, NEW c \in Client, NEW n \in Nick, NEW secondary \in BOOLEAN,
           InfVerifyNoCid(c, n, secondary)
    PROVE  IInv'
<1>1. /\ Receives(c) /\ state[c] \in {"PROTOCOL", "HBRI", "VERIFY"} /\ TakeNick(c, n)
      /\ validate' \in {validate, validate \cup {c}}
      /\ state' = [state EXCEPT ![c] = "VERIFY"]
      /\ UNCHANGED <<life, sid, cid, ghost, hbriSup, closing, failJob, entities,
                     cids, hbriTokens, logins, clock, view, fault>>
      /\ c \in Ent
    BY DEF InfVerifyNoCid, Ent
<1>2. /\ state' \in [Ent -> State]
      /\ \A e \in Ent : state'[e] = IF e = c THEN "VERIFY" ELSE state[e]
    BY <1>1 DEF IInv, TypeOK, State
<1>3. TypeOK'
    BY <1>1, <1>2 DEF IInv, TypeOK, TakeNick, Insert, Erase
<1>4. Blank' /\ GhostsLeave' /\ SidsDistinct'
    BY <1>1, <1>2
    DEF IInv, Blank, GhostsLeave, SidsDistinct, Live, Receives
<1>5. FirstCid'
    BY <1>1, <1>2, ConstantsAssumption DEF IInv, FirstCid, Live, Ent
<1>6. EntityList'
    BY <1>1, <1>2, ConstantsAssumption
    DEF IInv, TypeOK, EntityList, EntitiesLive, SidLookup, Listed, Live
<1>7. CidIndex'
    BY <1>1, <1>2, ConstantsAssumption DEF IInv, CidIndex, Present, Live, Ent
<1>8. TokensValid'
    BY <1>1, <1>2, ConstantsAssumption DEF IInv, TokensValid, Live, Ent
<1>9. LoginsWatched'
    BY <1>1, <1>2 DEF IInv, LoginsWatched, Present, Live, Ent
<1> QED BY <1>3, <1>4, <1>5, <1>6, <1>7, <1>8, <1>9 DEF IInv

\* The token of a client in VERIFY: its flag goes, the token does not.
LEMMA TcpBadStateStep ==
    ASSUME IInv, NEW c \in Client, NEW t \in Token, TcpBadState(c, t)
    PROVE  IInv'
<1>1. /\ Receives(c) /\ Suspended(t)
      /\ validate' = validate \ {hbriTokens[t]}
      /\ closing' = closing \cup {c} /\ failJob' = failJob \cup {c}
      /\ UNCHANGED <<life, sid, state, cid, nick, ghost, hbriSup, indexVars,
                     clock, view, fault>>
      /\ c \in Ent
    BY DEF TcpBadState, Disconnect, Ent
<1>2. TypeOK' /\ Blank' /\ GhostsLeave' /\ FirstCid' /\ SidsDistinct'
    BY <1>1 DEF IInv, TypeOK, Blank, GhostsLeave, FirstCid, SidsDistinct,
                Receives, Live, indexVars
<1>3. EntityList' /\ CidIndex'
    BY <1>1 DEF IInv, EntityList, EntitiesLive, SidLookup, Listed, Live,
                CidIndex, Present, indexVars
<1>4. TokensValid'
    BY <1>1, ConstantsAssumption
    DEF IInv, TokensValid, Live, Suspended, indexVars, Ent
<1>5. LoginsWatched'
    BY <1>1 DEF IInv, LoginsWatched, Present, Live, indexVars
<1> QED BY <1>2, <1>3, <1>4, <1>5 DEF IInv

\* A password let through: the rest of enterNormal.
LEMMA PasStep ==
    ASSUME IInv, WellBehaved, NEW c \in Client, Pas(c)
    PROVE  IInv'
<1>1. /\ Receives(c) /\ state[c] = "VERIFY"
      /\ EnterNormal(c, c \in validate, None)
      /\ UNCHANGED <<life, sid, cid, nick, ghost, hbriSup, closing, failJob,
                     nicks, cids, clock, fault>>
    BY DEF Pas
<1>2. Present(c) /\ c \in Ent
    BY <1>1 DEF IInv, GhostsLeave, Present, Receives, Live, Ent
<1>3. /\ EntityList' /\ TokensValid'
      /\ entities' \in [SID -> Ent \cup {None}]
      /\ view' \in [Client -> SUBSET SID]
      /\ logins' \in [Client -> Nat]
      /\ hbriTokens' \in [Token -> Client \cup {None}]
      /\ state' \in [Ent -> State]
      /\ state'[c] \in {"HBRI", "NORMAL"}
      /\ \A e \in Ent : e # c => state'[e] = state[e]
      /\ validate' \subseteq validate \cup {c}
      /\ \A x \in Client : logins'[x] =
            IF x \in PendingOf(None) \/ (x = c /\ state'[c] = "NORMAL")
            THEN 0 ELSE logins[x]
    <2> DEFINE flagged == c \in validate
    <2>1. None \in Client \cup {None} /\ None # c /\ flagged \in BOOLEAN
        BY ConstantsAssumption DEF Ent
    <2>2. ghost' = ghost \cup ({None} \ {None})
        BY <1>1
    <2>3. EnterNormal(c, flagged, None)
        BY <1>1
    <2>4. flagged /\ CanValidate(c) => TokensOf(hbriTokens, c) = {}
        BY DEF Pas, WellBehaved
    <2> HIDE DEF flagged
    <2> QED BY <1>1, <1>2, <2>1, <2>2, <2>3, <2>4, EnterNormalFacts
<1>4. TypeOK' /\ Blank' /\ GhostsLeave' /\ SidsDistinct'
    BY <1>1, <1>2, <1>3
    DEF IInv, TypeOK, Blank, Live, Present, GhostsLeave, SidsDistinct
<1>5. FirstCid'
    BY <1>1, <1>2, <1>3, ConstantsAssumption DEF IInv, FirstCid, Ent, Live
<1>6. CidIndex'
    BY <1>1, <1>2, <1>3, ConstantsAssumption
    DEF IInv, CidIndex, Present, Live, Ent
<1>7. LoginsWatched'
    BY <1>1, <1>2, <1>3, ConstantsAssumption
    DEF IInv, LoginsWatched, Present, Live, PendingOf, Ent
<1> QED BY <1>3, <1>4, <1>5, <1>6, <1>7 DEF IInv

\* failHBRI or a validation lets the clients N out of HBRI into NORMAL.
LEMMA AdmitFacts ==
    ASSUME IInv, NEW N \in SUBSET Client,
           \A c \in N : Present(c) /\ state[c] = "HBRI",
           hbriTokens' \in [Token -> Client \cup {None}],
           \A t \in Token : hbriTokens'[t] \in {None, hbriTokens[t]},
           Relist(N, None), state' = Normal(N),
           NEW R \in SUBSET Client, logins' = LoginsWithout(R),
           UNCHANGED <<life, sid, ghost, hbriSup, cid, cids>>,
           \A c \in validate \ N : state[c] = "HBRI" =>
                c \in validate' \/ \A t \in Token : hbriTokens'[t] # c
    PROVE  /\ EntityList' /\ TokensValid' /\ CidIndex' /\ SidsDistinct'
           /\ entities' \in [SID -> Ent \cup {None}]
           /\ view' \in [Client -> SUBSET SID]
           /\ logins' \in [Client -> Nat]
           /\ state' \in [Ent -> State]
           /\ \A e \in Ent : state'[e] = IF e \in N THEN "NORMAL" ELSE state[e]
<1>0. logins' \in [Client -> Nat]
    BY DEF IInv, TypeOK, LoginsWithout
<1>1. /\ entities' \in [SID -> Ent \cup {None}]
      /\ view' \in [Client -> SUBSET SID]
    <2>1. N \in SUBSET Ent /\ \A e \in N : Live(e)
        BY DEF Ent, Present
    <2> QED BY <2>1, RelistTypes
<1>2. /\ state' \in [Ent -> State]
      /\ \A e \in Ent : state'[e] = IF e \in N THEN "NORMAL" ELSE state[e]
    BY DEF IInv, TypeOK, Normal, State
<1>3. EntityList'
    <2>1. \A e \in N : Present(e) /\ state[e] # "NORMAL" /\ e # None
        BY ConstantsAssumption DEF Ent
    <2>2. \A e \in Ent : Listed(e)' <=> (Listed(e) /\ e # None) \/ e \in N
        BY <1>2, <2>1, ConstantsAssumption DEF Listed, Live, Present
    <2>3. entities' = InsertAll(EntitiesWithout(None), N)
        BY DEF Enlist, Relist
    <2>4. N \in SUBSET Ent
        BY DEF Ent
    <2>5. \A e \in Ent : Listed(e)' => sid'[e] = sid[e]
        OBVIOUS
    <2> QED BY <2>1, <2>2, <2>3, <2>4, <2>5, EnlistEntities
<1>4. TokensValid'
    <2> SUFFICES ASSUME NEW t \in Token, NEW c \in Client, hbriTokens'[t] = c
                 PROVE  /\ life'[c] # "new"
                        /\ Live(c)' => state'[c] \in {"HBRI", "VERIFY", "NORMAL"}
                        /\ Live(c)' /\ state'[c] # "NORMAL" =>
                             \A u \in Token : hbriTokens'[u] = c => u = t
                        /\ Live(c)' /\ state'[c] = "HBRI" =>
                             c \in validate' \cap hbriSup' /\ c \notin ghost'
        BY DEF TokensValid, Live
    <2>1. c # None /\ c \in Ent  BY ConstantsAssumption DEF Ent
    <2>2. hbriTokens[t] = c
        BY <2>1
    <2>3. /\ life[c] # "new"
          /\ Live(c) => state[c] \in {"HBRI", "VERIFY", "NORMAL"}
          /\ Live(c) /\ state[c] # "NORMAL" =>
               \A u \in Token : hbriTokens[u] = c => u = t
          /\ Live(c) /\ state[c] = "HBRI" =>
               c \in validate \cap hbriSup /\ c \notin ghost
        BY <2>2 DEF IInv, TokensValid
    <2>4. Live(c)' <=> Live(c)  BY DEF Live
    <2>5. \A u \in Token : hbriTokens'[u] = c => hbriTokens[u] = c
        BY <2>1
    <2>6. ASSUME Live(c), state'[c] = "HBRI"
          PROVE  c \in validate' \cap hbriSup' /\ c \notin ghost'
        <3>1. state[c] = "HBRI" /\ c \notin N  BY <1>2, <2>1, <2>6
        <3> QED BY <2>3, <2>6, <3>1
    <2>7. state'[c] = "NORMAL" \/ state'[c] = state[c]
        BY <1>2, <2>1
    <2> QED BY <2>3, <2>4, <2>5, <2>6, <2>7
<1>5. CidIndex'
    BY <1>2, ConstantsAssumption DEF IInv, CidIndex, Present, Live, Ent
<1>6. SidsDistinct'
    BY DEF IInv, SidsDistinct, Live
<1> QED BY <1>0, <1>1, <1>2, <1>3, <1>4, <1>5, <1>6

\* Where a handler only lets clients in and disconnects some.
LEMMA AdmitStep ==
    ASSUME IInv, NEW N \in SUBSET Client, NEW D \in SUBSET Client,
           \A c \in N : Present(c) /\ state[c] = "HBRI",
           \A c \in D : Live(c),
           hbriTokens' \in [Token -> Client \cup {None}],
           \A t \in Token : hbriTokens'[t] \in {None, hbriTokens[t]},
           NEW R \in SUBSET Client, R \ N \subseteq D,
           logins' = LoginsWithout(N \cup R),
           Relist(N, None) \/
                /\ EntityList' /\ TokensValid'
                /\ entities' \in [SID -> Ent \cup {None}]
                /\ view' \in [Client -> SUBSET SID],
           state' = Normal(N), Disconnect(D),
           UNCHANGED <<life, sid, cid, nick, ghost, hbriSup, nicks, cids,
                       clock, fault>>,
           validate' \subseteq validate,
           \A c \in validate \ N : state[c] = "HBRI" =>
                c \in validate' \/ \A t \in Token : hbriTokens'[t] # c
    PROVE  IInv'
<1>1. /\ state' \in [Ent -> State]
      /\ \A e \in Ent : state'[e] = IF e \in N THEN "NORMAL" ELSE state[e]
    BY DEF IInv, TypeOK, Normal, State
<1>2. /\ EntityList' /\ TokensValid'
      /\ entities' \in [SID -> Ent \cup {None}]
      /\ view' \in [Client -> SUBSET SID]
      /\ logins' \in [Client -> Nat]
      /\ hbriTokens' \in [Token -> Client \cup {None}]
    <2> DEFINE M == N \cup R
    <2>0. /\ logins' \in [Client -> Nat] /\ M \in SUBSET Client
          /\ logins' = LoginsWithout(M)
        BY DEF IInv, TypeOK, LoginsWithout
    <2> HIDE DEF M
    <2>1. CASE Relist(N, None)
        <3>1. UNCHANGED <<life, sid, ghost, hbriSup, cid, cids>>
            OBVIOUS
        <3>2. /\ EntityList' /\ TokensValid'
              /\ entities' \in [SID -> Ent \cup {None}]
              /\ view' \in [Client -> SUBSET SID]
            BY <2>0, <2>1, <3>1, AdmitFacts, SMTT(30)
        <3> QED BY <2>0, <3>2
    <2>2. CASE ~Relist(N, None)
        BY <2>0, <2>2
    <2> QED BY <2>1, <2>2
<1>3. TypeOK'
    BY <1>1, <1>2 DEF IInv, TypeOK, Disconnect, Ent
<1>4. Blank' /\ GhostsLeave' /\ SidsDistinct'
    BY <1>1 DEF IInv, Blank, GhostsLeave, SidsDistinct, Live, Present,
                Disconnect, Ent
<1>5. FirstCid'
    BY <1>1, ConstantsAssumption DEF IInv, FirstCid, Disconnect, Ent, Live
<1>6. CidIndex'
    BY <1>1, ConstantsAssumption DEF IInv, CidIndex, Present, Live, Ent
<1>7. LoginsWatched'
    <2>1. \A c \in Client : logins'[c] = IF c \in N \cup R THEN 0 ELSE logins[c]
        BY DEF LoginsWithout
    <2> QED BY <1>1, <2>1
    DEF IInv, LoginsWatched, Present, Live, Disconnect, Ent
<1> QED BY <1>2, <1>3, <1>4, <1>5, <1>6, <1>7 DEF IInv

\* What erasing one token leaves.
LEMMA EraseToken ==
    ASSUME IInv, NEW t \in Token
    PROVE  /\ Erase(hbriTokens, t) \in [Token -> Client \cup {None}]
           /\ \A u \in Token : Erase(hbriTokens, t)[u] =
                    IF u = t THEN None ELSE hbriTokens[u]
BY DEF IInv, TypeOK, Erase

\* Enlist without a removal is Relist with no late login, and adds no token.
LEMMA EnlistNobodyGone ==
    ASSUME NEW N \in SUBSET Client, NEW tokens \in [Token -> Client \cup {None}],
           \A t \in Token : tokens[t] \in {None, hbriTokens[t]},
           Enlist(N, None, tokens)
    PROVE  /\ Relist(N, None) /\ logins' = LoginsWithout(N \cup {})
           /\ hbriTokens' \in [Token -> Client \cup {None}]
           /\ \A t \in Token : hbriTokens'[t] \in {None, tokens[t]}
           /\ \A t \in Token : hbriTokens'[t] \in {None, hbriTokens[t]}
<1>1. PendingOf(None) \cup N = N \cup {} /\ PendingOf(None) \cup N = N
    BY DEF PendingOf
<1>2. hbriTokens' \in TokensWithout(tokens, N) /\ N \in SUBSET Ent
    BY <1>1 DEF Enlist, Ent
<1>3. /\ hbriTokens' \in [Token -> Client \cup {None}]
      /\ \A t \in Token : hbriTokens'[t] \in {None, tokens[t]}
    BY <1>2, TokensWithoutFacts
<1> QED BY <1>1, <1>3 DEF Enlist

\* The validating connection itself may be let in by failHBRI.
LEMMA TcpWrongProtocolStep ==
    ASSUME IInv, NEW c \in Client, NEW t \in Token, TcpWrongProtocol(c, t)
    PROVE  IInv'
<1> DEFINE N == {c} \cap {x \in Client : state[x] = "HBRI"}
           tokens == Erase(hbriTokens, t)
<1>1. /\ Receives(c) /\ Disconnect({c}) /\ hbriTokens[t] # None
      /\ life[hbriTokens[t]] # "deleted"
      /\ UNCHANGED <<life, sid, cid, nick, ghost, hbriSup, nicks, cids, clock,
                     fault>>
      /\ validate' = validate \ {hbriTokens[t], c}
      /\ Enlist(N, None, tokens) /\ state' = Normal(N)
    BY DEF TcpWrongProtocol, Tcp, Validating
<1>2. Present(c)
    BY <1>1 DEF IInv, GhostsLeave, Present, Receives, Live
<1>3. /\ tokens \in [Token -> Client \cup {None}]
      /\ \A u \in Token : tokens[u] = IF u = t THEN None ELSE hbriTokens[u]
    BY EraseToken
<1>4. /\ N \in SUBSET Client /\ {c} \in SUBSET Client
      /\ \A x \in N : Present(x) /\ state[x] = "HBRI"
      /\ \A x \in {c} : Live(x)
      /\ N = {c} \/ state[c] # "HBRI"
    BY <1>2 DEF Present
<1>10. /\ Relist(N, None) /\ logins' = LoginsWithout(N \cup {})
       /\ hbriTokens' \in [Token -> Client \cup {None}]
       /\ \A u \in Token : hbriTokens'[u] \in {None, tokens[u]}
       /\ \A u \in Token : hbriTokens'[u] \in {None, hbriTokens[u]}
    <2>1. \A u \in Token : tokens[u] \in {None, hbriTokens[u]}
        BY <1>3
    <2> HIDE DEF N, tokens
    <2> QED BY <1>1, <1>3, <1>4, <2>1, EnlistNobodyGone
<1>5. ASSUME NEW x \in validate \ N, state[x] = "HBRI"
      PROVE  x \in validate' \/ \A u \in Token : hbriTokens'[u] # x
    <2>1. x # c /\ (x \notin validate' => x = hbriTokens[t])
        BY <1>1, <1>4, <1>5
    <2>2. ASSUME x = hbriTokens[t], NEW u \in Token, hbriTokens'[u] = x
          PROVE  FALSE
        <3>1. u # t /\ hbriTokens[u] = x  BY <1>1, <1>3, <1>10, <2>2
        <3>2. x \in Client /\ Live(x)
            BY <1>1, <1>5, <2>2 DEF IInv, TypeOK, Blank, Ent
        <3> QED BY <1>5, <2>2, <3>1, <3>2 DEF IInv, TokensValid
    <2> QED BY <2>1, <2>2
<1>6. validate' \subseteq validate
    BY <1>1
<1>8. {} \in SUBSET Client /\ {} \ N \subseteq {c}
    OBVIOUS
<1> HIDE DEF N, tokens
<1> QED BY <1>1, <1>4, <1>5, <1>6, <1>8, <1>10, AdmitStep

\* The main connection is let in unvalidated.
LEMMA TcpBadIpStep ==
    ASSUME IInv, NEW c \in Client, NEW t \in Token, TcpBadIp(c, t)
    PROVE  IInv'
<1> DEFINE N == {hbriTokens[t]} \cap {x \in Client : state[x] = "HBRI"}
           tokens == Erase(hbriTokens, t)
<1>1. /\ Receives(c) /\ Disconnect({c}) /\ hbriTokens[t] \in Client
      /\ UNCHANGED <<life, sid, cid, nick, ghost, hbriSup, nicks, cids, clock,
                     fault>>
      /\ validate' = validate \ {hbriTokens[t]}
      /\ Enlist(N, None, tokens) /\ state' = Normal(N)
      /\ life[hbriTokens[t]] # "deleted"
    BY DEF TcpBadIp, Tcp, Validating, IInv, TypeOK
<1>2. /\ tokens \in [Token -> Client \cup {None}]
      /\ \A u \in Token : tokens[u] \in {None, hbriTokens[u]}
    BY EraseToken
<1>3. /\ N \in SUBSET Client /\ {c} \in SUBSET Client
      /\ \A x \in N : Present(x) /\ state[x] = "HBRI"
      /\ \A x \in {c} : Live(x)
    BY <1>1 DEF Present, IInv, TokensValid, Blank, Live, Receives, Ent
<1>4. \A x \in validate \ N : state[x] = "HBRI" => x \in validate'
    BY <1>1
<1>5. validate' \subseteq validate  BY <1>1
<1> HIDE DEF N, tokens
<1>7. /\ Relist(N, None) /\ logins' = LoginsWithout(N \cup {})
      /\ hbriTokens' \in [Token -> Client \cup {None}]
      /\ \A u \in Token : hbriTokens'[u] \in {None, hbriTokens[u]}
    BY <1>1, <1>2, <1>3, EnlistNobodyGone
<1>8. {} \in SUBSET Client /\ {} \ N \subseteq {c}
    OBVIOUS
<1> QED BY <1>1, <1>3, <1>4, <1>5, <1>7, <1>8, AdmitStep

\* A login goes on, or a user's INF is sent out.
LEMMA TcpValidatedStep ==
    ASSUME IInv, NEW c \in Client, NEW t \in Token, TcpValidated(c, t)
    PROVE  IInv'
<1> DEFINE m == hbriTokens[t]
           tokens == Erase(hbriTokens, t)
<1>1. /\ Receives(c) /\ Disconnect({c}) /\ m \in Client
      /\ UNCHANGED <<life, sid, cid, nick, ghost, hbriSup, nicks, cids, clock,
                     fault>>
      /\ validate' = validate \ {m}
      /\ state' = Normal({m})
      /\ IF state[m] = "HBRI"
         THEN Enlist({m}, None, tokens)
         ELSE /\ view' = [x \in Client |->
                             IF \E s \in SID : entities[s] = x
                             THEN view[x] \cup {sid[m]} ELSE view[x]]
              /\ hbriTokens' = tokens
              /\ UNCHANGED <<entities, logins>>
    BY DEF TcpValidated, Tcp, Validating, IInv, TypeOK
<1>2. /\ tokens \in [Token -> Client \cup {None}]
      /\ \A u \in Token : tokens[u] \in {None, hbriTokens[u]}
    BY EraseToken
<1>3. /\ Live(m) /\ state[m] \in {"HBRI", "NORMAL"}
      /\ state[m] = "HBRI" => Present(m)
      /\ Live(c)
    BY <1>1 DEF TcpValidated, Tcp, Validating, Present, IInv, TypeOK,
                TokensValid, Blank, Live, Receives, Ent
<1>4. /\ validate' \subseteq validate
      /\ \A x \in validate \ {m} : x \in validate'
    BY <1>1
<1>5. CASE state[m] = "HBRI"
    <2>1. {m} \in SUBSET Client /\ {c} \in SUBSET Client
        BY <1>1
    <2> HIDE DEF m, tokens
    <2>2. /\ Relist({m}, None) /\ logins' = LoginsWithout({m} \cup {})
          /\ hbriTokens' \in [Token -> Client \cup {None}]
          /\ \A u \in Token : hbriTokens'[u] \in {None, hbriTokens[u]}
        BY <1>1, <1>2, <1>5, <2>1, EnlistNobodyGone
    <2>3. {} \in SUBSET Client /\ {} \ {m} \subseteq {c}
        OBVIOUS
    <2> QED BY <1>1, <1>3, <1>4, <1>5, <2>1, <2>2, <2>3, AdmitStep
<1>6. CASE state[m] = "NORMAL"
    <2>1. state' = Normal({}) /\ state' = state
        BY <1>1, <1>6 DEF IInv, TypeOK, Normal
    <2>2. /\ UNCHANGED <<entities, logins>> /\ hbriTokens' = tokens
          /\ view' = [x \in Client |->
                             IF \E s \in SID : entities[s] = x
                             THEN view[x] \cup {sid[m]} ELSE view[x]]
        BY <1>1, <1>6
    <2>3. EntityList'
        BY <1>1, <2>1, <2>2
        DEF IInv, EntityList, EntitiesLive, SidLookup, Listed, Live
    <2>4. ASSUME NEW x \in validate, state[x] = "HBRI"
          PROVE  x \in validate'
        BY <1>1, <1>6, <2>4
    <2>5. TokensValid'
        <3>1. \A u \in Token : hbriTokens'[u] \in {None, hbriTokens[u]}
            BY <1>2, <2>2
        <3> QED BY <1>1, <2>1, <2>4, <3>1, ConstantsAssumption
                DEF IInv, TokensValid, Live, Ent
    <2>6. /\ entities' \in [SID -> Ent \cup {None}]
          /\ view' \in [Client -> SUBSET SID]
          /\ hbriTokens' \in [Token -> Client \cup {None}]
          /\ \A u \in Token : hbriTokens'[u] \in {None, hbriTokens[u]}
        BY <1>1, <1>2, <1>3, <2>2 DEF IInv, TypeOK, Blank, Ent
    <2>7. {} \in SUBSET Client /\ {c} \in SUBSET Client /\ {} \ {} \subseteq {c}
        OBVIOUS
    <2>8. logins' = LoginsWithout({} \cup {})
        BY <2>2 DEF LoginsWithout, IInv, TypeOK
    <2> HIDE DEF m, tokens
    <2> QED BY <1>1, <1>3, <1>4, <2>1, <2>3, <2>4, <2>5, <2>6, <2>7, <2>8,
        AdmitStep
<1> QED BY <1>3, <1>5, <1>6

\* The timer lets expired validations in and disconnects late logins.  A client
\* in HBRI has no other token for removeLogins to take.
LEMMA OnTimerSecondStep ==
    ASSUME IInv, NEW X \in SUBSET Token, NEW cut \in Nat, OnTimerSecond(X, cut)
    PROVE  IInv'
<1> DEFINE N == {c \in Client : state[c] = "HBRI"
                                /\ \E t \in X : hbriTokens[t] = c}
           late == {c \in Client \ N : logins[c] \in 1..cut}
<1>1. /\ \A t \in X : hbriTokens[t] # None /\ life[hbriTokens[t]] # "deleted"
      /\ validate' = {c \in validate : \A t \in X : hbriTokens[t] # c}
      /\ Relist(N, None)
      /\ logins' = LoginsWithout(N \cup late)
      /\ state' = Normal(N)
      /\ Disconnect(late)
      /\ UNCHANGED <<life, sid, cid, nick, ghost, hbriSup, nicks, cids, clock>>
    BY DEF OnTimerSecond
<1>9. PICK F \in OneOfEach(Without(hbriTokens, Token \ X), N) :
        \E D \in OneOfEach(Without(hbriTokens, F), N \cap hbriSup) :
           /\ hbriTokens' = Without(hbriTokens, X \cup D)
           /\ fault' \in IF D = {} THEN {fault} ELSE BOOLEAN
    BY DEF OnTimerSecond
<1>2. PICK D \in OneOfEach(Without(hbriTokens, F), N \cap hbriSup) :
           /\ hbriTokens' = Without(hbriTokens, X \cup D)
           /\ fault' \in IF D = {} THEN {fault} ELSE BOOLEAN
    BY <1>9
<1>3. /\ N \in SUBSET Client
      /\ \A c \in N : Present(c) /\ state[c] = "HBRI"
    BY <1>1 DEF IInv, TypeOK, TokensValid, Blank, Present, Live, Ent
<1>4. /\ late \in SUBSET Client /\ late \ N \subseteq late
      /\ \A c \in late : Live(c)
    BY DEF IInv, LoginsWatched, Present
<1>5. D = {}
    <2> SUFFICES ASSUME NEW d \in D PROVE FALSE
        OBVIOUS
    <2> DEFINE c == hbriTokens[d]
               m == Without(hbriTokens, Token \ X)
    <2>1. d \in Token /\ d \notin F /\ c \in N /\ c \in hbriSup
        BY ConstantsAssumption DEF OneOfEach, Without, Ent
    <2>2. \A u \in Token : hbriTokens[u] = c => u = d
        BY <1>3, <2>1 DEF IInv, TokensValid, Present
    <2>3. d \in X /\ TokensOf(m, c) = {d}
        <3>1. PICK u \in X : hbriTokens[u] = c
            BY <2>1
        <3>2. u = d /\ c # None
            BY <2>1, <2>2, <3>1, ConstantsAssumption DEF Ent
        <3> QED BY <2>1, <2>2, <3>2 DEF TokensOf, Without
    <2>4. \E t \in Token : F \cap TokensOf(m, c) = {t}
        BY <2>1, <2>3 DEF OneOfEach
    <2> QED BY <2>1, <2>3, <2>4
<1>6. /\ hbriTokens' \in [Token -> Client \cup {None}]
      /\ \A t \in Token : hbriTokens'[t] = IF t \in X THEN None ELSE hbriTokens[t]
      /\ UNCHANGED fault
    BY <1>2, <1>5 DEF Without, IInv, TypeOK
<1>7. ASSUME NEW c \in validate \ N, state[c] = "HBRI"
      PROVE  c \in validate' \/ \A t \in Token : hbriTokens'[t] # c
    <2>1. CASE c \in Client
        BY <1>1, <1>7, <2>1
    <2>2. CASE c \notin Client
        BY <1>6, <1>7, <2>2, ConstantsAssumption DEF IInv, TypeOK, Ent
    <2> QED BY <2>1, <2>2
<1>8. /\ validate' \subseteq validate
      /\ \A t \in Token : hbriTokens'[t] \in {None, hbriTokens[t]}
    BY <1>1, <1>6
<1> HIDE DEF N, late
<1> QED BY <1>1, <1>3, <1>4, <1>6, <1>7, <1>8, AdmitStep

\* Deletion: a ghost is no longer indexed, anybody else is removed.
LEMMA RemoveAndDeleteStep ==
    ASSUME IInv, NEW e \in Ent, Live(e), RemoveAndDelete(e)
    PROVE  IInv'
<1> DEFINE o == IF e \in ghost THEN None ELSE e
<1>1. /\ Enlist({}, o, hbriTokens)
      /\ nicks' = NicksWithout(o)
      /\ cids' = CidsWithout(o)
      /\ life' = [life EXCEPT ![e] = "deleted"]
      /\ sid' = [sid EXCEPT ![e] = None]
      /\ cid' = [cid EXCEPT ![e] = None]
      /\ nick' = [nick EXCEPT ![e] = None]
      /\ state' = [state EXCEPT ![e] = "PROTOCOL"]
      /\ ghost' = ghost \ {e} /\ validate' = validate \ {e}
      /\ hbriSup' = hbriSup \ {e}
      /\ closing' = closing \ {e} /\ failJob' = failJob \ {e}
      /\ fault' \in BOOLEAN /\ UNCHANGED clock
    BY DEF RemoveAndDelete
<1>2. /\ o \in Ent \cup {None}
      /\ o # None => Present(o) /\ o = e
      /\ o = None => e \in ghost
      /\ e # None
    BY ConstantsAssumption DEF Present, Ent
<1>3. /\ ~Live(e)'
      /\ \A f \in Ent : f # e => /\ life'[f] = life[f] /\ state'[f] = state[f]
                                 /\ sid'[f] = sid[f] /\ cid'[f] = cid[f]
                                 /\ nick'[f] = nick[f]
                                 /\ Live(f)' <=> Live(f)
                                 /\ Present(f)' <=> Present(f)
                                 /\ Listed(f)' <=> Listed(f)
    BY <1>1 DEF IInv, TypeOK, Live, Present, Listed
<1>4. /\ EntityList' /\ TokensValid'
      /\ entities' \in [SID -> Ent \cup {None}]
      /\ view' \in [Client -> SUBSET SID]
      /\ logins' \in [Client -> Nat]
      /\ hbriTokens' \in [Token -> Client \cup {None}]
    <2>1. \A f \in Ent : Listed(f)' <=> Listed(f) /\ f # o
        <3>1. ~Listed(e)' /\ ~(Listed(e) /\ e # o)
            BY <1>2, <1>3 DEF Listed
        <3>2. \A f \in Ent : f # e => f # o
            BY <1>2, ConstantsAssumption DEF Ent
        <3> QED BY <1>3, <3>1, <3>2
    <2>2. \A f \in Ent : Listed(f)' => sid'[f] = sid[f]
        BY <1>3 DEF Listed
    <2>3. \A c \in Client :
            /\ life'[c] = "new" => life[c] = "new"
            /\ Live(c)' /\ state[c] \in {"HBRI", "VERIFY", "NORMAL"} =>
                    state'[c] = state[c]
            /\ Live(c)' => Live(c)
            /\ Live(c)' /\ state[c] = "HBRI" =>
                /\ c \in validate => c \in validate'
                /\ c \in hbriSup => c \in hbriSup'
                /\ c \notin ghost /\ c # o => c \notin ghost'
        BY <1>1, <1>3 DEF IInv, TypeOK, Live, Ent
    <2> HIDE DEF o
    <2> QED BY <1>1, <1>2, <2>1, <2>2, <2>3, RemoveFacts
<1>5. /\ cids' \in [CID \cup Bot -> Ent \cup {None}]
      /\ \A k \in CID \cup Bot :
            cids'[k] = IF o # None /\ k = cid[o] THEN None ELSE cids[k]
      /\ nicks' \in [Nick -> Ent \cup {None}]
    BY <1>1 DEF IInv, TypeOK, CidsWithout, NicksWithout, Erase
<1>6. TypeOK'
    BY <1>1, <1>4, <1>5 DEF IInv, TypeOK, State
<1>7. Blank' /\ GhostsLeave' /\ SidsDistinct'
    BY <1>1, <1>3 DEF IInv, TypeOK, Blank, GhostsLeave, SidsDistinct
<1>8. FirstCid'
    BY <1>1, <1>3, ConstantsAssumption DEF IInv, TypeOK, FirstCid, Ent
<1>9. CidIndex'
    <2>1. ASSUME NEW k \in CID \cup Bot, cids'[k] # None
          PROVE  \E f \in Ent : f = cids'[k] /\ Present(f)' /\ cid'[f] = k
        <3>1. /\ cids'[k] = cids[k] /\ cids[k] \in Ent
              /\ Present(cids[k]) /\ cid[cids[k]] = k
              /\ o # None => k # cid[o]
            BY <1>5, <2>1 DEF IInv, TypeOK, CidIndex
        <3>2. cids[k] # e
            BY <1>2, <3>1 DEF Present
        <3> QED BY <1>3, <3>1, <3>2
    <2>2. ASSUME NEW f \in Ent, Present(f)', cid'[f] # None,
                 f \in Bot => state'[f] = "NORMAL"
          PROVE  cids'[cid'[f]] = f
        <3>1. f # e
            BY <1>3, <2>2 DEF Present
        <3>2. /\ Present(f) /\ cid'[f] = cid[f] /\ cid[f] \in CID \cup Bot
              /\ f \in Bot => state[f] = "NORMAL"
            BY <1>3, <2>2, <3>1 DEF IInv, TypeOK
        <3>3. cids[cid[f]] = f
            BY <2>2, <3>2 DEF IInv, CidIndex
        <3>4. ASSUME o # None, cid[f] = cid[o]
              PROVE  FALSE
            <4>1. o = e /\ Present(e) /\ cid[e] = cid[f]
                BY <1>2, <3>4
            <4>2. CASE e \in Client
                BY <2>2, <3>2, <3>3, <4>1, <4>2, <3>1, ConstantsAssumption
                DEF IInv, CidIndex, Ent
            <4>3. CASE e \in Bot
                <5>1. cid[e] = e /\ Live(f)
                    BY <3>2, <4>1, <4>3 DEF IInv, FirstCid, Present
                <5>2. f \notin Client
                    BY <2>2, <3>2, <4>1, <4>3, <5>1, ConstantsAssumption
                    DEF IInv, FirstCid
                <5>3. f \in Bot /\ cid[f] = f
                    BY <5>1, <5>2 DEF IInv, FirstCid, Ent
                <5> QED BY <3>1, <4>1, <5>1, <5>3
            <4> QED BY <4>2, <4>3 DEF Ent
        <3> QED BY <1>5, <3>2, <3>3, <3>4
    <2> QED BY <2>1, <2>2 DEF CidIndex, Present, Live
<1>10. LoginsWatched'
    <2>1. \A c \in Client : logins'[c] = IF c \in PendingOf(o) THEN 0 ELSE logins[c]
        BY <1>1 DEF Enlist, LoginsWithout
    <2>2. logins'[e] = 0 \/ e \notin Client
        BY <1>2, <2>1 DEF IInv, LoginsWatched, PendingOf, Present
    <2>3. ASSUME NEW c \in Client, c # e
          PROVE  logins'[c] = logins[c]
        BY <1>2, <2>1, <2>3 DEF PendingOf
    <2> QED BY <1>1, <1>3, <2>2, <2>3 DEF IInv, LoginsWatched, Present, Ent
<1> QED BY <1>4, <1>6, <1>7, <1>8, <1>9, <1>10 DEF IInv

\* A bot enters NORMAL.
LEMMA RegBotStep ==
    ASSUME IInv, NEW b \in Bot, RegBot(b)
    PROVE  IInv'
<1>1. /\ life[b] = "open" /\ b \notin closing /\ state[b] = "PROTOCOL"
      /\ BotNick[b] \in Nick
      /\ nick' = [nick EXCEPT ![b] = BotNick[b]]
      /\ nicks' = Insert(nicks, BotNick[b], b)
      /\ cids' = Insert(cids, b, b)
      /\ Enlist({b}, None, hbriTokens)
      /\ state' = Normal({b})
      /\ UNCHANGED <<life, sid, cid, ghost, validate, hbriSup, closing,
                     failJob, clock, fault>>
      /\ b \in Ent /\ b \notin Client
    BY ConstantsAssumption DEF RegBot, Ent
<1>2. Present(b) /\ cid[b] = b /\ b # None
    BY <1>1, ConstantsAssumption DEF IInv, FirstCid, Present, Live, Ent
<1>3. /\ state' \in [Ent -> State]
      /\ \A e \in Ent : state'[e] = IF e = b THEN "NORMAL" ELSE state[e]
    BY <1>1 DEF IInv, TypeOK, Normal, State
<1>4. /\ entities' \in [SID -> Ent \cup {None}]
      /\ view' \in [Client -> SUBSET SID]
      /\ logins' \in [Client -> Nat]
      /\ hbriTokens' \in [Token -> Client \cup {None}]
      /\ \A t \in Token : hbriTokens'[t] # None => hbriTokens'[t] = hbriTokens[t]
    <2>1. {b} \in SUBSET Ent /\ \A e \in {b} : Live(e)
        BY <1>1, <1>2 DEF Present
    <2>2. hbriTokens \in [Token -> Client \cup {None}]
        BY DEF IInv, TypeOK
    <2> DEFINE N == {b}
    <2>3. Enlist(N, None, hbriTokens) /\ None \in Ent \cup {None}
        BY <1>1
    <2> HIDE DEF N
    <2> QED BY <2>1, <2>2, <2>3, EnlistTypes DEF N
<1>5. EntityList'
    <2>1. {b} \in SUBSET Ent
          /\ \A e \in {b} : Present(e) /\ state[e] # "NORMAL" /\ e # None
        BY <1>1, <1>2
    <2>2. \A e \in Ent : Listed(e)' <=> (Listed(e) /\ e # None) \/ e \in {b}
        BY <1>1, <1>2, <1>3, ConstantsAssumption DEF Listed, Live, Present
    <2>3. entities' = InsertAll(EntitiesWithout(None), {b})
        BY <1>1 DEF Enlist, Relist
    <2>4. \A e \in Ent : Listed(e)' => sid'[e] = sid[e]
        BY <1>1
    <2> QED BY <2>1, <2>2, <2>3, <2>4, EnlistEntities
<1>6. /\ nicks' \in [Nick -> Ent \cup {None}]
      /\ cids' \in [CID \cup Bot -> Ent \cup {None}]
      /\ \A k \in CID \cup Bot :
            cids'[k] = IF k = b /\ cids[k] = None THEN b ELSE cids[k]
    BY <1>1 DEF IInv, TypeOK, Insert
<1>7. TypeOK'
    BY <1>1, <1>3, <1>4, <1>6 DEF IInv, TypeOK
<1>8. Blank' /\ GhostsLeave' /\ SidsDistinct'
    BY <1>1, <1>2, <1>3
    DEF IInv, TypeOK, Blank, GhostsLeave, SidsDistinct, Live, Present
<1>9. FirstCid'
    <2>1. \A c \in Client : c # b /\ c \in Ent
        BY <1>1 DEF Ent
    <2>2. \A f \in Bot : f \in Ent /\ (Live(f)' <=> Live(f))
        BY <1>1 DEF Live, Ent
    <2> QED BY <1>1, <1>3, <2>1, <2>2 DEF IInv, FirstCid
<1>10. cids[b] \in {None, b} /\ cids'[b] = b
    <2>1. ASSUME cids[b] # None
          PROVE  cids[b] = b
        <3>1. cids[b] \in Ent /\ Present(cids[b]) /\ cid[cids[b]] = b
            BY <2>1 DEF IInv, TypeOK, CidIndex
        <3>2. cids[b] \notin Client
            BY <1>2, <3>1, ConstantsAssumption DEF IInv, FirstCid
        <3>3. cids[b] \in Bot
            BY <3>1, <3>2 DEF Ent
        <3> QED BY <3>1, <3>3 DEF IInv, FirstCid, Present
    <2> QED BY <1>6, <2>1
<1>11. CidIndex'
    <2>1. \A e \in Ent : Present(e)' <=> Present(e)
        BY <1>1 DEF Present, Live
    <2>2. ASSUME NEW k \in CID \cup Bot, cids'[k] # None
          PROVE  \E e \in Ent : e = cids'[k] /\ Present(e)' /\ cid'[e] = k
        <3>1. CASE k = b
            BY <1>1, <1>2, <1>10, <2>1, <3>1
        <3>2. CASE k # b
            BY <1>1, <1>6, <2>1, <2>2, <3>2 DEF IInv, TypeOK, CidIndex
        <3> QED BY <3>1, <3>2
    <2>3. ASSUME NEW e \in Ent, Present(e)', cid'[e] # None,
                 e \in Bot => state'[e] = "NORMAL"
          PROVE  cids'[cid'[e]] = e
        <3>1. CASE e = b
            BY <1>1, <1>2, <1>10, <3>1
        <3>2. CASE e # b
            <4>1. /\ Present(e) /\ cid[e] \in CID \cup Bot /\ cid'[e] = cid[e]
                  /\ e \in Bot => state[e] = "NORMAL"
                BY <1>1, <1>3, <2>1, <2>3, <3>2 DEF IInv, TypeOK
            <4>2. cids[cid[e]] = e
                BY <2>3, <4>1 DEF IInv, CidIndex
            <4>3. e # None
                BY ConstantsAssumption
            <4> QED BY <1>6, <4>1, <4>2, <4>3
        <3> QED BY <3>1, <3>2
    <2> QED BY <2>2, <2>3 DEF CidIndex, Present, Live
<1>12. TokensValid'
    <2>1. \A c \in Client : c # None /\ state'[c] = state[c]
        BY <1>1, <1>3, ConstantsAssumption DEF Ent
    <2>2. \A t \in Token : \A c \in Client :
                hbriTokens'[t] = c => hbriTokens[t] = c
        BY <1>4, <2>1
    <2> QED BY <1>1, <2>1, <2>2 DEF IInv, TokensValid, Live
<1>13. LoginsWatched'
    <2>1. \A c \in Client : logins'[c] = logins[c]
        BY <1>1 DEF Enlist, LoginsWithout, PendingOf
    <2> QED BY <1>1, <1>3, <2>1 DEF IInv, LoginsWatched, Present, Live, Ent
<1> QED BY <1>5, <1>7, <1>8, <1>9, <1>11, <1>12, <1>13 DEF IInv

\* IInv holds at the start.
LEMMA InitIInv == Init => IInv
<1> SUFFICES ASSUME Init PROVE IInv
    OBVIOUS
<1>1. TypeOK
    BY DEF Init, TypeOK, State
<1>2. Blank /\ GhostsLeave /\ FirstCid /\ SidsDistinct
    BY ConstantsAssumption
    DEF Init, Blank, GhostsLeave, FirstCid, SidsDistinct, Live, Ent
<1>3. EntityList /\ CidIndex /\ TokensValid /\ LoginsWatched
    BY ConstantsAssumption
    DEF Init, EntityList, EntitiesLive, SidLookup, CidIndex,
        TokensValid, LoginsWatched, Listed, Live, Present, Ent
<1> QED BY <1>1, <1>2, <1>3 DEF IInv

\* IInv survives stuttering.
LEMMA StutterStep == IInv /\ UNCHANGED vars => IInv'
BY DEF IInv, vars, entVars, indexVars, TypeOK, Blank, GhostsLeave, FirstCid,
    SidsDistinct, EntityList, EntitiesLive, SidLookup, CidIndex, TokensValid,
    LoginsWatched, Listed, Live, Present

\* IInv survives every step.
LEMMA NextStep ==
    ASSUME IInv, WellBehaved, Next
    PROVE  IInv'
<1>1. ASSUME NEW c \in Client, ClientStep(c)
      PROVE  IInv'
    <2> c \in Ent
        BY DEF Ent
    <2>1. ASSUME NEW s \in SID, Accept(c, s) PROVE IInv'
        BY <2>1, AcceptStep
    <2>2. CASE AcceptFailed(c)
        BY <2>2, AcceptFailedStep
    <2>3. CASE Ready(c)
        BY <2>3, ReadyStep
    <2>4. ASSUME NEW hbri \in BOOLEAN, NEW ok \in BOOLEAN, Sup(c, hbri, ok)
          PROVE  IInv'
        BY <2>4, SupStep
    <2>5. ASSUME NEW k \in CID, NEW n \in Nick \cup {None},
                 NEW secondary \in BOOLEAN, NEW bandwidth \in BOOLEAN,
                 InfLogin(c, k, n, secondary, bandwidth)
          PROVE  IInv'
        BY <2>5, InfLoginStep
    <2>6. ASSUME NEW k \in CID, NEW n \in Nick \cup {None},
                 NEW secondary \in BOOLEAN, InfVerify(c, k, n, secondary)
          PROVE  IInv'
        BY <2>6, InfVerifyStep
    <2>7. CASE Pas(c)
        BY <2>7, PasStep
    <2>8. ASSUME NEW n \in Nick \cup {None}, NEW secondary \in BOOLEAN,
                 InfUpdate(c, n, secondary)
          PROVE  IInv'
        BY <2>8, InfUpdateStep
    <2>9. CASE InfClearNick(c)
        BY <2>9, InfClearNickStep
    <2>10. ASSUME NEW t \in Token,
                  \/ TcpWrongProtocol(c, t)
                  \/ TcpBadIp(c, t)
                  \/ TcpValidated(c, t)
           PROVE  IInv'
        BY <2>10, TcpWrongProtocolStep, TcpBadIpStep, TcpValidatedStep
    <2>11. CASE SocketDisconnect(c)
        BY <2>11, SocketDisconnectStep
    <2>13. ASSUME NEW n \in Nick, NEW secondary \in BOOLEAN,
                  InfVerifyNoCid(c, n, secondary)
           PROVE  IInv'
        BY <2>13, InfVerifyNoCidStep
    <2>14. ASSUME NEW t \in Token, TcpBadState(c, t)
           PROVE  IInv'
        BY <2>14, TcpBadStateStep
    <2>12. CASE SocketError(c)
        BY <2>12, RemoveAndDeleteStep DEF SocketError, Live
    <2> QED
        BY <1>1, <2>1, <2>2, <2>3, <2>4, <2>5, <2>6, <2>7, <2>8, <2>9, <2>10,
           <2>11, <2>12, <2>13, <2>14 DEF ClientStep
<1>2. ASSUME NEW b \in Bot, BotStep(b)
      PROVE  IInv'
    BY <1>2, CreateBotStep, RegBotStep DEF BotStep
<1>3. ASSUME NEW e \in Ent, Kick(e)
      PROVE  IInv'
    BY <1>3, KickStep
<1>4. ASSUME NEW e \in Ent, RunJob(e)
      PROVE  IInv'
    BY <1>4, RemoveAndDeleteStep DEF RunJob
<1>5. ASSUME NEW X \in SUBSET Token, NEW cut \in 0..clock,
             OnTimerSecond(X, cut)
      PROVE  IInv'
    <2>1. cut \in Nat
        BY DEF IInv, TypeOK
    <2> QED BY <1>5, <2>1, OnTimerSecondStep
<1>6. ASSUME NEW t \in Token, UseStaleToken(t)
      PROVE  IInv'
    BY <1>6, UseStaleTokenStep
<1> QED BY <1>1, <1>2, <1>3, <1>4, <1>5, <1>6 DEF Next

----------------------------------------------------------------------------

\* The inductive invariant holds in every reachable state, when SIDs are
\* fresh, no client drops its HBRI support while it is being validated, and
\* none is sent a second token.
THEOREM Invariant == WellBehaved /\ Spec => []IInv
<1> SUFFICES ASSUME WellBehaved PROVE Spec => []IInv
    OBVIOUS
<1>1. Init => IInv
    BY InitIInv
<1>2. IInv /\ [Next]_vars => IInv'
    BY NextStep, StutterStep
<1> QED BY <1>1, <1>2, PTL DEF Spec

\* Every variable always holds a value of its type.
THEOREM TypeCorrect == WellBehaved /\ Spec => []TypeOK
<1>1. IInv => TypeOK  BY DEF IInv
<1> QED BY <1>1, Invariant, PTL

\* The entity list is always exactly the users, each under its own SID.
THEOREM EntityListExact == WellBehaved /\ Spec => []EntityList
<1>1. IInv => EntityList  BY DEF IInv
<1> QED BY <1>1, Invariant, PTL

\* The CID index always leads to the one present holder of the CID.
THEOREM CidIndexExact == WellBehaved /\ Spec => []CidIndex
<1>1. IInv => CidIndex  BY DEF IInv
<1> QED BY <1>1, Invariant, PTL

\* No login ever escapes the login timeout.
THEOREM NoLoginForgotten == WellBehaved /\ Spec => []LoginsWatched
<1>1. IInv => LoginsWatched  BY DEF IInv
<1> QED BY <1>1, Invariant, PTL

\* A validation token of a live client always leads to a user, or is the only
\* one of a login that waits for it or is asked for its password meanwhile.
THEOREM TokensAreValid == WellBehaved /\ Spec => []TokensValid
<1>1. IInv => TokensValid  BY DEF IInv
<1> QED BY <1>1, Invariant, PTL

\* Whatever has been removed as a ghost has its disconnect job queued.
THEOREM GhostsHaveJobs == WellBehaved /\ Spec => []GhostsLeave
<1>1. IInv => GhostsLeave  BY DEF IInv
<1> QED BY <1>1, Invariant, PTL

\* A ghost stays one until it is deleted.
LEMMA GhostsRemain ==
    ASSUME IInv, Next, NEW e \in ghost
    PROVE  e \in ghost' \/ ~Live(e)'
<1>1. ASSUME NEW f \in Ent, RemoveAndDelete(f)
      PROVE  e \in ghost' \/ ~Live(e)'
    BY <1>1 DEF RemoveAndDelete, IInv, TypeOK, Live
<1>2. ASSUME NEW c \in Client, ClientStep(c), ~SocketError(c)
      PROVE  ghost \subseteq ghost'
    BY <1>2 DEF ClientStep, Accept, AcceptFailed, Ready, Sup, InfLogin,
        InfVerify, InfVerifyNoCid, VerifyINF, Pas, InfUpdate, InfClearNick,
        Tcp, TcpBadState, TcpWrongProtocol, TcpBadIp, TcpValidated,
        SocketDisconnect, entVars
<1>3. ASSUME NEW b \in Bot, BotStep(b)
      PROVE  ghost \subseteq ghost'
    BY <1>3 DEF BotStep, CreateBot, RegBot
<1>4. ASSUME NEW f \in Ent, Kick(f)
      PROVE  ghost \subseteq ghost'
    BY <1>4 DEF Kick, entVars
<1>5. ASSUME NEW X \in SUBSET Token, NEW cut \in 0..clock,
             OnTimerSecond(X, cut)
      PROVE  ghost \subseteq ghost'
    BY <1>5 DEF OnTimerSecond
<1>6. ASSUME NEW t \in Token, UseStaleToken(t)
      PROVE  ghost \subseteq ghost'
    BY <1>6 DEF UseStaleToken, entVars
<1>7. \A c \in Client : SocketError(c) => RemoveAndDelete(c) /\ c \in Ent
    BY DEF SocketError, Ent
<1>8. \A f \in Ent : RunJob(f) => RemoveAndDelete(f)
    BY DEF RunJob
<1> QED BY <1>1, <1>2, <1>3, <1>4, <1>5, <1>6, <1>7, <1>8 DEF Next

\* No step ever puts a removed entity back into the entity list.
THEOREM GhostsStayOut == WellBehaved /\ Spec => GhostStaysOut
<1>1. IInv /\ IInv' /\ [Next]_vars =>
        [\A e \in ghost : \A s \in SID : entities'[s] # e]_vars
    <2> SUFFICES ASSUME IInv, IInv', Next, NEW e \in ghost, NEW s \in SID,
                        entities'[s] = e
                 PROVE  FALSE
        OBVIOUS
    <2>1. e # None
        BY ConstantsAssumption DEF IInv, TypeOK
    <2>2. Live(e)' /\ e \notin ghost'
        BY <2>1 DEF IInv, EntityList, EntitiesLive, Listed, Live
    <2> QED BY <2>2, GhostsRemain
<1> QED BY <1>1, Invariant, PTL DEF Spec, GhostStaysOut
====

---- MODULE DirectoryProofs ----
(***************************************************************************)
(* ClientManager implements UserDirectory, for every number of             *)
(* connections, bots, SIDs, CIDs, nicks and tokens: the nick index is      *)
(* exact, hence users have distinct identities, and every handler is a     *)
(* step of the directory or none.  And every connected user knows exactly  *)
(* the users: the INFs and QUIs that handlers send, added up, are the      *)
(* entity list.  IInv comes from ClientManagerProofs.                      *)
(***************************************************************************)
EXTENDS ClientManagerProofs

\* What the nick index relies on: only live entities have a nick, a client
\* that can still send its first INF and an unregistered bot have none.
NamesKnown ==
    /\ \A e \in Ent : ~Live(e) => nick[e] = None
    /\ \A c \in Client :
        /\ state[c] \in {"PROTOCOL", "IDENTIFY"} /\ c \notin closing =>
                nick[c] = None
    /\ \A b \in Bot : state[b] = "PROTOCOL" => nick[b] = None

DInv == NickIndex /\ NamesKnown

----------------------------------------------------------------------------
(* The nick index.                                                         *)

\* A step that leaves nicks alone and neither brings nor takes who has one.
LEMMA NickQuiet ==
    ASSUME IInv, DInv, UNCHANGED <<nick, nicks, ghost>>,
           \A e \in Ent : nick[e] # None => (Live(e)' <=> Live(e))
    PROVE  NickIndex'
<1>1. \A e \in Ent : nick[e] # None => (Present(e)' <=> Present(e))
    BY DEF Present
<1>2. \A n \in Nick : n # None
    BY ConstantsAssumption
<1>3. \A n \in Nick : nicks[n] # None =>
        nicks[n] \in Ent /\ Present(nicks[n]) /\ nick[nicks[n]] = n
    BY DEF DInv, NickIndex, NickLookup, IInv, TypeOK
<1>4. NickLookup'
    <2>1. ASSUME NEW n \in Nick, nicks'[n] # None
          PROVE  \E e \in Ent : e = nicks'[n] /\ Present(e)' /\ nick'[e] = n
        BY <1>1, <1>2, <1>3, <2>1
    <2> QED BY <2>1 DEF NickLookup, Present, Live
<1>5. \A e \in Ent : Present(e)' /\ nick'[e] # None => nicks'[nick'[e]] = e
    BY <1>1 DEF DInv, NickIndex
<1> QED BY <1>4, <1>5 DEF NickIndex

\* verifyINF: the newcomer gets its nick, the removed one gives its own back.
LEMMA NickVerify ==
    ASSUME IInv, DInv, NEW c \in Client, NEW k \in CID, NEW n \in Nick \cup {None},
           Receives(c), state[c] = "IDENTIFY", VerifyINF(c, k, n)
    PROVE  /\ NickIndex'
           /\ cids[k] # c
           /\ cids[k] # None => cids[k] \in Ent /\ Present(cids[k]) /\ cid[cids[k]] = k
<1> DEFINE o == cids[k]
<1>1. /\ c \in Ent /\ c # None /\ None \notin Ent /\ None \notin Nick
      /\ Live(c) /\ c \notin closing /\ c \notin ghost
      /\ nick[c] = None /\ cid[c] = None
    BY ConstantsAssumption
    DEF IInv, DInv, NamesKnown, Receives, Live, GhostsLeave, FirstCid, Ent
<1>2. o # None => o \in Ent /\ Present(o) /\ cid[o] = k
    BY DEF IInv, CidIndex, TypeOK
<1>3. o # c
    BY <1>1, <1>2, ConstantsAssumption
<1>4. /\ n # None => nicks[n] = None
      /\ nick' = [nick EXCEPT ![c] = n]
      /\ nicks' = Insert(NicksWithout(o), n, c)
      /\ ghost' = ghost \cup ({o} \ {None})
      /\ life' = life
    BY DEF VerifyINF
<1>5. \A e \in Ent : Present(e)' <=> Present(e) /\ e # o
    BY <1>1, <1>4 DEF Present, Live
<1>6. \A m \in Nick : NicksWithout(o)[m] =
            IF o # None /\ m = nick[o] THEN None ELSE nicks[m]
    BY DEF IInv, TypeOK, NicksWithout, Erase
<1>7. \A m \in Nick : nicks'[m] =
            IF m = n /\ NicksWithout(o)[m] = None THEN c ELSE NicksWithout(o)[m]
    BY <1>4 DEF IInv, TypeOK, NicksWithout, Erase, Insert
<1>8. \A e \in Ent : nick'[e] = IF e = c THEN n ELSE nick[e]
    BY <1>1, <1>4 DEF IInv, TypeOK
<1>9. \A m \in Nick : nicks[m] # None =>
        nicks[m] \in Ent /\ Present(nicks[m]) /\ nick[nicks[m]] = m
    BY DEF DInv, NickIndex, NickLookup, IInv, TypeOK
<1>10. \A e \in Ent : Present(e) /\ nick[e] # None =>
            nick[e] \in Nick /\ nicks[nick[e]] = e
    BY DEF DInv, NickIndex, IInv, TypeOK
<1> HIDE DEF o
<1>11. NickLookup'
    <2>1. ASSUME NEW m \in Nick, nicks'[m] # None
          PROVE  \E e \in Ent : e = nicks'[m] /\ Present(e)' /\ nick'[e] = m
        <3>1. CASE m = n /\ NicksWithout(o)[m] = None
            BY <1>1, <1>3, <1>5, <1>7, <1>8, <3>1 DEF Present
        <3>2. CASE ~(m = n /\ NicksWithout(o)[m] = None)
            <4>1. nicks'[m] = nicks[m] /\ nicks[m] # None /\ (o # None => m # nick[o])
                BY <1>6, <1>7, <2>1, <3>2
            <4>2. nicks[m] # o /\ nicks[m] # c
                BY <1>1, <1>9, <4>1
            <4> QED BY <1>5, <1>8, <1>9, <4>1, <4>2
        <3> QED BY <3>1, <3>2
    <2> QED BY <2>1 DEF NickLookup, Present, Live
<1>12. ASSUME NEW e \in Ent, Present(e)', nick'[e] # None
       PROVE  nicks'[nick'[e]] = e
    <2>1. CASE e = c
        BY <1>4, <1>6, <1>7, <1>8, <1>12, <2>1
    <2>2. CASE e # c
        <3>1. nick'[e] = nick[e] /\ Present(e) /\ e # o /\ nick[e] \in Nick
              /\ nicks[nick[e]] = e
            BY <1>5, <1>8, <1>10, <1>12, <2>2
        <3>2. o # None => nick[e] # nick[o]
            BY <1>2, <1>10, <1>12, <3>1
        <3> QED BY <1>1, <1>6, <1>7, <3>1, <3>2
    <2> QED BY <2>1, <2>2
<1>13. NickIndex'
    BY <1>11, <1>12 DEF NickIndex
<1> QED BY <1>2, <1>3, <1>13 DEF o

\* A present client takes a nick that is free, and gives its old one back.
LEMMA NickTake ==
    ASSUME IInv, DInv, NEW c \in Client, NEW n \in Nick, Present(c),
           TakeNick(c, n), UNCHANGED <<life, ghost>>
    PROVE  NickIndex'
<1>1. c \in Ent /\ c # None /\ None \notin Ent /\ None \notin Nick
    BY ConstantsAssumption DEF Ent
<1>2. \A e \in Ent : Present(e)' <=> Present(e)
    BY DEF Present, Live
<1>3. \A m \in Nick : nicks'[m] =
          IF m = n THEN IF nicks[m] = None THEN c ELSE nicks[m]
          ELSE IF m = nick[c] THEN None ELSE nicks[m]
    BY DEF TakeNick, IInv, TypeOK, Erase, Insert
<1>4. \A e \in Ent : nick'[e] = IF e = c THEN n ELSE nick[e]
    BY <1>1 DEF TakeNick, IInv, TypeOK
<1>5. n \in Nick /\ (n # nick[c] => nicks[n] = None)
    BY DEF TakeNick
<1>6. \A m \in Nick : nicks[m] # None =>
        nicks[m] \in Ent /\ Present(nicks[m]) /\ nick[nicks[m]] = m
    BY DEF DInv, NickIndex, NickLookup, IInv, TypeOK
<1>7. \A e \in Ent : Present(e) /\ nick[e] # None =>
            nick[e] \in Nick /\ nicks[nick[e]] = e
    BY DEF DInv, NickIndex, IInv, TypeOK
<1>8. ASSUME NEW m \in Nick, nicks'[m] # None
      PROVE  \E e \in Ent : e = nicks'[m] /\ Present(e)' /\ nick'[e] = m
    BY <1>1, <1>2, <1>3, <1>4, <1>5, <1>6, <1>7, <1>8
<1>9. ASSUME NEW e \in Ent, Present(e)', nick'[e] # None
      PROVE  nicks'[nick'[e]] = e
    BY <1>1, <1>2, <1>3, <1>4, <1>5, <1>6, <1>7, <1>9
<1> QED BY <1>8, <1>9 DEF NickIndex, NickLookup, Present, Live

\* Who is still received is present.
LEMMA ReceivesPresent ==
    ASSUME IInv, NEW c \in Client, Receives(c)
    PROVE  Present(c)
BY DEF IInv, Receives, Live, GhostsLeave, Present

\* A user's INF may name a nick.
LEMMA NickUpdate ==
    ASSUME IInv, DInv, NEW c \in Client, NEW n \in Nick \cup {None},
           NEW secondary \in BOOLEAN, InfUpdate(c, n, secondary)
    PROVE  NickIndex'
<1>1. CASE n = None
    BY <1>1, NickQuiet DEF InfUpdate, Live
<1>2. CASE n # None
    <2>1. Present(c) /\ TakeNick(c, n) /\ n \in Nick /\ UNCHANGED <<life, ghost>>
        BY <1>2, ReceivesPresent DEF InfUpdate
    <2> QED BY <2>1, NickTake
<1> QED BY <1>1, <1>2

\* A deletion takes the entity's nick out, unless its removal has done so.
LEMMA NickDelete ==
    ASSUME IInv, DInv, NEW e \in Ent, RemoveAndDelete(e)
    PROVE  NickIndex'
<1> DEFINE o == IF e \in ghost THEN None ELSE e
<1>1. /\ nicks' = NicksWithout(o)
      /\ life' = [life EXCEPT ![e] = "deleted"]
      /\ nick' = [nick EXCEPT ![e] = None]
      /\ ghost' = ghost \ {e}
    BY DEF RemoveAndDelete
<1>2. None \notin Ent /\ None \notin Nick
    BY ConstantsAssumption
<1>3. \A m \in Nick : nicks'[m] =
            IF e \notin ghost /\ m = nick[e] THEN None ELSE nicks[m]
    BY <1>1, <1>2 DEF IInv, TypeOK, NicksWithout, Erase
<1>4. /\ \A f \in Ent : nick'[f] = IF f = e THEN None ELSE nick[f]
      /\ \A f \in Ent : Present(f)' <=> Present(f) /\ f # e
    BY <1>1 DEF IInv, TypeOK, Present, Live
<1>5. \A m \in Nick : nicks[m] # None =>
        nicks[m] \in Ent /\ Present(nicks[m]) /\ nick[nicks[m]] = m
    BY DEF DInv, NickIndex, NickLookup, IInv, TypeOK
<1>6. \A f \in Ent : Present(f) /\ nick[f] # None =>
            nick[f] \in Nick /\ nicks[nick[f]] = f
    BY DEF DInv, NickIndex, IInv, TypeOK
<1>7. ASSUME NEW m \in Nick, nicks'[m] # None
      PROVE  \E f \in Ent : f = nicks'[m] /\ Present(f)' /\ nick'[f] = m
    <2>1. nicks'[m] = nicks[m] /\ nicks[m] # e
        BY <1>3, <1>5, <1>7 DEF Present
    <2> QED BY <1>4, <1>5, <1>7, <2>1
<1>8. ASSUME NEW f \in Ent, Present(f)', nick'[f] # None
      PROVE  nicks'[nick'[f]] = f
    <2>1. f # e /\ Present(f) /\ nick'[f] = nick[f] /\ nick[f] \in Nick
          /\ nicks[nick[f]] = f
        BY <1>4, <1>6, <1>8
    <2>2. e \notin ghost /\ nick[f] = nick[e] => Present(e)
        BY <2>1, <1>2 DEF DInv, NamesKnown, Present
    <2>3. ~(e \notin ghost /\ nick[f] = nick[e])
        BY <1>2, <1>6, <2>1, <2>2
    <2> QED BY <1>3, <2>1, <2>3
<1> QED BY <1>7, <1>8 DEF NickIndex, NickLookup, Present, Live

\* A script's bot is registered under a free nick.
LEMMA NickRegBot ==
    ASSUME IInv, DInv, NEW b \in Bot, RegBot(b)
    PROVE  NickIndex'
<1>1. /\ b \in Ent /\ b # None /\ None \notin Nick /\ BotNick[b] \in Nick
      /\ life[b] = "open" /\ state[b] = "PROTOCOL" /\ nick[b] = None
      /\ nicks[BotNick[b]] = None
      /\ nick' = [nick EXCEPT ![b] = BotNick[b]]
      /\ nicks' = Insert(nicks, BotNick[b], b)
      /\ UNCHANGED <<life, ghost>>
    BY ConstantsAssumption DEF RegBot, Ent, DInv, NamesKnown
<1>2. Present(b)
    BY <1>1, ConstantsAssumption DEF IInv, FirstCid, Present, Live
<1>3. \A m \in Nick : nicks'[m] = IF m = BotNick[b] THEN b ELSE nicks[m]
    BY <1>1 DEF IInv, TypeOK, Insert
<1>4. /\ \A f \in Ent : nick'[f] = IF f = b THEN BotNick[b] ELSE nick[f]
      /\ \A f \in Ent : Present(f)' <=> Present(f)
    BY <1>1 DEF IInv, TypeOK, Present, Live
<1>5. \A m \in Nick : nicks[m] # None =>
        nicks[m] \in Ent /\ Present(nicks[m]) /\ nick[nicks[m]] = m
    BY DEF DInv, NickIndex, NickLookup, IInv, TypeOK
<1>6. \A f \in Ent : Present(f) /\ nick[f] # None =>
            nick[f] \in Nick /\ nicks[nick[f]] = f
    BY DEF DInv, NickIndex, IInv, TypeOK
<1>7. ASSUME NEW m \in Nick, nicks'[m] # None
      PROVE  \E f \in Ent : f = nicks'[m] /\ Present(f)' /\ nick'[f] = m
    BY <1>1, <1>2, <1>3, <1>4, <1>5, <1>7
<1>8. ASSUME NEW f \in Ent, Present(f)', nick'[f] # None
      PROVE  nicks'[nick'[f]] = f
    BY <1>1, <1>2, <1>3, <1>4, <1>6, <1>8, ConstantsAssumption
<1> QED BY <1>7, <1>8 DEF NickIndex, NickLookup, Present, Live

\* The nick index is exact after every step, unless users erase their nicks.
LEMMA NickStep ==
    ASSUME IInv, DInv, ~ClearNick, Next
    PROVE  NickIndex'
<1>1. ASSUME NEW c \in Client, ClientStep(c)
      PROVE  NickIndex'
    <2>0. c \in Ent
        BY DEF Ent
    <2>1. ASSUME NEW s \in SID, Accept(c, s) PROVE NickIndex'
        <3>1. UNCHANGED <<nick, nicks, ghost>> /\ life' = [life EXCEPT ![c] = "accepted"]
              /\ nick[c] = None
            BY <2>0, <2>1 DEF Accept, DInv, NamesKnown, Live
        <3>2. \A e \in Ent : nick[e] # None => (Live(e)' <=> Live(e))
            BY <3>1 DEF IInv, TypeOK, Live
        <3> QED BY <3>1, <3>2, NickQuiet
    <2>2. CASE AcceptFailed(c)
        <3>1. UNCHANGED <<nick, nicks, ghost>> /\ life' = [life EXCEPT ![c] = "deleted"]
              /\ nick[c] = None
            BY <2>0, <2>2 DEF AcceptFailed, indexVars, DInv, NamesKnown, Live
        <3>2. \A e \in Ent : nick[e] # None => (Live(e)' <=> Live(e))
            BY <3>1 DEF IInv, TypeOK, Live
        <3> QED BY <3>1, <3>2, NickQuiet
    <2>3. CASE Ready(c)
        <3>1. UNCHANGED <<nick, nicks, ghost>> /\ life' = [life EXCEPT ![c] = "open"]
              /\ life[c] = "accepted"
            BY <2>3 DEF Ready, indexVars
        <3>2. \A e \in Ent : nick[e] # None => (Live(e)' <=> Live(e))
            BY <3>1 DEF IInv, TypeOK, Live
        <3> QED BY <3>1, <3>2, NickQuiet
    <2>4. ASSUME NEW hbri \in BOOLEAN, NEW ok \in BOOLEAN, Sup(c, hbri, ok)
          PROVE  NickIndex'
        BY <2>4, NickQuiet DEF Sup, indexVars, Live
    <2>5. ASSUME NEW k \in CID, NEW n \in Nick \cup {None},
                 NEW secondary \in BOOLEAN, NEW bandwidth \in BOOLEAN,
                 InfLogin(c, k, n, secondary, bandwidth)
          PROVE  NickIndex'
        BY <2>5, NickVerify DEF InfLogin
    <2>6. ASSUME NEW k \in CID, NEW n \in Nick \cup {None},
                 NEW secondary \in BOOLEAN, InfVerify(c, k, n, secondary)
          PROVE  NickIndex'
        BY <2>6, NickVerify DEF InfVerify
    <2>7. CASE Pas(c)
        BY <2>7, NickQuiet DEF Pas, Live
    <2>8. ASSUME NEW n \in Nick \cup {None}, NEW secondary \in BOOLEAN,
                 InfUpdate(c, n, secondary)
          PROVE  NickIndex'
        BY <2>8, NickUpdate
    <2>9. ~InfClearNick(c)
        BY DEF InfClearNick
    <2>13. ASSUME NEW n \in Nick, NEW secondary \in BOOLEAN,
                  InfVerifyNoCid(c, n, secondary)
           PROVE  NickIndex'
        BY <2>13, ReceivesPresent, NickTake DEF InfVerifyNoCid
    <2>14. ASSUME NEW t \in Token, TcpBadState(c, t)
           PROVE  NickIndex'
        BY <2>14, NickQuiet DEF TcpBadState, indexVars, Live
    <2>10. ASSUME NEW t \in Token, Tcp(c, t)
           PROVE  NickIndex'
        BY <2>10, NickQuiet DEF Tcp, Live
    <2>11. CASE SocketDisconnect(c)
        BY <2>11, NickQuiet DEF SocketDisconnect, entVars, indexVars, Live
    <2>12. CASE SocketError(c)
        BY <2>0, <2>12, NickDelete DEF SocketError
    <2> QED
        BY <1>1, <2>1, <2>2, <2>3, <2>4, <2>5, <2>6, <2>7, <2>8, <2>9, <2>10,
           <2>11, <2>12, <2>13, <2>14
        DEF ClientStep, TcpWrongProtocol, TcpBadIp, TcpValidated
<1>2. ASSUME NEW b \in Bot, BotStep(b)
      PROVE  NickIndex'
    <2>0. b \in Ent
        BY DEF Ent
    <2>1. ASSUME NEW s \in SID, CreateBot(b, s) PROVE NickIndex'
        <3>1. UNCHANGED <<nick, nicks, ghost>> /\ life' = [life EXCEPT ![b] = "open"]
              /\ nick[b] = None
            BY <2>0, <2>1 DEF CreateBot, indexVars, DInv, NamesKnown, Live
        <3>2. \A e \in Ent : nick[e] # None => (Live(e)' <=> Live(e))
            BY <3>1 DEF IInv, TypeOK, Live
        <3> QED BY <3>1, <3>2, NickQuiet
    <2> QED BY <1>2, <2>1, NickRegBot DEF BotStep
<1>3. ASSUME NEW e \in Ent, Kick(e)
      PROVE  NickIndex'
    BY <1>3, NickQuiet DEF Kick, entVars, indexVars, Live
<1>4. ASSUME NEW e \in Ent, RunJob(e)
      PROVE  NickIndex'
    BY <1>4, NickDelete DEF RunJob
<1>5. ASSUME NEW X \in SUBSET Token, NEW cut \in 0..clock, OnTimerSecond(X, cut)
      PROVE  NickIndex'
    BY <1>5, NickQuiet DEF OnTimerSecond, Live
<1>6. ASSUME NEW t \in Token, UseStaleToken(t)
      PROVE  NickIndex'
    BY <1>6, NickQuiet DEF UseStaleToken, entVars, indexVars, Live
<1> QED BY <1>1, <1>2, <1>3, <1>4, <1>5, <1>6 DEF Next

\* Who has a nick or a CID at which stage of its login.
LEMMA NamesStep ==
    ASSUME IInv, DInv, Next
    PROVE  NamesKnown'
<1>0. /\ TypeOK /\ NamesKnown /\ GhostsLeave /\ Blank
      /\ Client \subseteq Ent /\ Bot \subseteq Ent /\ Client \cap Bot = {}
    BY ConstantsAssumption DEF IInv, DInv, Ent
<1>1. ASSUME NEW c \in Client, ClientStep(c)
      PROVE  NamesKnown'
    <2>1. ASSUME NEW s \in SID, Accept(c, s) PROVE NamesKnown'
        BY <1>0, <2>1 DEF Accept, NamesKnown, TypeOK, Live
    <2>2. CASE AcceptFailed(c)
        BY <1>0, <2>2 DEF AcceptFailed, NamesKnown, TypeOK, Live
    <2>3. CASE Ready(c)
        BY <1>0, <2>3 DEF Ready, NamesKnown, TypeOK, Live
    <2>4. ASSUME NEW hbri \in BOOLEAN, NEW ok \in BOOLEAN, Sup(c, hbri, ok)
          PROVE  NamesKnown'
        BY <1>0, <2>4 DEF Sup, Disconnect, Receives, NamesKnown, TypeOK, Live
    <2>5. ASSUME NEW k \in CID, NEW n \in Nick \cup {None},
                 NEW secondary \in BOOLEAN, NEW bandwidth \in BOOLEAN,
                 InfLogin(c, k, n, secondary, bandwidth)
          PROVE  NamesKnown'
        BY <1>0, <2>5 DEF InfLogin, VerifyINF, Disconnect, EnterNormal, Normal, Receives,
                NamesKnown, TypeOK, Live
    <2>6. ASSUME NEW k \in CID, NEW n \in Nick \cup {None},
                 NEW secondary \in BOOLEAN, InfVerify(c, k, n, secondary)
          PROVE  NamesKnown'
        BY <1>0, <2>6 DEF InfVerify, VerifyINF, Disconnect, Receives, NamesKnown, TypeOK, Live
    <2>7. CASE Pas(c)
        BY <1>0, <2>7 DEF Pas, EnterNormal, Normal, Receives, NamesKnown, TypeOK, Live
    <2>8. ASSUME NEW n \in Nick \cup {None}, NEW secondary \in BOOLEAN,
                 InfUpdate(c, n, secondary)
          PROVE  NamesKnown'
        BY <1>0, <2>8 DEF InfUpdate, TakeNick, Receives, NamesKnown, TypeOK, Live
    <2>14. ASSUME NEW n \in Nick, NEW secondary \in BOOLEAN,
                  InfVerifyNoCid(c, n, secondary)
           PROVE  NamesKnown'
        BY <1>0, <2>14
        DEF InfVerifyNoCid, TakeNick, Receives, NamesKnown, TypeOK, Live
    <2>15. ASSUME NEW t \in Token, TcpBadState(c, t) PROVE NamesKnown'
        BY <1>0, <2>15 DEF TcpBadState, Disconnect, NamesKnown, TypeOK, Live
    <2>9. CASE InfClearNick(c)
        BY <1>0, <2>9 DEF InfClearNick, Receives, NamesKnown, TypeOK, Live
    <2>10. ASSUME NEW t \in Token, TcpWrongProtocol(c, t) \/ TcpBadIp(c, t)
           PROVE  NamesKnown'
        BY <1>0, <2>10 DEF TcpWrongProtocol, TcpBadIp, Tcp, Disconnect, Normal, NamesKnown,
                TypeOK, Live
    <2>13. ASSUME NEW t \in Token, TcpValidated(c, t)
           PROVE  NamesKnown'
        <3>1. /\ hbriTokens[t] \in Client /\ state[hbriTokens[t]] \in {"HBRI", "NORMAL"}
            BY <1>0, <2>13 DEF TcpValidated, Tcp, Validating, IInv, TypeOK, Ent
        <3> QED BY <1>0, <2>13, <3>1 DEF TcpValidated, Tcp, Disconnect, Normal, NamesKnown,
                TypeOK, Live
    <2>11. CASE SocketDisconnect(c)
        BY <1>0, <2>11 DEF SocketDisconnect, entVars, NamesKnown, TypeOK, Live
    <2>12. CASE SocketError(c)
        BY <1>0, <2>12 DEF SocketError, RemoveAndDelete, NamesKnown, TypeOK, Live
    <2> QED
        BY <1>1, <2>1, <2>2, <2>3, <2>4, <2>5, <2>6, <2>7, <2>8, <2>9, <2>10,
           <2>11, <2>12, <2>13, <2>14, <2>15 DEF ClientStep
<1>2. ASSUME NEW b \in Bot, BotStep(b)
      PROVE  NamesKnown'
    <2>1. ASSUME NEW s \in SID, CreateBot(b, s) PROVE NamesKnown'
        BY <1>0, <2>1 DEF CreateBot, NamesKnown, TypeOK, Live
    <2>2. CASE RegBot(b)
        BY <1>0, <2>2 DEF RegBot, Normal, NamesKnown, TypeOK, Live
    <2> QED BY <1>2, <2>1, <2>2 DEF BotStep
<1>3. ASSUME NEW e \in Ent, Kick(e)
      PROVE  NamesKnown'
    BY <1>0, <1>3 DEF Kick, Disconnect, entVars, NamesKnown, TypeOK, Live
<1>4. ASSUME NEW e \in Ent, RunJob(e)
      PROVE  NamesKnown'
    BY <1>0, <1>4 DEF RunJob, RemoveAndDelete, NamesKnown, TypeOK, Live
<1>5. ASSUME NEW X \in SUBSET Token, NEW cut \in 0..clock, OnTimerSecond(X, cut)
      PROVE  NamesKnown'
    BY <1>0, <1>5 DEF OnTimerSecond, Disconnect, Normal, NamesKnown, TypeOK, Live
<1>6. ASSUME NEW t \in Token, UseStaleToken(t)
      PROVE  NamesKnown'
    BY <1>0, <1>6 DEF UseStaleToken, entVars, NamesKnown, TypeOK, Live
<1> QED BY <1>1, <1>2, <1>3, <1>4, <1>5, <1>6 DEF Next

----------------------------------------------------------------------------
(* The mapping to UserDirectory.                                           *)

\* What the instance of UserDirectory sees.
Users == [e \in Ent |-> IF Listed(e)
            THEN [sid |-> sid[e], cid |-> cid[e], nick |-> nick[e]]
            ELSE None]
Gone == {e \in Ent : life[e] = "deleted" \/ e \in ghost}

\* What a step leaves as it is of e.
Same(e) ==
    /\ Listed(e)' <=> Listed(e)
    /\ Listed(e) => sid'[e] = sid[e] /\ cid'[e] = cid[e] /\ nick'[e] = nick[e]

\* A step of the directory, or none.
DirStep == [Directory!Next]_(Directory!dirVars)

\* Users have identities, and no two of them share a part of it.
LEMMA UsersDistinct ==
    IInv /\ DInv =>
        /\ Users \in [Ent -> Directory!Identity \cup {None}]
        /\ Directory!Distinct(Users)
        /\ \A e \in Ent : Users[e] # None <=> Listed(e)
<1> SUFFICES ASSUME IInv, DInv
             PROVE  /\ Users \in [Ent -> Directory!Identity \cup {None}]
                    /\ Directory!Distinct(Users)
                    /\ \A e \in Ent : Users[e] # None <=> Listed(e)
    OBVIOUS
<1>1. ASSUME NEW e \in Ent, Listed(e)
      PROVE  /\ sid[e] \in SID /\ cid[e] \in CID \cup Bot \cup {None} /\ nick[e] \in Nick \cup {None}
             /\ entities[sid[e]] = e
             /\ cid[e] # None => cids[cid[e]] = e
             /\ nick[e] # None => nicks[nick[e]] = e
    <2>1. Present(e) /\ state[e] = "NORMAL" /\ Live(e)
        BY <1>1 DEF Listed, Present
    <2> QED BY <1>1, <2>1
            DEF IInv, DInv, TypeOK, Blank, EntityList, SidLookup, CidIndex, NickIndex
<1>2. ASSUME NEW e \in Ent, Listed(e)
      PROVE  [sid |-> sid[e], cid |-> cid[e], nick |-> nick[e]] \in Directory!Identity
    BY <1>1, <1>2 DEF Directory!Identity
<1>3. None \notin Directory!Identity
    BY ConstantsAssumption DEF Directory!Identity
<1>4. \A e \in Ent : Users[e] # None <=> Listed(e)
    BY <1>2, <1>3 DEF Users
<1>5. Users \in [Ent -> Directory!Identity \cup {None}]
    BY <1>2 DEF Users
<1>6. ASSUME NEW e \in Ent, NEW f \in Ent, e # f, Users[e] # None, Users[f] # None
      PROVE  /\ Users[e].sid # Users[f].sid
             /\ Users[e].cid # None => Users[e].cid # Users[f].cid
             /\ Users[e].nick # None => Users[e].nick # Users[f].nick
    <2>1. Listed(e) /\ Listed(f)
        BY <1>4, <1>6
    <2>2. /\ Users[e].sid = sid[e] /\ Users[e].cid = cid[e] /\ Users[e].nick = nick[e]
          /\ Users[f].sid = sid[f] /\ Users[f].cid = cid[f] /\ Users[f].nick = nick[f]
        BY <2>1 DEF Users
    <2> QED BY <1>1, <1>6, <2>1, <2>2
<1>7. Directory!Distinct(Users)
    BY <1>6 DEF Directory!Distinct
<1> QED BY <1>4, <1>5, <1>7

\* The same after a step.
LEMMA UsersDistinctNext ==
    IInv' /\ DInv' =>
        /\ Users' \in [Ent -> Directory!Identity \cup {None}]
        /\ Directory!Distinct(Users')
        /\ \A e \in Ent : Users'[e] # None <=> Listed(e)'
<1>1. (/\ Users \in [Ent -> Directory!Identity \cup {None}]
       /\ Directory!Distinct(Users)
       /\ \A e \in Ent : Users[e] # None <=> Listed(e))'
      =>
        /\ Users' \in [Ent -> Directory!Identity \cup {None}]
        /\ Directory!Distinct(Users')
        /\ \A e \in Ent : Users'[e] # None <=> Listed(e)'
    BY DEF Directory!Identity, Directory!Distinct
<1> QED BY <1>1, UsersDistinct, PTL

\* What Same says of the mapping.
LEMMA SameUser ==
    ASSUME NEW e \in Ent, Same(e)
    PROVE  Users'[e] = Users[e]
BY DEF Same, Users

LEMMA QuietDir ==
    ASSUME \A e \in Ent : Same(e), Gone' = Gone
    PROVE  DirStep
<1>1. Users' = Users
    BY SameUser DEF Users
<1> QED BY <1>1 DEF DirStep, Directory!dirVars, Users, Gone

LEMMA ArriveDir ==
    ASSUME IInv, DInv, IInv', DInv', NEW N \in SUBSET Ent,
           \A e \in N : ~Listed(e) /\ e \notin Gone /\ Listed(e)',
           \A e \in Ent \ N : Same(e), Gone' = Gone
    PROVE  DirStep
<1>1. /\ \A e \in N : Users[e] = None /\ e \notin Gone
      /\ Users' \in [Ent -> Directory!Identity \cup {None}]
      /\ \A e \in N : Users'[e] # None
      /\ Directory!Distinct(Users')
      /\ \A e \in Ent \ N : Users'[e] = Users[e]
      /\ Gone' = Gone
    BY UsersDistinct, UsersDistinctNext, SameUser
<1>2. Directory!Arrive(N)
    BY <1>1 DEF Directory!Arrive, Directory!Admit, Directory!IsUser, Users, Gone
<1> QED BY <1>2 DEF DirStep, Directory!Next

LEMMA LeaveDir ==
    ASSUME IInv, DInv, IInv', DInv', NEW e \in Ent,
           e \notin Gone, ~Listed(e)',
           \A f \in Ent \ {e} : Same(f), Gone' = Gone \cup {e}
    PROVE  DirStep
<1>1. Users' = [Users EXCEPT ![e] = None]
    <2>1. \A f \in Ent : Users'[f] = [Users EXCEPT ![e] = None][f]
        BY SameUser DEF Users
    <2>2. Users' \in [Ent -> Directory!Identity \cup {None}]
        BY UsersDistinctNext
    <2>3. Users \in [Ent -> Directory!Identity \cup {None}]
        BY UsersDistinct
    <2> QED BY <2>1, <2>2, <2>3
<1>2. Directory!Leave(e)
    BY <1>1 DEF Directory!Leave, Users, Gone
<1> QED BY <1>2 DEF DirStep, Directory!Next

LEMMA TakeOverDir ==
    ASSUME IInv, DInv, IInv', DInv', NEW e \in Ent, NEW o \in Ent,
           e # o, e \notin Gone, o \notin Gone,
           ~Listed(e), Listed(e)', ~Listed(o)', Listed(o) => cid[o] = cid'[e], cid'[e] # None,
           \A f \in Ent \ {e, o} : Same(f), Gone' = Gone \cup {o}
    PROVE  DirStep
<1>1. /\ \A f \in {e} : Users[f] = None /\ f \notin Gone
      /\ Users' \in [Ent -> Directory!Identity \cup {None}]
      /\ \A f \in {e} : Users'[f] # None
      /\ Directory!Distinct(Users')
      /\ Users'[o] = None
      /\ \A f \in Ent \ {e, o} : Users'[f] = Users[f]
    BY UsersDistinct, UsersDistinctNext, SameUser
<1>2. /\ Users[o] # None => Users[o].cid = Users'[e].cid
      /\ Users'[e].cid # None
    BY DEF Users
<1>3. Directory!TakeOver(e, o)
    BY <1>1, <1>2 DEF Directory!TakeOver, Directory!Admit, Directory!IsUser, Users, Gone
<1> QED BY <1>3 DEF DirStep, Directory!Next

LEMMA RenameDir ==
    ASSUME IInv, DInv, IInv', DInv', NEW e \in Ent, NEW n \in Nick \cup {None},
           Listed(e), Listed(e)', sid'[e] = sid[e], cid'[e] = cid[e], nick'[e] = n,
           \A f \in Ent \ {e} : Same(f), Gone' = Gone
    PROVE  DirStep
<1>1. /\ Users[e] = [sid |-> sid[e], cid |-> cid[e], nick |-> nick[e]]
      /\ Users'[e] = [sid |-> sid[e], cid |-> cid[e], nick |-> n]
    BY DEF Users
<1>2. Users' = [Users EXCEPT ![e].nick = n]
    <2>1. [Users[e] EXCEPT !.nick = n] = Users'[e]
        BY <1>1
    <2>2. \A f \in Ent : Users'[f] = [Users EXCEPT ![e] = Users'[e]][f]
        BY SameUser DEF Users
    <2>3. /\ Users' \in [Ent -> Directory!Identity \cup {None}]
          /\ Users \in [Ent -> Directory!Identity \cup {None}]
        BY UsersDistinct, UsersDistinctNext
    <2>4. Users' = [Users EXCEPT ![e] = Users'[e]]
        BY <2>2, <2>3
    <2> QED BY <2>1, <2>4
<1>3. Users[e] # None /\ Directory!Distinct(Users')
    BY UsersDistinct, UsersDistinctNext
<1>4. Directory!Rename(e, n)
    BY <1>2, <1>3 DEF Directory!Rename, Directory!IsUser, Users, Gone
<1> QED BY <1>4 DEF DirStep, Directory!Next

----------------------------------------------------------------------------
(* Every handler is a step of the directory, or none.                      *)

\* The clients in N, live and not yet users, enter NORMAL together.
LEMMA EnterDir ==
    ASSUME IInv, DInv, IInv', DInv', NEW N \in SUBSET Ent,
           UNCHANGED <<life, sid, cid, nick, ghost>>, state' = Normal(N),
           \A e \in N : Live(e) /\ e \notin ghost /\ state[e] # "NORMAL"
    PROVE  DirStep
<1>1. \A e \in N : ~Listed(e) /\ e \notin Gone /\ Listed(e)'
    BY DEF Listed, Live, Gone, Normal
<1>2. \A e \in Ent \ N : Same(e)
    BY DEF Same, Listed, Live, Normal
<1>3. Gone' = Gone
    BY DEF Gone
<1> QED BY <1>1, <1>2, <1>3, ArriveDir

\* A first INF: the newcomer arrives, or takes the place of the connection
\* that has its CID, or only the latter leaves.
LEMMA VerifyDir ==
    ASSUME IInv, DInv, IInv', DInv', NEW c \in Client, NEW k \in CID,
           NEW n \in Nick \cup {None},
           Receives(c), state[c] = "IDENTIFY", VerifyINF(c, k, n),
           state' \in [Ent -> State], \A e \in Ent \ {c} : state'[e] = state[e]
    PROVE  DirStep
<1> DEFINE o == cids[k]
<1>1. /\ c \in Ent /\ c # None /\ None \notin Ent
      /\ Live(c) /\ c \notin ghost /\ ~Listed(c) /\ c \notin Gone
    BY ConstantsAssumption
    DEF IInv, Receives, Live, Listed, GhostsLeave, Ent, Gone
<1>2. /\ o # c
      /\ o # None => o \in Ent /\ Present(o) /\ cid[o] = k
    BY NickVerify
<1>3. /\ life' = life /\ sid' = sid
      /\ ghost' = ghost \cup ({o} \ {None})
      /\ cid' = [cid EXCEPT ![c] = k] /\ nick' = [nick EXCEPT ![c] = n]
    BY DEF VerifyINF
<1>4. cid'[c] = k
    BY <1>1, <1>3 DEF IInv, TypeOK
<1> HIDE DEF o
<1>5. \A f \in Ent \ {c, o} : Same(f)
    BY <1>3 DEF Same, Listed, Live, IInv, TypeOK
<1>6. Listed(c)' <=> state'[c] = "NORMAL"
    BY <1>1, <1>2, <1>3 DEF Listed, Live
<1>7. CASE o = None
    <2>1. Gone' = Gone
        BY <1>3, <1>7 DEF Gone
    <2>2. CASE state'[c] = "NORMAL"
        BY <1>1, <1>5, <1>6, <1>7, <2>1, <2>2, ArriveDir, {c} \in SUBSET Ent
    <2>3. CASE state'[c] # "NORMAL"
        <3>1. Same(c)
            BY <1>1, <1>6, <2>3 DEF Same
        <3> QED BY <1>5, <1>7, <1>1, <2>1, <3>1, QuietDir
    <2> QED BY <2>2, <2>3
<1>8. CASE o # None
    <2>0. PICK q \in Ent : q = o
        BY <1>2, <1>8
    <2>1. /\ q \notin Gone /\ ~Listed(q)' /\ Gone' = Gone \cup {q}
          /\ q # c /\ cid[q] = k
        BY <1>2, <1>3, <1>8, <2>0 DEF Gone, Present, Live, Listed
    <2>2. CASE state'[c] = "NORMAL"
        <3>1. cid'[c] # None
            BY <1>4, ConstantsAssumption
        <3> QED BY <1>1, <1>4, <1>5, <1>6, <2>0, <2>1, <2>2, <3>1, TakeOverDir
    <2>3. CASE state'[c] # "NORMAL"
        <3>1. Same(c)
            BY <1>1, <1>6, <2>3 DEF Same
        <3>2. \A f \in Ent \ {q} : Same(f)
            BY <1>5, <2>0, <3>1
        <3> QED BY <2>1, <3>2, LeaveDir
    <2> QED BY <2>2, <2>3
<1> QED BY <1>7, <1>8

\* A client on its way in takes a nick, and stays on its way in.
LEMMA VerifyNoCidDir ==
    ASSUME IInv, DInv, IInv', DInv', NEW c \in Client, NEW n \in Nick,
           NEW secondary \in BOOLEAN, InfVerifyNoCid(c, n, secondary)
    PROVE  DirStep
<1>1. /\ UNCHANGED <<life, sid, cid, ghost>>
      /\ state[c] # "NORMAL" /\ state' = [state EXCEPT ![c] = "VERIFY"]
      /\ nick' = [nick EXCEPT ![c] = n]
    BY DEF InfVerifyNoCid, TakeNick
<1> QED BY <1>1, QuietDir DEF Same, Listed, Live, Gone, IInv, TypeOK

LEMMA UpdateDir ==
    ASSUME IInv, DInv, IInv', DInv', NEW c \in Client, NEW n \in Nick \cup {None},
           NEW secondary \in BOOLEAN, InfUpdate(c, n, secondary)
    PROVE  DirStep
<1>1. /\ c \in Ent /\ Listed(c) /\ Listed(c)'
      /\ UNCHANGED <<life, sid, state, cid, ghost>>
      /\ nick' = IF n = None THEN nick ELSE [nick EXCEPT ![c] = n]
      /\ Gone' = Gone
    BY DEF InfUpdate, TakeNick, Receives, Listed, Live, IInv, GhostsLeave, Ent, Gone
<1>2. CASE n = None
    BY <1>1, <1>2, QuietDir DEF Same, Listed, Live
<1>3. CASE n # None
    <2>1. \A f \in Ent \ {c} : Same(f)
        BY <1>1, <1>3 DEF Same, Listed, Live, IInv, TypeOK
    <2>2. nick'[c] = n
        BY <1>1, <1>3 DEF IInv, TypeOK
    <2> QED BY <1>1, <2>1, <2>2, RenameDir
<1> QED BY <1>2, <1>3

LEMMA DeleteDir ==
    ASSUME IInv, DInv, IInv', DInv', NEW e \in Ent, Live(e), RemoveAndDelete(e)
    PROVE  DirStep
<1>1. /\ life' = [life EXCEPT ![e] = "deleted"] /\ ghost' = ghost \ {e}
      /\ sid' = [sid EXCEPT ![e] = None] /\ cid' = [cid EXCEPT ![e] = None]
      /\ nick' = [nick EXCEPT ![e] = None]
      /\ state' = [state EXCEPT ![e] = "PROTOCOL"]
    BY DEF RemoveAndDelete
<1>2. /\ \A f \in Ent \ {e} : Same(f)
      /\ ~Listed(e)'
    BY <1>1 DEF Same, Listed, Live, IInv, TypeOK
<1>3. Gone' = Gone \cup {e}
    BY <1>1 DEF Gone, IInv, TypeOK
<1>4. CASE e \in ghost
    <2>1. Same(e)
        BY <1>2, <1>4 DEF Same, Listed
    <2>2. Gone' = Gone
        BY <1>3, <1>4 DEF Gone
    <2> QED BY <1>2, <2>1, <2>2, QuietDir
<1>5. CASE e \notin ghost
    <2>1. e \notin Gone
        BY <1>5 DEF Gone, Live
    <2> QED BY <1>2, <1>3, <2>1, LeaveDir
<1> QED BY <1>4, <1>5

\* A validation that ends, well or not, lets the client in.
LEMMA TcpDir ==
    ASSUME IInv, DInv, IInv', DInv', NEW c \in Client, NEW t \in Token,
           TcpWrongProtocol(c, t) \/ TcpBadIp(c, t) \/ TcpValidated(c, t)
    PROVE  DirStep
<1> DEFINE m == hbriTokens[t]
<1>1. /\ Receives(c) /\ m # None /\ life[m] # "deleted"
      /\ state[m] \in {"HBRI", "NORMAL"}
      /\ UNCHANGED <<life, sid, cid, nick, ghost>>
    BY DEF TcpWrongProtocol, TcpBadIp, TcpValidated, Tcp, Validating
<1>2. /\ c \in Ent /\ Live(c) /\ c \notin ghost
    BY <1>1 DEF IInv, Receives, Live, GhostsLeave, Ent
<1>3. /\ m \in Client /\ m \in Ent /\ Live(m)
      /\ state[m] \in {"HBRI", "NORMAL"}
      /\ state[m] = "HBRI" => m \notin ghost
    BY <1>1 DEF IInv, TypeOK, TokensValid, Live, Ent
<1> HIDE DEF m
<1>4. CASE TcpWrongProtocol(c, t)
    <2> DEFINE N == {c} \cap {x \in Client : state[x] = "HBRI"}
    <2>1. /\ N \in SUBSET Ent /\ state' = Normal(N)
          /\ \A e \in N : Live(e) /\ e \notin ghost /\ state[e] # "NORMAL"
        BY <1>2, <1>4 DEF TcpWrongProtocol
    <2> HIDE DEF N
    <2> QED BY <1>1, <2>1, EnterDir
<1>5. CASE TcpBadIp(c, t)
    <2> DEFINE N == {m} \cap {x \in Client : state[x] = "HBRI"}
    <2>1. /\ N \in SUBSET Ent /\ state' = Normal(N)
          /\ \A e \in N : Live(e) /\ e \notin ghost /\ state[e] # "NORMAL"
        BY <1>3, <1>5 DEF TcpBadIp, m
    <2> HIDE DEF N
    <2> QED BY <1>1, <2>1, EnterDir
<1>6. CASE TcpValidated(c, t)
    <2>1. state' = Normal({m})
        BY <1>6 DEF TcpValidated, m
    <2>2. CASE state[m] = "HBRI"
        BY <1>1, <1>3, <2>1, <2>2, EnterDir, {m} \in SUBSET Ent
    <2>3. CASE state[m] = "NORMAL"
        <3>1. state' = Normal({})
            BY <1>3, <2>1, <2>3 DEF Normal
        <3> QED BY <1>1, <3>1, EnterDir
    <2> QED BY <1>3, <2>2, <2>3
<1> QED BY <1>4, <1>5, <1>6

LEMMA TimerDir ==
    ASSUME IInv, DInv, IInv', DInv', NEW X \in SUBSET Token, NEW cut \in 0..clock,
           OnTimerSecond(X, cut)
    PROVE  DirStep
<1> DEFINE N == {c \in Client : state[c] = "HBRI"
                                /\ \E t \in X : hbriTokens[t] = c}
<1>1. UNCHANGED <<life, sid, cid, nick, ghost>> /\ state' = Normal(N)
    BY DEF OnTimerSecond
<1>2. N \in SUBSET Ent
    BY DEF Ent
<1>3. ASSUME NEW e \in N
      PROVE  Live(e) /\ e \notin ghost /\ state[e] # "NORMAL"
    <2>1. PICK t \in X : hbriTokens[t] = e /\ life[e] # "deleted"
        BY <1>3 DEF OnTimerSecond
    <2> QED BY <1>3, <2>1 DEF IInv, TypeOK, TokensValid, Live, Ent
<1> HIDE DEF N
<1> QED BY <1>1, <1>2, <1>3, EnterDir

\* One case per action; a user never erases its nick here.
LEMMA StepDir ==
    ASSUME IInv, DInv, IInv', DInv', ~ClearNick, Next
    PROVE  DirStep
<1>0. /\ TypeOK /\ Blank /\ Client \subseteq Ent /\ Bot \subseteq Ent
    BY DEF IInv, Ent
<1>1. ASSUME NEW c \in Client, ClientStep(c)
      PROVE  DirStep
    <2>0. c \in Ent
        BY <1>0
    <2>1. ASSUME NEW s \in SID, Accept(c, s) PROVE DirStep
        <3>1. ~Listed(c) /\ ~Listed(c)'
            BY <1>0, <2>0, <2>1 DEF Accept, Blank, Listed, Live
        <3>2. \A e \in Ent : Same(e)
            BY <1>0, <2>1, <3>1 DEF Accept, Same, Listed, Live, TypeOK
        <3>3. Gone' = Gone
            BY <1>0, <2>1 DEF Accept, Gone, TypeOK
        <3> QED BY <3>2, <3>3, QuietDir
    <2>2. CASE AcceptFailed(c)
        <3>1. /\ life' = [life EXCEPT ![c] = "deleted"] /\ life[c] = "new"
              /\ UNCHANGED <<sid, state, cid, nick, ghost>>
            BY <2>2 DEF AcceptFailed
        <3>2. /\ \A e \in Ent \ {c} : Same(e)
              /\ ~Listed(c)'
            BY <1>0, <3>1 DEF Same, Listed, Live, TypeOK
        <3>3. c \notin Gone /\ Gone' = Gone \cup {c}
            BY <1>0, <2>0, <3>1 DEF Gone, Blank, Live, TypeOK
        <3> QED BY <2>0, <3>2, <3>3, LeaveDir
    <2>3. CASE Ready(c)
        <3>1. /\ life' = [life EXCEPT ![c] = "open"] /\ life[c] = "accepted"
              /\ UNCHANGED <<sid, state, cid, nick, ghost>>
            BY <2>3 DEF Ready
        <3> QED BY <1>0, <3>1, QuietDir DEF Same, Listed, Live, Gone, TypeOK
    <2>4. ASSUME NEW hbri \in BOOLEAN, NEW ok \in BOOLEAN, Sup(c, hbri, ok)
          PROVE  DirStep
        <3>1. /\ UNCHANGED <<life, sid, cid, nick, ghost>>
              /\ \A e \in Ent : state'[e] = "NORMAL" <=> state[e] = "NORMAL"
            BY <1>0, <2>4 DEF Sup, TypeOK
        <3> QED BY <3>1, QuietDir DEF Same, Listed, Live, Gone
    <2>5. ASSUME NEW k \in CID, NEW n \in Nick \cup {None},
                 NEW secondary \in BOOLEAN, NEW bandwidth \in BOOLEAN,
                 InfLogin(c, k, n, secondary, bandwidth)
          PROVE  DirStep
        <3>1. /\ Receives(c) /\ state[c] = "IDENTIFY" /\ VerifyINF(c, k, n)
              /\ \A e \in Ent \ {c} : state'[e] = state[e]
            BY <1>0, <2>5 DEF InfLogin, EnterNormal, Normal, TypeOK
        <3>2. state' \in [Ent -> State]
            BY DEF IInv, TypeOK
        <3> QED BY <3>1, <3>2, VerifyDir
    <2>6. ASSUME NEW k \in CID, NEW n \in Nick \cup {None},
                 NEW secondary \in BOOLEAN, InfVerify(c, k, n, secondary)
          PROVE  DirStep
        <3>1. /\ Receives(c) /\ state[c] = "IDENTIFY" /\ VerifyINF(c, k, n)
              /\ \A e \in Ent \ {c} : state'[e] = state[e]
            BY <1>0, <2>6 DEF InfVerify, TypeOK
        <3>2. state' \in [Ent -> State]
            BY DEF IInv, TypeOK
        <3> QED BY <3>1, <3>2, VerifyDir
    <2>7. CASE Pas(c)
        <3>1. /\ UNCHANGED <<life, sid, cid, nick, ghost>>
              /\ state[c] = "VERIFY" /\ Live(c) /\ c \notin ghost
            BY <2>7 DEF Pas, Receives, Live, IInv, GhostsLeave
        <3>2. CASE state' = Normal({c})
            BY <2>0, <3>1, <3>2, EnterDir, {c} \in SUBSET Ent
        <3>3. CASE state' = [state EXCEPT ![c] = "HBRI"]
            BY <1>0, <3>1, <3>3, QuietDir DEF Same, Listed, Live, Gone, TypeOK
        <3> QED BY <2>7, <3>2, <3>3 DEF Pas, EnterNormal
    <2>8. ASSUME NEW n \in Nick \cup {None}, NEW secondary \in BOOLEAN,
                 InfUpdate(c, n, secondary)
          PROVE  DirStep
        BY <2>8, UpdateDir
    <2>13. ASSUME NEW n \in Nick, NEW secondary \in BOOLEAN,
                  InfVerifyNoCid(c, n, secondary)
           PROVE  DirStep
        BY <2>13, VerifyNoCidDir
    <2>14. ASSUME NEW t \in Token, TcpBadState(c, t) PROVE DirStep
        BY <2>14, QuietDir DEF TcpBadState, Same, Listed, Live, Gone
    <2>9. ~InfClearNick(c)
        BY DEF InfClearNick
    <2>10. ASSUME NEW t \in Token,
                  TcpWrongProtocol(c, t) \/ TcpBadIp(c, t) \/ TcpValidated(c, t)
           PROVE  DirStep
        BY <2>10, TcpDir
    <2>11. CASE SocketDisconnect(c)
        BY <2>11, QuietDir DEF SocketDisconnect, entVars, Same, Listed, Live, Gone
    <2>12. CASE SocketError(c)
        BY <2>0, <2>12, DeleteDir DEF SocketError
    <2> QED
        BY <1>1, <2>1, <2>2, <2>3, <2>4, <2>5, <2>6, <2>7, <2>8, <2>9, <2>10,
           <2>11, <2>12, <2>13, <2>14 DEF ClientStep
<1>2. ASSUME NEW b \in Bot, BotStep(b)
      PROVE  DirStep
    <2>0. b \in Ent
        BY <1>0
    <2>1. ASSUME NEW s \in SID, CreateBot(b, s) PROVE DirStep
        <3>1. ~Listed(b) /\ ~Listed(b)'
            BY <1>0, <2>0, <2>1 DEF CreateBot, Blank, Listed, Live
        <3>2. \A e \in Ent : Same(e)
            BY <1>0, <2>1, <3>1 DEF CreateBot, Same, Listed, Live, TypeOK
        <3>3. Gone' = Gone
            BY <1>0, <2>1 DEF CreateBot, Gone, TypeOK
        <3> QED BY <3>2, <3>3, QuietDir
    <2>2. CASE RegBot(b)
        <3>1. /\ UNCHANGED <<life, sid, cid, ghost>>
              /\ nick' = [nick EXCEPT ![b] = BotNick[b]]
              /\ state' = Normal({b})
              /\ life[b] = "open" /\ state[b] = "PROTOCOL"
            BY <2>2 DEF RegBot
        <3>2. b \notin ghost
            BY <3>1 DEF IInv, FirstCid
        <3>3. ~Listed(b) /\ b \notin Gone /\ Listed(b)' /\ Gone' = Gone
            BY <2>0, <3>1, <3>2 DEF Listed, Live, Gone, Normal
        <3>4. \A e \in Ent \ {b} : Same(e)
            BY <1>0, <3>1 DEF Same, Listed, Live, Normal, TypeOK
        <3> QED BY <2>0, <3>3, <3>4, ArriveDir, {b} \in SUBSET Ent
    <2> QED BY <1>2, <2>1, <2>2 DEF BotStep
<1>3. ASSUME NEW e \in Ent, Kick(e)
      PROVE  DirStep
    BY <1>3, QuietDir DEF Kick, entVars, Same, Listed, Live, Gone
<1>4. ASSUME NEW e \in Ent, RunJob(e)
      PROVE  DirStep
    BY <1>4, DeleteDir DEF RunJob
<1>5. ASSUME NEW X \in SUBSET Token, NEW cut \in 0..clock, OnTimerSecond(X, cut)
      PROVE  DirStep
    BY <1>5, TimerDir
<1>6. ASSUME NEW t \in Token, UseStaleToken(t)
      PROVE  DirStep
    BY <1>6, QuietDir DEF UseStaleToken, entVars, Same, Listed, Live, Gone
<1> QED BY <1>1, <1>2, <1>3, <1>4, <1>5, <1>6 DEF Next

\* A step that changes nothing is none of the directory's.
LEMMA StutterDir ==
    ASSUME UNCHANGED vars
    PROVE  DirStep
BY QuietDir DEF vars, entVars, Same, Listed, Live, Gone

----------------------------------------------------------------------------
(* The theorems, for surroundings in which SIDs are fresh, a client being  *)
(* validated keeps its HBRI support and no user's INF has an empty nick.   *)

\* The nick index starts exact and stays so.
LEMMA DirectoryInvariant == WellBehaved /\ ~ClearNick /\ Spec => [](IInv /\ DInv)
<1> SUFFICES ASSUME WellBehaved, ~ClearNick PROVE Spec => [](IInv /\ DInv)
    OBVIOUS
<1>1. Init => IInv /\ DInv
    <2>1. Init => IInv
        BY InitIInv
    <2>2. Init => DInv
        BY ConstantsAssumption
        DEF Init, DInv, NickIndex, NickLookup, NamesKnown, Present, Live, Ent
    <2> QED BY <2>1, <2>2
<1>2. IInv /\ DInv /\ [Next]_vars => (IInv /\ DInv)'
    <2>1. IInv /\ [Next]_vars => IInv'
        BY NextStep, StutterStep
    <2>2. IInv /\ DInv /\ Next => DInv'
        BY NickStep, NamesStep DEF DInv
    <2>3. DInv /\ UNCHANGED vars => DInv'
        BY DEF vars, entVars, indexVars, DInv, NickIndex, NickLookup, NamesKnown,
               Present, Live
    <2> QED BY <2>1, <2>2, <2>3
<1> QED BY <1>1, <1>2, PTL DEF Spec

\* getSID finds every nick in use and nothing else: no two users share one,
\* through logins, takeovers, renames, registrations and deletions.
THEOREM NickIndexExact == WellBehaved /\ ~ClearNick /\ Spec => []NickIndex
<1>1. DInv => NickIndex  BY DEF DInv
<1> QED BY <1>1, DirectoryInvariant, PTL

\* The core implements UserDirectory: identities are unique and stable, a
\* takeover by CID is one step, and whoever has gone never returns.
THEOREM ImplementsDirectory == WellBehaved /\ ~ClearNick /\ Spec => DirectorySpec
<1> SUFFICES ASSUME WellBehaved, ~ClearNick PROVE Spec => DirectorySpec
    OBVIOUS
<1>1. Init => Directory!Init
    BY DEF Init, Directory!Init, Listed, Live
<1>2. (IInv /\ DInv) /\ (IInv /\ DInv)' /\ [Next]_vars =>
        [Directory!Next]_(Directory!dirVars)
    BY StepDir, StutterDir DEF DirStep
<1>3. Spec => [](IInv /\ DInv)
    BY DirectoryInvariant
<1>4. Spec => Directory!Spec
    BY <1>1, <1>2, <1>3, PTL DEF Spec, Directory!Spec
<1> QED BY <1>4 DEF DirectorySpec

----------------------------------------------------------------------------
(* Everybody knows exactly the users.                                      *)

\* Without revalidations, validation is a step of the login: who has been
\* listed, or removed, is not announced again.  removeLogins will take the token
\* when the login ends, unless the client is being disconnected.
LoggingIn == {"HBRI", "VERIFY"}
OnlyLogins ==
    \A t \in Token : \A c \in Client : hbriTokens[t] = c /\ Live(c) =>
        state[c] \in LoggingIn /\ c \in hbriSup \cup closing

RInv == Roster /\ OnlyLogins

----------------------------------------------------------------------------
(* The roster.                                                             *)

\* Nobody is announced and nobody becomes a user.
LEMMA RosterQuiet ==
    ASSUME Roster, UNCHANGED <<entities, view>>,
           \A c \in Client : Listed(c)' => Listed(c)
    PROVE  Roster'
BY DEF Roster, Sids

\* One quits, others enter: those who stay hear of all of it, in this order,
\* and the newcomers get the list that results.
LEMMA RosterRelist ==
    ASSUME IInv, Roster, NEW N \in SUBSET Ent, NEW o \in Ent \cup {None},
           Relist(N, o),
           o # None => Live(o),
           \A e \in N : Live(e),
           \A c \in Client : Listed(c)' => c \in N \/ (Listed(c) /\ c # o)
    PROVE  Roster'
<1> DEFINE ents == EntitiesWithout(o)
           quit == QuitSids(o)
           new  == {sid[e] : e \in N}
<1>1. None \notin Ent /\ Client \subseteq Ent
    BY ConstantsAssumption DEF Ent
<1>2. new \subseteq SID
    BY DEF IInv, Blank
<1>3. \A s \in SID : ents[s] = IF s \in quit THEN None ELSE entities[s]
    BY DEF EntitiesWithout
<1>4. entities' = InsertAll(ents, N) /\ view' = Announce(ents, quit, N)
    BY DEF Relist
<1>5. quit \subseteq IF o = None THEN {} ELSE {sid[o]}
    BY DEF QuitSids
<1> HIDE DEF ents, quit
<1>6. \A s \in SID : entities'[s] # None <=> ents[s] # None \/ s \in new
    BY <1>1, <1>4 DEF InsertAll
<1>7. Sids(ents) = Sids(entities) \ quit
    BY <1>3 DEF Sids
<1>8. Sids(entities)' = Sids(ents) \cup new
    BY <1>2, <1>6 DEF Sids
<1> SUFFICES ASSUME NEW c \in Client, Listed(c)'
             PROVE  view'[c] = Sids(entities)'
    BY DEF Roster
<1>9. CASE c \in N
    BY <1>4, <1>8, <1>9 DEF Announce
<1>10. CASE c \notin N
    <2>1. Listed(c) /\ c # o /\ Live(c)
        BY <1>10 DEF Listed
    <2>2. entities[sid[c]] = c /\ sid[c] \in SID /\ view[c] = Sids(entities)
        BY <1>1, <2>1 DEF IInv, EntityList, SidLookup, Blank, Roster
    <2>3. sid[c] \notin quit
        BY <1>1, <1>5, <2>1 DEF IInv, SidsDistinct
    <2>4. ents[sid[c]] = c
        BY <1>3, <2>2, <2>3
    <2>5. view'[c] = (view[c] \ quit) \cup new
        BY <1>4, <1>10, <2>2, <2>4 DEF Announce
    <2> QED BY <1>7, <1>8, <2>2, <2>5
<1> QED BY <1>9, <1>10

\* A first INF, whatever it leads to.
LEMMA RosterVerify ==
    ASSUME IInv, Roster, NEW c \in Client, NEW k \in CID, NEW n \in Nick \cup {None},
           Receives(c), VerifyINF(c, k, n), NEW N \in SUBSET {c},
           Relist(N, cids[k]),
           \A e \in Ent \ N : state'[e] = "NORMAL" => state[e] = "NORMAL"
    PROVE  Roster'
<1>1. PICK o \in Ent \cup {None} : o = cids[k]
    BY DEF IInv, TypeOK
<1>2. o # None => o \in Ent /\ Live(o)
    BY <1>1 DEF IInv, CidIndex, Present
<1>3. Relist(N, o)
    BY <1>1
<1>4. life' = life /\ ghost' = ghost \cup ({o} \ {None})
    BY <1>1 DEF VerifyINF
<1>5. N \in SUBSET Ent /\ \A e \in N : Live(e)
    BY DEF Ent, Receives, Live
<1>6. \A e \in Client : Listed(e)' => e \in N \/ (Listed(e) /\ e # o)
    <2>1. None \notin Client /\ Client \subseteq Ent
        BY ConstantsAssumption DEF Ent
    <2> QED BY <1>4, <2>1 DEF Listed, Live
<1> QED BY <1>2, <1>3, <1>5, <1>6, RosterRelist

\* Clients that are neither users nor ghosts enter together.
LEMMA RosterEnter ==
    ASSUME IInv, Roster, NEW N \in SUBSET Ent, Relist(N, None),
           UNCHANGED <<life, ghost>>,
           \A e \in Ent \ N : state'[e] = "NORMAL" => state[e] = "NORMAL",
           \A e \in N : Live(e)
    PROVE  Roster'
<1>1. None \notin Client /\ Client \subseteq Ent
    BY ConstantsAssumption DEF Ent
<1>2. \A e \in Client : Listed(e)' => e \in N \/ (Listed(e) /\ e # None)
    BY <1>1 DEF Listed, Live
<1> QED BY <1>2, RosterRelist

LEMMA RosterDelete ==
    ASSUME IInv, Roster, NEW e \in Ent, Live(e), RemoveAndDelete(e)
    PROVE  Roster'
<1>1. PICK o \in Ent \cup {None} : o = IF e \in ghost THEN None ELSE e
    OBVIOUS
<1>2. /\ Relist({}, o)
      /\ life' = [life EXCEPT ![e] = "deleted"] /\ ghost' = ghost \ {e}
      /\ state' = [state EXCEPT ![e] = "PROTOCOL"]
    BY <1>1 DEF RemoveAndDelete, Enlist
<1>3. Client \subseteq Ent /\ None \notin Client
    BY ConstantsAssumption DEF Ent
<1>4. \A c \in Client : Listed(c)' => Listed(c) /\ c # o
    BY <1>1, <1>2, <1>3 DEF Listed, Live, IInv, TypeOK
<1>5. o # None => Live(o)
    BY <1>1
<1> QED BY <1>2, <1>4, <1>5, RosterRelist

\* The client of a token that validates is in HBRI.
LEMMA ValidatingLogin ==
    ASSUME IInv, RInv, NEW t \in Token, Validating(t)
    PROVE  hbriTokens[t] \in Client /\ state[hbriTokens[t]] = "HBRI"
<1> DEFINE m == hbriTokens[t]
<1>1. m \in Client /\ Client \subseteq Ent
    BY DEF Validating, IInv, TypeOK, Ent
<1>2. life[m] \in {"new", "accepted", "open", "deleted"} /\ life[m] # "new"
    BY <1>1 DEF IInv, TypeOK, TokensValid
<1>3. Live(m) /\ state[m] \in {"HBRI", "NORMAL"}
    BY <1>2 DEF Validating, Live
<1>4. state[m] \in LoggingIn
    BY <1>1, <1>3 DEF RInv, OnlyLogins
<1> QED BY <1>1, <1>3, <1>4 DEF LoggingIn

\* The roster is exact after every step, unless users are revalidated.
LEMMA RosterStep ==
    ASSUME IInv, RInv, Next
    PROVE  Roster'
<1>0. /\ TypeOK /\ Blank /\ Roster /\ Client \subseteq Ent /\ Bot \subseteq Ent
      /\ Client \cap Bot = {}
    BY ConstantsAssumption DEF IInv, RInv, Ent
<1>1. ASSUME NEW c \in Client, ClientStep(c)
      PROVE  Roster'
    <2>0. c \in Ent
        BY <1>0
    <2>1. ASSUME NEW s \in SID, Accept(c, s) PROVE Roster'
        <3>1. state[c] = "PROTOCOL"
            BY <1>0, <2>0, <2>1 DEF Accept, Blank, Live
        <3>2. \A e \in Client : Listed(e)' => Listed(e)
            BY <1>0, <2>1, <3>1 DEF Accept, Listed, Live, TypeOK
        <3> QED BY <1>0, <2>1, <3>2, RosterQuiet DEF Accept
    <2>2. CASE AcceptFailed(c)
        <3>1. \A e \in Client : Listed(e)' => Listed(e)
            BY <1>0, <2>2 DEF AcceptFailed, Listed, Live, TypeOK
        <3> QED BY <1>0, <2>2, <3>1, RosterQuiet DEF AcceptFailed, indexVars
    <2>3. CASE Ready(c)
        <3>1. \A e \in Client : Listed(e)' => Listed(e)
            BY <1>0, <2>3 DEF Ready, Listed, Live, TypeOK
        <3> QED BY <1>0, <2>3, <3>1, RosterQuiet DEF Ready, indexVars
    <2>4. ASSUME NEW hbri \in BOOLEAN, NEW ok \in BOOLEAN, Sup(c, hbri, ok)
          PROVE  Roster'
        <3>1. \A e \in Client : Listed(e)' => Listed(e)
            BY <1>0, <2>4 DEF Sup, Listed, Live, TypeOK
        <3> QED BY <1>0, <2>4, <3>1, RosterQuiet DEF Sup, indexVars
    <2>5. ASSUME NEW k \in CID, NEW n \in Nick \cup {None},
                 NEW secondary \in BOOLEAN, NEW bandwidth \in BOOLEAN,
                 InfLogin(c, k, n, secondary, bandwidth)
          PROVE  Roster'
        <3>1. Receives(c) /\ VerifyINF(c, k, n)
            BY <2>5 DEF InfLogin
        <3>2. CASE bandwidth
            <4>1. EnterNormal(c, secondary, cids[k])
                BY <2>5, <3>2 DEF InfLogin
            <4>2. CASE secondary /\ CanValidate(c)
                <5>1. Relist({}, cids[k])
                    BY <4>1, <4>2 DEF EnterNormal, Enlist
                <5>2. \A e \in Ent \ {} : state'[e] = "NORMAL" => state[e] = "NORMAL"
                    BY <1>0, <4>1, <4>2 DEF EnterNormal, TypeOK
                <5> QED BY <1>0, <3>1, <5>1, <5>2, RosterVerify, {} \in SUBSET {c}
            <4>3. CASE ~(secondary /\ CanValidate(c))
                <5>1. Relist({c}, cids[k]) /\ state' = Normal({c})
                    BY <4>1, <4>3 DEF EnterNormal, Enlist
                <5>2. \A e \in Ent \ {c} : state'[e] = "NORMAL" => state[e] = "NORMAL"
                    BY <5>1 DEF Normal
                <5> QED BY <1>0, <3>1, <5>1, <5>2, RosterVerify, {c} \in SUBSET {c}
            <4> QED BY <4>2, <4>3
        <3>3. CASE ~bandwidth
            <4>1. Relist({}, cids[k]) /\ state' = state
                BY <2>5, <3>3 DEF InfLogin, Enlist
            <4> QED BY <1>0, <3>1, <4>1, RosterVerify, {} \in SUBSET {c}
        <3> QED BY <3>2, <3>3
    <2>6. ASSUME NEW k \in CID, NEW n \in Nick \cup {None},
                 NEW secondary \in BOOLEAN, InfVerify(c, k, n, secondary)
          PROVE  Roster'
        <3>1. /\ Receives(c) /\ VerifyINF(c, k, n)
              /\ Relist({}, cids[k])
            BY <2>6 DEF InfVerify, Enlist
        <3>2. \A e \in Ent \ {} : state'[e] = "NORMAL" => state[e] = "NORMAL"
            BY <1>0, <2>6 DEF InfVerify, TypeOK
        <3> QED BY <1>0, <3>1, <3>2, RosterVerify, {} \in SUBSET {c}
    <2>7. CASE Pas(c)
        <3>1. /\ Receives(c) /\ EnterNormal(c, c \in validate, None)
              /\ UNCHANGED <<life, ghost>>
            BY <2>7 DEF Pas
        <3>2. CASE (c \in validate) /\ CanValidate(c)
            <4>1. Relist({}, None)
                BY <3>1, <3>2 DEF EnterNormal, Enlist
            <4>2. \A e \in Ent \ {} : state'[e] = "NORMAL" => state[e] = "NORMAL"
                BY <1>0, <3>1, <3>2 DEF EnterNormal, TypeOK
            <4> QED BY <1>0, <3>1, <4>1, <4>2, RosterEnter, {} \in SUBSET Ent
        <3>3. CASE ~((c \in validate) /\ CanValidate(c))
            <4>1. Relist({c}, None) /\ state' = Normal({c})
                BY <3>1, <3>3 DEF EnterNormal, Enlist
            <4>2. /\ \A e \in Ent \ {c} : state'[e] = "NORMAL" => state[e] = "NORMAL"
                  /\ Live(c)
                BY <3>1, <4>1 DEF Normal, Receives, Live
            <4> QED BY <1>0, <2>0, <3>1, <4>1, <4>2, RosterEnter, {c} \in SUBSET Ent
        <3> QED BY <3>2, <3>3
    <2>8. ASSUME NEW n \in Nick \cup {None}, NEW secondary \in BOOLEAN,
                 InfUpdate(c, n, secondary)
          PROVE  Roster'
        BY <1>0, <2>8, RosterQuiet DEF InfUpdate, Listed, Live
    <2>9. CASE InfClearNick(c)
        BY <1>0, <2>9, RosterQuiet DEF InfClearNick, indexVars, Listed, Live
    <2>16. ASSUME NEW n \in Nick, NEW secondary \in BOOLEAN,
                  InfVerifyNoCid(c, n, secondary)
           PROVE  Roster'
        <3>1. \A e \in Client : Listed(e)' => Listed(e)
            BY <1>0, <2>16 DEF InfVerifyNoCid, Listed, Live, TypeOK
        <3> QED BY <1>0, <2>16, <3>1, RosterQuiet DEF InfVerifyNoCid
    <2>17. ASSUME NEW t \in Token, TcpBadState(c, t) PROVE Roster'
        BY <1>0, <2>17, RosterQuiet DEF TcpBadState, indexVars, Listed, Live
    <2>10. ASSUME NEW t \in Token, Tcp(c, t), NEW N \in SUBSET {c, hbriTokens[t]},
                  Enlist(N, None, Erase(hbriTokens, t)), state' = Normal(N)
           PROVE  Roster'
        <3>2. /\ Relist(N, None) /\ UNCHANGED <<life, ghost>>
              /\ hbriTokens[t] \in Client /\ life[hbriTokens[t]] # "deleted"
              /\ Receives(c)
            BY <1>0, <2>10 DEF Enlist, Tcp, Validating, TypeOK
        <3>3. Live(hbriTokens[t]) /\ Live(c)
            BY <1>0, <3>2 DEF IInv, TokensValid, TypeOK, Live, Receives
        <3>4. /\ N \in SUBSET Ent /\ \A e \in N : Live(e)
              /\ \A e \in Ent \ N : state'[e] = "NORMAL" => state[e] = "NORMAL"
            BY <1>0, <2>10, <3>2, <3>3 DEF Normal
        <3> QED BY <1>0, <3>2, <3>4, RosterEnter
    <2>11. ASSUME NEW t \in Token, TcpWrongProtocol(c, t) PROVE Roster'
        BY <2>10, <2>11 DEF TcpWrongProtocol
    <2>12. ASSUME NEW t \in Token, TcpBadIp(c, t) PROVE Roster'
        BY <2>10, <2>12 DEF TcpBadIp
    <2>13. ASSUME NEW t \in Token, TcpValidated(c, t) PROVE Roster'
        <3>1. state[hbriTokens[t]] = "HBRI" /\ Tcp(c, t)
            BY <1>0, <2>13, ValidatingLogin DEF TcpValidated, Tcp
        <3>2. /\ Enlist({hbriTokens[t]}, None, Erase(hbriTokens, t))
              /\ state' = Normal({hbriTokens[t]})
            BY <2>13, <3>1 DEF TcpValidated
        <3> QED BY <2>10, <3>1, <3>2, {hbriTokens[t]} \in SUBSET {c, hbriTokens[t]}
    <2>14. CASE SocketDisconnect(c)
        BY <1>0, <2>14, RosterQuiet DEF SocketDisconnect, entVars, indexVars, Listed, Live
    <2>15. CASE SocketError(c)
        BY <1>0, <2>0, <2>15, RosterDelete DEF SocketError
    <2> QED
        BY <1>1, <2>1, <2>2, <2>3, <2>4, <2>5, <2>6, <2>7, <2>8, <2>9, <2>11,
           <2>12, <2>13, <2>14, <2>15, <2>16, <2>17 DEF ClientStep
<1>2. ASSUME NEW b \in Bot, BotStep(b)
      PROVE  Roster'
    <2>0. b \in Ent
        BY <1>0
    <2>1. ASSUME NEW s \in SID, CreateBot(b, s) PROVE Roster'
        <3>1. \A e \in Client : Listed(e)' => Listed(e)
            BY <1>0, <2>1 DEF CreateBot, Listed, Live, TypeOK
        <3> QED BY <1>0, <2>1, <3>1, RosterQuiet DEF CreateBot, indexVars
    <2>2. CASE RegBot(b)
        <3>1. /\ Relist({b}, None) /\ state' = Normal({b})
              /\ UNCHANGED <<life, ghost>> /\ life[b] = "open"
            BY <2>2 DEF RegBot, Enlist
        <3>2. /\ \A e \in Ent \ {b} : state'[e] = "NORMAL" => state[e] = "NORMAL"
              /\ Live(b)
            BY <3>1 DEF Normal, Live
        <3> QED BY <1>0, <2>0, <3>1, <3>2, RosterEnter, {b} \in SUBSET Ent
    <2> QED BY <1>2, <2>1, <2>2 DEF BotStep
<1>3. ASSUME NEW e \in Ent, Kick(e)
      PROVE  Roster'
    BY <1>0, <1>3, RosterQuiet DEF Kick, entVars, indexVars, Listed, Live
<1>4. ASSUME NEW e \in Ent, RunJob(e)
      PROVE  Roster'
    BY <1>0, <1>4, RosterDelete DEF RunJob
<1>5. ASSUME NEW X \in SUBSET Token, NEW cut \in 0..clock, OnTimerSecond(X, cut)
      PROVE  Roster'
    <2> DEFINE N == {c \in Client : state[c] = "HBRI"
                                    /\ \E t \in X : hbriTokens[t] = c}
    <2>2. /\ Relist(N, None) /\ state' = Normal(N)
          /\ UNCHANGED <<life, ghost>>
        BY <1>5 DEF OnTimerSecond
    <2>3. N \in SUBSET Ent
        BY <1>0
    <2>4. ASSUME NEW e \in N PROVE Live(e)
        <3>1. PICK t \in X : hbriTokens[t] = e /\ life[e] # "deleted"
            BY <1>5 DEF OnTimerSecond
        <3> QED BY <1>0, <3>1 DEF IInv, TokensValid, TypeOK, Live
    <2> HIDE DEF N
    <2>5. \A e \in Ent \ N : state'[e] = "NORMAL" => state[e] = "NORMAL"
        BY <2>2 DEF Normal
    <2> QED BY <1>0, <2>2, <2>3, <2>4, <2>5, RosterEnter
<1>6. ASSUME NEW t \in Token, UseStaleToken(t)
      PROVE  Roster'
    BY <1>0, <1>6, RosterQuiet DEF UseStaleToken, entVars, indexVars, Listed, Live
<1> QED BY <1>1, <1>2, <1>3, <1>4, <1>5, <1>6 DEF Next

----------------------------------------------------------------------------
(* The tokens.                                                             *)

\* Nobody is given a token, and who keeps one goes on logging in.
LEMMA TokensQuiet ==
    ASSUME RInv,
           \A t \in Token : \A x \in Client : hbriTokens'[t] = x /\ Live(x)' =>
                /\ hbriTokens[t] = x /\ Live(x)
                /\ state[x] \in LoggingIn /\ x \in hbriSup \cup closing =>
                     state'[x] \in LoggingIn /\ x \in hbriSup' \cup closing'
    PROVE  OnlyLogins'
<1>1. ASSUME NEW t \in Token, NEW x \in Client, hbriTokens'[t] = x, Live(x)'
      PROVE  state'[x] \in LoggingIn /\ x \in hbriSup' \cup closing'
    BY <1>1 DEF RInv, OnlyLogins
<1> QED BY <1>1 DEF OnlyLogins, Live

\* The clients in N enter NORMAL and lose their tokens with it.
LEMMA TokensEnter ==
    ASSUME IInv, RInv, NEW N \in SUBSET Ent, NEW o \in Ent \cup {None},
           NEW tokens \in [Token -> Client \cup {None}],
           \A t \in Token : tokens[t] \in {None, hbriTokens[t]},
           hbriTokens' \in TokensWithout(tokens, PendingOf(o) \cup N),
           \A e \in N : state[e] = "HBRI" \/ e \notin closing,
           UNCHANGED <<life, hbriSup>>, closing \subseteq closing',
           state' = Normal(N)
    PROVE  OnlyLogins'
<1>1. None \notin Client /\ Client \subseteq Ent
    BY ConstantsAssumption DEF Ent
<1>2. PICK R \in SUBSET Ent : R = PendingOf(o) \cup N
    BY DEF PendingOf
<1>3. /\ \A t \in Token : hbriTokens'[t] \in {None, tokens[t]}
      /\ \A t \in Token : hbriTokens'[t] # None
                          /\ hbriTokens'[t] \in R \cap hbriSup =>
            \E u \in Token : u # t /\ tokens[u] = hbriTokens'[t]
    <2>1. hbriTokens' \in TokensWithout(tokens, R)
        BY <1>2
    <2> QED BY <2>1, TokensWithoutFacts
<1>4. ASSUME NEW t \in Token, NEW x \in Client, hbriTokens'[t] = x, Live(x)'
      PROVE  /\ hbriTokens[t] = x /\ Live(x)
             /\ state[x] \in LoggingIn /\ x \in hbriSup \cup closing =>
                  state'[x] \in LoggingIn /\ x \in hbriSup' \cup closing'
    <2>1. hbriTokens[t] = x /\ Live(x)
        BY <1>1, <1>3, <1>4 DEF Live
    <2>2. state[x] \in LoggingIn /\ x \in hbriSup \cup closing
        BY <2>1 DEF RInv, OnlyLogins
    <2>3. /\ \A u \in Token : hbriTokens[u] = x => u = t
          /\ state[x] = "HBRI" => x \in hbriSup
        BY <2>1, <2>2 DEF IInv, TokensValid, LoggingIn
    <2>4. ASSUME x \in N PROVE FALSE
        <3>1. x \in R \cap hbriSup
            BY <1>2, <2>2, <2>3, <2>4
        <3>2. PICK u \in Token : u # t /\ tokens[u] = x
            BY <1>1, <1>3, <1>4, <3>1
        <3> QED BY <1>1, <2>3, <3>2
    <2> QED BY <1>1, <2>1, <2>2, <2>4 DEF Normal
<1> QED BY <1>4, TokensQuiet

\* c goes to HBRI with a new token.
LEMMA TokensLogin ==
    ASSUME IInv, RInv, NEW c \in Client, NEW o \in Ent \cup {None}, NEW t \in Token,
           hbriTokens' \in TokensWithout([hbriTokens EXCEPT ![t] = c],
                                        PendingOf(o) \cup {}),
           c \in hbriSup, UNCHANGED <<life, hbriSup>>, closing \subseteq closing',
           state' = [state EXCEPT ![c] = "HBRI"]
    PROVE  OnlyLogins'
<1>1. c \in Ent /\ None \notin Client
    BY ConstantsAssumption DEF Ent
<1>2. PICK m \in [Token -> Client \cup {None}] : m = [hbriTokens EXCEPT ![t] = c]
    BY DEF IInv, TypeOK
<1>3. PICK R \in SUBSET Ent : R = PendingOf(o) \cup {}
    BY DEF PendingOf
<1>4. \A u \in Token : hbriTokens'[u] \in {None, m[u]}
    <2>1. hbriTokens' \in TokensWithout(m, R)
        BY <1>2, <1>3
    <2> QED BY <2>1, TokensWithoutFacts
<1>5. ASSUME NEW u \in Token, NEW x \in Client, hbriTokens'[u] = x, Live(x)'
      PROVE  state'[x] \in LoggingIn /\ x \in hbriSup' \cup closing'
    <2>1. x = c \/ hbriTokens[u] = x
        BY <1>1, <1>2, <1>4, <1>5 DEF IInv, TypeOK
    <2>2. x # c => state[x] \in LoggingIn /\ x \in hbriSup \cup closing
        BY <1>5, <2>1 DEF RInv, OnlyLogins, Live
    <2> QED BY <1>1, <2>2 DEF IInv, TypeOK, LoggingIn
<1> QED BY <1>5 DEF OnlyLogins

\* enterNormal in a handler that has removed o.
LEMMA TokensNormal ==
    ASSUME IInv, RInv, NEW c \in Client, NEW flagged \in BOOLEAN,
           NEW o \in Ent \cup {None}, EnterNormal(c, flagged, o),
           c \notin closing, UNCHANGED <<life, hbriSup>>, closing \subseteq closing'
    PROVE  OnlyLogins'
<1>1. CASE flagged /\ CanValidate(c)
    <2>1. PICK t \in FreeTokens : Enlist({}, o, [hbriTokens EXCEPT ![t] = c])
        BY <1>1 DEF EnterNormal
    <2>2. /\ t \in Token /\ c \in hbriSup
          /\ state' = [state EXCEPT ![c] = "HBRI"]
        BY <1>1 DEF EnterNormal, FreeTokens, CanValidate
    <2> QED BY <2>1, <2>2, TokensLogin DEF Enlist
<1>2. CASE ~(flagged /\ CanValidate(c))
    <2>1. hbriTokens' \in TokensWithout(hbriTokens, PendingOf(o) \cup {c})
          /\ state' = Normal({c}) /\ {c} \in SUBSET Ent
        BY <1>2 DEF EnterNormal, Enlist, Ent
    <2>2. hbriTokens \in [Token -> Client \cup {None}]
        BY DEF IInv, TypeOK
    <2>3. \A e \in {c} : state[e] = "HBRI" \/ e \notin closing
        OBVIOUS
    <2> QED BY <2>1, <2>2, <2>3, TokensEnter
<1> QED BY <1>1, <1>2

\* A removal takes tokens and gives none.
LEMMA TokensFewer ==
    ASSUME IInv, NEW o \in Ent \cup {None},
           hbriTokens' \in TokensWithout(hbriTokens, PendingOf(o) \cup {})
    PROVE  \A t \in Token : \A x \in Client :
                hbriTokens'[t] = x => hbriTokens[t] = x
<1>1. /\ hbriTokens \in [Token -> Client \cup {None}]
      /\ PendingOf(o) \cup {} \in SUBSET Ent
    BY DEF IInv, TypeOK, PendingOf
<1>2. \A t \in Token : hbriTokens'[t] \in {None, hbriTokens[t]}
    BY <1>1, TokensWithoutFacts
<1> QED BY <1>2, ConstantsAssumption DEF Ent

LEMMA OnlyLoginsStep ==
    ASSUME IInv, RInv, ~Revalidate, Next
    PROVE  OnlyLogins'
<1>0. /\ TypeOK /\ Blank /\ RInv /\ Client \subseteq Ent /\ Bot \subseteq Ent
      /\ Client \cap Bot = {} /\ None \notin Client
    BY ConstantsAssumption DEF IInv, Ent
<1>1. ASSUME NEW c \in Client, ClientStep(c)
      PROVE  OnlyLogins'
    <2>0. c \in Ent
        BY <1>0
    <2>1. ASSUME NEW s \in SID, Accept(c, s) PROVE OnlyLogins'
        <3>1. \A t \in Token : hbriTokens[t] # c
            BY <2>1 DEF Accept, IInv, TokensValid
        <3> QED BY <1>0, <2>1, <3>1, TokensQuiet DEF Accept, TypeOK, Live
    <2>2. CASE AcceptFailed(c)
        BY <1>0, <2>2, TokensQuiet DEF AcceptFailed, indexVars, TypeOK, Live
    <2>3. CASE Ready(c)
        BY <1>0, <2>3, TokensQuiet DEF Ready, indexVars, TypeOK, Live
    <2>4. ASSUME NEW hbri \in BOOLEAN, NEW ok \in BOOLEAN, Sup(c, hbri, ok)
          PROVE  OnlyLogins'
        BY <1>0, <2>4, TokensQuiet
        DEF Sup, Disconnect, indexVars, TypeOK, Live, LoggingIn
    <2>5. ASSUME NEW k \in CID, NEW n \in Nick \cup {None},
                 NEW secondary \in BOOLEAN, NEW bandwidth \in BOOLEAN,
                 InfLogin(c, k, n, secondary, bandwidth)
          PROVE  OnlyLogins'
        <3>1. /\ cids[k] \in Ent \cup {None} /\ UNCHANGED <<life, hbriSup>>
              /\ c \notin closing /\ closing \subseteq closing'
            BY <1>0, <2>5 DEF InfLogin, VerifyINF, Receives, Disconnect, TypeOK
        <3>2. CASE bandwidth
            <4>1. EnterNormal(c, secondary, cids[k])
                BY <2>5, <3>2 DEF InfLogin
            <4> QED BY <1>0, <3>1, <4>1, TokensNormal
        <3>3. CASE ~bandwidth
            <4>1. /\ hbriTokens' \in TokensWithout(hbriTokens, PendingOf(cids[k]) \cup {})
                  /\ state' = state
                BY <2>5, <3>3 DEF InfLogin, Enlist
            <4> QED BY <1>0, <3>1, <4>1, TokensFewer, TokensQuiet DEF Live
        <3> QED BY <3>2, <3>3
    <2>6. ASSUME NEW k \in CID, NEW n \in Nick \cup {None},
                 NEW secondary \in BOOLEAN, InfVerify(c, k, n, secondary)
          PROVE  OnlyLogins'
        <3>1. /\ hbriTokens' \in TokensWithout(hbriTokens, PendingOf(cids[k]) \cup {})
              /\ state' = [state EXCEPT ![c] = "VERIFY"]
              /\ UNCHANGED <<life, hbriSup>> /\ closing \subseteq closing'
              /\ cids[k] \in Ent \cup {None}
            BY <1>0, <2>6 DEF InfVerify, VerifyINF, Enlist, Disconnect, TypeOK
        <3>2. \A x \in Client : state[x] \in LoggingIn => state'[x] \in LoggingIn
            BY <1>0, <3>1 DEF TypeOK, LoggingIn
        <3> QED BY <1>0, <3>1, <3>2, TokensFewer, TokensQuiet DEF Live
    <2>7. CASE Pas(c)
        <3>1. /\ c \notin closing /\ UNCHANGED <<life, hbriSup, closing>>
              /\ EnterNormal(c, c \in validate, None)
            BY <2>7 DEF Pas, Receives
        <3>2. (c \in validate) \in BOOLEAN /\ None \in Ent \cup {None}
            OBVIOUS
        <3> QED BY <1>0, <3>1, <3>2, TokensNormal
    <2>16. ASSUME NEW n \in Nick, NEW secondary \in BOOLEAN,
                  InfVerifyNoCid(c, n, secondary)
           PROVE  OnlyLogins'
        BY <1>0, <2>16, TokensQuiet DEF InfVerifyNoCid, TypeOK, Live, LoggingIn
    <2>17. ASSUME NEW t \in Token, TcpBadState(c, t) PROVE OnlyLogins'
        BY <1>0, <2>17, TokensQuiet DEF TcpBadState, Disconnect, indexVars, Live
    <2>8. ASSUME NEW n \in Nick \cup {None}, NEW secondary \in BOOLEAN,
                 InfUpdate(c, n, secondary)
          PROVE  OnlyLogins'
        <3>1. UNCHANGED <<life, state, hbriTokens, hbriSup, closing>>
            BY <2>8 DEF InfUpdate
        <3> QED BY <1>0, <3>1, TokensQuiet DEF Live
    <2>9. CASE InfClearNick(c)
        BY <1>0, <2>9, TokensQuiet DEF InfClearNick, indexVars, Live
    <2>10. ASSUME NEW t \in Token, NEW N \in SUBSET Ent, Tcp(c, t),
                  Enlist(N, None, Erase(hbriTokens, t)), state' = Normal(N),
                  \A e \in N : state[e] = "HBRI"
           PROVE  OnlyLogins'
        <3>1. /\ Erase(hbriTokens, t) \in [Token -> Client \cup {None}]
              /\ \A u \in Token : Erase(hbriTokens, t)[u] \in {None, hbriTokens[u]}
            BY <1>0 DEF Erase, TypeOK
        <3>2. /\ hbriTokens' \in TokensWithout(Erase(hbriTokens, t), PendingOf(None) \cup N)
              /\ UNCHANGED <<life, hbriSup>> /\ closing \subseteq closing'
            BY <2>10 DEF Enlist, Tcp, Disconnect
        <3> QED BY <1>0, <2>10, <3>1, <3>2, TokensEnter
    <2>11. ASSUME NEW t \in Token, TcpWrongProtocol(c, t) PROVE OnlyLogins'
        <3>1. {c} \cap {x \in Client : state[x] = "HBRI"} \in SUBSET Ent
            BY <2>0
        <3> QED BY <2>10, <2>11, <3>1 DEF TcpWrongProtocol
    <2>12. ASSUME NEW t \in Token, TcpBadIp(c, t) PROVE OnlyLogins'
        <3>1. {hbriTokens[t]} \cap {x \in Client : state[x] = "HBRI"} \in SUBSET Ent
            BY <1>0
        <3> QED BY <2>10, <2>12, <3>1 DEF TcpBadIp
    <2>13. ASSUME NEW t \in Token, TcpValidated(c, t) PROVE OnlyLogins'
        <3>1. /\ state[hbriTokens[t]] = "HBRI" /\ Tcp(c, t)
              /\ {hbriTokens[t]} \in SUBSET Ent
            BY <1>0, <2>13, ValidatingLogin DEF TcpValidated, Tcp, Ent
        <3>2. /\ Enlist({hbriTokens[t]}, None, Erase(hbriTokens, t))
              /\ state' = Normal({hbriTokens[t]})
            BY <2>13, <3>1 DEF TcpValidated
        <3> QED BY <2>10, <3>1, <3>2
    <2>14. CASE SocketDisconnect(c)
        BY <1>0, <2>14, TokensQuiet DEF SocketDisconnect, entVars, indexVars, Live
    <2>15. CASE SocketError(c)
        BY <1>0, <2>0, <2>15, TokensFewer, TokensQuiet
        DEF SocketError, RemoveAndDelete, Enlist, TypeOK, Live
    <2> QED
        BY <1>1, <2>1, <2>2, <2>3, <2>4, <2>5, <2>6, <2>7, <2>8, <2>9, <2>11,
           <2>12, <2>13, <2>14, <2>15, <2>16, <2>17 DEF ClientStep
<1>2. ASSUME NEW b \in Bot, BotStep(b)
      PROVE  OnlyLogins'
    <2>0. b \in Ent /\ b \notin Client
        BY <1>0
    <2>1. ASSUME NEW s \in SID, CreateBot(b, s) PROVE OnlyLogins'
        BY <1>0, <2>0, <2>1, TokensQuiet DEF CreateBot, indexVars, TypeOK, Live
    <2>2. CASE RegBot(b)
        <3>1. /\ hbriTokens' \in TokensWithout(hbriTokens, PendingOf(None) \cup {b})
              /\ UNCHANGED <<life, hbriSup, closing>>
              /\ state' = Normal({b}) /\ {b} \in SUBSET Ent
              /\ \A e \in {b} : state[e] = "HBRI" \/ e \notin closing
            BY <2>0, <2>2 DEF RegBot, Enlist
        <3>2. hbriTokens \in [Token -> Client \cup {None}]
            BY <1>0 DEF TypeOK
        <3> QED BY <1>0, <3>1, <3>2, TokensEnter
    <2> QED BY <1>2, <2>1, <2>2 DEF BotStep
<1>3. ASSUME NEW e \in Ent, Kick(e)
      PROVE  OnlyLogins'
    BY <1>0, <1>3, TokensQuiet DEF Kick, Disconnect, entVars, indexVars, Live
<1>4. ASSUME NEW e \in Ent, RunJob(e)
      PROVE  OnlyLogins'
    BY <1>0, <1>4, TokensFewer, TokensQuiet
    DEF RunJob, RemoveAndDelete, Enlist, TypeOK, Live
<1>5. ASSUME NEW X \in SUBSET Token, NEW cut \in 0..clock, OnTimerSecond(X, cut)
      PROVE  OnlyLogins'
    <2> DEFINE N == {c \in Client : state[c] = "HBRI"
                                    /\ \E t \in X : hbriTokens[t] = c}
    <2>1. /\ state' = Normal(N) /\ UNCHANGED <<life, hbriSup>>
          /\ closing \subseteq closing'
          /\ \A t \in X : hbriTokens'[t] = None
          /\ \A t \in Token : hbriTokens'[t] \in {None, hbriTokens[t]}
        BY <1>0, <1>5 DEF OnTimerSecond, Disconnect, Without, TypeOK
    <2>2. ASSUME NEW t \in Token, NEW x \in Client, hbriTokens'[t] = x, Live(x)'
          PROVE  /\ hbriTokens[t] = x /\ Live(x)
                 /\ state[x] \in LoggingIn /\ x \in hbriSup \cup closing =>
                      state'[x] \in LoggingIn /\ x \in hbriSup' \cup closing'
        <3>1. hbriTokens[t] = x /\ Live(x) /\ t \notin X
            BY <1>0, <2>1, <2>2 DEF Live
        <3>2. state[x] # "NORMAL"
            BY <1>0, <3>1 DEF RInv, OnlyLogins, LoggingIn
        <3>3. x \notin N
            BY <3>1, <3>2 DEF IInv, TokensValid
        <3> HIDE DEF N
        <3> QED BY <1>0, <2>1, <3>1, <3>3 DEF Normal
    <2> QED BY <1>0, <2>2, TokensQuiet
<1>6. ASSUME NEW t \in Token, UseStaleToken(t)
      PROVE  OnlyLogins'
    BY <1>0, <1>6, TokensQuiet DEF UseStaleToken, entVars, indexVars, Live
<1> QED BY <1>1, <1>2, <1>3, <1>4, <1>5, <1>6 DEF Next

----------------------------------------------------------------------------
\* Every connected user has been told of exactly the users, by INFs and QUIs
\* that no interleaving of logins, removals, timers and jobs puts in a wrong
\* order, as long as connected users announce no further address.
THEOREM RosterExact == WellBehaved /\ ~Revalidate /\ Spec => []Roster
<1> SUFFICES ASSUME WellBehaved, ~Revalidate PROVE Spec => []Roster
    OBVIOUS
<1>1. Init => RInv
    BY ConstantsAssumption DEF Init, RInv, Roster, OnlyLogins, Listed, Live, Ent
<1>2. IInv /\ RInv /\ [Next]_vars => RInv'
    <2>1. IInv /\ RInv /\ Next => RInv'
        BY RosterStep, OnlyLoginsStep DEF RInv
    <2>2. RInv /\ UNCHANGED vars => RInv'
        BY DEF vars, entVars, indexVars, RInv, Roster, OnlyLogins, Listed, Live, Sids
    <2> QED BY <2>1, <2>2
<1>3. RInv => Roster
    BY DEF RInv
<1>4. Spec => []IInv
    BY Invariant
<1> QED BY <1>1, <1>2, <1>3, <1>4, PTL DEF Spec
====

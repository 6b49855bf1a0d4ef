---------------------------- MODULE AccessProofs ----------------------------
(***************************************************************************)
(* For any connections, keys, tables and levels: the indexes of the         *)
(* registry agree, whatever commands, logins, crashes and loads come, and   *)
(* as long as no write fails the file holds the accounts; together they are *)
(* a store of accounts (AccountStore).                                      *)
(***************************************************************************)
EXTENDS Access, TLAPS

Index2 == [cids : [CID -> Entry], nicks : [Nick -> Entry]]

\* No two tables of the registry are one.
UniqueIds(u) == \A a, b \in Registered(u) : a.id = b.id => a = b

Good(u) == u \in Index2 /\ Agree(u) /\ UniqueIds(u)

\* A set of accounts that can be indexed.
Consistent(S) ==
    /\ S \subseteq Account
    /\ \A a, b \in S :
         a.id = b.id \/ a.nick = b.nick \/ (a.cid = b.cid /\ a.cid # NoCID) => a = b

\* What is on the disk can be indexed.
DiskConsistent == \A f \in {file, tmp} : Loads(f) => Consistent(f.contents)

\* Whichever file would be loaded has the accounts of the last save, until a new
\* save is complete; the other one is no better than it must be.
Backed ==
    ~failed =>
      /\ step \in {"idle", "load", "repair"} =>
            Stored({}) = Registered(users) /\ committed = Registered(users)
      /\ step \in {"idle", "save", "backup", "write", "writing"} => Stored({}) = committed
      /\ step \in {"idle", "save", "backup"} => Loads(file) \/ ~Loads(tmp)
      /\ step = "repair" => ~Loads(file) /\ Loads(tmp)
      /\ step = "write" /\ Loads(file) => Loads(tmp) /\ tmp.contents = committed
      /\ step = "writing" => ~Loads(file)
      /\ step = "saved" => Loads(file) /\ file.contents = Registered(users)
      /\ step # "error"
      /\ step = "down" => Stored({}) \in {committed, Registered(users)}

IInv == TypeOK /\ Good(users) /\ DiskConsistent /\ Backed

----------------------------------------------------------------------------
(* The indexes.                                                              *)

\* The missing account is told from the others.
LEMMA NoUserApart == NoUser \notin Account /\ NoUser.id = 0 /\ \A a \in Account : a.id \in Table /\ a.id # 0
BY AccessAssumption DEF NoUser, Account

\* The accounts registered are accounts.
LEMMA RegisteredTyped ==
    ASSUME NEW u \in Index2
    PROVE  /\ Registered(u) \subseteq Account
           /\ \A x \in CID : u.cids[x] = NoUser \/ u.cids[x] \in Registered(u)
           /\ \A n \in Nick : u.nicks[n] = NoUser \/ u.nicks[n] \in Registered(u)
BY DEF Index2, Entry, Registered

\* In indexes that agree every account is under its keys.
LEMMA UnderKeys ==
    ASSUME NEW u \in Index2, Agree(u), NEW a \in Registered(u)
    PROVE  /\ a \in Account /\ a # NoUser
           /\ u.nicks[a.nick] = a
           /\ a.cid # NoCID => a.cid \in CID /\ u.cids[a.cid] = a
<1>1. a \in Account /\ a # NoUser
    BY RegisteredTyped, NoUserApart
<1>2. a.nick \in Nick /\ a.cid \in CID \cup {NoCID}
    BY <1>1 DEF Account
<1>3. CASE \E x \in CID : u.cids[x] = a
    BY <1>1, <1>2, <1>3 DEF Agree
<1>4. CASE \E n \in Nick : u.nicks[n] = a
    BY <1>1, <1>2, <1>4 DEF Agree
<1> QED
    BY <1>3, <1>4 DEF Registered

\* Conversely.
LEMMA Registers ==
    ASSUME NEW u \in Index2, Agree(u), NEW a \in Account
    PROVE  a \in Registered(u) <=> u.nicks[a.nick] = a
<1>1. a.nick \in Nick /\ a # NoUser
    BY NoUserApart DEF Account
<1> QED
    BY <1>1, UnderKeys DEF Registered

\* What is registered can be saved and indexed again.
LEMMA RegisteredConsistent ==
    ASSUME NEW u, Good(u)
    PROVE  Consistent(Registered(u))
<1>1. u \in Index2 /\ Agree(u) /\ UniqueIds(u)
    BY DEF Good
<1>2. Registered(u) \subseteq Account
    BY <1>1, RegisteredTyped
<1>3. ASSUME NEW a \in Registered(u), NEW b \in Registered(u),
             a.nick = b.nick \/ (a.cid = b.cid /\ a.cid # NoCID)
      PROVE  a = b
    BY <1>1, <1>3, UnderKeys
<1> QED
    BY <1>1, <1>2, <1>3 DEF Consistent, UniqueIds

\* load_users: indexing a consistent list registers exactly its accounts.
LEMMA IndexGood ==
    ASSUME NEW S, Consistent(S)
    PROVE  Good(Index(S)) /\ Registered(Index(S)) = S
<1> DEFINE u == Index(S)
<1>1. S \subseteq Account
    BY DEF Consistent
<1>2. ASSUME NEW x \in CID
      PROVE  IF \E a \in S : a.cid = x
             THEN u.cids[x] \in S /\ u.cids[x].cid = x /\ \A a \in S : a.cid = x => a = u.cids[x]
             ELSE u.cids[x] = NoUser
    BY <1>1, AccessAssumption DEF Index, Consistent
<1>3. ASSUME NEW n \in Nick
      PROVE  IF \E a \in S : a.nick = n
             THEN u.nicks[n] \in S /\ u.nicks[n].nick = n /\ \A a \in S : a.nick = n => a = u.nicks[n]
             ELSE u.nicks[n] = NoUser
    BY <1>1 DEF Index, Consistent
<1>4. \A a \in S : a # NoUser /\ a.nick \in Nick /\ a.cid \in CID \cup {NoCID}
    BY <1>1, NoUserApart DEF Account
<1>5. u \in Index2
  <2>1. u = [cids |-> u.cids, nicks |-> u.nicks] /\ DOMAIN u.cids = CID /\ DOMAIN u.nicks = Nick
        /\ u.cids = [x \in CID |-> u.cids[x]] /\ u.nicks = [n \in Nick |-> u.nicks[n]]
      BY DEF Index
  <2>2. (\A x \in CID : u.cids[x] \in Entry) /\ \A n \in Nick : u.nicks[n] \in Entry
      BY <1>1, <1>2, <1>3 DEF Entry
  <2> HIDE DEF u
  <2> QED
      BY <2>1, <2>2 DEF Index2
<1>6. Agree(u)
  <2> HIDE DEF u
  <2> QED
      BY <1>2, <1>3, <1>4 DEF Agree
<1>7. Registered(u) = S
  <2> HIDE DEF u
  <2> QED
      BY <1>2, <1>3, <1>4 DEF Registered
<1>8. UniqueIds(u)
    BY <1>7 DEF UniqueIds, Consistent
<1> QED
    BY <1>5, <1>6, <1>7, <1>8 DEF Good

\* unregister_user: the indexes still agree, and both keys are free.
LEMMA UnregisterGood ==
    ASSUME NEW u, Good(u), NEW cid \in CID \cup {NoCID}, NEW nick \in Nick
    PROVE  LET r == Unregister(u, cid, nick) IN
           /\ Good(r)
           /\ Registered(r) \subseteq Registered(u)
           /\ r.nicks[nick] = NoUser /\ (cid \in CID => r.cids[cid] = NoUser)
           /\ \A a \in Registered(r) : a.nick # nick /\ (cid \in CID => a.cid # cid)
<1> DEFINE r == Unregister(u, cid, nick)
<1>1. u \in Index2 /\ Agree(u) /\ UniqueIds(u)
    BY DEF Good
<1>2. ASSUME NEW n \in Nick
      PROVE  r.nicks[n] = IF n = nick \/ (cid \in CID /\ u.nicks[n] # NoUser /\ u.nicks[n].cid = cid)
                          THEN NoUser ELSE u.nicks[n]
    BY DEF Unregister
<1>3. ASSUME NEW x \in CID
      PROVE  r.cids[x] = IF x = cid \/ (u.cids[x] # NoUser /\ u.cids[x].nick = nick)
                         THEN NoUser ELSE u.cids[x]
    BY DEF Unregister
<1>4. r \in Index2
  <2>1. r = [nicks |-> r.nicks, cids |-> r.cids]
        /\ r.cids = [x \in CID |-> r.cids[x]] /\ r.nicks = [n \in Nick |-> r.nicks[n]]
      BY DEF Unregister
  <2>2. (\A x \in CID : r.cids[x] \in Entry) /\ \A n \in Nick : r.nicks[n] \in Entry
      BY <1>1, <1>2, <1>3 DEF Entry, Index2
  <2> HIDE DEF r
  <2> QED
      BY <2>1, <2>2 DEF Index2
<1> HIDE DEF r
<1>5. \A x \in CID : r.cids[x] # NoUser => r.cids[x] = u.cids[x] /\ x # cid /\ u.cids[x].nick # nick
    BY <1>3
<1>6. \A n \in Nick : r.nicks[n] # NoUser =>
            r.nicks[n] = u.nicks[n] /\ n # nick /\ (cid \in CID => u.nicks[n].cid # cid)
    BY <1>2
<1>7. Registered(r) \subseteq Registered(u)
    BY <1>5, <1>6 DEF Registered
<1>8. \A x \in CID : u.cids[x] # NoUser =>
         u.cids[x].nick \in Nick /\ u.cids[x].cid = x /\ u.nicks[u.cids[x].nick] = u.cids[x]
    BY <1>1, UnderKeys, RegisteredTyped DEF Agree, Account
<1>9. \A n \in Nick : u.nicks[n] # NoUser =>
         /\ u.nicks[n].nick = n
         /\ u.nicks[n].cid # NoCID => u.nicks[n].cid \in CID /\ u.cids[u.nicks[n].cid] = u.nicks[n]
    BY <1>1, UnderKeys, RegisteredTyped DEF Agree
<1>10. Agree(r)
  <2>1. ASSUME NEW x \in CID, r.cids[x] # NoUser
        PROVE  r.cids[x].cid = x /\ r.nicks[r.cids[x].nick] = r.cids[x]
      BY <2>1, <1>2, <1>5, <1>8
  <2>2. ASSUME NEW n \in Nick, r.nicks[n] # NoUser
        PROVE  r.nicks[n].nick = n /\ (r.nicks[n].cid # NoCID => r.cids[r.nicks[n].cid] = r.nicks[n])
      BY <2>2, <1>3, <1>6, <1>9
  <2> QED
      BY <2>1, <2>2 DEF Agree
<1>11. UniqueIds(r)
    BY <1>1, <1>7 DEF UniqueIds
<1>12. ASSUME NEW a \in Registered(r)
       PROVE  a.nick # nick /\ (cid \in CID => a.cid # cid)
  <2>1. CASE \E x \in CID : r.cids[x] = a /\ a # NoUser
      BY <2>1, <1>5, <1>8
  <2>2. CASE \E n \in Nick : r.nicks[n] = a /\ a # NoUser
      BY <2>2, <1>6, <1>9
  <2> QED
      BY <2>1, <2>2 DEF Registered
<1>13. r.nicks[nick] = NoUser /\ (cid \in CID => r.cids[cid] = NoUser)
    BY <1>2, <1>3
<1> QED
    BY <1>4, <1>7, <1>10, <1>11, <1>12, <1>13 DEF Good, r

\* What an assignment leaves in each entry.
LEMMA PutEntries ==
    ASSUME NEW u \in Index2, NEW a \in Account
    PROVE  /\ Put(u, a) \in Index2
           /\ \A x \in CID : Put(u, a).cids[x] = IF x = a.cid \/ u.cids[x].id = a.id THEN a ELSE u.cids[x]
           /\ \A n \in Nick : Put(u, a).nicks[n] = IF n = a.nick \/ u.nicks[n].id = a.id THEN a ELSE u.nicks[n]
<1> DEFINE p == Put(u, a)
<1>1. /\ \A x \in CID : p.cids[x] = IF x = a.cid \/ u.cids[x].id = a.id THEN a ELSE u.cids[x]
      /\ \A n \in Nick : p.nicks[n] = IF n = a.nick \/ u.nicks[n].id = a.id THEN a ELSE u.nicks[n]
    BY DEF Put
<1>2. p = [cids |-> p.cids, nicks |-> p.nicks]
      /\ p.cids = [x \in CID |-> p.cids[x]] /\ p.nicks = [n \in Nick |-> p.nicks[n]]
    BY DEF Put
<1>3. (\A x \in CID : p.cids[x] \in Entry) /\ \A n \in Nick : p.nicks[n] \in Entry
    BY <1>1 DEF Entry, Index2
<1> HIDE DEF p
<1>4. p \in Index2
    BY <1>2, <1>3 DEF Index2
<1> QED
    BY <1>1, <1>4 DEF p

\* An account that is nowhere yet, put under keys that are free.
LEMMA PutFree ==
    ASSUME NEW u, Good(u), NEW a \in Account,
           \A b \in Registered(u) : b.id # a.id,
           u.nicks[a.nick] = NoUser, a.cid \in CID => u.cids[a.cid] = NoUser
    PROVE  Good(Put(u, a)) /\ Put(u, a).nicks[a.nick] = a /\ (a.cid \in CID => Put(u, a).cids[a.cid] = a)
<1> DEFINE p == Put(u, a)
<1>1. u \in Index2 /\ Agree(u) /\ UniqueIds(u)
    BY DEF Good
<1>2. a.nick \in Nick /\ a.cid \in CID \cup {NoCID} /\ a # NoUser /\ a.id # 0
    BY NoUserApart DEF Account
<1>3. \A b \in Registered(u) : b.id # a.id
    OBVIOUS
<1>4. (\A x \in CID : u.cids[x].id # a.id) /\ \A n \in Nick : u.nicks[n].id # a.id
    BY <1>1, <1>2, <1>3, RegisteredTyped, NoUserApart
<1>5. p \in Index2
      /\ (\A x \in CID : p.cids[x] = IF x = a.cid THEN a ELSE u.cids[x])
      /\ \A n \in Nick : p.nicks[n] = IF n = a.nick THEN a ELSE u.nicks[n]
    BY <1>1, <1>4, PutEntries
<1> HIDE DEF p
<1>6. \A x \in CID : u.cids[x] # NoUser =>
         u.cids[x].nick \in Nick /\ u.cids[x].cid = x /\ u.nicks[u.cids[x].nick] = u.cids[x]
    BY <1>1, UnderKeys, RegisteredTyped DEF Agree, Account
<1>7. \A n \in Nick : u.nicks[n] # NoUser =>
         /\ u.nicks[n].nick = n
         /\ u.nicks[n].cid # NoCID => u.nicks[n].cid \in CID /\ u.cids[u.nicks[n].cid] = u.nicks[n]
    BY <1>1, UnderKeys, RegisteredTyped DEF Agree
<1>8. Agree(p)
  <2>1. ASSUME NEW x \in CID, p.cids[x] # NoUser
        PROVE  p.cids[x].cid = x /\ p.nicks[p.cids[x].nick] = p.cids[x]
      BY <2>1, <1>2, <1>5, <1>6
  <2>2. ASSUME NEW n \in Nick, p.nicks[n] # NoUser
        PROVE  p.nicks[n].nick = n /\ (p.nicks[n].cid # NoCID => p.cids[p.nicks[n].cid] = p.nicks[n])
      BY <2>2, <1>2, <1>5, <1>7
  <2> QED
      BY <2>1, <2>2 DEF Agree
<1>9. Registered(p) \subseteq Registered(u) \cup {a}
    BY <1>5 DEF Registered
<1>10. UniqueIds(p)
    BY <1>1, <1>3, <1>9 DEF UniqueIds
<1> QED
    BY <1>2, <1>5, <1>8, <1>10 DEF Good, p

\* A change of an account that leaves its keys alone.
LEMMA PutSame ==
    ASSUME NEW u, Good(u), NEW b \in Registered(u), NEW a \in Account,
           a.id = b.id, a.nick = b.nick, a.cid = b.cid
    PROVE  Good(Put(u, a)) /\ Put(u, a).nicks[a.nick] = a /\ (a.cid \in CID => Put(u, a).cids[a.cid] = a)
<1> DEFINE p == Put(u, a)
<1>1. u \in Index2 /\ Agree(u) /\ UniqueIds(u)
    BY DEF Good
<1>2. a.nick \in Nick /\ a.cid \in CID \cup {NoCID} /\ a # NoUser /\ a.id # 0
    BY NoUserApart DEF Account
<1>3. \A c \in Registered(u) : c.id = a.id => c = b
    BY <1>1 DEF UniqueIds
<1>4. u.nicks[a.nick] = b /\ (a.cid \in CID => u.cids[a.cid] = b) /\ b # NoUser
    BY <1>1, <1>2, UnderKeys, AccessAssumption
<1>6. \A x \in CID : u.cids[x] # NoUser =>
         /\ u.cids[x] \in Registered(u)
         /\ u.cids[x].nick \in Nick /\ u.cids[x].cid = x /\ u.nicks[u.cids[x].nick] = u.cids[x]
    BY <1>1, UnderKeys, RegisteredTyped DEF Agree, Account
<1>7. \A n \in Nick : u.nicks[n] # NoUser =>
         /\ u.nicks[n] \in Registered(u)
         /\ u.nicks[n].nick = n
         /\ u.nicks[n].cid # NoCID => u.nicks[n].cid \in CID /\ u.cids[u.nicks[n].cid] = u.nicks[n]
    BY <1>1, UnderKeys, RegisteredTyped DEF Agree
<1>5. p \in Index2
      /\ (\A x \in CID : p.cids[x] = IF x = a.cid THEN a ELSE u.cids[x])
      /\ \A n \in Nick : p.nicks[n] = IF n = a.nick THEN a ELSE u.nicks[n]
  <2>1. \A x \in CID : u.cids[x].id = a.id => x = a.cid
      BY <1>2, <1>3, <1>6, NoUserApart
  <2>2. \A n \in Nick : u.nicks[n].id = a.id => n = a.nick
      BY <1>2, <1>3, <1>7, NoUserApart
  <2> QED
      BY <1>1, <2>1, <2>2, PutEntries
<1> HIDE DEF p
<1>8. Agree(p)
  <2>1. ASSUME NEW x \in CID, p.cids[x] # NoUser
        PROVE  p.cids[x].cid = x /\ p.nicks[p.cids[x].nick] = p.cids[x]
      BY <2>1, <1>2, <1>4, <1>5, <1>6
  <2>2. ASSUME NEW n \in Nick, p.nicks[n] # NoUser
        PROVE  p.nicks[n].nick = n /\ (p.nicks[n].cid # NoCID => p.cids[p.nicks[n].cid] = p.nicks[n])
      BY <2>2, <1>2, <1>4, <1>5, <1>7
  <2> QED
      BY <2>1, <2>2 DEF Agree
<1>9. Registered(p) \subseteq (Registered(u) \ {b}) \cup {a}
  <2>1. ASSUME NEW x \in CID, p.cids[x] # NoUser, p.cids[x] # a
        PROVE  p.cids[x] \in Registered(u) \ {b}
      BY <2>1, <1>2, <1>4, <1>5, <1>6, NoUserApart
  <2>2. ASSUME NEW n \in Nick, p.nicks[n] # NoUser, p.nicks[n] # a
        PROVE  p.nicks[n] \in Registered(u) \ {b}
      BY <2>2, <1>2, <1>4, <1>5, <1>7
  <2> QED
      BY <2>1, <2>2 DEF Registered
<1>10. UniqueIds(p)
    BY <1>1, <1>3, <1>9 DEF UniqueIds
<1> QED
    BY <1>2, <1>5, <1>8, <1>10 DEF Good, p

\* An account assigned to its own keys changes nothing.
LEMMA PutItself ==
    ASSUME NEW u, Good(u), NEW a \in Registered(u)
    PROVE  Put(u, a) = u
<1> DEFINE p == Put(u, a)
<1>1. u \in Index2 /\ Agree(u) /\ UniqueIds(u)
    BY DEF Good
<1>2. a \in Account /\ a.nick \in Nick /\ a.cid \in CID \cup {NoCID} /\ a.id # 0
      /\ u.nicks[a.nick] = a /\ (a.cid \in CID => u.cids[a.cid] = a)
    BY <1>1, UnderKeys, NoUserApart, AccessAssumption DEF Account
<1>3. /\ \A x \in CID : u.cids[x].id = a.id => u.cids[x] = a
      /\ \A n \in Nick : u.nicks[n].id = a.id => u.nicks[n] = a
    BY <1>1, <1>2, RegisteredTyped, NoUserApart DEF UniqueIds
<1>4. p \in Index2 /\ (\A x \in CID : p.cids[x] = u.cids[x]) /\ \A n \in Nick : p.nicks[n] = u.nicks[n]
    BY <1>1, <1>2, <1>3, PutEntries
<1> HIDE DEF p
<1>5. p.cids = u.cids /\ p.nicks = u.nicks
    BY <1>1, <1>4 DEF Index2
<1>6. p = u
    BY <1>1, <1>4, <1>5 DEF Index2
<1> QED
    BY <1>6 DEF p

\* get_user: how the account found has to do with the keys it was asked for.
LEMMA GetUserFinds ==
    ASSUME Good(users), NEW cid \in CID \cup {NoCID}, NEW nick \in Nick
    PROVE  LET a == GetUser(cid, nick) IN
           IF a = NoUser
           THEN users.nicks[nick] = NoUser /\ (cid \in CID => users.cids[cid] = NoUser)
           ELSE /\ a \in Registered(users) /\ a \in Account
                /\ a.nick # nick => cid \in CID /\ a.cid = cid
                /\ a.cid # cid /\ cid \in CID => users.cids[cid] = NoUser
<1>1. users \in Index2 /\ Agree(users)
    BY DEF Good
<1> DEFINE a == GetUser(cid, nick)
<1>2. a = users.nicks[nick] \/ (cid \in CID /\ a = users.cids[cid])
    BY DEF GetUser
<1>3. a # NoUser => a \in Registered(users) /\ a \in Account
    BY <1>1, <1>2, RegisteredTyped
<1>4. cid \in CID /\ users.cids[cid] # NoUser => a = users.cids[cid] /\ a.cid = cid
    BY <1>1 DEF GetUser, Agree
<1>5. ~(cid \in CID /\ users.cids[cid] # NoUser) => a = users.nicks[nick] /\ (a # NoUser => a.nick = nick)
    BY <1>1 DEF GetUser, Agree
<1> HIDE DEF a
<1>6. IF a = NoUser
      THEN users.nicks[nick] = NoUser /\ (cid \in CID => users.cids[cid] = NoUser)
      ELSE /\ a \in Registered(users) /\ a \in Account
           /\ a.nick # nick => cid \in CID /\ a.cid = cid
           /\ a.cid # cid /\ cid \in CID => users.cids[cid] = NoUser
    BY <1>3, <1>4, <1>5
<1> QED
    BY <1>6 DEF a

\* make_user gives a table of its own.
LEMMA NewUserFresh ==
    ASSUME NEW u, Unused(u) # {}, NEW cid \in CID \cup {NoCID}, NEW nick \in Nick,
           NEW level \in 1 .. MaxLevel
    PROVE  LET a == NewUser(u, cid, nick, level) IN
           /\ a \in Account /\ a.cid = cid /\ a.nick = nick
           /\ \A b \in Registered(u) : b.id # a.id
<1>1. (CHOOSE t \in Unused(u) : TRUE) \in Unused(u)
    OBVIOUS
<1> QED
    BY <1>1 DEF NewUser, Unused, Account

\* update_user: the account is under the CID and the nick that were used.
LEMMA UpdateFound ==
    ASSUME Good(users), NEW cid \in CID, NEW nick \in Nick, NEW a \in Registered(users),
           a.nick # nick => a.cid = cid,
           a.cid # cid => users.cids[cid] = NoUser,
           NEW p, p = UpdateUser(a, cid, nick)
    PROVE  Good(p) /\ p.cids[cid] # NoUser /\ p.nicks[nick] = p.cids[cid]
<1>1. users \in Index2 /\ Agree(users) /\ UniqueIds(users)
    BY DEF Good
<1>2. /\ a \in Account /\ a # NoUser /\ a.nick \in Nick /\ a.cid \in CID \cup {NoCID} /\ cid # NoCID
      /\ users.nicks[a.nick] = a /\ (a.cid \in CID => users.cids[a.cid] = a)
    BY <1>1, UnderKeys, AccessAssumption DEF Account
<1>3. CASE a.nick # nick
  <2> DEFINE r == Unregister(users, cid, nick)
             b == [a EXCEPT !.nick = nick]
  <2>0. a.cid = cid
      BY <1>3
  <2>1. b \in Account /\ b.nick = nick /\ b.cid = cid /\ b.id = a.id /\ b # NoUser
      BY <1>2, <2>0, NoUserApart DEF Account
  <2>2. /\ Good(r) /\ Registered(r) \subseteq Registered(users)
        /\ r.nicks[nick] = NoUser /\ r.cids[cid] = NoUser
        /\ \A c \in Registered(r) : c.cid # cid
      BY UnregisterGood
  <2>4. p = Put(r, b)
      BY <1>3, <2>0 DEF UpdateUser
  <2> HIDE DEF r, b
  <2>3. \A c \in Registered(r) : c.id # b.id
      BY <1>1, <2>0, <2>1, <2>2 DEF UniqueIds
  <2>5. Good(p) /\ p.nicks[nick] = b /\ p.cids[cid] = b
      BY <2>1, <2>2, <2>3, <2>4, PutFree
  <2> QED
      BY <2>1, <2>5
<1>4. CASE a.nick = nick /\ a.cid # cid
  <2> DEFINE r == Unregister(users, cid, nick)
             b == [a EXCEPT !.cid = cid]
  <2>1. b \in Account /\ b.nick = nick /\ b.cid = cid /\ b.id = a.id /\ b # NoUser
      BY <1>2, <1>4, NoUserApart DEF Account
  <2>2. /\ Good(r) /\ Registered(r) \subseteq Registered(users)
        /\ r.nicks[nick] = NoUser /\ r.cids[cid] = NoUser
        /\ \A c \in Registered(r) : c.nick # nick
      BY UnregisterGood
  <2>4. p = Put(r, b)
      BY <1>4 DEF UpdateUser
  <2> HIDE DEF r, b
  <2>3. \A c \in Registered(r) : c.id # b.id
      BY <1>1, <1>4, <2>1, <2>2 DEF UniqueIds
  <2>5. Good(p) /\ p.nicks[nick] = b /\ p.cids[cid] = b
      BY <2>1, <2>2, <2>3, <2>4, PutFree
  <2> QED
      BY <2>1, <2>5
<1>5. CASE a.nick = nick /\ a.cid = cid
  <2>1. p = users
      BY <1>5, PutItself DEF UpdateUser
  <2> QED
      BY <1>2, <1>5, <2>1
<1> QED
    BY <1>3, <1>4, <1>5

\* update_user for the account that get_user finds.
LEMMA UpdateGood ==
    ASSUME Good(users), NEW cid \in CID, NEW nick \in Nick,
           GetUser(cid, nick) # NoUser,
           NEW p, p = UpdateUser(GetUser(cid, nick), cid, nick)
    PROVE  Good(p) /\ p.cids[cid] # NoUser /\ p.nicks[nick] = p.cids[cid]
<1>1. /\ GetUser(cid, nick) \in Registered(users)
      /\ GetUser(cid, nick).nick # nick => GetUser(cid, nick).cid = cid
      /\ GetUser(cid, nick).cid # cid => users.cids[cid] = NoUser
    BY GetUserFinds
<1> QED
    BY <1>1, UpdateFound

----------------------------------------------------------------------------
(* Steps.                                                                    *)

\* A step that leaves accounts and files alone.
LEMMA QuietStep ==
    ASSUME IInv, UNCHANGED <<users, committed, aio>>,
           clients' \in [Client -> Conn], saved' \in BOOLEAN, changes' \in 0 .. MaxChanges
    PROVE  IInv'
BY DEF IInv, TypeOK, DiskConsistent, Backed, aio, Stored, Loads

\* A handler that changes accounts and begins to save them.
LEMMA ChangeStep ==
    ASSUME IInv, step = "idle", Good(users'), SaveUsers, committed' = committed,
           clients' \in [Client -> Conn], changes' \in 0 .. MaxChanges
    PROVE  IInv'
<1>1. users' \in [cids : [CID -> Entry], nicks : [Nick -> Entry]]
    BY DEF Good, Index2
<1>2. UNCHANGED <<file, tmp, failed, saved, committed>> /\ step' = "save"
    BY DEF SaveUsers
<1>3. TypeOK'
    BY <1>1, <1>2 DEF IInv, TypeOK
<1>4. Backed' /\ DiskConsistent'
    BY <1>2 DEF IInv, Backed, DiskConsistent, Stored, Loads
<1> QED
    BY <1>3, <1>4 DEF IInv

\* Counting a change stays within the bound.
LEMMA ChangesTyped ==
    ASSUME TypeOK, Changes
    PROVE  changes' \in 0 .. MaxChanges
BY AccessAssumption DEF TypeOK, Changes

\* A connection that is online.
LEMMA ConnTyped ==
    ASSUME TypeOK, NEW c \in Client, Online(c)
    PROVE  /\ clients[c].cid \in CID /\ clients[c].nick \in Nick
           /\ clients[c].salt \in BOOLEAN /\ clients[c].state \in {"VERIFY", "NORMAL"}
           /\ \A st \in {"VERIFY", "NORMAL"} : [clients[c] EXCEPT !.state = st] \in Conn
           /\ \A n \in Nick : [clients[c] EXCEPT !.nick = n] \in Conn
           /\ \A n \in Nick : [clients[c] EXCEPT !.nick = n, !.salt = TRUE] \in Conn
           /\ [clients[c] EXCEPT !.salt = FALSE] \in Conn
<1>1. clients[c] \in [state : {"VERIFY", "NORMAL"}, cid : CID, nick : Nick, salt : BOOLEAN]
    BY DEF TypeOK, Conn, Online, Offline
<1> QED
    BY <1>1 DEF Conn

\* A login touches no account and no file.
LEMMA LoginStep ==
    ASSUME IInv, NEW c \in Client, NEW cid \in CID, NEW nick \in Nick, Login(c, cid, nick)
    PROVE  IInv'
<1>1. TypeOK /\ Offline \in Conn
    BY DEF IInv, Conn
<1>2. \A d \in Client : clients[d] \in Conn
    BY <1>1 DEF TypeOK
<1> DEFINE asks == GetUser(cid, nick) # NoUser
           me == [state |-> IF asks THEN "VERIFY" ELSE "NORMAL", cid |-> cid, nick |-> nick, salt |-> asks]
<1>3. me \in Conn
    BY DEF Conn
<1>4. clients' \in [Client -> Conn]
  <2> HIDE DEF me
  <2>1. PICK g : clients' = [d \in Client |-> IF d = c THEN me ELSE IF d \in g THEN Offline ELSE clients[d]]
      BY DEF Login, me
  <2> QED
      BY <1>1, <1>2, <1>3, <2>1
<1>5. UNCHANGED <<users, committed, aio, changes>> /\ saved' \in BOOLEAN
    BY <1>1 DEF Login, Leaves, TypeOK
<1> QED
    BY <1>1, <1>4, <1>5, QuietStep DEF TypeOK

\* Nor does an INF before the SUP.
LEMMA LoginNoCidStep ==
    ASSUME IInv, NEW c \in Client, NEW cid \in CID, NEW nick \in Nick, LoginNoCid(c, cid, nick)
    PROVE  IInv'
<1>1. TypeOK
    BY DEF IInv
<1> DEFINE me == [state |-> "VERIFY", cid |-> cid, nick |-> nick, salt |-> TRUE]
<1>2. me \in Conn
    BY DEF Conn
<1>3. clients' = [clients EXCEPT ![c] = me]
    BY DEF LoginNoCid
<1>4. clients' \in [Client -> Conn]
  <2> HIDE DEF me
  <2> QED
      BY <1>1, <1>2, <1>3 DEF TypeOK
<1> QED
    BY <1>1, <1>4, QuietStep DEF LoginNoCid, NoSave, TypeOK

\* Nor does an INF sent again.
LEMMA RenameStep ==
    ASSUME IInv, NEW c \in Client, NEW nick \in Nick, Rename(c, nick)
    PROVE  IInv'
<1>1. TypeOK /\ Online(c) /\ Offline \in Conn
    BY DEF IInv, Rename, Conn
<1>2. clients' \in [Client -> Conn]
    BY <1>1, ConnTyped DEF Rename, TypeOK
<1> QED
    BY <1>1, <1>2, QuietStep DEF Rename, NoSave, TypeOK

\* Nor does a disconnect.
LEMMA DisconnectStep ==
    ASSUME IInv, NEW c \in Client, Disconnect(c)
    PROVE  IInv'
<1>1. TypeOK /\ Offline \in Conn
    BY DEF IInv, Conn
<1>2. clients' \in [Client -> Conn] /\ saved' \in BOOLEAN
    BY <1>1 DEF Disconnect, Leaves, TypeOK
<1> QED
    BY <1>1, <1>2, QuietStep DEF Disconnect, TypeOK

\* onPAS keeps the invariant, and whoever it lets in owns the account.
LEMMA PasStep ==
    ASSUME IInv, NEW c \in Client, NEW good \in BOOLEAN, Pas(c, good)
    PROVE  /\ IInv'
           /\ clients'[c].state = "NORMAL" =>
                users'.cids[clients[c].cid] # NoUser
                /\ users'.nicks[clients[c].nick] = users'.cids[clients[c].cid]
<1> DEFINE me == clients[c]
           a  == GetUser(me.cid, me.nick)
<1>1. TypeOK /\ Online(c) /\ Offline \in Conn /\ Good(users) /\ step = "idle"
    BY DEF IInv, Pas, Conn, In, Online
<1>2. me.cid \in CID /\ me.nick \in Nick
    BY <1>1, ConnTyped
<1>3. CASE ~me.salt \/ a = NoUser \/ ~good \/ Refuses(a, me.cid, me.nick)
  <2>1. clients' = [clients EXCEPT ![c] = Offline] /\ UNCHANGED <<users, changes, committed, aio, saved>>
      BY <1>3 DEF Pas, NoSave
  <2>2. clients' \in [Client -> Conn] /\ clients'[c].state # "NORMAL"
      BY <1>1, <2>1 DEF TypeOK, Offline
  <2> QED
      BY <1>1, <2>1, <2>2, QuietStep DEF TypeOK
<1>4. CASE ~(~me.salt \/ a = NoUser \/ ~good \/ Refuses(a, me.cid, me.nick))
  <2>1. /\ clients' = [clients EXCEPT ![c].state = "NORMAL"]
        /\ users' = UpdateUser(a, me.cid, me.nick)
        /\ committed' = committed
        /\ IF a.nick # me.nick \/ a.cid # me.cid
           THEN Changes /\ SaveUsers
           ELSE saved' = FALSE /\ UNCHANGED <<aio, changes>>
      BY <1>4 DEF Pas
  <2>2. clients' \in [Client -> Conn]
      BY <1>1, <2>1, ConnTyped DEF TypeOK
  <2>3. Good(users') /\ users'.cids[me.cid] # NoUser /\ users'.nicks[me.nick] = users'.cids[me.cid]
      BY <1>1, <1>2, <1>4, <2>1, UpdateGood
  <2>4. CASE a.nick # me.nick \/ a.cid # me.cid
      BY <1>1, <2>1, <2>2, <2>3, <2>4, ChangesTyped, ChangeStep
  <2>5. CASE a.nick = me.nick /\ a.cid = me.cid
    <3>1. users' = users
        BY <1>1, <1>2, <1>4, <2>1, <2>5, GetUserFinds, PutItself DEF UpdateUser
    <3> QED
        BY <1>1, <2>1, <2>2, <2>3, <2>5, <3>1, QuietStep DEF TypeOK
  <2> QED
      BY <2>3, <2>4, <2>5
<1> QED
    BY <1>3, <1>4

\* +mypass changes or adds one account.
LEMMA MyPassStep ==
    ASSUME IInv, NEW c \in Client, MyPass(c)
    PROVE  IInv'
<1> DEFINE me == clients[c]
           a  == GetUser(me.cid, me.nick)
<1>1. TypeOK /\ Online(c) /\ Good(users) /\ step = "idle" /\ Changes /\ SaveUsers
      /\ UNCHANGED <<clients, committed>>
    BY DEF IInv, MyPass, In, Online
<1>2. me.cid \in CID /\ me.nick \in Nick
    BY <1>1, ConnTyped
<1>3. Good(users')
  <2>1. CASE a # NoUser /\ users' = Put(users, [a EXCEPT !.password = 1 - @])
    <3>1. a \in Registered(users) /\ a \in Account
        BY <1>1, <1>2, <2>1, GetUserFinds
    <3> HIDE DEF a
    <3> DEFINE b == [a EXCEPT !.password = 1 - @]
    <3>2. b \in Account /\ b.id = a.id /\ b.nick = a.nick /\ b.cid = a.cid
        BY <3>1 DEF Account
    <3> HIDE DEF b
    <3>3. Good(Put(users, b))
        BY <1>1, <3>1, <3>2, PutSame
    <3> QED
        BY <2>1, <3>3 DEF b
  <2>2. CASE a = NoUser /\ Unused(users) # {} /\ users' = Put(users, NewUser(users, me.cid, me.nick, 1))
    <3> DEFINE b == NewUser(users, me.cid, me.nick, 1)
    <3>1. users.nicks[me.nick] = NoUser /\ users.cids[me.cid] = NoUser
        BY <1>1, <1>2, <2>2, GetUserFinds
    <3>2. /\ b \in Account /\ b.cid = me.cid /\ b.nick = me.nick
          /\ \A d \in Registered(users) : d.id # b.id
        BY <1>2, <2>2, NewUserFresh, AccessAssumption
    <3> HIDE DEF b
    <3>3. Good(Put(users, b))
        BY <1>1, <1>2, <3>1, <3>2, PutFree
    <3> QED
        BY <2>2, <3>3 DEF b
  <2> QED
      BY <2>1, <2>2 DEF MyPass
<1> QED
    BY <1>1, <1>3, ChangesTyped, ChangeStep DEF TypeOK

\* +regnick makes room before it adds an account.
LEMMA RegNickStep ==
    ASSUME IInv, NEW nick \in Nick, NEW ulevel \in 2 .. MaxLevel + 1,
           NEW level \in 0 .. MaxLevel, RegNick(nick, ulevel, level)
    PROVE  IInv'
<1>1. TypeOK /\ Good(users) /\ step = "idle" /\ Changes /\ SaveUsers
      /\ UNCHANGED <<clients, committed>>
    BY DEF IInv, RegNick
<1>2. PICK cid \in CID \cup {NoCID} :
         LET rest == Unregister(users, cid, nick) IN
         \/ /\ 1 <= level /\ Unused(rest) # {}
            /\ users' = Put(rest, NewUser(rest, cid, nick, level))
         \/ users' = rest
  <2>1. \A d \in Holder(nick) : clients[d].cid \in CID
      BY <1>1, ConnTyped DEF Holder
  <2> QED
      BY <2>1 DEF RegNick
<1> DEFINE rest == Unregister(users, cid, nick)
           b == NewUser(rest, cid, nick, level)
<1>3. Good(rest) /\ rest.nicks[nick] = NoUser /\ (cid \in CID => rest.cids[cid] = NoUser)
    BY <1>1, UnregisterGood
<1>4. Good(users')
  <2>1. CASE 1 <= level /\ Unused(rest) # {} /\ users' = Put(rest, b)
    <3>1. level \in 1 .. MaxLevel
        BY <2>1, AccessAssumption
    <3> HIDE DEF rest
    <3>2. /\ b \in Account /\ b.cid = cid /\ b.nick = nick
          /\ \A d \in Registered(rest) : d.id # b.id
        BY <2>1, <3>1, NewUserFresh
    <3> HIDE DEF b
    <3> QED
        BY <1>3, <2>1, <3>2, PutFree
  <2> QED
      BY <1>2, <1>3, <2>1
<1> QED
    BY <1>1, <1>4, ChangesTyped, ChangeStep DEF TypeOK

----------------------------------------------------------------------------
(* Saves, loads and crashes.                                                 *)

\* What is on the disk, and what a load would take of it.
LEMMA StoredTyped ==
    ASSUME IInv
    PROVE  /\ Consistent({}) /\ Consistent(Stored({}))
           /\ Stored({}) \subseteq Account
<1>1. Consistent({})
    BY DEF Consistent
<1>2. Consistent(Stored({}))
    BY <1>1 DEF IInv, DiskConsistent, Stored
<1> QED
    BY <1>1, <1>2 DEF Consistent

\* Each step of save_file.
LEMMA SaveStepSafe ==
    ASSUME IInv, SaveStep
    PROVE  IInv'
<1>1. TypeOK /\ Good(users) /\ DiskConsistent /\ Backed
      /\ UNCHANGED <<users, saved, clients, committed, changes>>
    BY DEF IInv, SaveStep
<1>2. Good(users)' /\ Registered(users)' = Registered(users)
    BY <1>1
<1>3. Empty \in OnDisk /\ Torn \in OnDisk /\ ~Loads(Empty) /\ ~Loads(Torn)
    BY DEF OnDisk, Loads, Empty, Torn
<1>4. CASE SaveBackup
  <2>1. TypeOK'
      BY <1>1, <1>3, <1>4 DEF TypeOK, SaveBackup
  <2>2. DiskConsistent'
      BY <1>1, <1>3, <1>4 DEF DiskConsistent, SaveBackup
  <2>3. Backed'
      BY <1>1, <1>2, <1>3, <1>4 DEF Backed, SaveBackup, Stored, Loads, Readable
  <2> QED
      BY <1>2, <2>1, <2>2, <2>3 DEF IInv
<1>5. CASE SaveBackupDone
  <2>1. TypeOK'
      BY <1>1, <1>5 DEF TypeOK, SaveBackupDone
  <2>2. DiskConsistent'
      BY <1>1, <1>5 DEF DiskConsistent, SaveBackupDone
  <2>3. Backed'
      BY <1>1, <1>2, <1>5 DEF Backed, SaveBackupDone, Stored, TypeOK
  <2> QED
      BY <1>2, <2>1, <2>2, <2>3 DEF IInv
<1>6. CASE SaveWrite
  <2>1. TypeOK'
      BY <1>1, <1>3, <1>6 DEF TypeOK, SaveWrite
  <2>2. DiskConsistent'
      BY <1>1, <1>3, <1>6 DEF DiskConsistent, SaveWrite
  <2>3. Backed'
      BY <1>1, <1>2, <1>3, <1>6 DEF Backed, SaveWrite, Stored, TypeOK
  <2> QED
      BY <1>2, <2>1, <2>2, <2>3 DEF IInv
<1>7. CASE SaveDone(Registered(users))
  <2> DEFINE new == Full(Registered(users))
  <2>1. Consistent(Registered(users)) /\ Registered(users) \subseteq Account
      BY <1>1, RegisteredConsistent DEF Consistent
  <2>2. new \in OnDisk /\ Loads(new) /\ new.contents = Registered(users)
      BY <2>1 DEF OnDisk, Loads, Full
  <2>3. /\ step = "writing" /\ step' = "saved" /\ tmp' = tmp
        /\ \/ file' = new /\ failed' = failed
           \/ file' = file /\ failed' = TRUE
      BY <1>7 DEF SaveDone
  <2> HIDE DEF new
  <2>4. TypeOK'
      BY <1>1, <2>2, <2>3 DEF TypeOK
  <2>5. DiskConsistent'
      BY <1>1, <2>1, <2>2, <2>3 DEF DiskConsistent
  <2>6. Backed'
      BY <1>1, <1>2, <2>2, <2>3 DEF Backed, Stored, TypeOK
  <2> QED
      BY <1>2, <2>4, <2>5, <2>6 DEF IInv
<1> QED
    BY <1>4, <1>5, <1>6, <1>7 DEF SaveStep

\* save_users returns: the accounts are those of the last save.
LEMMA SaveReturnsSafe ==
    ASSUME IInv, SaveReturns
    PROVE  IInv'
<1>1. /\ TypeOK /\ Good(users) /\ DiskConsistent /\ Backed
      /\ UNCHANGED <<users, clients, changes, file, tmp, failed>>
      /\ step \in {"saved", "error"} /\ step' = "idle"
      /\ committed' = Registered(users) /\ saved' \in BOOLEAN
    BY DEF IInv, SaveReturns, TypeOK
<1>2. Good(users)' /\ Registered(users)' = Registered(users) /\ Registered(users) \subseteq Account
    BY <1>1, RegisteredTyped DEF Good
<1>3. TypeOK'
    BY <1>1, <1>2 DEF TypeOK
<1>4. DiskConsistent'
    BY <1>1 DEF DiskConsistent
<1>5. Backed'
    BY <1>1, <1>2 DEF Backed, Stored
<1> QED
    BY <1>2, <1>3, <1>4, <1>5 DEF IInv

\* The save on the timer.
LEMMA MaybeSaveSafe ==
    ASSUME IInv, MaybeSave
    PROVE  IInv'
BY ChangeStep DEF MaybeSave, IInv, TypeOK

\* A load registers the accounts it finds.
LEMMA LoadSafe ==
    ASSUME IInv, LoadUsers, clients' \in [Client -> Conn], changes' = changes
    PROVE  IInv'
<1>1. /\ users' = Index(Stored({})) /\ committed' = Stored({}) /\ saved' = TRUE
      /\ step' = "load" /\ UNCHANGED <<file, tmp, failed>>
      /\ TypeOK /\ DiskConsistent
    BY DEF IInv, LoadUsers
<1>2. Good(users') /\ Registered(users') = Stored({}) /\ Stored({}) \subseteq Account
    BY <1>1, StoredTyped, IndexGood
<1>3. TypeOK'
    BY <1>1, <1>2 DEF TypeOK, Good, Index2
<1>4. DiskConsistent'
    BY <1>1 DEF DiskConsistent
<1>5. Stored({})' = Stored({}) /\ Registered(users)' = Registered(users')
    BY <1>1 DEF Stored
<1>6. Backed'
    BY <1>1, <1>2, <1>5 DEF Backed
<1> QED
    BY <1>2, <1>3, <1>4, <1>6 DEF IInv

\* A reload takes the accounts from the file.
LEMMA ReloadSafe ==
    ASSUME IInv, Reload
    PROVE  IInv'
<1>1. TypeOK /\ Offline \in Conn
    BY DEF IInv, Conn
<1>2. clients' \in [Client -> Conn]
    BY <1>1, ConnTyped DEF Reload
<1> QED
    BY <1>2, LoadSafe DEF Reload

\* So does the start of the program.
LEMMA RestartSafe ==
    ASSUME IInv, Restart
    PROVE  IInv'
BY LoadSafe DEF Restart, IInv, TypeOK

\* Each step of the repair of the file.
LEMMA LoadStepSafe ==
    ASSUME IInv, LoadStep
    PROVE  IInv'
<1>1. TypeOK /\ Good(users) /\ DiskConsistent /\ Backed
      /\ UNCHANGED <<users, saved, clients, committed, changes>>
    BY DEF IInv, LoadStep
<1>2. Good(users)' /\ Registered(users)' = Registered(users)
    BY <1>1
<1>3. Empty \in OnDisk /\ Torn \in OnDisk /\ ~Loads(Empty) /\ ~Loads(Torn)
    BY DEF OnDisk, Loads, Empty, Torn
<1>4. CASE RepairWrite
  <2>1. TypeOK'
      BY <1>1, <1>3, <1>4 DEF TypeOK, RepairWrite
  <2>2. DiskConsistent'
      BY <1>1, <1>3, <1>4 DEF DiskConsistent, RepairWrite
  <2>3. Backed'
      BY <1>1, <1>2, <1>3, <1>4 DEF Backed, RepairWrite, Stored
  <2> QED
      BY <1>2, <2>1, <2>2, <2>3 DEF IInv
<1>5. CASE RepairDone
  <2>1. TypeOK'
      BY <1>1, <1>5 DEF TypeOK, RepairDone
  <2>2. DiskConsistent'
      BY <1>1, <1>5 DEF DiskConsistent, RepairDone
  <2>3. Backed'
      BY <1>1, <1>2, <1>5 DEF Backed, RepairDone, Stored, TypeOK
  <2> QED
      BY <1>2, <2>1, <2>2, <2>3 DEF IInv
<1> QED
    BY <1>4, <1>5 DEF LoadStep

\* A crash loses nothing of the files.
LEMMA CrashSafe ==
    ASSUME IInv, Crash
    PROVE  IInv'
<1>1. /\ TypeOK /\ Good(users) /\ DiskConsistent /\ Backed
      /\ UNCHANGED <<users, saved, committed, changes, file, tmp, failed>>
      /\ step # "down" /\ step' = "down"
      /\ clients' \in [Client -> Conn]
    BY DEF IInv, Crash, Conn
<1>2. Good(users)' /\ Registered(users)' = Registered(users)
    BY <1>1
<1>3. TypeOK'
    BY <1>1 DEF TypeOK
<1>4. DiskConsistent'
    BY <1>1 DEF DiskConsistent
<1>5. Backed'
    BY <1>1, <1>2 DEF Backed, Stored, TypeOK
<1> QED
    BY <1>2, <1>3, <1>4, <1>5 DEF IInv

----------------------------------------------------------------------------
(* The theorems.                                                             *)

\* The invariant holds at first ...
LEMMA InitSafe == Init => IInv
<1> SUFFICES ASSUME Init PROVE IInv
    OBVIOUS
<1>1. /\ users = NoUsers /\ saved = TRUE /\ committed = {} /\ changes = 0
      /\ clients = [c \in Client |-> Offline]
      /\ file = Absent /\ tmp = Absent /\ step = "idle" /\ failed = FALSE
    BY DEF Init, AioInit
<1>2. Index({}) = NoUsers
    BY DEF Index, NoUsers
<1>3. Good(users) /\ Registered(users) = {}
    BY <1>1, <1>2, IndexGood DEF Consistent
<1>4. TypeOK
  <2>1. users \in [cids : [CID -> Entry], nicks : [Nick -> Entry]]
      BY <1>3 DEF Good, Index2
  <2>2. clients \in [Client -> Conn] /\ changes \in 0 .. MaxChanges /\ committed \subseteq Account
      BY <1>1, AccessAssumption DEF Conn
  <2>3. file \in OnDisk /\ tmp \in OnDisk
      BY <1>1 DEF OnDisk
  <2> QED
      BY <1>1, <2>1, <2>2, <2>3 DEF TypeOK
<1>5. ~Loads(file) /\ ~Loads(tmp)
    BY <1>1 DEF Loads, Absent
<1> QED
    BY <1>1, <1>3, <1>4, <1>5 DEF IInv, DiskConsistent, Backed, Stored

\* ... and every step keeps it.
LEMMA NextSafe == IInv /\ [Next]_vars => IInv'
<1> SUFFICES ASSUME IInv, [Next]_vars PROVE IInv'
    OBVIOUS
<1>1. CASE SaveStep \/ SaveReturns \/ MaybeSave
    BY <1>1, SaveStepSafe, SaveReturnsSafe, MaybeSaveSafe
<1>2. ASSUME NEW c \in Client, NEW cid \in CID, NEW nick \in Nick, Login(c, cid, nick)
      PROVE  IInv'
    BY <1>2, LoginStep
<1>3. ASSUME NEW c \in Client, NEW nick \in Nick, Rename(c, nick)
      PROVE  IInv'
    BY <1>3, RenameStep
<1>4. ASSUME NEW c \in Client, NEW good \in BOOLEAN, Pas(c, good)
      PROVE  IInv'
    BY <1>4, PasStep
<1>5. ASSUME NEW c \in Client, Disconnect(c) \/ MyPass(c)
      PROVE  IInv'
    BY <1>5, DisconnectStep, MyPassStep
<1>6. ASSUME NEW nick \in Nick, NEW ulevel \in 2 .. MaxLevel + 1, NEW level \in 0 .. MaxLevel,
             RegNick(nick, ulevel, level)
      PROVE  IInv'
    BY <1>6, RegNickStep
<1>7. CASE Reload \/ LoadStep \/ Crash \/ Restart
    BY <1>7, ReloadSafe, LoadStepSafe, CrashSafe, RestartSafe
<1>8. CASE UNCHANGED vars
    BY <1>8, QuietStep DEF vars, IInv, TypeOK
<1>9. ASSUME NEW c \in Client, NEW cid \in CID, NEW nick \in Nick, LoginNoCid(c, cid, nick)
      PROVE  IInv'
    BY <1>9, LoginNoCidStep
<1> QED
    BY <1>1, <1>2, <1>3, <1>4, <1>5, <1>6, <1>7, <1>8, <1>9 DEF Next

\* The inductive invariant: the type, the agreement of the indexes with unique
\* identities, files that can be indexed, and a backup whenever the file is
\* being written (access.lua and aio.lua, every handler and every step of a save).
THEOREM Invariant == Spec => []IInv
<1> QED
    BY InitSafe, NextSafe, PTL DEF Spec

\* Type correctness of the registry, the connections and the files.
THEOREM TypeCorrect == Spec => []TypeOK
<1>1. IInv => TypeOK
    BY DEF IInv
<1> QED
    BY <1>1, Invariant, PTL

\* For any number of users and keys the two indexes always agree: update_user,
\* register_user, unregister_user and load_users leave no entry that the other
\* index contradicts.
THEOREM OneRegistry == Spec => []IndexesAgree
<1>1. IInv => IndexesAgree
    BY DEF IInv, Good, IndexesAgree
<1> QED
    BY <1>1, Invariant, PTL

\* Wherever the program dies in a save or in the repair of a file, the next
\* start has the accounts, as long as no write has failed.
THEOREM CrashSafety == Spec => []Persisted
<1>1. IInv => Persisted
    BY DEF IInv, TypeOK, Backed, Persisted, Stored
<1> QED
    BY <1>1, Invariant, PTL

\* onPAS: whoever gets in by a password has one account, under the keys he came
\* with, whatever became of it since the salt was sent.
THEOREM PasOwns == Spec => PasOwnsAccount
<1> DEFINE Owns == \A c \in Client :
             clients[c].state = "VERIFY" /\ clients'[c].state = "NORMAL" =>
               LET a == users'.cids[clients[c].cid]
               IN  a # NoUser /\ a = users'.nicks[clients[c].nick]
<1>1. IInv /\ [Next]_vars => Owns
  <2> SUFFICES ASSUME IInv, [Next]_vars, NEW c \in Client,
                      clients[c].state = "VERIFY", clients'[c].state = "NORMAL"
               PROVE  /\ users'.cids[clients[c].cid] # NoUser
                      /\ users'.cids[clients[c].cid] = users'.nicks[clients[c].nick]
      OBVIOUS
  <2>0. clients \in [Client -> Conn] /\ Online(c) /\ Offline.state = "offline"
      BY DEF IInv, TypeOK, Online, Offline
  <2>1. ASSUME NEW good \in BOOLEAN, Pas(c, good)
        PROVE  /\ users'.cids[clients[c].cid] # NoUser
               /\ users'.cids[clients[c].cid] = users'.nicks[clients[c].nick]
      BY <2>1, PasStep
  <2>2. ASSUME NEW d \in Client, d # c, NEW good \in BOOLEAN, Pas(d, good)
        PROVE  FALSE
      BY <2>0, <2>2 DEF Pas
  <2>3. ASSUME NEW d \in Client, NEW cid \in CID, NEW nick \in Nick, Login(d, cid, nick)
        PROVE  FALSE
    <3>1. PICK me, g : clients' = [e \in Client |-> IF e = d THEN me ELSE IF e \in g THEN Offline ELSE clients[e]]
        BY <2>3 DEF Login
    <3>2. c # d
        BY <2>0, <2>3 DEF Login
    <3> QED
        BY <2>0, <3>1, <3>2
  <2>4. ASSUME NEW d \in Client, NEW nick \in Nick, Rename(d, nick)
        PROVE  FALSE
      BY <2>0, <2>4 DEF Rename, Conn
  <2>5. ASSUME NEW d \in Client, Disconnect(d) \/ MyPass(d)
        PROVE  FALSE
      BY <2>0, <2>5 DEF Disconnect, MyPass
  <2>6. ~(\/ \E nick \in Nick, ulevel \in 2 .. MaxLevel + 1, level \in 0 .. MaxLevel : RegNick(nick, ulevel, level)
          \/ SaveStep \/ SaveReturns \/ MaybeSave \/ LoadStep \/ UNCHANGED vars)
      BY DEF RegNick, SaveStep, SaveReturns, MaybeSave, LoadStep, vars
  <2>7. ~(Reload \/ Crash \/ Restart)
    <3>1. [clients[c] EXCEPT !.salt = FALSE].state = "VERIFY"
        BY <2>0 DEF Conn
    <3>2. ~Reload
        BY <2>0, <3>1 DEF Reload
    <3> QED
        BY <2>0, <3>2 DEF Crash, Restart
  <2>8. ASSUME NEW d \in Client, NEW cid \in CID, NEW nick \in Nick, LoginNoCid(d, cid, nick)
        PROVE  FALSE
    <3>1. c # d
        BY <2>0, <2>8 DEF LoginNoCid
    <3>2. clients'[c] = clients[c]
        BY <2>0, <2>8, <3>1 DEF LoginNoCid
    <3> QED
        BY <3>2
  <2> QED
      BY <2>1, <2>2, <2>3, <2>4, <2>5, <2>6, <2>7, <2>8 DEF Next
<1> QED
    BY <1>1, Invariant, PTL DEF Spec, PasOwnsAccount

----------------------------------------------------------------------------
(* The registry is a store of accounts.                                      *)

\* A step of the store, or none.
StoreStep == [Store!Next]_(Store!storeVars)

\* What the store makes of accounts when one is written, and of keys.
NamedIn(S, cid, nick) == {a \in S : a.nick = nick \/ (a.cid = cid /\ cid # NoCID)}
WrittenTo(S, a) == {b \in S \ NamedIn(S, a.cid, a.nick) : b.id # a.id} \cup {a}

\* unregister_user takes exactly the accounts under either key.
LEMMA UnregisterExact ==
    ASSUME NEW u, Good(u), NEW cid \in CID \cup {NoCID}, NEW nick \in Nick
    PROVE  Registered(Unregister(u, cid, nick)) = Registered(u) \ NamedIn(Registered(u), cid, nick)
<1> DEFINE r == Unregister(u, cid, nick)
<1>1. u \in Index2 /\ Agree(u)
    BY DEF Good
<1>2. \A n \in Nick :
         r.nicks[n] = IF n = nick \/ (cid \in CID /\ u.nicks[n] # NoUser /\ u.nicks[n].cid = cid)
                      THEN NoUser ELSE u.nicks[n]
    BY DEF Unregister
<1>3. /\ Registered(r) \subseteq Registered(u)
      /\ \A a \in Registered(r) : a.nick # nick /\ (cid \in CID => a.cid # cid)
    BY UnregisterGood
<1> HIDE DEF r
<1>4. ASSUME NEW a \in Registered(u), a \notin NamedIn(Registered(u), cid, nick)
      PROVE  a \in Registered(r)
  <2>1. a.nick \in Nick /\ u.nicks[a.nick] = a /\ a # NoUser
      BY <1>1, UnderKeys DEF Account
  <2>2. a.nick # nick /\ (cid # NoCID => a.cid # cid)
      BY <1>4 DEF NamedIn
  <2>3. r.nicks[a.nick] = a
      BY <1>2, <2>1, <2>2, AccessAssumption
  <2> QED
      BY <2>1, <2>3 DEF Registered
<1>5. ASSUME NEW a \in Registered(r)
      PROVE  a \notin NamedIn(Registered(u), cid, nick)
    BY <1>3 DEF NamedIn
<1> QED
    BY <1>3, <1>4, <1>5 DEF r

\* An assignment under both keys, when it keeps the indexes good, writes the account.
LEMMA PutExact ==
    ASSUME NEW u, Good(u), NEW a \in Account, Good(Put(u, a))
    PROVE  Registered(Put(u, a)) = WrittenTo(Registered(u), a)
<1> DEFINE p == Put(u, a)
<1>1. u \in Index2 /\ Agree(u) /\ p \in Index2 /\ Agree(p)
    BY DEF Good
<1>2. /\ \A x \in CID : p.cids[x] = IF x = a.cid \/ u.cids[x].id = a.id THEN a ELSE u.cids[x]
      /\ \A n \in Nick : p.nicks[n] = IF n = a.nick \/ u.nicks[n].id = a.id THEN a ELSE u.nicks[n]
    BY <1>1, PutEntries
<1> HIDE DEF p
<1>3. a.nick \in Nick /\ a.cid \in CID \cup {NoCID} /\ a # NoUser
    BY NoUserApart DEF Account
<1>4. a \in Registered(p)
    BY <1>2, <1>3 DEF Registered
<1>5. ASSUME NEW c \in Registered(p), c # a
      PROVE  c \in Registered(u) /\ c.id # a.id /\ c \notin NamedIn(Registered(u), a.cid, a.nick)
  <2>1. c.nick \in Nick /\ p.nicks[c.nick] = c /\ c # NoUser
        /\ (c.cid # NoCID => c.cid \in CID /\ p.cids[c.cid] = c)
      BY <1>1, UnderKeys DEF Account
  <2>2. c.nick # a.nick /\ u.nicks[c.nick] = c /\ c.id # a.id
      BY <1>2, <1>5, <2>1
  <2>3. ~(c.cid = a.cid /\ a.cid # NoCID)
      BY <1>2, <1>5, <2>1
  <2> QED
      BY <2>1, <2>2, <2>3 DEF Registered, NamedIn
<1>6. ASSUME NEW c \in Registered(u), c.id # a.id, c \notin NamedIn(Registered(u), a.cid, a.nick)
      PROVE  c \in Registered(p)
  <2>1. c.nick \in Nick /\ u.nicks[c.nick] = c /\ c # NoUser /\ c.nick # a.nick
      BY <1>1, <1>6, UnderKeys DEF NamedIn, Account
  <2>2. p.nicks[c.nick] = c
      BY <1>2, <1>6, <2>1
  <2> QED
      BY <2>1, <2>2 DEF Registered
<1> QED
    BY <1>4, <1>5, <1>6 DEF WrittenTo, p

\* Making room first makes no difference.
LEMMA PutAfterUnregister ==
    ASSUME NEW u, Good(u), NEW a \in Account,
           Good(Put(Unregister(u, a.cid, a.nick), a))
    PROVE  Registered(Put(Unregister(u, a.cid, a.nick), a)) = WrittenTo(Registered(u), a)
<1>1. a.cid \in CID \cup {NoCID} /\ a.nick \in Nick
    BY DEF Account
<1>2. PICK r : r = Unregister(u, a.cid, a.nick)
    OBVIOUS
<1>3. Good(r) /\ Registered(r) = Registered(u) \ NamedIn(Registered(u), a.cid, a.nick)
    BY <1>1, <1>2, UnregisterGood, UnregisterExact
<1>4. Registered(Put(r, a)) = WrittenTo(Registered(r), a)
    BY <1>2, <1>3, PutExact
<1>5. WrittenTo(Registered(r), a) = WrittenTo(Registered(u), a)
    BY <1>3 DEF WrittenTo, NamedIn
<1> QED
    BY <1>2, <1>4, <1>5

\* update_user writes the account it was called for, under the keys that were used.
LEMMA UpdateWrites ==
    ASSUME Good(users), NEW cid \in CID, NEW nick \in Nick, NEW a \in Registered(users),
           a.nick # nick => a.cid = cid,
           NEW p, p = UpdateUser(a, cid, nick), Good(p)
    PROVE  \E b \in Account : Registered(p) = WrittenTo(Registered(users), b)
<1>1. a \in Account
    BY UnderKeys DEF Good
<1>2. CASE a.nick # nick
  <2>1. PICK b : b = [a EXCEPT !.nick = nick]
      OBVIOUS
  <2>2. b \in Account /\ b.nick = nick /\ b.cid = cid
      BY <1>1, <1>2, <2>1 DEF Account
  <2>3. p = Put(Unregister(users, b.cid, b.nick), b)
      BY <1>2, <2>1, <2>2 DEF UpdateUser
  <2> QED
      BY <2>2, <2>3, PutAfterUnregister
<1>3. CASE a.nick = nick /\ a.cid # cid
  <2>1. PICK b : b = [a EXCEPT !.cid = cid]
      OBVIOUS
  <2>2. b \in Account /\ b.nick = nick /\ b.cid = cid
      BY <1>1, <1>3, <2>1 DEF Account
  <2>3. p = Put(Unregister(users, b.cid, b.nick), b)
      BY <1>3, <2>1, <2>2 DEF UpdateUser
  <2> QED
      BY <2>2, <2>3, PutAfterUnregister
<1>4. CASE a.nick = nick /\ a.cid = cid
  <2>1. p = Put(users, a)
      BY <1>4 DEF UpdateUser
  <2> QED
      BY <1>1, <2>1, PutExact
<1> QED
    BY <1>2, <1>3, <1>4

\* When a write fails, the store promises nothing.
LEMMA FailStore ==
    ASSUME failed' = TRUE
    PROVE  StoreStep
BY DEF StoreStep, Store!Next, Store!Fail

\* Neither accounts nor what is stored, nor the phase.
LEMMA QuietStore ==
    ASSUME Registered(users') = Registered(users), Stored({})' = Stored({}),
           Phase' = Phase, failed' = failed
    PROVE  StoreStep
<1>1. Registered(users)' = Registered(users')
    OBVIOUS
<1> QED
    BY <1>1 DEF StoreStep, Store!storeVars

\* A handler that changes accounts and begins to save them.
LEMMA HandleStore ==
    ASSUME step = "idle", SaveUsers,
           \/ Registered(users') = Registered(users)
           \/ \E a \in Account : Registered(users') = WrittenTo(Registered(users), a)
           \/ \E cid \in CID \cup {NoCID}, nick \in Nick :
                 Registered(users') = Registered(users) \ NamedIn(Registered(users), cid, nick)
    PROVE  StoreStep
<1>1. step' = "save" /\ UNCHANGED <<file, tmp, failed>>
    BY DEF SaveUsers
<1>2. Phase = "ready" /\ Phase' = "saving" /\ Stored({})' = Stored({})
    BY <1>1 DEF Phase, Stored
<1>3. Registered(users)' = Registered(users')
    OBVIOUS
<1>4. Store!Handle
    BY <1>1, <1>2, <1>3
    DEF Store!Handle, Store!Written, Store!Removed, Store!Named, WrittenTo, NamedIn
<1> QED
    BY <1>4 DEF StoreStep, Store!Next

\* A step of save_file: only the end of the write changes what is stored, and it
\* stores the accounts.
LEMMA SaveStepStore ==
    ASSUME IInv, IInv', SaveStep
    PROVE  StoreStep
<1>1. Backed /\ Backed' /\ UNCHANGED <<users, committed>> /\ failed \in BOOLEAN /\ failed' \in BOOLEAN
    BY DEF IInv, TypeOK, SaveStep
<1>2. Registered(users') = Registered(users) /\ Registered(users)' = Registered(users')
    BY <1>1
<1>3. CASE failed' = TRUE
    BY <1>3, FailStore
<1>4. CASE failed' = FALSE /\ ~SaveDone(Registered(users))
  <2>1. failed = FALSE /\ step \in {"save", "backup", "write"} /\ step' \in {"backup", "write", "writing"}
      BY <1>1, <1>4 DEF SaveStep, SaveBackup, SaveBackupDone, SaveWrite
  <2>2. Stored({}) = committed /\ Stored({})' = committed'
      BY <1>1, <1>4, <2>1 DEF Backed
  <2>3. Phase' = Phase
      BY <2>1 DEF Phase
  <2> QED
      BY <1>1, <1>2, <1>4, <2>1, <2>2, <2>3, QuietStore
<1>5. CASE failed' = FALSE /\ SaveDone(Registered(users))
  <2>1. step = "writing" /\ step' = "saved" /\ failed = FALSE
      BY <1>1, <1>5 DEF SaveDone
  <2>2. Stored({})' = Registered(users)
      BY <1>1, <1>2, <1>5, <2>1 DEF Backed, Stored, Loads
  <2>3. Phase = "saving" /\ Phase' = "saved"
      BY <2>1 DEF Phase
  <2>4. Store!Commit
      BY <1>2, <1>5, <2>1, <2>2, <2>3 DEF Store!Commit
  <2> QED
      BY <2>4 DEF StoreStep, Store!Next
<1> QED
    BY <1>1, <1>3, <1>4, <1>5

\* The other steps around a save.
LEMMA ReturnsStore ==
    ASSUME IInv, SaveReturns \/ MaybeSave
    PROVE  StoreStep
<1>1. CASE SaveReturns
  <2>1. /\ step \in {"saved", "error"} /\ step' = "idle"
        /\ UNCHANGED <<users, file, tmp, failed>>
      BY <1>1 DEF SaveReturns
  <2>2. Phase = "saved" /\ Phase' = "ready" /\ Stored({})' = Stored({})
        /\ Registered(users)' = Registered(users)
      BY <2>1 DEF Phase, Stored
  <2>3. Store!Resume
      BY <2>1, <2>2 DEF Store!Resume
  <2> QED
      BY <2>3 DEF StoreStep, Store!Next
<1>2. CASE MaybeSave
  <2>1. Registered(users') = Registered(users) /\ step = "idle" /\ SaveUsers
      BY <1>2 DEF MaybeSave
  <2> QED
      BY <2>1, HandleStore
<1> QED
    BY <1>1, <1>2

\* Logins that change no account, and disconnects.
LEMMA UntouchedStore ==
    ASSUME UNCHANGED <<users, aio>>
    PROVE  StoreStep
<1>1. UNCHANGED <<users, file, tmp, step, failed>>
    BY DEF aio
<1>2. Registered(users') = Registered(users) /\ Stored({})' = Stored({}) /\ Phase' = Phase
    BY <1>1 DEF Stored, Phase
<1> QED
    BY <1>1, <1>2, QuietStore

\* The CID and the nick of a connection that is past INF are keys of the tables.
LEMMA OnlineKeys ==
    ASSUME TypeOK
    PROVE  \A c \in Client : Online(c) => clients[c].cid \in CID /\ clients[c].nick \in Nick
<1> SUFFICES ASSUME NEW c \in Client, Online(c)
             PROVE  clients[c].cid \in CID /\ clients[c].nick \in Nick
    OBVIOUS
<1> QED
    BY ConnTyped

\* onPAS writes the account it found, or none.
LEMMA PasStore ==
    ASSUME IInv, IInv', NEW c \in Client, NEW good \in BOOLEAN, Pas(c, good)
    PROVE  StoreStep
<1> DEFINE me == clients[c]
           a  == GetUser(me.cid, me.nick)
<1>1. TypeOK /\ Online(c) /\ Good(users) /\ Good(users') /\ step = "idle"
    BY DEF IInv, Pas, In, Online
<1>2. me.cid \in CID /\ me.nick \in Nick
    BY <1>1, OnlineKeys
<1>3. CASE ~me.salt \/ a = NoUser \/ ~good \/ Refuses(a, me.cid, me.nick)
  <2>1. UNCHANGED <<users, aio>>
      BY <1>3 DEF Pas, NoSave
  <2> QED
      BY <2>1, UntouchedStore
<1>4. CASE ~(~me.salt \/ a = NoUser \/ ~good \/ Refuses(a, me.cid, me.nick))
  <2>1. /\ users' = UpdateUser(a, me.cid, me.nick)
        /\ IF a.nick # me.nick \/ a.cid # me.cid THEN SaveUsers ELSE UNCHANGED aio
      BY <1>4 DEF Pas
  <2>2. a \in Registered(users) /\ (a.nick # me.nick => a.cid = me.cid)
      BY <1>1, <1>2, <1>4, GetUserFinds
  <2>3. CASE a.nick # me.nick \/ a.cid # me.cid
    <3>1. \E b \in Account : Registered(users') = WrittenTo(Registered(users), b)
        BY <1>1, <1>2, <2>1, <2>2, UpdateWrites
    <3> QED
        BY <1>1, <2>1, <2>3, <3>1, HandleStore
  <2>4. CASE a.nick = me.nick /\ a.cid = me.cid
    <3>1. users' = users
        BY <1>1, <2>1, <2>2, <2>4, PutItself DEF UpdateUser
    <3> QED
        BY <2>1, <2>4, <3>1, UntouchedStore
  <2> QED
      BY <2>3, <2>4
<1> QED
    BY <1>3, <1>4

\* +mypass writes one account.
LEMMA MyPassStore ==
    ASSUME IInv, IInv', NEW c \in Client, MyPass(c)
    PROVE  StoreStep
<1> DEFINE me == clients[c]
           a  == GetUser(me.cid, me.nick)
<1>1. TypeOK /\ Online(c) /\ Good(users) /\ Good(users') /\ step = "idle" /\ SaveUsers
    BY DEF IInv, MyPass, In, Online
<1>2. me.cid \in CID /\ me.nick \in Nick
    BY <1>1, OnlineKeys
<1>3. \E b \in Account : users' = Put(users, b)
  <2>1. CASE a # NoUser /\ users' = Put(users, [a EXCEPT !.password = 1 - @])
    <3>1. a \in Account
        BY <1>1, <1>2, <2>1, GetUserFinds
    <3> HIDE DEF a
    <3>2. [a EXCEPT !.password = 1 - @] \in Account
        BY <3>1 DEF Account
    <3> QED
        BY <2>1, <3>2
  <2>2. CASE a = NoUser /\ Unused(users) # {} /\ users' = Put(users, NewUser(users, me.cid, me.nick, 1))
    <3>1. NewUser(users, me.cid, me.nick, 1) \in Account
        BY <1>2, <2>2, NewUserFresh, AccessAssumption
    <3> QED
        BY <2>2, <3>1
  <2> QED
      BY <2>1, <2>2 DEF MyPass
<1>4. \E b \in Account : Registered(users') = WrittenTo(Registered(users), b)
    BY <1>1, <1>3, PutExact
<1> QED
    BY <1>1, <1>4, HandleStore

\* +regnick writes one account, or removes those under a nick and its user's CID.
LEMMA RegNickStore ==
    ASSUME IInv, IInv', NEW nick \in Nick, NEW ulevel \in 2 .. MaxLevel + 1,
           NEW level \in 0 .. MaxLevel, RegNick(nick, ulevel, level)
    PROVE  StoreStep
<1>1. TypeOK /\ Good(users) /\ Good(users') /\ step = "idle" /\ SaveUsers
    BY DEF IInv, RegNick
<1>2. PICK cid \in CID \cup {NoCID} :
         LET rest == Unregister(users, cid, nick) IN
         \/ /\ 1 <= level /\ Unused(rest) # {}
            /\ users' = Put(rest, NewUser(rest, cid, nick, level))
         \/ users' = rest
  <2>1. \A d \in Holder(nick) : clients[d].cid \in CID
      BY <1>1, OnlineKeys DEF Holder
  <2> QED
      BY <2>1 DEF RegNick
<1> DEFINE rest == Unregister(users, cid, nick)
<1>3. CASE 1 <= level /\ Unused(rest) # {} /\ users' = Put(rest, NewUser(rest, cid, nick, level))
  <2>1. PICK b : b = NewUser(rest, cid, nick, level)
      OBVIOUS
  <2>2. level \in 1 .. MaxLevel
      BY <1>3, AccessAssumption
  <2>3. b \in Account /\ b.cid = cid /\ b.nick = nick
      BY <1>3, <2>1, <2>2, NewUserFresh
  <2>4. users' = Put(Unregister(users, b.cid, b.nick), b)
      BY <1>3, <2>1, <2>3
  <2>5. Registered(users') = WrittenTo(Registered(users), b)
      BY <1>1, <2>3, <2>4, PutAfterUnregister
  <2> QED
      BY <1>1, <2>3, <2>5, HandleStore
<1>4. CASE users' = rest
  <2>1. Registered(users') = Registered(users) \ NamedIn(Registered(users), cid, nick)
      BY <1>1, <1>4, UnregisterExact
  <2> QED
      BY <1>1, <2>1, HandleStore
<1> QED
    BY <1>2, <1>3, <1>4

\* A reload finds the accounts that are there; a repair leaves them where a load
\* finds them; a crash loses those that are not stored; a start loads the others.
LEMMA LoadsStore ==
    ASSUME IInv, IInv', Reload \/ LoadStep \/ Crash \/ Restart
    PROVE  StoreStep
<1>1. Backed /\ Backed' /\ failed \in BOOLEAN /\ failed' \in BOOLEAN
    BY DEF IInv, TypeOK
<1>2. CASE failed' = TRUE
    BY <1>2, FailStore
<1>3. CASE failed' = FALSE /\ LoadUsers
  <2>1. /\ users' = Index(Stored({})) /\ step' = "load" /\ UNCHANGED <<file, tmp, failed>>
      BY <1>3 DEF LoadUsers
  <2>2. Registered(users') = Stored({}) /\ Registered(users)' = Registered(users')
      BY <2>1, StoredTyped, IndexGood
  <2>3. Stored({})' = Stored({}) /\ Phase' = "ready"
      BY <2>1 DEF Stored, Phase
  <2>4. CASE step = "idle"
    <3>1. Registered(users') = Registered(users) /\ Phase = "ready"
        BY <1>1, <1>3, <2>1, <2>2, <2>4 DEF Backed, Phase
    <3> QED
        BY <2>1, <2>3, <3>1, QuietStore
  <2>5. CASE step = "down"
    <3>1. Store!Start
        BY <2>1, <2>2, <2>3, <2>5 DEF Store!Start, Phase
    <3> QED
        BY <3>1 DEF StoreStep, Store!Next
  <2>6. step \in {"idle", "down"}
      BY <1>3 DEF Reload, Restart, LoadStep, RepairWrite, RepairDone, LoadUsers, Crash
  <2> QED
      BY <2>4, <2>5, <2>6
<1>4. CASE failed' = FALSE /\ LoadStep
  <2>1. /\ failed = FALSE /\ users' = users
        /\ step \in {"load", "repair"} /\ step' \in {"idle", "repair"}
      BY <1>1, <1>4 DEF LoadStep, RepairWrite, RepairDone
  <2>2. Stored({}) = Registered(users) /\ Stored({})' = Registered(users)'
      BY <1>1, <1>4, <2>1 DEF Backed
  <2>3. Phase = "ready" /\ Phase' = "ready" /\ Registered(users)' = Registered(users)
      BY <2>1 DEF Phase
  <2> QED
      BY <1>4, <2>1, <2>2, <2>3, QuietStore
<1>5. CASE Crash
  <2>1. step # "down" /\ step' = "down" /\ UNCHANGED <<users, file, tmp, failed>>
      BY <1>5 DEF Crash
  <2>2. Phase # "down" /\ Phase' = "down" /\ Stored({})' = Stored({})
        /\ Registered(users)' = Registered(users)
      BY <2>1 DEF Phase, Stored
  <2>3. Store!Die
      BY <2>1, <2>2 DEF Store!Die
  <2> QED
      BY <2>3 DEF StoreStep, Store!Next
<1> QED
    BY <1>1, <1>2, <1>3, <1>4, <1>5 DEF Reload, Restart

\* Every step is a step of the store, or none.
LEMMA StepStore ==
    ASSUME IInv, IInv', [Next]_vars
    PROVE  StoreStep
<1>1. CASE SaveStep \/ SaveReturns \/ MaybeSave
    BY <1>1, SaveStepStore, ReturnsStore
<1>2. ASSUME NEW c \in Client, NEW cid \in CID, NEW nick \in Nick, Login(c, cid, nick)
      PROVE  StoreStep
    BY <1>2, UntouchedStore DEF Login
<1>3. ASSUME NEW c \in Client, NEW nick \in Nick, Rename(c, nick)
      PROVE  StoreStep
    BY <1>3, UntouchedStore DEF Rename, NoSave
<1>4. ASSUME NEW c \in Client, NEW good \in BOOLEAN, Pas(c, good)
      PROVE  StoreStep
    BY <1>4, PasStore
<1>5. ASSUME NEW c \in Client, Disconnect(c)
      PROVE  StoreStep
    BY <1>5, UntouchedStore DEF Disconnect
<1>6. ASSUME NEW c \in Client, MyPass(c)
      PROVE  StoreStep
    BY <1>6, MyPassStore
<1>7. ASSUME NEW nick \in Nick, NEW ulevel \in 2 .. MaxLevel + 1, NEW level \in 0 .. MaxLevel,
             RegNick(nick, ulevel, level)
      PROVE  StoreStep
    BY <1>7, RegNickStore
<1>8. CASE Reload \/ LoadStep \/ Crash \/ Restart
    BY <1>8, LoadsStore
<1>9. CASE UNCHANGED vars
    BY <1>9, UntouchedStore DEF vars
<1>10. ASSUME NEW c \in Client, NEW cid \in CID, NEW nick \in Nick, LoginNoCid(c, cid, nick)
       PROVE  StoreStep
    BY <1>10, UntouchedStore DEF LoginNoCid, NoSave
<1> QED
    BY <1>1, <1>2, <1>3, <1>4, <1>5, <1>6, <1>7, <1>8, <1>9, <1>10 DEF Next

\* The registry implements AccountStore: a handler writes or removes accounts by
\* their keys in one step, however the indexes get there, and a save takes effect
\* at once, wherever in its four steps, or in the repair of the file, the program
\* dies (access.lua over aio.lua).
THEOREM ImplementsStore == Spec => StoreSpec
<1>1. Init => Store!Init
  <2> SUFFICES ASSUME Init PROVE Store!Init
      OBVIOUS
  <2>1. /\ users = NoUsers /\ file = Absent /\ tmp = Absent
        /\ step = "idle" /\ failed = FALSE
      BY DEF Init, AioInit
  <2>2. Registered(users) = {}
      BY <2>1 DEF Registered, NoUsers
  <2>3. Stored({}) = {} /\ Phase = "ready"
      BY <2>1 DEF Stored, Loads, Absent, Phase
  <2> QED
      BY <2>1, <2>2, <2>3 DEF Store!Init
<1>2. IInv /\ IInv' /\ [Next]_vars => [Store!Next]_(Store!storeVars)
    BY StepStore DEF StoreStep
<1>3. Spec => Store!Spec
    BY <1>1, <1>2, Invariant, PTL DEF Spec, Store!Spec
<1> QED
    BY <1>3 DEF StoreSpec

=============================================================================

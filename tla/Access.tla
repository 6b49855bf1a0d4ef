------------------------------- MODULE Access -------------------------------
(***************************************************************************)
(* The registration part of access.lua: accounts indexed by CID and by nick, *)
(* logins with a password, the commands that change accounts, and the file   *)
(* they are kept in (Aio).  An account is one Lua table reached from both    *)
(* indexes: its `id' is that identity, and a change of the table changes it   *)
(* in both.  Passwords are versions, times are left out.                     *)
(***************************************************************************)
EXTENDS Integers, Aio

CONSTANTS
    Client,          \* connections
    CID, Nick,
    NoCID,           \* an account registered by nick alone has no CID yet
    AllowNickChange, \* settings.allownickchange
    AllowReg,        \* settings.allowreg
    Table,           \* identities of Lua tables (bound: as many accounts at one time)
    MaxLevel,        \* levels of accounts; an operator has up to MaxLevel + 1
    MaxChanges       \* bound: changes of accounts in a run

ASSUME AccessAssumption == NoCID \notin CID /\ Table \subseteq Nat \ {0}
                           /\ MaxLevel \in Nat \ {0} /\ MaxChanges \in Nat

VARIABLES
    users,      \* users.cids and users.nicks, NoUser where there is no entry
    saved,      \* users_saved
    clients,    \* the connections: state, CID, nick and the salt they were sent
    committed,  \* ghost: the accounts at the end of the last save or load
    changes

vars == <<users, saved, clients, committed, changes, aio>>

NoUser  == [id |-> 0]
Account == [id : Table, cid : CID \cup {NoCID}, nick : Nick, level : 1 .. MaxLevel, password : 0 .. 1]
Offline == [state |-> "offline"]

NoUsers == [cids |-> [x \in CID |-> NoUser], nicks |-> [n \in Nick |-> NoUser]]

Online(c)  == clients[c].state # "offline"
In(c, s)   == clients[c].state = s
Holder(n)  == {c \in Client : Online(c) /\ clients[c].nick = n}  \* cm:findByNick

----------------------------------------------------------------------------
(* The indexes.                                                              *)

\* registered_users: the tables in either index.
\* Fault: empty entries count as accounts.
RegisteredOrNot(u) == {u.cids[x] : x \in CID} \cup {u.nicks[n] : n \in Nick}
Registered(u) == ({u.cids[x] : x \in CID} \cup {u.nicks[n] : n \in Nick}) \ {NoUser}

\* load_users: every account under the keys it has.
Index(list) ==
    [cids  |-> [x \in CID |-> IF \E a \in list : a.cid = x
                              THEN CHOOSE a \in list : a.cid = x ELSE NoUser],
     nicks |-> [n \in Nick |-> IF \E a \in list : a.nick = n
                               THEN CHOOSE a \in list : a.nick = n ELSE NoUser]]

GetUser(cid, nick) ==
    IF cid \in CID /\ users.cids[cid] # NoUser THEN users.cids[cid] ELSE users.nicks[nick]

Level(a) == IF a = NoUser THEN 0 ELSE a.level

\* The assignments users.cids[..] = a and users.nicks[..] = a; the table may
\* still be under other keys, where the change is seen too.
Put(u, a) ==
    [cids  |-> [x \in CID |-> IF x = a.cid \/ u.cids[x].id = a.id THEN a ELSE u.cids[x]],
     nicks |-> [n \in Nick |-> IF n = a.nick \/ u.nicks[n].id = a.id THEN a ELSE u.nicks[n]]]

\* Fault: the other entries of the accounts stay.
UnregisterKeysOnly(u, cid, nick) ==
    [nicks |-> [u.nicks EXCEPT ![nick] = NoUser],
     cids  |-> [x \in CID |-> IF x = cid THEN NoUser ELSE u.cids[x]]]

\* unregister_user: the CID with every nick of its accounts, then the nick with
\* every CID of its accounts.
Unregister(u, cid, nick) ==
    LET nicks1 == [n \in Nick |-> IF cid \in CID /\ u.nicks[n] # NoUser /\ u.nicks[n].cid = cid
                                  THEN NoUser ELSE u.nicks[n]]
        cids1  == [x \in CID |-> IF x = cid THEN NoUser ELSE u.cids[x]]
    IN  [nicks |-> [nicks1 EXCEPT ![nick] = NoUser],
         cids  |-> [x \in CID |-> IF cids1[x] # NoUser /\ cids1[x].nick = nick
                                  THEN NoUser ELSE cids1[x]]]

\* make_user: a table that is not in u yet; which one makes no difference.
Unused(u) == {t \in Table : \A a \in Registered(u) : a.id # t}
NewUser(u, cid, nick, level) ==
    [id |-> CHOOSE t \in Unused(u) : TRUE,
     cid |-> cid, nick |-> nick, level |-> level, password |-> 0]

----------------------------------------------------------------------------
(* Saving.  A handler that saves goes on when the save is over; nothing else  *)
(* runs meanwhile.                                                           *)

SaveUsers  == step' = "save" /\ UNCHANGED <<file, tmp, failed, saved>>
NoSave     == UNCHANGED <<aio, saved>>
Changes    == changes < MaxChanges /\ changes' = changes + 1

SaveStep ==
    /\ SaveBackup \/ SaveBackupDone \/ SaveWrite \/ SaveDone(Registered(users))
    /\ UNCHANGED <<users, saved, clients, committed, changes>>

\* save_users returns: users_saved only says that no error was reported.
SaveReturns ==
    /\ step \in {"saved", "error"}
    /\ step' = "idle"
    /\ saved' = (step = "saved" \/ saved)
    /\ committed' = Registered(users)
    /\ UNCHANGED <<users, clients, changes, file, tmp, failed>>

\* maybe_save_users, every fifteen minutes.
MaybeSave ==
    /\ step = "idle" /\ ~saved
    /\ SaveUsers
    /\ UNCHANGED <<users, clients, committed, changes>>

----------------------------------------------------------------------------
(* Logins.                                                                   *)

\* signalDisconnected: the times of a user who was in are to be saved.
Leaves(gone) == saved' = (saved /\ \A d \in gone : ~In(d, "NORMAL"))

\* onINF in IDENTIFY: the hub refuses a nick in use and removes the connection
\* that has the CID; a registered user is sent a salt.
Login(c, cid, nick) ==
    /\ step = "idle" /\ ~Online(c)
    /\ Holder(nick) = {}
    /\ LET asks == GetUser(cid, nick) # NoUser
           me   == [state |-> IF asks THEN "VERIFY" ELSE "NORMAL",
                    cid |-> cid, nick |-> nick, salt |-> asks]
           ghosts == {d \in Client : Online(d) /\ clients[d].cid = cid}
       IN  /\ clients' = [d \in Client |->
                            IF d = c THEN me ELSE IF d \in ghosts THEN Offline ELSE clients[d]]
           /\ Leaves(ghosts)
    /\ UNCHANGED <<users, committed, changes, aio>>

\* onINF before the SUP: the INF has no CID, so the account is found by nick, and
\* nobody is removed.  At the password the script reads the null CID, which is not
\* told from another here.
LoginNoCid(c, cid, nick) ==
    /\ step = "idle" /\ ~Online(c)
    /\ Holder(nick) = {} /\ users.nicks[nick] # NoUser
    /\ clients' = [clients EXCEPT ![c] =
                     [state |-> "VERIFY", cid |-> cid, nick |-> nick, salt |-> TRUE]]
    /\ UNCHANGED <<users, committed, changes>> /\ NoSave

\* An INF sent again: in NORMAL it may change the nick; in VERIFY one that names a
\* registered nick gets a new salt, any other is a bad state.
Rename(c, nick) ==
    /\ step = "idle" /\ Online(c)
    /\ Holder(nick) \subseteq {c}
    /\ clients' = [clients EXCEPT ![c] =
                     IF @.state = "NORMAL" THEN [@ EXCEPT !.nick = nick]
                     ELSE IF users.nicks[nick] # NoUser
                          THEN [@ EXCEPT !.nick = nick, !.salt = TRUE] ELSE Offline]
    /\ UNCHANGED <<users, committed, changes>> /\ NoSave

\* update_user: the account takes over the nick or the CID the user came with,
\* unless another account of the same level or a higher one has it.
Refuses(a, cid, nick) ==
    IF a.nick # nick
    THEN ~AllowNickChange \/ Level(users.nicks[nick]) >= a.level
    ELSE a.cid # cid /\ Level(users.cids[cid]) >= a.level

\* Fault: only a new nick is noted.
UpdateNick(a, cid, nick) ==
    IF a.nick # nick THEN Put(Unregister(users, a.cid, nick), [a EXCEPT !.nick = nick])
    ELSE Put(users, a)
UpdateUser(a, cid, nick) ==
    IF a.nick # nick THEN Put(Unregister(users, a.cid, nick), [a EXCEPT !.nick = nick])
    ELSE IF a.cid # cid THEN Put(Unregister(users, cid, a.nick), [a EXCEPT !.cid = cid])
    ELSE Put(users, a)

\* onPAS: without a salt, an account, the password or a free key the client goes;
\* otherwise the account is updated and the client enters NORMAL.
Pas(c, good) ==
    /\ step = "idle" /\ In(c, "VERIFY")
    /\ LET me == clients[c]
           a  == GetUser(me.cid, me.nick)
       IN  IF ~me.salt \/ a = NoUser \/ ~good \/ Refuses(a, me.cid, me.nick)
           THEN /\ clients' = [clients EXCEPT ![c] = Offline]
                /\ UNCHANGED <<users, changes>> /\ NoSave
           ELSE /\ clients' = [clients EXCEPT ![c].state = "NORMAL"]
                /\ users' = UpdateUser(a, me.cid, me.nick)
                /\ IF a.nick # me.nick \/ a.cid # me.cid
                   THEN Changes /\ SaveUsers
                   ELSE saved' = FALSE /\ UNCHANGED <<aio, changes>>
    /\ UNCHANGED committed

Disconnect(c) ==
    /\ step = "idle" /\ Online(c)
    /\ Leaves({c})
    /\ clients' = [clients EXCEPT ![c] = Offline]
    /\ UNCHANGED <<users, committed, changes, aio>>

----------------------------------------------------------------------------
(* Commands.                                                                 *)

\* +mypass: a new password, or a registration of oneself.
MyPass(c) ==
    /\ step = "idle" /\ In(c, "NORMAL") /\ Changes
    /\ LET me == clients[c]
           a  == GetUser(me.cid, me.nick)
       IN  \/ /\ a # NoUser
              /\ users' = Put(users, [a EXCEPT !.password = 1 - @])
           \/ /\ a = NoUser /\ AllowReg /\ Unused(users) # {}
              /\ users' = Put(users, NewUser(users, me.cid, me.nick, 1))
    /\ SaveUsers
    /\ UNCHANGED <<clients, committed>>

\* +regnick, by an operator of level `ulevel': the account of that nick, and that
\* of the CID of whoever is in with it, make way for a new one, or for none.
RegNick(nick, ulevel, level) ==
    /\ step = "idle" /\ Changes
    /\ \E cid \in IF Holder(nick) = {} THEN {NoCID} ELSE {clients[d].cid : d \in Holder(nick)} :
         LET a    == GetUser(cid, nick)
             rest == Unregister(users, cid, nick)
         IN  /\ Level(a) < ulevel
             /\ \/ /\ 1 <= level /\ level < ulevel /\ Unused(rest) # {}
                   /\ users' = Put(rest, NewUser(rest, cid, nick, level))
                \/ /\ level = 0 /\ a # NoUser /\ users.nicks[a.nick] # NoUser
                   /\ users' = rest
    /\ SaveUsers
    /\ UNCHANGED <<clients, committed>>

----------------------------------------------------------------------------
(* Reload, crash and restart.                                                *)

\* load_users
LoadUsers ==
    /\ users' = Index(Stored({}))
    /\ committed' = Stored({})
    /\ saved' = TRUE
    /\ step' = "load"
    /\ UNCHANGED <<file, tmp, failed>>

\* +reload: maybe_save_users has run, with or without success; the script that
\* starts anew has data of its own, in which there is no salt yet.
Reload ==
    /\ step = "idle" /\ (saved \/ failed)
    /\ LoadUsers
    /\ clients' = [c \in Client |-> IF Online(c) THEN [clients[c] EXCEPT !.salt = FALSE] ELSE Offline]
    /\ UNCHANGED changes

LoadStep == (RepairWrite \/ RepairDone) /\ UNCHANGED <<users, saved, clients, committed, changes>>

\* The program dies at any point; the next start loads the file.
Crash ==
    /\ step # "down"
    /\ step' = "down"
    /\ clients' = [c \in Client |-> Offline]
    /\ UNCHANGED <<users, saved, committed, changes, file, tmp, failed>>

Restart ==
    /\ step = "down"
    /\ LoadUsers
    /\ UNCHANGED <<clients, changes>>

Init ==
    /\ users = NoUsers /\ saved = TRUE /\ committed = {}
    /\ clients = [c \in Client |-> Offline]
    /\ changes = 0
    /\ AioInit

Next ==
    \/ SaveStep \/ SaveReturns \/ MaybeSave
    \/ \E c \in Client :
         \/ \E cid \in CID, nick \in Nick : Login(c, cid, nick)
         \/ \E cid \in CID, nick \in Nick : LoginNoCid(c, cid, nick)
         \/ \E nick \in Nick : Rename(c, nick)
         \/ \E good \in BOOLEAN : Pas(c, good)
         \/ Disconnect(c)
         \/ MyPass(c)
    \/ \E nick \in Nick, ulevel \in 2 .. MaxLevel + 1, level \in 0 .. MaxLevel : RegNick(nick, ulevel, level)
    \/ Reload \/ LoadStep \/ Crash \/ Restart

Spec == Init /\ [][Next]_vars

----------------------------------------------------------------------------
(* Properties.                                                               *)

\* Type invariant.
Entry  == Account \cup {NoUser}
Conn   == {Offline} \cup [state : {"VERIFY", "NORMAL"}, cid : CID, nick : Nick, salt : BOOLEAN]
OnDisk == {Absent, Empty, Torn} \cup [kind : {"full"}, contents : SUBSET Account]

TypeOK ==
    /\ users \in [cids : [CID -> Entry], nicks : [Nick -> Entry]]
    /\ clients \in [Client -> Conn]
    /\ saved \in BOOLEAN /\ failed \in BOOLEAN
    /\ committed \subseteq Account
    /\ changes \in 0 .. MaxChanges
    /\ file \in OnDisk /\ tmp \in OnDisk
    /\ step \in {"idle", "save", "backup", "write", "writing", "saved", "error", "load", "repair", "down"}

\* The two indexes agree: an entry is under its own key, and an account is under
\* both of its keys, so that whichever way it is found it is the same table
\* (update_user, register_user, unregister_user and load_users, in any order).
Agree(u) ==
    /\ \A x \in CID : LET a == u.cids[x] IN
         a # NoUser => a.cid = x /\ u.nicks[a.nick] = a
    /\ \A n \in Nick : LET a == u.nicks[n] IN
         a # NoUser => a.nick = n /\ (a.cid # NoCID => u.cids[a.cid] = a)

IndexesAgree == Agree(users)

\* As long as no write has failed, the program may die at any point, also during
\* a save or while a damaged file is repaired: the next start has the accounts of
\* the last finished save or those of the save under way; between handlers, the
\* accounts as they are ("start by saving a backup, in case writing fails").
Persisted ==
    ~failed =>
      /\ Stored({}) \in {committed, Registered(users)}
      /\ step \in {"idle", "load", "repair"} => Stored({}) = Registered(users)

\* A user who enters NORMAL by a password has one account, under the CID and the
\* nick he came with, whatever became of the accounts since the salt was sent.
PasOwnsAccount ==
    [][\A c \in Client :
         clients[c].state = "VERIFY" /\ clients'[c].state = "NORMAL" =>
           LET a == users'.cids[clients[c].cid]
           IN  a # NoUser /\ a = users'.nicks[clients[c].nick]]_vars

\* What the files and the indexes stand for.
Phase == CASE step \in {"save", "backup", "write", "writing"} -> "saving"
           [] step \in {"saved", "error"} -> "saved"
           [] step = "down" -> "down"
           [] OTHER -> "ready"
Store == INSTANCE AccountStore WITH
    accounts <- Registered(users), stored <- Stored({}), phase <- Phase, lost <- failed

\* The registry is a store of accounts with unique keys, changed by one handler
\* at a time and saved at once, although a save takes four steps at any of which
\* the program may die, and a load may have to repair the file (access.lua over
\* aio.lua).
StoreSpec == Store!Spec
============================================================================

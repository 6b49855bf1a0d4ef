---- MODULE UserDirectory ----
(***************************************************************************)
(* What the hub's core promises about its users, whatever the login steps, *)
(* indexes, timers and jobs behind it: a user appears with an identity no  *)
(* other user has, keeps its SID and CID as long as it stays, may take a   *)
(* free nick, and once gone never returns.  A login with the CID of an     *)
(* earlier connection takes that connection's place in the same step.  A   *)
(* registered user may log in by nick alone, and then has no CID.          *)
(***************************************************************************)
CONSTANTS Ent, SID, CID, Nick, None

VARIABLES
    user,   \* the identity of each user; None for who is not (yet) a user
    gone    \* who has left, or will never get in

dirVars == <<user, gone>>

Identity == [sid : SID, cid : CID \cup {None}, nick : Nick \cup {None}]
IsUser(e) == user[e] # None

\* No two users share a SID, a CID or a nick.
Distinct(u) ==
    \A e, f \in Ent : e # f /\ u[e] # None /\ u[f] # None =>
        /\ u[e].sid # u[f].sid
        /\ u[e].cid # None => u[e].cid # u[f].cid
        /\ u[e].nick # None => u[e].nick # u[f].nick

Init == user = [e \in Ent |-> None] /\ gone = {}

\* The newcomers N get distinct identities; nobody else is disturbed.
Admit(N) ==
    /\ \A e \in N : ~IsUser(e) /\ e \notin gone
    /\ user' \in [Ent -> Identity \cup {None}]
    /\ \A e \in N : user'[e] # None
    /\ Distinct(user')

Arrive(N) ==
    /\ UNCHANGED gone
    /\ \A e \in Ent \ N : user'[e] = user[e]
    /\ Admit(N)

\* e takes the place of o, whose CID it has.
TakeOver(e, o) ==
    /\ e # o /\ o \notin gone /\ gone' = gone \cup {o}
    /\ Admit({e}) /\ user'[e].cid # None
    /\ IsUser(o) => user[o].cid = user'[e].cid
    /\ user'[o] = None
    /\ \A f \in Ent \ {e, o} : user'[f] = user[f]

Leave(e) ==
    /\ e \notin gone /\ gone' = gone \cup {e}
    /\ user' = [user EXCEPT ![e] = None]

Rename(e, n) ==
    /\ IsUser(e) /\ UNCHANGED gone
    /\ user' = [user EXCEPT ![e].nick = n]
    /\ Distinct(user')

Next ==
    \/ \E N \in SUBSET Ent : Arrive(N)
    \/ \E e, o \in Ent : TakeOver(e, o)
    \/ \E e \in Ent : Leave(e)
    \/ \E e \in Ent, n \in Nick \cup {None} : Rename(e, n)

Spec == Init /\ [][Next]_dirVars
====

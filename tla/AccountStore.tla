---------------------------- MODULE AccountStore ----------------------------
(***************************************************************************)
(* What access.lua promises about its accounts, whatever the two indexes,    *)
(* the backup and the repair of a file behind it: a handler writes or        *)
(* removes accounts by their keys, in one step; what is saved changes at     *)
(* once from the accounts of one save to those of the next; and a start has  *)
(* the accounts of the last save.  Until a write fails: nothing is promised  *)
(* from then on.                                                             *)
(***************************************************************************)
CONSTANTS Account, CID, Nick, NoCID

VARIABLES
    accounts,   \* what the handlers see
    stored,     \* what a start would have
    phase,      \* "ready" for a handler, "saving", "saved" or "down"
    lost        \* a write has failed

storeVars == <<accounts, stored, phase, lost>>

\* The accounts that a nick and a CID name.
Named(cid, nick) == {a \in accounts : a.nick = nick \/ (a.cid = cid /\ cid # NoCID)}

Init == accounts = {} /\ stored = {} /\ phase = "ready" /\ lost = FALSE

\* An account is new or changed, no other is under its keys; or accounts are gone.
Written(a)         == {b \in accounts \ Named(a.cid, a.nick) : b.id # a.id} \cup {a}
Removed(cid, nick) == accounts \ Named(cid, nick)

\* What a handler does ends in a save, also when it has changed nothing.
Handle ==
    /\ phase = "ready" /\ phase' = "saving"
    /\ UNCHANGED <<stored, lost>>
    /\ \/ accounts' = accounts
       \/ \E a \in Account : accounts' = Written(a)
       \/ \E cid \in CID \cup {NoCID}, nick \in Nick : accounts' = Removed(cid, nick)

Commit ==
    /\ phase = "saving" /\ phase' = "saved"
    /\ stored' = accounts
    /\ UNCHANGED <<accounts, lost>>

Resume ==
    /\ phase = "saved" /\ phase' = "ready"
    /\ UNCHANGED <<accounts, stored, lost>>

Die ==
    /\ phase # "down" /\ phase' = "down"
    /\ UNCHANGED <<accounts, stored, lost>>

Start ==
    /\ phase = "down" /\ phase' = "ready"
    /\ accounts' = stored
    /\ UNCHANGED <<stored, lost>>

Fail == lost' = TRUE

Next == Fail \/ Handle \/ Commit \/ Resume \/ Die \/ Start

Spec == Init /\ [][Next]_storeVars
=============================================================================

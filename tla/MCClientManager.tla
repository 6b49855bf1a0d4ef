---- MODULE MCClientManager ----
(***************************************************************************)
(* Small instances of ClientManager.  The bounds are the sizes of the sets *)
(* below: connections, SIDs, CIDs, nicks and tokens.                       *)
(***************************************************************************)
EXTENDS ClientManager, TLC

CONSTANTS c1, c2, c3, b1, n1, n2

MCBotNick == [b \in Bot |-> n1]
SidSymmetry == Permutations(SID) \cup Permutations(CID) \cup Permutations(Token)
ClientSymmetry == SidSymmetry \cup Permutations(Client \ V6)
====

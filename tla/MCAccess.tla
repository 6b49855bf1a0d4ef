------------------------------ MODULE MCAccess ------------------------------
(* Connections, CIDs and nicks are interchangeable: no property tells them    *)
(* apart, and Index chooses only between accounts that share a key, which      *)
(* IndexesAgree excludes.                                                    *)
EXTENDS Access, TLC

MCSymmetry == Permutations(Client) \cup Permutations(CID) \cup Permutations(Nick)
=============================================================================

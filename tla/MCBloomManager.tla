--------------------------- MODULE MCBloomManager ---------------------------
(* Two keys of three bits.  The TTHs share keys, so that filters of different  *)
(* shares overlap; a share of all three files is too large for two keys.      *)
EXTENDS BloomManager

MCFiles == {9, 17, 44}
============================================================================

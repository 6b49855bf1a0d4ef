----------------------------- MODULE HashBloom -----------------------------
(***************************************************************************)
(* The Bloom filter of HashBloom.cpp: how many hashes and bits are asked    *)
(* for, and what a filter says of a file.  A file is its TTH, a number of   *)
(* Bits bits; the source has Bits = 192, H = 24 and Unit = 64.              *)
(***************************************************************************)
EXTENDS Integers, FiniteSetsExt

CONSTANTS
    Bits,   \* TTHValue::BITS
    H,      \* bits of one key, h; also the 24 of get_k
    Unit,   \* filters are a multiple of this many bits
    Octet   \* bits of a byte of the transferred filter

ASSUME SizesAssumption ==
    /\ Bits \in Nat \ {0} /\ H \in 1 .. Bits
    /\ Octet \in Nat \ {0} /\ Unit \in Nat \ {0}
    /\ Unit % Octet = 0

\* Powers of two are positive.
ASSUME PowersAssumption == \A n \in 0 .. Bits : 2 ^ n \in Nat \ {0}

TTH   == 0 .. 2 ^ Bits - 1
Keys  == Bits \div H                \* keys a TTH has room for

\* ceil(n * k / ln 2), ln 2 in millionths
Optimal(n, k) == (n * k * 1000000 + 693146) \div 693147

\* get_m: the optimal number of bits, up to a whole number of units.
GetM(n, k) == ((Optimal(n, k) + Unit - 1) \div Unit) * Unit

\* get_k: the most keys whose filter they can still address, at least one.
GetK(n) == Max({1} \cup {k \in 2 .. Keys : GetM(n, k) < 2 ^ H})

\* The n-th key of a TTH; one that is not within its bits addresses cell 0.
Key(tth, n) == IF (n + 1) * H > Bits THEN 0 ELSE (tth \div 2 ^ (n * H)) % 2 ^ H

\* pos, in a filter of m bits
Pos(tth, n, m) == Key(tth, n) % m

\* The cells that add sets and match looks at.
Cells(tth, m, k) == {Pos(tth, i, m) : i \in 0 .. k - 1}

\* A filter: its size, the number of keys and the cells that are set.
Filter(files, m, k) == [m |-> m, k |-> k, on |-> UNION {Cells(f, m, k) : f \in files}]
Matches(f, tth)     == Cells(tth, f.m, f.k) \subseteq f.on

\* The bytes a filter is sent as, and reset, which reads them back.
Bytes(f) == [i \in 1 .. f.m \div Octet |-> {j \in 0 .. Octet - 1 : (i - 1) * Octet + j \in f.on}]
\* Fault: the bits of a byte in the other order.
ResetReversed(bytes, m, k) ==
    [m |-> m, k |-> k,
     on |-> {b \in 0 .. m - 1 : Octet - 1 - (b % Octet) \in bytes[(b \div Octet) + 1]}]
Reset(bytes, m, k) ==
    [m |-> m, k |-> k,
     on |-> {b \in 0 .. m - 1 : b % Octet \in bytes[(b \div Octet) + 1]}]
============================================================================

---- MODULE BloomProofs ----
(***************************************************************************)
(* The filter the hub uses is that of everything its client has announced,  *)
(* for any files, sizes of keys and units, and any number of changes.       *)
(***************************************************************************)
EXTENDS BloomManager, FiniteSetTheorems, SequenceTheorems, NaturalsInduction, TLAPS

----------------------------------------------------------------------------
(* Sizes and cells.                                                        *)

\* A non-empty set of numbers has a least one.
LEMMA LeastNumber ==
    ASSUME NEW T, T \subseteq Nat, T # {}
    PROVE  \E x \in T : \A y \in T : x <= y
<1> DEFINE R == OpToRel(<, Nat)
<1>1. IsWellFoundedOn(R, Nat)
    BY NatLessThanWellFounded
<1>2. \A x, y \in Nat : y < x => <<y, x>> \in R
    BY DEF OpToRel
<1> HIDE DEF R
<1>3. PICK x \in T : \A y \in T : ~(<<y, x>> \in R)
    BY <1>1, WFMin
<1>4. \A y \in T : ~(y < x)
    BY <1>2, <1>3
<1> QED BY <1>4

\* The greatest of some numbers up to b.
LEMMA MaxIsIn ==
    ASSUME NEW b \in Nat, NEW T, T \subseteq 0 .. b, T # {}
    PROVE  Max(T) \in T
<1> DEFINE below == {b - x : x \in T}
<1>1. below \subseteq Nat /\ below # {}
    <2>1. \A x \in T : x \in 0 .. b /\ b - x \in Nat
        OBVIOUS
    <2> QED BY <2>1
<1>2. PICK y \in below : \A z \in below : y <= z
    BY <1>1, LeastNumber
<1>3. PICK x \in T : y = b - x
    OBVIOUS
<1>4. \A z \in T : x >= z
    <2> TAKE z \in T
    <2>1. b - x <= b - z
        BY <1>2, <1>3
    <2> QED BY <2>1
<1> QED BY <1>4 DEF Max

LEMMA KeysType == Keys \in Nat \ {0}
<1>1. Bits \in Nat /\ H \in Nat /\ 1 <= H /\ H <= Bits
    BY SizesAssumption
<1> QED BY <1>1 DEF Keys

\* How many keys are used for a filter.
LEMMA KeysWanted ==
    ASSUME NEW n \in Nat
    PROVE  GetK(n) \in 1 .. Keys
<1> DEFINE T == {1} \cup {k \in 2 .. Keys : GetM(n, k) < 2 ^ H}
<1>1. T \subseteq 1 .. Keys /\ T \subseteq 0 .. Keys /\ T # {} /\ Keys \in Nat
    BY KeysType
<1> HIDE DEF T
<1>2. Max(T) \in T
    BY <1>1, MaxIsIn
<1> QED BY <1>1, <1>2 DEF GetK, T

\* Sizes of filters: whole units, hence whole octets.
Size == {m \in Nat \ {0} : m % Unit = 0 /\ m % Octet = 0 /\ m = (m \div Octet) * Octet}

LEMMA BitsWanted ==
    ASSUME NEW n \in Nat \ {0}, NEW k \in Nat \ {0}
    PROVE  GetM(n, k) \in Size
<1> DEFINE q == (Optimal(n, k) + Unit - 1) \div Unit
           r == Unit \div Octet
<1>1. Unit \in Nat \ {0} /\ Octet \in Nat \ {0} /\ Unit % Octet = 0
    BY SizesAssumption
<1>2. Optimal(n, k) \in Nat \ {0}
    <2>1. n * k \in Nat \ {0}
        OBVIOUS
    <2> QED BY <2>1 DEF Optimal
<1>3. q \in Nat \ {0}
    BY <1>1, <1>2
<1>4. r \in Nat /\ Unit = r * Octet
    BY <1>1
<1> HIDE DEF q, r
<1>5. q * Unit \in Nat \ {0} /\ (q * Unit) % Unit = 0
    BY <1>1, <1>3
<1>6. q * Unit = (q * r) * Octet /\ q * r \in Nat
    BY <1>1, <1>3, <1>4
<1>7. \A a \in Nat : (a * Octet) % Octet = 0 /\ (a * Octet) \div Octet = a
    BY <1>1
<1> QED BY <1>5, <1>6, <1>7 DEF GetM, Size, q

\* A key is a number, a cell lies in the filter.
LEMMA CellsType ==
    ASSUME NEW f \in Files, NEW m \in Nat \ {0}, NEW k \in 1 .. Keys
    PROVE  Cells(f, m, k) \subseteq 0 .. m - 1
<1> SUFFICES ASSUME NEW i \in 0 .. k - 1 PROVE Pos(f, i, m) \in 0 .. m - 1
    BY DEF Cells
<1>1. Bits \in Nat /\ H \in Nat \ {0} /\ H <= Bits /\ Keys \in Nat \ {0} /\ f \in Int
    BY SizesAssumption, KeysType, FilesAssumption DEF TTH
<1>2. Key(f, i) \in Int
    <2>1. CASE (i + 1) * H > Bits
        BY <2>1 DEF Key
    <2>2. CASE ~((i + 1) * H > Bits)
        <3>1. i * H \in 0 .. Bits
            BY <1>1, <2>2
        <3>2. 2 ^ (i * H) \in Nat \ {0} /\ 2 ^ H \in Nat \ {0}
            BY <1>1, <3>1, PowersAssumption
        <3> QED BY <1>1, <2>2, <3>2 DEF Key
    <2> QED BY <2>1, <2>2
<1> QED BY <1>2 DEF Pos

\* What is sent is read back as it was.
LEMMA ResetBytes ==
    ASSUME NEW F \in SUBSET Files, NEW m \in Size, NEW k \in 1 .. Keys
    PROVE  Reset(Bytes(Filter(F, m, k)), m, k) = Filter(F, m, k)
<1> DEFINE on == Filter(F, m, k).on
           bytes == Bytes(Filter(F, m, k))
<1>1. /\ Octet \in Nat \ {0} /\ m \in Nat \ {0} /\ m = (m \div Octet) * Octet
      /\ m \div Octet \in Nat
    BY SizesAssumption DEF Size
<1>2. on \subseteq 0 .. m - 1
    BY <1>1, CellsType DEF Filter
<1>3. bytes = [i \in 1 .. m \div Octet |-> {j \in 0 .. Octet - 1 : (i - 1) * Octet + j \in on}]
    BY DEF Bytes, Filter
<1> HIDE DEF on, bytes
<1>4. ASSUME NEW b \in 0 .. m - 1
      PROVE  b % Octet \in bytes[(b \div Octet) + 1] <=> b \in on
    <2>1. /\ b \div Octet \in Nat /\ b % Octet \in 0 .. Octet - 1
          /\ (b \div Octet) * Octet + (b % Octet) = b
        BY <1>1
    <2>2. (b \div Octet) * Octet < (m \div Octet) * Octet
        BY <1>1, <2>1
    <2>3. b \div Octet < m \div Octet
        BY <1>1, <2>1, <2>2
    <2> DEFINE d == b \div Octet
               e == m \div Octet
    <2>4. d + 1 \in 1 .. e
        BY <1>1, <2>1, <2>3
    <2>5. bytes[d + 1] = {j \in 0 .. Octet - 1 : d * Octet + j \in on}
        <3> HIDE DEF d, e
        <3>1. d \in Nat
            BY <2>1 DEF d
        <3>2. bytes[d + 1] = {j \in 0 .. Octet - 1 : ((d + 1) - 1) * Octet + j \in on}
            BY <1>3, <2>4 DEF e
        <3> QED BY <3>1, <3>2
    <2>6. b % Octet \in bytes[d + 1] <=> d * Octet + (b % Octet) \in on
        <3> HIDE DEF d, e
        <3> QED BY <2>1, <2>5
    <2> QED BY <2>1, <2>6
<1>5. {b \in 0 .. m - 1 : b % Octet \in bytes[(b \div Octet) + 1]} = on
    BY <1>2, <1>4
<1> QED BY <1>5 DEF Reset, Filter, on, bytes

----------------------------------------------------------------------------
(* The invariant.                                                          *)

Piece == Seq(SUBSET Nat)

\* The commands of a client.
Command == [cmd : {"INF"}, sf : {TRUE}, held : SUBSET Files, n : 0 .. Cardinality(Files)]
           \cup [cmd : {"INF"}, sf : {FALSE}]
           \cup [cmd : {"SUP"}, on : BOOLEAN]
           \cup [cmd : {"SND"}, len : Nat, data : Piece]
Announces(c) == c.cmd = "INF" /\ c.sf
Request == [len : Nat, m : Size, k : 1 .. Keys]

Shapes ==
    /\ up \in Seq(Command) /\ down \in Seq(Request)
    /\ bloom \in {None} \cup [m : Size, k : 1 .. Keys, on : SUBSET Nat]
    /\ pending \in {None} \cup [m : Size, k : 1 .. Keys, buffer : Piece]
    /\ incoming \in Piece
    /\ searches \in [all : Nat, tth : Nat, stopped : Nat]

\* Lengths: of answers and of what has come of them.
Lengths ==
    /\ \A i \in DOMAIN up : up[i].cmd = "SND" => up[i].len = Len(up[i].data)
    /\ \A i \in DOMAIN down : down[i].len = down[i].m \div Octet
    /\ incoming # <<>> => pending # None
    /\ pending # None =>
           IF incoming = <<>> THEN pending.buffer = <<>>
           ELSE Len(pending.buffer) + Len(incoming) = pending.m \div Octet

\* What was announced is still shared.
StillShared ==
    /\ announced \subseteq share
    /\ sf = 0 => announced = {}
    /\ \A i \in DOMAIN up : Announces(up[i]) =>
           up[i].held \subseteq share /\ (up[i].n = 0 => up[i].held = {})

GInv == TypeOK /\ Shapes /\ Lengths /\ StillShared

\* A filter of F is up to date, or an announcement behind place i will be.
Latest(F, i) ==
    fresh /\ share # {} =>
        \/ F = share
        \/ \E j \in DOMAIN up : j > i /\ Announces(up[j]) /\ up[j].n # 0

NoSnd == \A i \in DOMAIN up : up[i].cmd # "SND"

\* The one request, on its three ways.  F is what the client shared when it
\* answered: all that was announced before is in it.
Asked == down = <<Get(pending.m, pending.k)>> /\ NoSnd /\ incoming = <<>>
SentAt(i, F) ==
    /\ up[i] = Snd(pending.m \div Octet, Bytes(Filter(F, pending.m, pending.k)))
    /\ \A j \in DOMAIN up : /\ up[j].cmd = "SND" => j = i
                            /\ j < i /\ Announces(up[j]) => up[j].held \subseteq F
    /\ announced \subseteq F /\ Latest(F, i)
Sent == /\ down = <<>> /\ incoming = <<>>
        /\ \E i \in DOMAIN up, F \in SUBSET Files : SentAt(i, F)
ArrivingOf(F) ==
    /\ pending.buffer \o incoming = Bytes(Filter(F, pending.m, pending.k))
    /\ announced \subseteq F /\ Latest(F, 0)
Arriving == /\ down = <<>> /\ NoSnd /\ incoming # <<>>
            /\ \E F \in SUBSET Files : ArrivingOf(F)
FilterOf(F) ==
    /\ bloom = Filter(F, bloom.m, bloom.k)
    /\ announced \subseteq F /\ Latest(F, 0)

PInv ==
    /\ connected
    /\ \A i \in DOMAIN up : up[i].cmd # "SUP"
    /\ pending = None => /\ down = <<>> /\ NoSnd
                         /\ bloom = None => (blo0 => Latest({}, 0))
                         /\ bloom # None => blo0 /\ \E F \in SUBSET Files : FilterOf(F)
    /\ pending # None => blo0 /\ bloom = None /\ (Asked \/ Sent \/ Arriving)

\* Only the client makes itself lapse.
BInv == GInv /\ (~lapsed => PInv)

----------------------------------------------------------------------------
(* Sequences.                                                              *)

LEMMA AppendFacts ==
    ASSUME NEW S, NEW s \in Seq(S), NEW x \in S
    PROVE  /\ Append(s, x) \in Seq(S) /\ Len(s) \in Nat /\ DOMAIN s = 1 .. Len(s)
           /\ DOMAIN Append(s, x) = 1 .. Len(s) + 1
           /\ \A i \in DOMAIN s : i \in DOMAIN Append(s, x) /\ Append(s, x)[i] = s[i]
           /\ Append(s, x)[Len(s) + 1] = x
           /\ \A i \in DOMAIN Append(s, x) : i \in DOMAIN s \/ i = Len(s) + 1
OBVIOUS

LEMMA TailFacts ==
    ASSUME NEW S, NEW s \in Seq(S), s # <<>>
    PROVE  /\ Tail(s) \in Seq(S) /\ Head(s) \in S /\ 1 \in DOMAIN s /\ s[1] = Head(s)
           /\ DOMAIN s \subseteq Nat \ {0} /\ DOMAIN Tail(s) \subseteq Nat \ {0}
           /\ \A i \in DOMAIN Tail(s) : i + 1 \in DOMAIN s /\ Tail(s)[i] = s[i + 1]
           /\ \A i \in DOMAIN s : i # 1 => i - 1 \in DOMAIN Tail(s) /\ Tail(s)[i - 1] = s[i]
OBVIOUS

----------------------------------------------------------------------------
(* Shapes, lengths, and what is still shared.                              *)

LEMMA FilesFinite ==
    ASSUME NEW F \in SUBSET Files
    PROVE  /\ IsFiniteSet(F) /\ Cardinality(F) \in 0 .. Cardinality(Files)
           /\ Cardinality(F) = 0 <=> F = {}
           /\ Cardinality(Files) \in Nat
<1>1. Bits \in 0 .. Bits
    BY SizesAssumption
<1>2. 2 ^ Bits \in Nat \ {0}
    BY <1>1, PowersAssumption
<1>3. IsFiniteSet(TTH)
    BY <1>2, FS_Interval DEF TTH
<1>4. IsFiniteSet(Files)
    BY <1>3, FilesAssumption, FS_Subset
<1>5. IsFiniteSet(F) /\ Cardinality(F) <= Cardinality(Files)
    BY <1>4, FS_Subset
<1> QED BY <1>4, <1>5, FS_CardinalityType, FS_EmptySet

\* A filter and its octets.
LEMMA BytesType ==
    \A F \in SUBSET Files, m \in Size, k \in 1 .. Keys :
        /\ Bytes(Filter(F, m, k)) \in Piece
        /\ Len(Bytes(Filter(F, m, k))) = m \div Octet
<1> TAKE F \in SUBSET Files, m \in Size, k \in 1 .. Keys
<1> DEFINE f == Filter(F, m, k)
           n == m \div Octet
<1>1. Octet \in Nat \ {0} /\ n \in Nat
    BY SizesAssumption DEF Size
<1>2. Bytes(f) = [i \in 1 .. n |-> {j \in 0 .. Octet - 1 : (i - 1) * Octet + j \in f.on}]
    BY DEF Bytes, Filter
<1> HIDE DEF f, n
<1>3. \A i \in 1 .. n : {j \in 0 .. Octet - 1 : (i - 1) * Octet + j \in f.on} \in SUBSET Nat
    BY <1>1
<1>4. Bytes(f) \in Piece /\ Len(Bytes(f)) = n
    BY <1>1, <1>2, <1>3 DEF Piece
<1> QED BY <1>4 DEF f, n

LEMMA FilterType ==
    ASSUME NEW F \in SUBSET Files, NEW m \in Size, NEW k \in 1 .. Keys
    PROVE  /\ Filter(F, m, k) \in [m : Size, k : 1 .. Keys, on : SUBSET (0 .. m - 1)]
           /\ Filter(F, m, k).m = m /\ Filter(F, m, k).k = k
<1>1. \A f \in F : Cells(f, m, k) \subseteq 0 .. m - 1
    BY CellsType DEF Size
<1>2. Filter(F, m, k) \in [m : Size, k : 1 .. Keys, on : SUBSET (0 .. m - 1)]
    BY <1>1 DEF Filter
<1> QED BY <1>2 DEF Filter

\* The parts of the type invariant.
BloomSized(b) ==
    b # None => /\ b.on \subseteq 0 .. b.m - 1
                /\ b.m % Unit = 0 /\ b.k \in 1 .. Keys
PendingSized(p) ==
    p # None => /\ p.m % Unit = 0 /\ p.m > 0 /\ p.k \in 1 .. Keys
                /\ Len(p.buffer) < p.m \div Octet
SearchesSized(s) == s.stopped <= s.tth /\ s.tth <= s.all
SizesTyped ==
    /\ sf \in 0 .. Cardinality(Files)
    /\ BloomSized(bloom) /\ PendingSized(pending) /\ SearchesSized(searches)
Others ==
    /\ share \subseteq Files /\ announced \subseteq Files
    /\ changes \in 0 .. MaxChanges
    /\ lapsed \in BOOLEAN /\ connected \in BOOLEAN /\ blo0 \in BOOLEAN /\ fresh \in BOOLEAN

LEMMA Typed ==
    /\ TypeOK <=> SizesTyped /\ Others
    /\ TypeOK' <=> SizesTyped' /\ Others'
<1>1. TypeOK <=> SizesTyped /\ Others
    BY Zenon DEF TypeOK, SizesTyped, BloomSized, PendingSized, SearchesSized, Others
<1>2. TypeOK' <=> SizesTyped' /\ Others'
    BY Zenon DEF TypeOK, SizesTyped, BloomSized, PendingSized, SearchesSized, Others
<1> QED BY <1>1, <1>2, Zenon

LEMMA SizeFacts ==
    ASSUME NEW m \in Size
    PROVE  m \div Octet \in Nat \ {0} /\ m % Unit = 0 /\ m > 0 /\ m # 0
<1>1. /\ Octet \in Nat \ {0} /\ m \in Nat \ {0} /\ m = (m \div Octet) * Octet
      /\ m \div Octet \in Nat
    BY SizesAssumption DEF Size
<1> QED BY <1>1 DEF Size

LEMMA TypeKept ==
    ASSUME TypeOK, Others', UNCHANGED <<sf, bloom, pending, searches>>
    PROVE  TypeOK'
<1>1. SizesTyped
    BY Typed
<1>2. SizesTyped'
    BY <1>1, Zenon DEF SizesTyped
<1> QED BY <1>2, Typed

LEMMA ShareKeeps ==
    ASSUME GInv, NEW f \in Files, Share(f)
    PROVE  GInv'
<1>1. /\ share' = share \cup {f} /\ changes < MaxChanges /\ changes' = changes + 1
      /\ fresh' = FALSE /\ UNCHANGED <<up, down, lapsed, connected, blo0, sf, bloom, pending,
                                       incoming, searches, announced>>
    BY DEF Share, Changing, hub
<1>2. TypeOK'
    <2>1. TypeOK /\ Others
        BY Typed DEF GInv
    <2>2. changes' \in 0 .. MaxChanges /\ fresh' \in BOOLEAN
        <3>1. changes \in 0 .. MaxChanges /\ MaxChanges \in Nat
            BY <2>1, FilesAssumption DEF Others
        <3>2. changes' \in 0 .. MaxChanges
            BY <1>1, <3>1
        <3>3. fresh' \in BOOLEAN
            BY <1>1
        <3> QED BY <3>2, <3>3
    <2>3. Others'
        BY <1>1, <2>1, <2>2 DEF Others
    <2> QED BY <1>1, <2>1, <2>3, TypeKept
<1>3. Shapes'
    BY <1>1 DEF GInv, Shapes
<1>4. Lengths'
    BY <1>1 DEF GInv, Lengths
<1>5. StillShared'
    BY <1>1 DEF GInv, StillShared, Announces
<1> QED BY <1>2, <1>3, <1>4, <1>5 DEF GInv

\* What Unshare makes of a command.
LEMMA UnshareFacts ==
    ASSUME up \in Seq(Command), NEW f \in Files, Unshare(f)
    PROVE  /\ up' \in Seq(Command) /\ Len(up') = Len(up) /\ DOMAIN up' = DOMAIN up
           /\ \A i \in DOMAIN up :
                  /\ up'[i].cmd = up[i].cmd
                  /\ Announces(up'[i]) <=> Announces(up[i])
                  /\ Announces(up[i]) => /\ up'[i].n = up[i].n
                                         /\ up'[i].held = up[i].held \ {f}
                  /\ ~Announces(up[i]) => up'[i] = up[i]
<1> DEFINE new(i) == IF up[i].cmd = "INF" /\ up[i].sf
                     THEN [up[i] EXCEPT !.held = @ \ {f}] ELSE up[i]
<1>1. up' = [i \in DOMAIN up |-> new(i)] /\ DOMAIN up = 1 .. Len(up) /\ Len(up) \in Nat
    BY DEF Unshare
<1>2. ASSUME NEW i \in DOMAIN up
      PROVE  /\ new(i) \in Command /\ new(i).cmd = up[i].cmd
             /\ Announces(new(i)) <=> Announces(up[i])
             /\ Announces(up[i]) => new(i).n = up[i].n /\ new(i).held = up[i].held \ {f}
             /\ ~Announces(up[i]) => new(i) = up[i]
    <2>1. up[i] \in Command
        OBVIOUS
    <2>2. CASE Announces(up[i])
        <3>1. up[i] \in [cmd : {"INF"}, sf : {TRUE}, held : SUBSET Files, n : 0 .. Cardinality(Files)]
            BY <2>1, <2>2 DEF Command, Announces
        <3>2. new(i) = [up[i] EXCEPT !.held = @ \ {f}]
            BY <2>2 DEF Announces
        <3> HIDE DEF new
        <3>3. /\ new(i) \in [cmd : {"INF"}, sf : {TRUE}, held : SUBSET Files, n : 0 .. Cardinality(Files)]
              /\ new(i).cmd = up[i].cmd /\ new(i).sf = up[i].sf
              /\ new(i).n = up[i].n /\ new(i).held = up[i].held \ {f}
            BY <3>1, <3>2
        <3> QED BY <2>2, <3>3 DEF Command, Announces
    <2>3. CASE ~Announces(up[i])
        BY <2>1, <2>3 DEF Announces
    <2> QED BY <2>2, <2>3
<1> HIDE DEF new
<1> QED BY <1>1, <1>2

LEMMA UnshareKeeps ==
    ASSUME GInv, NEW f \in Files, Unshare(f)
    PROVE  GInv'
<1>1. /\ share' = share \ {f} /\ changes < MaxChanges /\ changes' = changes + 1
      /\ announced' = announced \ {f} /\ fresh' = FALSE
      /\ UNCHANGED <<down, lapsed, connected, blo0, sf, bloom, pending, incoming, searches>>
    BY DEF Unshare, Changing
<1>2. /\ up' \in Seq(Command) /\ Len(up') = Len(up) /\ DOMAIN up' = DOMAIN up
      /\ \A i \in DOMAIN up :
             /\ up'[i].cmd = up[i].cmd
             /\ Announces(up'[i]) <=> Announces(up[i])
             /\ Announces(up[i]) => up'[i].n = up[i].n /\ up'[i].held = up[i].held \ {f}
             /\ ~Announces(up[i]) => up'[i] = up[i]
    BY UnshareFacts DEF GInv, Shapes
<1>3. TypeOK'
    <2>1. TypeOK /\ Others
        BY Typed DEF GInv
    <2>2. changes' \in 0 .. MaxChanges /\ fresh' \in BOOLEAN
        <3>1. changes \in 0 .. MaxChanges /\ MaxChanges \in Nat
            BY <2>1, FilesAssumption DEF Others
        <3>2. changes' \in 0 .. MaxChanges
            BY <1>1, <3>1
        <3>3. fresh' \in BOOLEAN
            BY <1>1
        <3> QED BY <3>2, <3>3
    <2>3. Others'
        BY <1>1, <2>1, <2>2 DEF Others
    <2> QED BY <1>1, <2>1, <2>3, TypeKept
<1>4. Shapes'
    BY <1>1, <1>2 DEF GInv, Shapes
<1>5. Lengths'
    <2>1. \A i \in DOMAIN up : up[i].cmd = "SND" => ~Announces(up[i])
        BY DEF Announces
    <2>2. \A i \in DOMAIN up' : up'[i].cmd = "SND" => up'[i].len = Len(up'[i].data)
        BY <1>2, <2>1 DEF GInv, Lengths
    <2> QED BY <1>1, <2>2 DEF GInv, Lengths
<1>6. StillShared'
    <2>1. \A i \in DOMAIN up' : Announces(up'[i]) =>
              up'[i].held \subseteq share' /\ (up'[i].n = 0 => up'[i].held = {})
        BY <1>1, <1>2 DEF GInv, StillShared
    <2>2. \A i \in DOMAIN up' : Announces(up'[i]) <=> Announces(up[i])'
        BY <1>2 DEF Announces
    <2> QED BY <1>1, <2>1 DEF GInv, StillShared, Announces
<1> QED BY <1>3, <1>4, <1>5, <1>6 DEF GInv

\* Whatever the client sends, if what it sends is well formed.
LEMMA SendsKeeps ==
    ASSUME GInv, NEW c \in Command, Sends(c),
           c.cmd = "SND" => c.len = Len(c.data),
           Announces(c) => c.held \subseteq share /\ (c.n = 0 => c.held = {}),
           down' \in Seq(Request), \A i \in DOMAIN down' : down'[i].len = down'[i].m \div Octet,
           changes' \in 0 .. MaxChanges, lapsed' \in BOOLEAN, fresh' \in BOOLEAN,
           UNCHANGED <<share, hub>>
    PROVE  GInv'
<1>1. /\ up' = Append(up, c) /\ up \in Seq(Command)
      /\ UNCHANGED <<share, connected, blo0, sf, bloom, pending, incoming, searches, announced>>
    BY DEF Sends, GInv, Shapes, hub
<1>2. /\ up' \in Seq(Command)
      /\ \A i \in DOMAIN up' : (i \in DOMAIN up /\ up'[i] = up[i]) \/ up'[i] = c
    BY <1>1, AppendFacts
<1>3. TypeOK'
    <2>1. TypeOK /\ Others
        BY Typed DEF GInv
    <2>2. changes' \in 0 .. MaxChanges /\ fresh' \in BOOLEAN
        <3>1. changes \in 0 .. MaxChanges /\ MaxChanges \in Nat
            BY <2>1, FilesAssumption DEF Others
        <3>2. changes' \in 0 .. MaxChanges
            BY <1>1, <3>1
        <3>3. fresh' \in BOOLEAN
            BY <1>1
        <3> QED BY <3>2, <3>3
    <2>3. Others'
        BY <1>1, <2>1, <2>2 DEF Others
    <2> QED BY <1>1, <2>1, <2>3, TypeKept
<1>4. Shapes'
    BY <1>1, <1>2 DEF GInv, Shapes
<1>5. Lengths'
    BY <1>1, <1>2 DEF GInv, Lengths
<1>6. StillShared'
    BY <1>1, <1>2 DEF GInv, StillShared, Announces
<1> QED BY <1>3, <1>4, <1>5, <1>6 DEF GInv

LEMMA ChangingFacts ==
    ASSUME GInv, Changing
    PROVE  connected /\ changes' \in 0 .. MaxChanges
<1>1. changes \in 0 .. MaxChanges /\ MaxChanges \in Nat
    BY Typed, FilesAssumption DEF GInv, Others
<1>2. connected /\ changes < MaxChanges /\ changes' = changes + 1
    BY DEF Changing
<1> QED BY <1>1, <1>2

LEMMA AnnounceKeeps ==
    ASSUME GInv, Announce
    PROVE  GInv'
<1>1. /\ changes' \in 0 .. MaxChanges /\ UNCHANGED <<share, down, lapsed, hub>>
      /\ share \subseteq Files /\ lapsed \in BOOLEAN /\ fresh \in BOOLEAN
      /\ down \in Seq(Request) /\ \A i \in DOMAIN down : down[i].len = down[i].m \div Octet
    BY ChangingFacts DEF Announce, GInv, TypeOK, Shapes, Lengths
<1>2. CASE Sends(Inf(share)) /\ fresh' = TRUE
    <2>1. Cardinality(share) \in 0 .. Cardinality(Files) /\ (Cardinality(share) = 0 <=> share = {})
        BY <1>1, FilesFinite
    <2>2. /\ Inf(share) \in Command /\ Inf(share).cmd = "INF"
          /\ Inf(share).held = share /\ Inf(share).n = Cardinality(share)
        BY <1>1, <2>1 DEF Inf, Command
    <2>3. fresh' \in BOOLEAN
        BY <1>2
    <2> QED BY <1>1, <1>2, <2>1, <2>2, <2>3, SendsKeeps
<1>3. CASE Sends(OtherInf) /\ fresh' = fresh
    <2>1. OtherInf \in Command /\ OtherInf.cmd = "INF" /\ ~Announces(OtherInf)
        BY DEF OtherInf, Command, Announces
    <2>2. fresh' \in BOOLEAN
        BY <1>1, <1>3
    <2> QED BY <1>1, <1>3, <2>1, <2>2, SendsKeeps
<1> QED BY <1>2, <1>3 DEF Announce

\* The answer to the first request.
LEMMA AnswerFacts ==
    ASSUME GInv, Answer
    PROVE  LET get == Head(down)
               c == Snd(get.len, Bytes(Filter(share, get.m, get.k)))
           IN  /\ get \in Request /\ get = down[1] /\ share \in SUBSET Files
               /\ get.len = get.m \div Octet
               /\ c \in Command /\ c.cmd = "SND" /\ c.len = Len(c.data)
               /\ Sends(c)
<1> DEFINE get == Head(down)
           data == Bytes(Filter(share, get.m, get.k))
<1>1. /\ down \in Seq(Request) /\ down # <<>> /\ share \in SUBSET Files
      /\ \A i \in DOMAIN down : down[i].len = down[i].m \div Octet
    BY DEF Answer, GInv, Shapes, Lengths, TypeOK
<1>2. get \in Request /\ 1 \in DOMAIN down /\ down[1] = get
    BY <1>1, TailFacts
<1> HIDE DEF get
<1>3. get.m \in Size /\ get.k \in 1 .. Keys /\ get.len \in Nat
    BY <1>2 DEF Request
<1>4. data \in Piece /\ Len(data) = get.m \div Octet
    BY <1>1, <1>3, BytesType, Zenon
<1> HIDE DEF data
<1>5. /\ Snd(get.len, data) \in Command /\ Snd(get.len, data).cmd = "SND"
      /\ Snd(get.len, data).len = get.len /\ Snd(get.len, data).data = data
    BY <1>3, <1>4 DEF Snd, Command
<1>6. Sends(Snd(get.len, data))
    BY DEF Answer, get, data
<1> QED BY <1>1, <1>2, <1>4, <1>5, <1>6 DEF get, data

LEMMA AnswerKeeps ==
    ASSUME GInv, Answer
    PROVE  GInv'
<1> DEFINE get == Head(down)
           c == Snd(get.len, Bytes(Filter(share, get.m, get.k)))
<1>1. c \in Command /\ c.cmd = "SND" /\ c.len = Len(c.data) /\ Sends(c)
    BY AnswerFacts
<1> HIDE DEF c
<1>2. ~Announces(c)
    BY <1>1 DEF Announces
<1>3. /\ down \in Seq(Request) /\ down # <<>> /\ down' = Tail(down)
      /\ \A i \in DOMAIN down : down[i].len = down[i].m \div Octet
      /\ UNCHANGED <<share, changes, lapsed, fresh, hub>>
      /\ changes \in 0 .. MaxChanges /\ lapsed \in BOOLEAN /\ fresh \in BOOLEAN
    BY DEF Answer, GInv, Shapes, Lengths, TypeOK
<1>4. down' \in Seq(Request) /\ \A i \in DOMAIN down' : down'[i].len = down'[i].m \div Octet
    BY <1>3, TailFacts
<1>5. changes' \in 0 .. MaxChanges /\ lapsed' \in BOOLEAN /\ fresh' \in BOOLEAN
    BY <1>3
<1> QED BY <1>1, <1>2, <1>3, <1>4, <1>5, SendsKeeps

LEMMA LapseKeeps ==
    ASSUME GInv, Lapse
    PROVE  GInv'
<1>1. /\ changes' \in 0 .. MaxChanges /\ UNCHANGED <<share, down, fresh, hub>>
      /\ fresh \in BOOLEAN
      /\ down \in Seq(Request) /\ \A i \in DOMAIN down : down[i].len = down[i].m \div Octet
    BY ChangingFacts DEF Lapse, GInv, TypeOK, Shapes, Lengths
<1>2. lapsed' \in BOOLEAN /\ fresh' \in BOOLEAN
    BY <1>1 DEF Lapse
<1>3. CASE Sends(Snd(1, <<{}>>))
    <2> DEFINE c == Snd(1, <<{}>>)
    <2>1. <<{}>> \in Piece /\ Len(<<{}>>) = 1
        BY DEF Piece
    <2>2. c \in Command /\ c.cmd = "SND" /\ c.len = Len(c.data)
        BY <2>1 DEF Snd, Command
    <2> HIDE DEF c
    <2>3. ~Announces(c)
        BY <2>2 DEF Announces
    <2> QED BY <1>1, <1>2, <1>3, <2>2, <2>3, SendsKeeps DEF c
<1>4. ASSUME NEW on \in BOOLEAN, Sends(Sup(on)) PROVE GInv'
    <2> DEFINE c == Sup(on)
    <2>1. c \in Command /\ c.cmd = "SUP"
        BY DEF Sup, Command
    <2> HIDE DEF c
    <2>2. ~Announces(c)
        BY <2>1 DEF Announces
    <2> QED BY <1>1, <1>2, <1>4, <2>1, <2>2, SendsKeeps DEF c
<1> QED BY <1>3, <1>4 DEF Lapse

\* The next command that is read.
LEMMA ReceiveFacts ==
    ASSUME GInv, NEW cmd, Receives(cmd)
    PROVE  /\ connected /\ incoming = <<>>
           /\ up # <<>> /\ up \in Seq(Command) /\ up' = Tail(up) /\ up' \in Seq(Command)
           /\ 1 \in DOMAIN up /\ up[1] = Head(up) /\ Head(up) \in Command /\ Head(up).cmd = cmd
           /\ \A i \in DOMAIN up' : i \in Nat \ {0} /\ i + 1 \in DOMAIN up /\ up'[i] = up[i + 1]
           /\ \A i \in DOMAIN up : i \in Nat \ {0}
           /\ \A i \in DOMAIN up : i # 1 => i - 1 \in DOMAIN up' /\ up'[i - 1] = up[i]
<1>1. up \in Seq(Command) /\ up # <<>> /\ up' = Tail(up)
    BY DEF GInv, Shapes, Receives
<1> QED BY <1>1, TailFacts DEF Receives

\* What an announcement says.
LEMMA AnnouncesFacts ==
    ASSUME NEW c \in Command
    PROVE  /\ Announces(c) => c.held \in SUBSET Files /\ c.n \in 0 .. Cardinality(Files)
           /\ c.cmd = "INF" => (c.sf <=> Announces(c))
           /\ c.cmd = "SND" => c.len \in Nat /\ c.data \in Piece
           /\ c.cmd = "SUP" => c.on \in BOOLEAN
BY DEF Command, Announces

\* A request of the hub.
LEMMA AskFacts ==
    ASSUME GInv, NEW n \in Nat \ {0}, Ask(n)
    PROVE  /\ bloom' = None
           /\ pending' \in [m : Size, k : 1 .. Keys, buffer : {<<>>}]
           /\ pending' # None
           /\ Get(pending'.m, pending'.k) \in Request
           /\ down' = Append(down, Get(pending'.m, pending'.k))
           /\ down' \in Seq(Request)
           /\ \A i \in DOMAIN down' : down'[i].len = down'[i].m \div Octet
<1> DEFINE k == GetK(n)
           m == GetM(n, k)
<1>1. k \in 1 .. Keys /\ k \in Nat \ {0}
    BY KeysWanted, KeysType
<1> HIDE DEF k
<1>2. m \in Size
    BY <1>1, BitsWanted
<1>3. bloom' = None /\ pending' = [m |-> m, k |-> k, buffer |-> <<>>]
      /\ down' = Append(down, Get(m, k))
    BY DEF Ask, k
<1> HIDE DEF m
<1>4. m \div Octet \in Nat /\ m # 0
    BY <1>2, SizeFacts
<1>5. /\ pending' \in [m : Size, k : 1 .. Keys, buffer : {<<>>}]
      /\ pending'.m = m /\ pending'.k = k
    BY <1>1, <1>2, <1>3
<1>6. pending' # None
    BY <1>4, <1>5 DEF None
<1>7. Get(m, k) \in Request /\ Get(m, k).len = Get(m, k).m \div Octet
    BY <1>1, <1>2, <1>4 DEF Get, Request
<1>8. down \in Seq(Request) /\ \A i \in DOMAIN down : down[i].len = down[i].m \div Octet
    BY DEF GInv, Shapes, Lengths
<1> DEFINE g == Get(m, k)
<1> HIDE DEF g
<1>9. g \in Request /\ g.len = g.m \div Octet /\ down' = Append(down, g)
    BY <1>3, <1>7 DEF g
<1>10. down' \in Seq(Request) /\ \A i \in DOMAIN down' : down'[i].len = down'[i].m \div Octet
    BY <1>8, <1>9, AppendFacts
<1> QED BY <1>3, <1>5, <1>6, <1>7, <1>10

\* What is awaited is smaller than what was asked for.
LEMMA PendingSizes ==
    ASSUME NEW p \in {None} \cup [m : Size, k : 1 .. Keys, buffer : Piece],
           p # None => Len(p.buffer) < p.m \div Octet
    PROVE  PendingSized(p)
<1>1. CASE p = None
    BY <1>1 DEF PendingSized
<1>2. CASE p # None
    <2>1. p.m \in Size /\ p.k \in 1 .. Keys
        BY <1>2
    <2> QED BY <1>2, <2>1, SizeFacts DEF PendingSized
<1> QED BY <1>1, <1>2

LEMMA ReceiveINFKeeps ==
    ASSUME GInv, ReceiveINF
    PROVE  GInv'
<1> DEFINE inf == Head(up)
<1>1. /\ connected /\ incoming = <<>>
      /\ up' \in Seq(Command) /\ inf \in Command /\ inf.cmd = "INF"
      /\ 1 \in DOMAIN up /\ up[1] = inf
      /\ \A i \in DOMAIN up' : i + 1 \in DOMAIN up /\ up'[i] = up[i + 1]
    BY ReceiveFacts DEF ReceiveINF
<1>2. /\ IF AsksBloom(inf) THEN Ask(inf.n) ELSE UNCHANGED <<bloom, pending, down>>
      /\ sf' = IF inf.sf THEN inf.n ELSE sf
      /\ announced' = IF inf.sf THEN inf.held ELSE announced
      /\ UNCHANGED <<share, changes, lapsed, fresh, connected, blo0, incoming, searches>>
    BY DEF ReceiveINF
<1> HIDE DEF inf
<1>3. inf.sf <=> Announces(inf)
    BY <1>1, AnnouncesFacts
<1>4. inf.sf => /\ inf.held \in SUBSET Files /\ inf.n \in 0 .. Cardinality(Files)
                /\ inf.held \subseteq share /\ (inf.n = 0 => inf.held = {})
    BY <1>1, <1>3, AnnouncesFacts DEF GInv, StillShared
<1>5. Others /\ SizesTyped
    BY Typed DEF GInv
<1>6. /\ sf' \in 0 .. Cardinality(Files) /\ announced' \subseteq Files
      /\ announced' \subseteq share' /\ (sf' = 0 => announced' = {})
    BY <1>2, <1>4, <1>5 DEF Others, SizesTyped, GInv, StillShared
<1>7. /\ bloom' \in {None} \cup {bloom}
      /\ pending' \in {pending} \cup [m : Size, k : 1 .. Keys, buffer : {<<>>}]
      /\ down' \in Seq(Request)
      /\ \A i \in DOMAIN down' : down'[i].len = down'[i].m \div Octet
    <2>1. CASE AsksBloom(inf)
        <3>1. inf.n \in Nat \ {0}
            BY <1>4, <2>1, FilesFinite DEF AsksBloom
        <3>2. Ask(inf.n)
            BY <1>2, <2>1
        <3> QED BY <3>1, <3>2, AskFacts
    <2>2. CASE ~AsksBloom(inf)
        BY <1>2, <2>2 DEF GInv, Shapes, Lengths
    <2> QED BY <2>1, <2>2
<1>8. /\ pending' \in {None} \cup [m : Size, k : 1 .. Keys, buffer : Piece]
      /\ pending' # None => pending'.buffer = <<>> /\ Len(pending'.buffer) < pending'.m \div Octet
    <2>1. CASE pending' = pending
        BY <1>1, <1>5, <2>1 DEF GInv, Shapes, Lengths, SizesTyped, PendingSized
    <2>2. CASE pending' \in [m : Size, k : 1 .. Keys, buffer : {<<>>}]
        <3>1. /\ pending' \in [m : Size, k : 1 .. Keys, buffer : Piece]
              /\ pending'.buffer = <<>> /\ pending'.m \in Size
            <4>1. <<>> \in Piece
                BY DEF Piece
            <4> QED BY <2>2, <4>1
        <3>2. Len(pending'.buffer) = 0 /\ pending'.m \div Octet > 0
            BY <3>1, SizeFacts
        <3> QED BY <3>1, <3>2
    <2> QED BY <1>7, <2>1, <2>2
<1>9. Others'
    BY <1>2, <1>5, <1>6 DEF Others
<1>10. SizesTyped'
    <2>1. PendingSized(pending')
        BY <1>8, PendingSizes
    <2>2. BloomSized(bloom')
        BY <1>5, <1>7 DEF SizesTyped, BloomSized
    <2>3. SearchesSized(searches')
        BY <1>2, <1>5 DEF SizesTyped
    <2> QED BY <1>6, <2>1, <2>2, <2>3 DEF SizesTyped
<1>11. Shapes'
    BY <1>1, <1>2, <1>7, <1>8 DEF GInv, Shapes
<1>12. Lengths'
    BY <1>1, <1>2, <1>7, <1>8 DEF GInv, Lengths
<1>13. StillShared'
    BY <1>1, <1>2, <1>6 DEF GInv, StillShared, Announces
<1> QED BY <1>9, <1>10, <1>11, <1>12, <1>13, Typed DEF GInv

LEMMA ReceiveSUPKeeps ==
    ASSUME GInv, ReceiveSUP
    PROVE  GInv'
<1>1. /\ incoming = <<>> /\ up' \in Seq(Command) /\ Head(up) \in Command /\ Head(up).cmd = "SUP"
      /\ \A i \in DOMAIN up' : i + 1 \in DOMAIN up /\ up'[i] = up[i + 1]
    BY ReceiveFacts DEF ReceiveSUP
<1>2. /\ blo0' = Head(up).on
      /\ UNCHANGED <<share, down, changes, lapsed, fresh, connected, sf, bloom,
                     pending, incoming, searches, announced>>
    BY DEF ReceiveSUP
<1>3. blo0' \in BOOLEAN
    BY <1>1, <1>2, AnnouncesFacts
<1>4. Others'
    BY <1>2, <1>3, Typed DEF Others, GInv
<1>5. TypeOK'
    BY <1>2, <1>4, TypeKept DEF GInv
<1>6. Shapes'
    BY <1>1, <1>2 DEF GInv, Shapes
<1>7. Lengths'
    BY <1>1, <1>2 DEF GInv, Lengths
<1>8. StillShared'
    BY <1>1, <1>2 DEF GInv, StillShared, Announces
<1> QED BY <1>5, <1>6, <1>7, <1>8 DEF GInv

LEMMA ReceiveSNDKeeps ==
    ASSUME GInv, ReceiveSND
    PROVE  GInv'
<1> DEFINE snd == Head(up)
<1>1. /\ connected /\ incoming = <<>>
      /\ up' \in Seq(Command) /\ snd \in Command /\ snd.cmd = "SND"
      /\ 1 \in DOMAIN up /\ up[1] = snd
      /\ \A i \in DOMAIN up' : i + 1 \in DOMAIN up /\ up'[i] = up[i + 1]
    BY ReceiveFacts DEF ReceiveSND
<1>2. /\ \/ connected' = FALSE /\ UNCHANGED <<pending, incoming>>
         \/ connected' = FALSE /\ pending' = None /\ UNCHANGED incoming
         \/ /\ pending # None /\ RightSize(snd)
            /\ incoming' = snd.data
            /\ UNCHANGED <<connected, pending>>
      /\ UNCHANGED <<share, down, changes, lapsed, fresh, blo0, sf, bloom, searches, announced>>
    BY DEF ReceiveSND
<1> HIDE DEF snd
<1>3. snd.data \in Piece /\ snd.len = Len(snd.data)
    BY <1>1, AnnouncesFacts DEF GInv, Lengths
<1>4. Others /\ SizesTyped
    BY Typed DEF GInv
<1>5. pending' \in {None, pending} /\ connected' \in BOOLEAN /\ incoming' \in Piece
    BY <1>2, <1>3, <1>4 DEF GInv, Shapes, Others
<1>6. /\ incoming' # <<>> => pending' # None
      /\ pending' # None =>
             IF incoming' = <<>> THEN pending'.buffer = <<>>
             ELSE Len(pending'.buffer) + Len(incoming') = pending'.m \div Octet
    <2>1. pending # None => pending.buffer = <<>>
        BY <1>1 DEF GInv, Lengths
    <2>2. CASE UNCHANGED <<pending, incoming>> \/ (pending' = None /\ UNCHANGED incoming)
        BY <1>1, <2>1, <2>2
    <2>3. CASE pending # None /\ RightSize(snd) /\ incoming' = snd.data /\ UNCHANGED pending
        <3>1. Len(incoming') = pending.m \div Octet
            BY <1>3, <2>3 DEF RightSize
        <3>2. Len(pending.buffer) = 0
            BY <2>1, <2>3
        <3>3. Len(incoming') \in Nat
            BY <1>5 DEF Piece
        <3> QED BY <2>1, <2>3, <3>1, <3>2, <3>3
    <2> QED BY <1>2, <2>2, <2>3
<1>7. Others'
    BY <1>2, <1>4, <1>5 DEF Others
<1>8. SizesTyped'
    <2>1. PendingSized(pending')
        BY <1>4, <1>5 DEF SizesTyped, PendingSized
    <2> QED BY <1>2, <1>4, <2>1, Zenon DEF SizesTyped
<1>9. Shapes'
    BY <1>1, <1>2, <1>5 DEF GInv, Shapes
<1>10. Lengths'
    BY <1>1, <1>2, <1>6 DEF GInv, Lengths
<1>11. StillShared'
    BY <1>1, <1>2 DEF GInv, StillShared, Announces
<1> QED BY <1>7, <1>8, <1>9, <1>10, <1>11, Typed DEF GInv

\* A sequence is what is before a place and what is behind it.
LEMMA CutJoins ==
    ASSUME NEW S, NEW s \in Seq(S), NEW n \in 1 .. Len(s)
    PROVE  SubSeq(s, 1, n) \o SubSeq(s, n + 1, Len(s)) = s
<1>1. /\ Len(s) \in Nat /\ n \in Nat /\ n \in 1 .. Len(s) + 1
      /\ 1 \in 1 .. n + 1 /\ n \in 1 - 1 .. Len(s)
    OBVIOUS
<1>2. SubSeq(s, 1, n) \o SubSeq(s, n + 1, Len(s)) = SubSeq(s, 1, Len(s))
    BY <1>1, ConcatAdjacentSubSeq
<1> QED BY <1>2, SubSeqFull

LEMMA Concatenation ==
    \A a, x, y \in Piece : (a \o x) \o y = a \o (x \o y)
<1> TAKE a, x, y \in Piece
<1> DEFINE l == (a \o x) \o y
           r == a \o (x \o y)
<1>1. l \in Piece /\ r \in Piece /\ Len(l) = Len(r)
    BY DEF Piece
<1>2. \A i \in 1 .. Len(l) : l[i] = r[i]
    BY SMTT(60) DEF Piece
<1> QED BY <1>1, <1>2 DEF Piece

\* The first n bytes join what came before, the others are left.
LEMMA PieceCut ==
    \A a, s \in Piece : \A n \in 1 .. Len(s) :
        /\ a \o SubSeq(s, 1, n) \in Piece /\ SubSeq(s, n + 1, Len(s)) \in Piece
        /\ (a \o SubSeq(s, 1, n)) \o SubSeq(s, n + 1, Len(s)) = a \o s
        /\ Len(a \o SubSeq(s, 1, n)) + Len(SubSeq(s, n + 1, Len(s))) = Len(a) + Len(s)
<1> TAKE a, s \in Piece
<1> TAKE n \in 1 .. Len(s)
<1> USE DEF Piece
<1> DEFINE h == SubSeq(s, 1, n)
           t == SubSeq(s, n + 1, Len(s))
           b == a \o h
<1>1. Len(s) \in Nat /\ Len(a) \in Nat /\ n \in Nat /\ 1 <= n /\ n <= Len(s)
    OBVIOUS
<1>2. /\ h \in Seq(SUBSET Nat) /\ Len(h) = n /\ \A i \in 1 .. n : h[i] = s[i]
    BY <1>1
<1>3. /\ t \in Seq(SUBSET Nat) /\ Len(t) = Len(s) - n /\ \A i \in 1 .. Len(s) - n : t[i] = s[n + i]
    BY <1>1
<1>4. h \o t = s
    BY SMTT(60), <1>1, CutJoins
<1> HIDE DEF h, t, b
<1>5. b \in Seq(SUBSET Nat) /\ Len(b) = Len(a) + n
    BY <1>1, <1>2 DEF b
<1>6. b \o t = a \o s
    <2>1. a \in Piece /\ h \in Piece /\ t \in Piece
        BY <1>2, <1>3
    <2> HIDE DEF Piece
    <2>2. (a \o h) \o t = a \o (h \o t)
        BY <2>1, Concatenation, Zenon
    <2> QED BY <2>2, <1>4 DEF b
<1>7. Len(b) + Len(t) = Len(a) + Len(s)
    BY <1>1, <1>3, <1>5
<1> QED BY <1>3, <1>5, <1>6, <1>7, Zenon DEF b, h, t

\* What onData makes of n bytes: they join the buffer, the rest is awaited.
LEMMA OnDataFacts ==
    ASSUME GInv, NEW n \in 1 .. Len(incoming), OnData(n)
    PROVE  \E b \in Piece :
               /\ connected /\ incoming # <<>> /\ pending # None
               /\ pending.m \in Size /\ pending.k \in 1 .. Keys
               /\ incoming' \in Piece /\ b \o incoming' = pending.buffer \o incoming
               /\ Len(b) + Len(incoming') = pending.m \div Octet
               /\ \/ /\ incoming' = <<>>
                     /\ bloom' = Reset(b, pending.m, pending.k) /\ pending' = None
                  \/ /\ incoming' # <<>> /\ UNCHANGED bloom
                     /\ pending' = [pending EXCEPT !.buffer = b]
               /\ UNCHANGED <<client, connected, blo0, sf, searches, announced>>
<1> DEFINE b == pending.buffer \o SubSeq(incoming, 1, n)
           rest == SubSeq(incoming, n + 1, Len(incoming))
<1>1. /\ connected /\ incoming # <<>> /\ incoming \in Piece /\ incoming' = rest
      /\ IF Complete(b)
         THEN bloom' = Reset(b, pending.m, pending.k) /\ pending' = None
         ELSE pending' = [pending EXCEPT !.buffer = b] /\ UNCHANGED bloom
      /\ UNCHANGED <<client, connected, blo0, sf, searches, announced>>
    BY DEF OnData, GInv, Shapes
<1>2. /\ pending # None
      /\ Len(pending.buffer) + Len(incoming) = pending.m \div Octet
    BY <1>1 DEF GInv, Lengths
<1>3. /\ pending.m \in Size /\ pending.k \in 1 .. Keys /\ pending.buffer \in Piece
    BY <1>2 DEF GInv, Shapes
<1>4. /\ b \in Piece /\ rest \in Piece /\ b \o rest = pending.buffer \o incoming
      /\ Len(b) + Len(rest) = Len(pending.buffer) + Len(incoming)
    BY <1>1, <1>3, PieceCut, Zenon
<1> HIDE DEF b, rest
<1>5. Len(b) \in Nat /\ Len(rest) \in Nat /\ (rest = <<>> <=> Len(rest) = 0)
    BY <1>4 DEF Piece
<1>6. Complete(b) <=> rest = <<>>
    BY <1>2, <1>4, <1>5 DEF Complete
<1>7. Len(b) + Len(rest) = pending.m \div Octet
    BY <1>2, <1>4
<1> QED BY <1>1, <1>2, <1>3, <1>4, <1>6, <1>7

LEMMA OnDataKeeps ==
    ASSUME GInv, NEW n \in 1 .. Len(incoming), OnData(n)
    PROVE  GInv'
<1>1. PICK b \in Piece :
          /\ incoming # <<>> /\ pending # None
          /\ pending.m \in Size /\ pending.k \in 1 .. Keys
          /\ incoming' \in Piece /\ Len(b) + Len(incoming') = pending.m \div Octet
          /\ \/ /\ incoming' = <<>>
                /\ bloom' = Reset(b, pending.m, pending.k) /\ pending' = None
             \/ /\ incoming' # <<>> /\ UNCHANGED bloom
                /\ pending' = [pending EXCEPT !.buffer = b]
          /\ UNCHANGED <<client, connected, blo0, sf, searches, announced>>
    BY OnDataFacts, Zenon
<1>2. UNCHANGED <<share, up, down, changes, lapsed, fresh, connected, blo0, sf, searches, announced>>
    BY <1>1 DEF client
<1>3. Len(b) \in Nat /\ Len(incoming') \in Nat /\ (incoming' # <<>> => Len(incoming') > 0)
    BY <1>1 DEF Piece
<1>4. Others /\ SizesTyped
    BY Typed DEF GInv
<1>5. /\ bloom' \in {bloom} \cup [m : Size, k : 1 .. Keys, on : SUBSET Nat]
      /\ BloomSized(bloom')
    <2>1. CASE UNCHANGED bloom
        BY <1>4, <2>1 DEF SizesTyped
    <2>2. CASE bloom' = Reset(b, pending.m, pending.k)
        <3> DEFINE m == pending.m
                   k == pending.k
                   on == {x \in 0 .. m - 1 : x % Octet \in b[(x \div Octet) + 1]}
        <3>1. bloom' = [m |-> m, k |-> k, on |-> on]
            BY <2>2 DEF Reset
        <3>2. on \subseteq 0 .. m - 1
            OBVIOUS
        <3> HIDE DEF on
        <3>3. on \subseteq Nat /\ m % Unit = 0
            BY <1>1, <3>2, SizeFacts DEF Size
        <3> QED BY <1>1, <3>1, <3>2, <3>3 DEF BloomSized
    <2> QED BY <1>1, <2>1, <2>2
<1>6. /\ pending' \in {None} \cup [m : Size, k : 1 .. Keys, buffer : Piece]
      /\ pending' # None =>
             /\ incoming' # <<>>
             /\ Len(pending'.buffer) + Len(incoming') = pending'.m \div Octet
             /\ Len(pending'.buffer) < pending'.m \div Octet
      /\ incoming' # <<>> => pending' # None
    <2>1. CASE pending' = None /\ incoming' = <<>>
        BY <2>1
    <2>2. CASE incoming' # <<>> /\ pending' = [pending EXCEPT !.buffer = b]
        <3>1. pending \in [m : Size, k : 1 .. Keys, buffer : Piece]
            BY <1>1 DEF GInv, Shapes
        <3>2. /\ pending' \in [m : Size, k : 1 .. Keys, buffer : Piece]
              /\ pending'.buffer = b /\ pending'.m = pending.m
            BY <2>2, <3>1
        <3>3. pending' # None
            BY <1>1, <3>2, SizeFacts DEF None
        <3>4. Len(b) < pending.m \div Octet
            BY <1>1, <1>3, <2>2
        <3> QED BY <1>1, <2>2, <3>2, <3>3, <3>4
    <2> QED BY <1>1, <2>1, <2>2
<1>7. Others'
    BY <1>2, <1>4 DEF Others
<1>8. SizesTyped'
    <2>1. PendingSized(pending')
        BY <1>6, PendingSizes
    <2> QED BY <1>2, <1>4, <1>5, <2>1, Zenon DEF SizesTyped
<1>9. Shapes'
    BY <1>1, <1>2, <1>5, <1>6 DEF GInv, Shapes
<1>10. Lengths'
    BY <1>2, <1>6 DEF GInv, Lengths
<1>11. StillShared'
    BY <1>2 DEF GInv, StillShared, Announces
<1> QED BY <1>7, <1>8, <1>9, <1>10, <1>11, Typed DEF GInv

LEMMA SearchKeeps ==
    ASSUME GInv, Search
    PROVE  GInv'
<1>1. UNCHANGED <<share, up, down, changes, lapsed, fresh, connected, blo0, sf, bloom,
                  pending, incoming, announced>>
    BY DEF Search, client
<1>2. Others /\ SizesTyped
    BY Typed DEF GInv
<1>3. searches' \in [all : Nat, tth : Nat, stopped : Nat] /\ SearchesSized(searches')
    <2>1. searches \in [all : Nat, tth : Nat, stopped : Nat] /\ SearchesSized(searches)
        BY <1>2 DEF GInv, Shapes, SizesTyped
    <2>2. CASE searches' = [searches EXCEPT !.all = @ + 1]
        BY <2>1, <2>2 DEF SearchesSized
    <2>3. ASSUME NEW s \in {0, 1},
                 searches' = [all |-> searches.all + 1, tth |-> searches.tth + 1,
                              stopped |-> searches.stopped + s]
          PROVE  searches' \in [all : Nat, tth : Nat, stopped : Nat] /\ SearchesSized(searches')
        BY <2>1, <2>3 DEF SearchesSized
    <2> QED BY <2>2, <2>3 DEF Search
<1>4. Others'
    BY <1>1, <1>2 DEF Others
<1>5. SizesTyped'
    BY <1>1, <1>2, <1>3, Zenon DEF SizesTyped
<1>6. Shapes'
    BY <1>1, <1>3 DEF GInv, Shapes
<1>7. Lengths'
    BY <1>1 DEF GInv, Lengths
<1>8. StillShared'
    BY <1>1 DEF GInv, StillShared, Announces
<1> QED BY <1>4, <1>5, <1>6, <1>7, <1>8, Typed DEF GInv

LEMMA StepKeeps ==
    ASSUME GInv, [Next]_vars
    PROVE  GInv'
<1>1. CASE UNCHANGED vars
    <2>1. UNCHANGED <<share, up, down, changes, lapsed, fresh, connected, blo0, sf, bloom,
                      pending, incoming, searches, announced>>
        BY <1>1 DEF vars, client, hub
    <2>2. TypeOK'
        <3>1. Others'
            BY <2>1, Typed DEF GInv, Others
        <3> QED BY <2>1, <3>1, TypeKept DEF GInv
    <2>3. Shapes' /\ Lengths' /\ StillShared'
        BY <2>1 DEF GInv, Shapes, Lengths, StillShared, Announces
    <2> QED BY <2>2, <2>3 DEF GInv
<1>2. CASE Next
    BY <1>2, ShareKeeps, UnshareKeeps, AnnounceKeeps, AnswerKeeps, LapseKeeps, ReceiveINFKeeps,
       ReceiveSUPKeeps, ReceiveSNDKeeps, OnDataKeeps, SearchKeeps DEF Next, HubStep
<1> QED BY <1>1, <1>2

LEMMA InitGood == Init => BInv
<1> SUFFICES ASSUME Init PROVE BInv
    OBVIOUS
<1>1. /\ share \in SUBSET Files /\ fresh = FALSE
      /\ up = <<>> /\ down = <<>> /\ changes = 0 /\ lapsed = FALSE
      /\ connected = TRUE /\ blo0 \in BOOLEAN /\ sf = 0
      /\ bloom = None /\ pending = None /\ incoming = <<>>
      /\ searches = [all |-> 0, tth |-> 0, stopped |-> 0]
      /\ announced = {}
    BY DEF Init
<1>2. Others
    <2>1. fresh \in BOOLEAN /\ lapsed \in BOOLEAN /\ connected \in BOOLEAN
        BY <1>1
    <2> QED BY <1>1, <2>1, FilesAssumption DEF Others
<1>3. SizesTyped
    <2>1. Cardinality(Files) \in Nat
        BY <1>1, FilesFinite
    <2>2. searches.stopped <= searches.tth /\ searches.tth <= searches.all
        BY <1>1
    <2>3. sf \in 0 .. Cardinality(Files)
        BY <1>1, <2>1
    <2> QED BY <1>1, <2>2, <2>3, Zenon DEF SizesTyped, BloomSized, PendingSized, SearchesSized
<1>4. Shapes /\ Lengths /\ StillShared
    BY <1>1 DEF Shapes, Lengths, StillShared, Piece
<1>5. PInv
    BY <1>1 DEF PInv, NoSnd, Latest
<1> QED BY <1>2, <1>3, <1>4, <1>5, Typed DEF BInv, GInv

----------------------------------------------------------------------------
(* The phases of a request.                                                *)

LEMMA SharePhase ==
    ASSUME GInv, PInv, NEW f \in Files, Share(f)
    PROVE  PInv'
<1>1. /\ fresh' = FALSE /\ UNCHANGED <<up, down, connected, blo0, bloom, pending,
                                       incoming, announced>>
    BY DEF Share, hub
<1>2. \A F, i : Latest(F, i)'
    BY <1>1 DEF Latest
<1>3. \A F, i : SentAt(i, F) => SentAt(i, F)'
    BY <1>1, <1>2 DEF SentAt, Announces
<1>4. \A F : (ArrivingOf(F) => ArrivingOf(F)') /\ (FilterOf(F) => FilterOf(F)')
    BY <1>1, <1>2 DEF ArrivingOf, FilterOf
<1>5. (Asked => Asked') /\ (Sent => Sent') /\ (Arriving => Arriving') /\ (NoSnd => NoSnd')
    BY <1>1, <1>3, <1>4 DEF Asked, Sent, Arriving, NoSnd
<1>6. Latest({}, 0)'
    BY <1>2
<1> QED BY <1>1, <1>4, <1>5, <1>6 DEF PInv

LEMMA UnsharePhase ==
    ASSUME GInv, PInv, NEW f \in Files, Unshare(f)
    PROVE  PInv'
<1>1. /\ fresh' = FALSE /\ announced' = announced \ {f}
      /\ UNCHANGED <<down, connected, blo0, bloom, pending, incoming>>
    BY DEF Unshare
<1>2. /\ DOMAIN up' = DOMAIN up
      /\ \A i \in DOMAIN up :
             /\ up'[i].cmd = up[i].cmd
             /\ Announces(up'[i]) <=> Announces(up[i])
             /\ Announces(up[i]) => up'[i].held = up[i].held \ {f}
             /\ ~Announces(up[i]) => up'[i] = up[i]
    BY UnshareFacts DEF GInv, Shapes
<1>3. \A F, i : Latest(F, i)'
    BY <1>1 DEF Latest
<1>4. ASSUME NEW F, NEW i \in DOMAIN up, SentAt(i, F)
      PROVE  SentAt(i, F)'
    <2>1. up[i].cmd = "SND" /\ up'[i] = up[i]
        BY <1>2, <1>4 DEF SentAt, Snd, Announces
    <2>2. \A j \in DOMAIN up' : /\ up'[j].cmd = "SND" => j = i
                                /\ j < i /\ Announces(up'[j]) => up'[j].held \subseteq F
        BY <1>2, <1>4 DEF SentAt
    <2>3. \A j : Announces(up[j])' <=> Announces(up'[j])
        BY DEF Announces
    <2> QED BY <1>1, <1>3, <1>4, <2>1, <2>2, <2>3 DEF SentAt
<1>5. \A F : (ArrivingOf(F) => ArrivingOf(F)') /\ (FilterOf(F) => FilterOf(F)')
    BY <1>1, <1>3 DEF ArrivingOf, FilterOf
<1>6. NoSnd => NoSnd'
    BY <1>2 DEF NoSnd
<1>7. (Asked => Asked') /\ (Sent => Sent') /\ (Arriving => Arriving')
    BY <1>1, <1>2, <1>4, <1>5, <1>6 DEF Asked, Sent, Arriving
<1>8. \A i \in DOMAIN up' : up'[i].cmd # "SUP"
    BY <1>2 DEF PInv
<1>9. Latest({}, 0)'
    BY <1>3
<1> QED BY <1>1, <1>5, <1>6, <1>7, <1>8, <1>9 DEF PInv

\* An announcement joins those under way: what was up to date is, or will be.
LEMMA AnnouncePhase ==
    ASSUME GInv, PInv, Announce
    PROVE  PInv'
<1>1. UNCHANGED <<share, down, connected, blo0, bloom, pending, incoming, announced>>
    BY DEF Announce, hub
<1>2. PICK c \in Command :
          /\ up' = Append(up, c) /\ c.cmd = "INF"
          /\ \/ fresh' = fresh
             \/ Announces(c) /\ (share # {} => c.n # 0)
    <2>1. share \in SUBSET Files
        BY Typed DEF GInv, Others
    <2>2. CASE Sends(Inf(share))
        <3>1. Cardinality(share) \in 0 .. Cardinality(Files) /\ (Cardinality(share) = 0 <=> share = {})
            BY <2>1, FilesFinite
        <3>2. /\ Inf(share) \in Command /\ Inf(share).cmd = "INF" /\ Announces(Inf(share))
              /\ Inf(share).n = Cardinality(share)
            BY <2>1, <3>1 DEF Inf, Command, Announces
        <3> QED BY <2>2, <3>1, <3>2 DEF Sends
    <2>3. CASE Sends(OtherInf) /\ fresh' = fresh
        <3>1. OtherInf \in Command /\ OtherInf.cmd = "INF"
            BY DEF OtherInf, Command
        <3> QED BY <2>3, <3>1 DEF Sends
    <2> QED BY <2>2, <2>3 DEF Announce
<1>3. /\ Len(up) \in Nat /\ DOMAIN up = 1 .. Len(up) /\ DOMAIN up' = 1 .. Len(up) + 1
      /\ \A i \in DOMAIN up : i \in DOMAIN up' /\ up'[i] = up[i]
      /\ up'[Len(up) + 1] = c
      /\ \A i \in DOMAIN up' : i \in DOMAIN up \/ i = Len(up) + 1
    <2>1. up \in Seq(Command)
        BY DEF GInv, Shapes
    <2> QED BY <1>2, <2>1, AppendFacts
<1>4. ASSUME NEW F, NEW i \in 0 .. Len(up), Latest(F, i)
      PROVE  Latest(F, i)'
    <2>1. CASE fresh' = fresh
        BY <1>1, <1>3, <1>4, <2>1 DEF Latest, Announces
    <2>2. CASE Announces(c) /\ (share # {} => c.n # 0)
        <3>1. Len(up) + 1 \in DOMAIN up' /\ Len(up) + 1 > i
            BY <1>3
        <3> QED BY <1>1, <1>3, <2>2, <3>1 DEF Latest, Announces
    <2> QED BY <1>2, <2>1, <2>2
<1>5. ASSUME NEW F, NEW i \in DOMAIN up, SentAt(i, F)
      PROVE  SentAt(i, F)'
    <2>1. Latest(F, i)'
        BY <1>3, <1>4, <1>5 DEF SentAt
    <2>2. \A j \in DOMAIN up' : /\ up'[j].cmd = "SND" => j = i
                                /\ j < i /\ Announces(up'[j]) => up'[j].held \subseteq F
        BY <1>2, <1>3, <1>5 DEF SentAt
    <2>3. up'[i] = up[i]
        BY <1>3
    <2> QED BY <1>1, <1>5, <2>1, <2>2, <2>3 DEF SentAt, Announces
<1>6. \A F : Latest(F, 0) => Latest(F, 0)'
    BY <1>3, <1>4
<1>7. \A F : (ArrivingOf(F) => ArrivingOf(F)') /\ (FilterOf(F) => FilterOf(F)')
    BY <1>1, <1>6 DEF ArrivingOf, FilterOf
<1>8. NoSnd => NoSnd'
    BY <1>2, <1>3 DEF NoSnd
<1>9. (Asked => Asked') /\ (Sent => Sent') /\ (Arriving => Arriving')
    BY <1>1, <1>3, <1>5, <1>7, <1>8 DEF Asked, Sent, Arriving
<1>10. \A i \in DOMAIN up' : up'[i].cmd # "SUP"
    BY <1>2, <1>3 DEF PInv
<1> QED BY <1>1, <1>6, <1>7, <1>8, <1>9, <1>10 DEF PInv

\* The answer is the filter of all that is shared, hence of all that was announced.
LEMMA AnswerPhase ==
    ASSUME GInv, PInv, Answer
    PROVE  PInv'
<1>1. UNCHANGED <<share, fresh, connected, blo0, bloom, pending, incoming, announced>>
      /\ down # <<>> /\ down' = Tail(down)
    BY DEF Answer, hub
<1>2. pending # None /\ Asked
    BY <1>1 DEF PInv, Sent, Arriving
<1> DEFINE get == Get(pending.m, pending.k)
           c == Snd(pending.m \div Octet, Bytes(Filter(share, pending.m, pending.k)))
<1>3. down = <<get>> /\ get.m = pending.m /\ get.k = pending.k /\ get.len = pending.m \div Octet
    BY <1>2 DEF Asked, Get
<1>4. down' = <<>> /\ Head(down) = get
    BY <1>1, <1>3
<1>5. up' = Append(up, c)
    BY <1>3, <1>4 DEF Answer, Sends
<1>6. c.cmd = "SND" /\ ~Announces(c)
    BY DEF Snd, Announces
<1>7. up \in Seq(Command) /\ c \in Command /\ share \in SUBSET Files
    BY AnswerFacts, <1>3, <1>4 DEF GInv, Shapes
<1>8. /\ Len(up) \in Nat /\ DOMAIN up = 1 .. Len(up) /\ DOMAIN up' = 1 .. Len(up) + 1
      /\ \A i \in DOMAIN up : i \in DOMAIN up' /\ up'[i] = up[i]
      /\ up'[Len(up) + 1] = c
      /\ \A i \in DOMAIN up' : i \in DOMAIN up \/ i = Len(up) + 1
    <2> HIDE DEF c
    <2> QED BY <1>5, <1>7, AppendFacts
<1>9. ASSUME NEW i, i = Len(up) + 1, NEW F, F = share
      PROVE  SentAt(i, F)'
    <2>1. \A j \in DOMAIN up' :
              /\ up'[j].cmd = "SND" => j = i
              /\ j < i /\ Announces(up'[j]) => up'[j].held \subseteq F
        <3> TAKE j \in DOMAIN up'
        <3>1. CASE j \in DOMAIN up
            <4>1. up'[j] = up[j] /\ up[j].cmd # "SND"
                BY <1>2, <1>8, <3>1 DEF Asked, NoSnd
            <4>2. Announces(up[j]) => up[j].held \subseteq share
                BY <3>1 DEF GInv, StillShared
            <4> QED BY <1>9, <4>1, <4>2
        <3>2. CASE j = Len(up) + 1
            BY <1>8, <1>9, <3>2
        <3> QED BY <1>8, <3>1, <3>2
    <2>2. announced' \subseteq F /\ Latest(F, i)'
        BY <1>1, <1>9 DEF GInv, StillShared, Latest
    <2>3. up'[i] = Snd(pending'.m \div Octet, Bytes(Filter(F, pending'.m, pending'.k)))
        BY <1>1, <1>8, <1>9
    <2> QED BY <2>1, <2>2, <2>3 DEF SentAt, Announces
<1>10. Sent'
    <2>1. PICK i, F : i = Len(up) + 1 /\ F = share
        OBVIOUS
    <2>2. i \in DOMAIN up' /\ F \in SUBSET Files
        BY <1>7, <1>8, <2>1
    <2>3. down' = <<>> /\ incoming' = <<>>
        BY <1>1, <1>2, <1>4 DEF Asked
    <2> QED BY <1>9, <2>1, <2>2, <2>3 DEF Sent
<1>11. \A i \in DOMAIN up' : up'[i].cmd # "SUP"
    BY <1>6, <1>8 DEF PInv
<1> QED BY <1>1, <1>2, <1>10, <1>11 DEF PInv

\* A command that is read leaves the filter as late as it was, unless it is an
\* announcement that could have been the latest.
LEMMA LatestRead ==
    ASSUME GInv, NEW cmd, Receives(cmd), UNCHANGED <<share, fresh>>, NEW F,
           NEW i \in Nat, Latest(F, i),
           i = 0 => ~(Announces(up[1]) /\ up[1].n # 0),
           NEW h \in Nat, h = i - 1 \/ (i = 0 /\ h = 0)
    PROVE  Latest(F, h)'
<1> SUFFICES ASSUME fresh, share # {}, F # share
             PROVE  \E j \in DOMAIN up' : j > h /\ Announces(up'[j]) /\ up'[j].n # 0
    BY DEF Latest, Announces
<1>1. PICK j \in DOMAIN up : j > i /\ Announces(up[j]) /\ up[j].n # 0
    BY DEF Latest
<1>2. j \in Nat \ {0} /\ j # 1
    BY <1>1, ReceiveFacts
<1>3. j - 1 \in DOMAIN up' /\ up'[j - 1] = up[j]
    BY <1>2, ReceiveFacts
<1>4. j - 1 > h
    BY <1>1, <1>2
<1> QED BY <1>1, <1>3, <1>4

LEMMA ReceiveINFPhase ==
    ASSUME GInv, PInv, ReceiveINF
    PROVE  PInv'
<1> DEFINE inf == Head(up)
<1>1. /\ connected /\ incoming = <<>> /\ Receives("INF")
      /\ inf \in Command /\ inf.cmd = "INF"
      /\ 1 \in DOMAIN up /\ up[1] = inf
      /\ \A i \in DOMAIN up' : i \in Nat \ {0} /\ i + 1 \in DOMAIN up /\ up'[i] = up[i + 1]
      /\ \A i \in DOMAIN up : i \in Nat \ {0}
      /\ \A i \in DOMAIN up : i # 1 => i - 1 \in DOMAIN up' /\ up'[i - 1] = up[i]
    BY ReceiveFacts DEF ReceiveINF
<1>2. /\ IF AsksBloom(inf) THEN Ask(inf.n) ELSE UNCHANGED <<bloom, pending, down>>
      /\ announced' = IF inf.sf THEN inf.held ELSE announced
      /\ UNCHANGED <<share, fresh, connected, blo0, incoming>>
    BY DEF ReceiveINF
<1> HIDE DEF inf
<1>3. inf.sf <=> Announces(inf)
    BY <1>1, AnnouncesFacts
<1>4. inf.sf => /\ inf.n \in 0 .. Cardinality(Files)
                /\ (inf.n = 0 => inf.held = {})
    BY <1>1, <1>3, AnnouncesFacts DEF GInv, StillShared
<1>5. NoSnd => NoSnd'
    BY <1>1 DEF NoSnd
<1>6. \A i \in DOMAIN up' : up'[i].cmd # "SUP"
    BY <1>1 DEF PInv
<1>7. CASE pending # None
    <2>1. UNCHANGED <<bloom, pending, down>>
        BY <1>2, <1>7 DEF AsksBloom
    <2>2. CASE Asked
        <3>1. Asked'
            BY <1>2, <1>5, <2>1, <2>2 DEF Asked
        <3> QED BY <1>1, <1>2, <1>6, <1>7, <2>1, <3>1 DEF PInv
    <2>3. CASE Sent
        <3>1. PICK i \in DOMAIN up, F \in SUBSET Files : SentAt(i, F)
            BY <2>3 DEF Sent
        <3>2. i # 1
            BY <1>1, <3>1 DEF SentAt, Snd
        <3>3. PICK h \in DOMAIN up' : h \in Nat \ {0} /\ i = h + 1 /\ up'[h] = up[i]
            <4>1. i - 1 \in DOMAIN up' /\ up'[i - 1] = up[i] /\ i \in Nat
                BY <1>1, <3>2
            <4>2. i - 1 \in Nat \ {0} /\ i = (i - 1) + 1
                BY <1>1, <4>1
            <4> QED BY <4>1, <4>2
        <3>4. announced' \subseteq F
            BY <1>1, <1>2, <1>3, <3>1, <3>3 DEF SentAt
        <3>5. Latest(F, h)'
            <4>1. Latest(F, i) /\ UNCHANGED <<share, fresh>>
                BY <1>2, <3>1 DEF SentAt
            <4>2. i \in Nat /\ h \in Nat /\ i # 0 /\ h = i - 1
                BY <3>3
            <4>3. i = 0 => ~(Announces(up[1]) /\ up[1].n # 0)
                BY <4>2
            <4>4. h = i - 1 \/ (i = 0 /\ h = 0)
                BY <4>2
            <4>5. Receives("INF") /\ i \in Nat /\ h \in Nat
                BY <1>1, <4>2
            <4> QED BY <4>1, <4>3, <4>4, <4>5, LatestRead, Zenon
        <3>6. \A j \in DOMAIN up' : /\ up'[j].cmd = "SND" => j = h
                                    /\ j < h /\ Announces(up'[j]) => up'[j].held \subseteq F
            <4> TAKE j \in DOMAIN up'
            <4>1. j \in Nat /\ j + 1 \in DOMAIN up /\ up'[j] = up[j + 1]
                BY <1>1
            <4>2. /\ up[j + 1].cmd = "SND" => j + 1 = i
                  /\ j + 1 < i /\ Announces(up[j + 1]) => up[j + 1].held \subseteq F
                BY <3>1, <4>1 DEF SentAt
            <4> QED BY <3>3, <4>1, <4>2
        <3>7. SentAt(h, F)'
            BY <2>1, <3>1, <3>3, <3>4, <3>5, <3>6 DEF SentAt, Announces
        <3>8. Sent'
            BY <1>2, <2>1, <2>3, <3>3, <3>7 DEF Sent
        <3> QED BY <1>1, <1>2, <1>6, <1>7, <2>1, <3>8 DEF PInv
    <2> QED BY <1>1, <1>7, <2>2, <2>3 DEF PInv, Arriving
<1>8. CASE pending = None /\ AsksBloom(inf)
    <2>1. inf.n \in Nat \ {0} /\ blo0
        BY <1>4, <1>8, FilesFinite DEF AsksBloom
    <2>2. Ask(inf.n)
        BY <1>2, <1>8
    <2>3. /\ bloom' = None /\ pending' # None
          /\ down' = Append(down, Get(pending'.m, pending'.k))
        BY <2>1, <2>2, AskFacts
    <2>4. down = <<>> /\ NoSnd'
        BY <1>5, <1>8 DEF PInv
    <2>5. down' = <<Get(pending'.m, pending'.k)>>
        BY <2>3, <2>4
    <2>6. Asked'
        BY <1>1, <1>2, <2>4, <2>5 DEF Asked
    <2> QED BY <1>1, <1>2, <1>6, <2>1, <2>3, <2>6 DEF PInv
<1>9. CASE pending = None /\ ~AsksBloom(inf)
    <2>1. UNCHANGED <<bloom, pending, down>> /\ down = <<>> /\ NoSnd'
        BY <1>2, <1>5, <1>9 DEF PInv
    <2>2. blo0 => ~(inf.sf /\ inf.n # 0)
        BY <1>9 DEF AsksBloom
    <2>3. ASSUME NEW F, blo0, Latest(F, 0) PROVE Latest(F, 0)'
        BY <1>1, <1>2, <1>3, <2>2, <2>3, LatestRead
    <2>4. blo0 => \A F : FilterOf(F) => FilterOf(F)'
        <3> SUFFICES ASSUME blo0, NEW F, FilterOf(F) PROVE FilterOf(F)'
            OBVIOUS
        <3>1. announced' \subseteq F
            BY <1>2, <1>4, <2>2 DEF FilterOf
        <3> QED BY <2>1, <2>3, <3>1 DEF FilterOf
    <2>5. Latest({}, 0) /\ blo0 => Latest({}, 0)'
        BY <2>3
    <2>6. bloom # None => blo0 /\ \E F \in SUBSET Files : FilterOf(F)'
        BY <1>9, <2>4 DEF PInv
    <2>7. bloom = None => (blo0 => Latest({}, 0)')
        BY <1>9, <2>5 DEF PInv
    <2> QED BY <1>1, <1>2, <1>6, <1>9, <2>1, <2>6, <2>7 DEF PInv
<1> QED BY <1>7, <1>8, <1>9

\* The answer's bytes start to come.
LEMMA ReceiveSNDPhase ==
    ASSUME GInv, PInv, ReceiveSND
    PROVE  PInv'
<1> DEFINE snd == Head(up)
<1>1. /\ connected /\ incoming = <<>> /\ Receives("SND") /\ snd.cmd = "SND"
      /\ 1 \in DOMAIN up /\ up[1] = snd
      /\ \A i \in DOMAIN up' : i \in Nat \ {0} /\ i + 1 \in DOMAIN up /\ up'[i] = up[i + 1]
    BY ReceiveFacts DEF ReceiveSND
<1>2. pending # None /\ Sent
    BY <1>1 DEF PInv, NoSnd, Asked, Arriving
<1>3. PICK i \in DOMAIN up, F \in SUBSET Files : SentAt(i, F)
    BY <1>2 DEF Sent
<1>4. i = 1
    BY <1>1, <1>3 DEF SentAt
<1> DEFINE data == Bytes(Filter(F, pending.m, pending.k))
<1>5. /\ pending.m \in Size /\ pending.k \in 1 .. Keys
      /\ pending.buffer = <<>>
    BY <1>1, <1>2 DEF GInv, Shapes, Lengths
<1>6. /\ data \in Piece /\ Len(data) = pending.m \div Octet
      /\ pending.m \div Octet \in Nat \ {0}
    BY <1>5, BytesType, SizeFacts
<1>7. snd.len = pending.m \div Octet /\ snd.data = data
    BY <1>1, <1>3, <1>4 DEF SentAt, Snd
<1>8. /\ incoming' = data
      /\ UNCHANGED <<share, fresh, down, connected, blo0, bloom, pending, announced>>
    BY <1>2, <1>7 DEF ReceiveSND, RightSize
<1> HIDE DEF snd
<1>9. down' = <<>> /\ NoSnd' /\ incoming' # <<>>
    <2>1. down = <<>>
        BY <1>2 DEF Sent
    <2>2. \A j \in DOMAIN up' : up'[j].cmd # "SND"
        <3> TAKE j \in DOMAIN up'
        <3>1. j + 1 \in DOMAIN up /\ up'[j] = up[j + 1] /\ j + 1 # 1
            BY <1>1
        <3> QED BY <1>3, <1>4, <3>1 DEF SentAt
    <2>3. data # <<>>
        <3> HIDE DEF data
        <3> QED BY <1>6
    <2> QED BY <1>8, <2>1, <2>2, <2>3 DEF NoSnd
<1>10. ArrivingOf(F)'
    <2>1. Latest(F, 1) /\ announced \subseteq F
        BY <1>3, <1>4 DEF SentAt
    <2>2. Latest(F, 0)'
        <3> DEFINE h == 0
        <3>1. 1 \in Nat /\ 0 \in Nat /\ UNCHANGED <<share, fresh>>
            BY <1>8
        <3>2. 1 = 0 => ~(Announces(up[1]) /\ up[1].n # 0)
            OBVIOUS
        <3>3. 0 = 1 - 1 \/ (1 = 0 /\ 0 = 0)
            OBVIOUS
        <3> QED BY <1>1, <2>1, <3>1, <3>2, <3>3, LatestRead
    <2>3. <<>> \o data = data
        <3> HIDE DEF data
        <3> QED BY <1>6 DEF Piece
    <2> QED BY <1>5, <1>8, <2>1, <2>2, <2>3 DEF ArrivingOf
<1>11. Arriving'
    BY <1>9, <1>10 DEF Arriving
<1>12. \A j \in DOMAIN up' : up'[j].cmd # "SUP"
    BY <1>1 DEF PInv
<1> QED BY <1>1, <1>2, <1>8, <1>11, <1>12 DEF PInv

\* More of the filter has come, or all of it.
LEMMA OnDataPhase ==
    ASSUME GInv, PInv, NEW n \in 1 .. Len(incoming), OnData(n)
    PROVE  PInv'
<1>1. PICK b \in Piece :
          /\ connected /\ incoming # <<>> /\ pending # None
          /\ pending.m \in Size /\ pending.k \in 1 .. Keys
          /\ incoming' \in Piece /\ b \o incoming' = pending.buffer \o incoming
          /\ \/ /\ incoming' = <<>>
                /\ bloom' = Reset(b, pending.m, pending.k) /\ pending' = None
             \/ /\ incoming' # <<>> /\ UNCHANGED bloom
                /\ pending' = [pending EXCEPT !.buffer = b]
          /\ UNCHANGED <<client, connected, blo0, sf, searches, announced>>
    BY OnDataFacts, Zenon
<1>2. UNCHANGED <<share, up, down, fresh, connected, blo0, announced>>
    BY <1>1 DEF client
<1>3. Arriving /\ blo0 /\ bloom = None
    BY <1>1 DEF PInv, Asked, Sent
<1>4. PICK F \in SUBSET Files : ArrivingOf(F)
    BY <1>3 DEF Arriving
<1>5. down' = <<>> /\ NoSnd'
    BY <1>2, <1>3 DEF Arriving, NoSnd
<1>6. announced' \subseteq F /\ Latest(F, 0)'
    BY <1>2, <1>4 DEF ArrivingOf, Latest, Announces
<1>7. b \o incoming' = Bytes(Filter(F, pending.m, pending.k))
    BY <1>1, <1>4 DEF ArrivingOf
<1>8. \A i \in DOMAIN up' : up'[i].cmd # "SUP"
    BY <1>2 DEF PInv
<1>9. CASE /\ incoming' = <<>>
           /\ bloom' = Reset(b, pending.m, pending.k) /\ pending' = None
    <2> DEFINE filter == Filter(F, pending.m, pending.k)
    <2>1. b = Bytes(filter)
        <3>1. b \o <<>> = b
            BY DEF Piece
        <3> QED BY <1>7, <1>9, <3>1
    <2>2. bloom' = filter
        BY <1>1, <1>9, <2>1, ResetBytes
    <2>3. filter.m = pending.m /\ filter.k = pending.k
        BY DEF Filter
    <2>4. bloom' # None
        BY <1>1, <2>2, <2>3, SizeFacts DEF None
    <2>5. FilterOf(F)'
        BY <1>6, <2>2, <2>3 DEF FilterOf
    <2> QED BY <1>1, <1>2, <1>3, <1>5, <1>8, <1>9, <2>4, <2>5 DEF PInv
<1>10. CASE /\ incoming' # <<>> /\ UNCHANGED bloom
            /\ pending' = [pending EXCEPT !.buffer = b]
    <2>1. pending \in [m : Size, k : 1 .. Keys, buffer : Piece]
        BY <1>1 DEF GInv, Shapes
    <2>2. pending'.buffer = b /\ pending'.m = pending.m /\ pending'.k = pending.k
        BY <1>10, <2>1
    <2>3. pending' # None
        BY <1>1, <2>2, SizeFacts DEF None
    <2>4. ArrivingOf(F)'
        BY <1>6, <1>7, <2>2 DEF ArrivingOf
    <2>5. Arriving'
        BY <1>5, <1>10, <2>4 DEF Arriving
    <2> QED BY <1>1, <1>2, <1>3, <1>8, <1>10, <2>3, <2>5 DEF PInv
<1> QED BY <1>1, <1>9, <1>10

LEMMA PhaseStays ==
    ASSUME PInv, UNCHANGED <<share, up, down, fresh, connected, blo0, bloom, pending,
                             incoming, announced>>
    PROVE  PInv'
<1>1. \A F, i : Latest(F, i) => Latest(F, i)'
    BY DEF Latest, Announces
<1>2. \A F, i : SentAt(i, F) => SentAt(i, F)'
    BY <1>1 DEF SentAt, Announces
<1>3. \A F : (ArrivingOf(F) => ArrivingOf(F)') /\ (FilterOf(F) => FilterOf(F)')
    BY <1>1 DEF ArrivingOf, FilterOf
<1>4. (Asked => Asked') /\ (Sent => Sent') /\ (Arriving => Arriving') /\ (NoSnd => NoSnd')
    BY <1>2, <1>3 DEF Asked, Sent, Arriving, NoSnd
<1>5. Latest({}, 0) => Latest({}, 0)'
    BY <1>1
<1> QED BY <1>3, <1>4, <1>5 DEF PInv

LEMMA StepGood == BInv /\ [Next]_vars => BInv'
<1> SUFFICES ASSUME BInv, [Next]_vars PROVE BInv'
    OBVIOUS
<1>1. GInv /\ GInv' /\ (~lapsed => PInv)
    BY StepKeeps DEF BInv
<1> SUFFICES ASSUME ~lapsed' PROVE PInv'
    BY <1>1 DEF BInv
<1>2. CASE UNCHANGED vars
    BY <1>1, <1>2, PhaseStays DEF vars, client, hub
<1>3. CASE \E f \in Files : Share(f) \/ Unshare(f)
    <2>1. PICK f \in Files : Share(f) \/ Unshare(f)
        BY <1>3
    <2>2. ~lapsed
        BY <2>1 DEF Share, Unshare
    <2>3. GInv /\ PInv
        BY <1>1, <2>2
    <2>4. CASE Share(f)
        BY <2>3, <2>4, SharePhase
    <2>5. CASE Unshare(f)
        BY <2>3, <2>5, UnsharePhase
    <2> QED BY <2>1, <2>4, <2>5
<1>4. CASE Announce
    BY <1>1, <1>4, AnnouncePhase DEF Announce
<1>5. CASE Answer
    BY <1>1, <1>5, AnswerPhase DEF Answer
<1>6. CASE Lapse
    BY <1>6 DEF Lapse
<1>7. CASE ReceiveINF
    BY <1>1, <1>7, ReceiveINFPhase DEF ReceiveINF
<1>8. CASE ReceiveSUP
    <2>1. 1 \in DOMAIN up /\ up[1].cmd = "SUP" /\ ~lapsed
        BY <1>1, <1>8, ReceiveFacts DEF ReceiveSUP
    <2> QED BY <1>1, <2>1 DEF PInv
<1>9. CASE ReceiveSND
    BY <1>1, <1>9, ReceiveSNDPhase DEF ReceiveSND
<1>10. CASE \E n \in 1 .. Len(incoming) : OnData(n)
    <2>1. PICK n \in 1 .. Len(incoming) : OnData(n)
        BY <1>10
    <2>2. ~lapsed
        BY <2>1 DEF OnData, client
    <2>3. GInv /\ PInv
        BY <1>1, <2>2
    <2> QED BY <2>1, <2>3, OnDataPhase
<1>11. CASE Search
    BY <1>1, <1>11, PhaseStays DEF Search, client
<1> QED BY <1>2, <1>3, <1>4, <1>5, <1>6, <1>7, <1>8, <1>9, <1>10, <1>11 DEF Next, HubStep

\* The invariant the others follow from: where the one request is and what the
\* filter that comes of it will hold.
THEOREM Invariant == Spec => []BInv
<1>1. Init => BInv
    BY InitGood
<1>2. BInv /\ [Next]_vars => BInv'
    BY StepGood
<1> QED BY <1>1, <1>2, PTL DEF Spec

\* Sizes and counters of every state.
THEOREM TypeCorrect == Spec => []TypeOK
<1>1. BInv => TypeOK
    BY DEF BInv, GInv
<1> QED BY <1>1, Invariant, PTL

\* onSend never stops a search for a file that its client has shared ever since the
\* last SF that onReceive handled, whatever the files, the sizes and the changes.
THEOREM NeverLost == Spec => []NoLostFile
<1>1. BInv => NoLostFile
    <2> SUFFICES ASSUME BInv, ~lapsed, NEW f \in announced PROVE ~Stopped(f)
        BY DEF NoLostFile
    <2>1. GInv /\ PInv
        BY DEF BInv
    <2>2. sf # 0
        BY <2>1 DEF GInv, StillShared
    <2>3. CASE bloom = None
        BY <2>2, <2>3 DEF Stopped, HasTTH
    <2>4. CASE bloom # None
        <3>1. PICK F \in SUBSET Files : FilterOf(F)
            BY <2>1, <2>4 DEF PInv
        <3>2. bloom = Filter(F, bloom.m, bloom.k) /\ f \in F
            BY <3>1 DEF FilterOf
        <3>3. bloom.on = UNION {Cells(g, bloom.m, bloom.k) : g \in F}
            BY <3>2 DEF Filter
        <3>4. Cells(f, bloom.m, bloom.k) \subseteq bloom.on
            BY <3>2, <3>3
        <3> QED BY <2>2, <3>4 DEF Stopped, HasTTH, Matches
    <2> QED BY <2>3, <2>4
<1> QED BY <1>1, Invariant, PTL

\* When nothing is under way and the last change was announced, onData has made the
\* hub's filter that of the share, also when onReceive let announcements pass.
THEOREM SettledFilter == Spec => []Settled
<1>1. BInv => Settled
    <2> SUFFICES ASSUME BInv, ~lapsed, blo0, up = <<>>, down = <<>>, incoming = <<>>,
                        fresh, share # {}
                 PROVE  bloom = Filter(share, bloom.m, bloom.k)
        BY DEF Settled
    <2>1. PInv
        BY DEF BInv
    <2>2. DOMAIN up = {}
        OBVIOUS
    <2>3. pending = None
        BY <2>1, <2>2 DEF PInv, Asked, Sent, Arriving
    <2>4. \A F : Latest(F, 0) => F = share
        BY <2>2 DEF Latest
    <2>5. bloom # None
        BY <2>1, <2>3, <2>4 DEF PInv
    <2>6. PICK F \in SUBSET Files : FilterOf(F)
        BY <2>1, <2>3, <2>5 DEF PInv
    <2> QED BY <2>4, <2>6 DEF FilterOf
<1> QED BY <1>1, Invariant, PTL

\* onReceive has one GET out at a time, onData gets exactly the bytes that were asked
\* for, and a client that keeps to the protocol stays connected.
THEOREM OneAtATime == Spec => []OneRequest
<1>1. BInv => OneRequest
    <2> SUFFICES ASSUME BInv PROVE OneRequest
        OBVIOUS
    <2> DEFINE snds == {i \in DOMAIN up : up[i].cmd = "SND"}
    <2>1. GInv /\ (~lapsed => PInv)
        BY DEF BInv
    <2>2. incoming # <<>> =>
              pending # None /\ Len(pending.buffer) + Len(incoming) = pending.m \div Octet
        BY <2>1 DEF GInv, Lengths
    <2>3. NoSnd => Cardinality(snds) = 0
        <3>1. NoSnd => snds = {}
            BY DEF NoSnd
        <3> QED BY <3>1, FS_EmptySet
    <2>4. Sent => Cardinality(snds) = 1
        <3> SUFFICES ASSUME Sent PROVE Cardinality(snds) = 1
            OBVIOUS
        <3>1. PICK i \in DOMAIN up, F \in SUBSET Files : SentAt(i, F)
            BY DEF Sent
        <3>2. snds = {i}
            BY <3>1 DEF SentAt, Snd
        <3> QED BY <3>2, FS_Singleton
    <2> HIDE DEF snds
    <2>5. ASSUME ~lapsed
          PROVE  Len(down) + Cardinality(snds) + (IF incoming = <<>> THEN 0 ELSE 1)
                     = (IF pending = None THEN 0 ELSE 1)
        <3>1. CASE pending = None
            <4>1. Len(down) = 0 /\ Cardinality(snds) = 0 /\ incoming = <<>>
                BY <2>1, <2>2, <2>3, <2>5, <3>1 DEF PInv
            <4> QED BY <3>1, <4>1
        <3>2. CASE pending # None
            <4>1. CASE Asked
                <5>1. Len(down) = 1 /\ Cardinality(snds) = 0 /\ incoming = <<>>
                    BY <2>3, <4>1 DEF Asked
                <5> QED BY <3>2, <5>1
            <4>2. CASE Sent
                <5>1. Len(down) = 0 /\ Cardinality(snds) = 1 /\ incoming = <<>>
                    BY <2>4, <4>2 DEF Sent
                <5> QED BY <3>2, <5>1
            <4>3. CASE Arriving
                <5>1. Len(down) = 0 /\ Cardinality(snds) = 0 /\ incoming # <<>>
                    BY <2>3, <4>3 DEF Arriving
                <5> QED BY <3>2, <5>1
            <4> QED BY <2>1, <2>5, <3>2, <4>1, <4>2, <4>3 DEF PInv
        <3> QED BY <3>1, <3>2
    <2>6. ~lapsed => connected
        BY <2>1 DEF PInv
    <2> QED BY <2>2, <2>5, <2>6 DEF OneRequest, snds
<1> QED BY <1>1, Invariant, PTL
====

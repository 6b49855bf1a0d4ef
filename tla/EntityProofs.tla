---- MODULE EntityProofs ----
(***************************************************************************)
(* What is shown of a user's second protocol has been validated, and the    *)
(* user is shown alike to all, for any observers, any INFs and TCPs, with   *)
(* fields repeated or not, any features and any number of validations.      *)
(***************************************************************************)
EXTENDS Entity, FiniteSetTheorems, SequenceTheorems, WellFoundedInduction, TLAPS

\* Texts, and those the provers are to know as texts.
Texts == STRING \cup {"remote", "4", "6", "any", "none", "op", NoPiece, Piece}
Lists == Seq(Texts)

\* The fields and the cache have their shape, PD is not kept, and the filters are
\* what SU lists unless it was cut.
Shaped(u) ==
    /\ u = [fields |-> u.fields, filters |-> u.filters, suText |-> u.suText, cached |-> u.cached]
    /\ DOMAIN u.fields = Field /\ u.fields["PD"] = Empty
    /\ u.filters \in Lists
    /\ u.suText \in {"whole", "cut", "thrown"}
    /\ u.suText = "whole" => u.fields["SU"] \in Lists /\ u.filters = Features(u.fields["SU"])
    /\ u.cached = NoBuffer \/ DOMAIN u.cached = Field

\* What is known of the second protocol has been validated.
SecondOK(u, ver, rep) ==
    ~local => /\ Ip(Second) \notin rep => u.fields[Ip(Second)] \in {Empty} \cup ver
              /\ Udp(Second) \notin rep /\ u.fields[Udp(Second)] # Empty => ver # {}

\* What a newcomer would be sent may be shown.
UserOK(u, ver, rep) ==
    ~local => /\ ShowsVerified(u.fields, ver, rep)
              /\ u.cached # NoBuffer => ShowsVerified(u.cached, ver, rep)

\* A feature is listed once where nothing is repeated.
Single(u, rep) == "SU" \notin rep => IsInjective(u.filters)

\* Searches over the second protocol reach the user for a reason.
Reason(u, rep, why) ==
    u.suText # "thrown" /\ Strippable(u) /\ "SU" \notin rep => why

EInv ==
    /\ TypeOK
    /\ Shaped(Now) /\ Single(Now, repeated)
    /\ state \in {"PROTOCOL", "IDENTIFY"} => Now = Unnamed
    /\ state \in {"PROTOCOL", "IDENTIFY", "gone"} => tokens = 0
    /\ state = "HBRI" => validate \/ skipped
    /\ state \in {"VERIFY", "HBRI", "NORMAL"} =>
           /\ UserOK(Now, verified, repeated)
           /\ Reason(Now, repeated, validate \/ skipped \/ verified # {})
    /\ state = "NORMAL" /\ ~local =>
           \A o \in present : ShowsVerified(shown[o], verified, repeated)

----------------------------------------------------------------------------
(* The operators.                                                          *)

\* The names of the two protocols' fields differ.
LEMMA Names ==
    /\ First \in {"4", "6"} /\ Second \in {"4", "6"} /\ First # Second
    /\ \A v, w \in {"4", "6"} : /\ {Ip(v), Udp(v)} \subseteq Field \ {"PD", "SU", "CT", "DE"}
                                /\ Ip(v) # Udp(w)
                                /\ v # w => Ip(v) # Ip(w) /\ Udp(v) # Udp(w)
BY ConstantsAssumption DEF Second, Ip, Udp, Field

\* What becomes of the user is all there is to know of it.
LEMMA Becomes ==
    ASSUME NEW u, Shaped(u), Become(u)
    PROVE  Now' = u
BY DEF Shaped, Become, Now

\* A command whose buffer, if it has one, says what its parameters say.
Fresh(c) ==
    /\ c = [params |-> c.params, buffer |-> c.buffer]
    /\ c.buffer \in {c.params, NoBuffer}
    /\ c.params \in [Field -> Seq(Lists)]

LEMMA One == \A n \in Nat : n > 0 /\ n <= 1 => n = 1
OBVIOUS

\* Sequences of values: what Head, Tail and Append make of them.
LEMMA Values ==
    ASSUME NEW s \in Seq(Lists)
    PROVE  /\ s # <<>> => /\ Head(s) \in Lists /\ Tail(s) \in Seq(Lists)
                          /\ Len(s) > 0 /\ Len(Tail(s)) = Len(s) - 1
                          /\ Last(s) \in Lists
                          /\ Len(s) <= 1 => Last(s) = Head(s) /\ Tail(s) = <<>>
           /\ s = <<>> => Len(s) = 0
           /\ \A value \in Lists : /\ Append(s, value) \in Seq(Lists) /\ Append(s, value) # <<>>
                                   /\ Len(Append(s, value)) = Len(s) + 1
                                   /\ Last(Append(s, value)) = value
                                   /\ s = <<>> => Append(s, value) = <<value>>
<1>1. CASE s = <<>>
    BY <1>1 DEF Last
<1>2. CASE s # <<>>
    <2>1. Len(s) \in Nat /\ Len(s) > 0
        BY <1>2
    <2>2. Head(s) \in Lists /\ Tail(s) \in Seq(Lists) /\ Len(Tail(s)) = Len(s) - 1
        BY <1>2
    <2>3. Last(s) \in Lists
        BY <2>1 DEF Last
    <2>4. ASSUME Len(s) <= 1 PROVE Last(s) = Head(s) /\ Tail(s) = <<>>
        <3>1. Len(s) = 1
            BY <2>1, <2>4, One
        <3>2. Last(s) = Head(s)
            BY <1>2, <3>1 DEF Last
        <3>3. Len(Tail(s)) = 0
            BY <2>2, <3>1
        <3>4. Tail(s) = <<>>
            <4> DEFINE t == Tail(s)
            <4>1. t \in Seq(Lists) /\ Len(t) = 0
                BY <1>2, <2>2, <3>3
            <4> HIDE DEF t
            <4>2. t = <<>>
                BY <4>1
            <4> QED BY <4>2 DEF t
        <3> QED BY <3>2, <3>4
    <2>5. ASSUME NEW value \in Lists
          PROVE  /\ Append(s, value) \in Seq(Lists) /\ Append(s, value) # <<>>
                 /\ Len(Append(s, value)) = Len(s) + 1 /\ Last(Append(s, value)) = value
        BY <2>5 DEF Last
    <2> QED BY <1>2, <2>1, <2>2, <2>3, <2>4, <2>5
<1> QED BY <1>1, <1>2

\* addParam and delParam.
LEMMA AddFacts ==
    ASSUME NEW c, Fresh(c), NEW f \in Field, NEW value \in Lists
    PROVE  LET d == AddParam(c, f, value)
           IN  /\ Fresh(d) /\ d.params[f] = Append(c.params[f], value)
               /\ \A g \in Field \ {f} : d.params[g] = c.params[g]
<1>1. Append(c.params[f], value) \in Seq(Lists)
    BY DEF Fresh
<1> QED BY <1>1 DEF Fresh, AddParam

LEMMA DelFacts ==
    ASSUME NEW c, Fresh(c), NEW f \in Field
    PROVE  LET d == DelParam(c, f)
           IN  /\ Fresh(d)
               /\ d.params[f] = IF c.params[f] = <<>> THEN <<>> ELSE Tail(c.params[f])
               /\ \A g \in Field \ {f} : d.params[g] = c.params[g]
<1>1. c.params[f] \in Seq(Lists)
    BY DEF Fresh
<1>2. CASE c.params[f] = <<>>
    BY <1>2 DEF DelParam, Has
<1>3. CASE c.params[f] # <<>>
    <2>1. Tail(c.params[f]) \in Seq(Lists)
        BY <1>1, <1>3
    <2> QED BY <1>3, <2>1 DEF Fresh, DelParam, Has
<1> QED BY <1>2, <1>3

LEMMA Wider == ASSUME NEW S, NEW T, S \subseteq T PROVE Seq(S) \subseteq Seq(T)
<1>1. ASSUME NEW s \in Seq(S) PROVE s \in Seq(T)
    OBVIOUS
<1> QED BY <1>1

\* What a command from the network is.
LEMMA ReceivedFacts ==
    ASSUME NEW params \in Infs \cup Tcps
    PROVE  /\ Fresh(Received(params)) /\ Received(params).params = params
           /\ params \in [Field -> Seq(Lists)]
<1>1. Seq(STRING) \subseteq Lists
    BY Wider DEF Texts, Lists
<1>2. Seq(Seq(STRING)) \subseteq Seq(Lists)
    BY <1>1, Wider
<1> QED BY <1>2, InfsAssumption DEF Received, Fresh

\* validateIP for public addresses: one address of the other protocol is gone,
\* and so is its port; the own address is the connection's, if there is but one.
LEMMA ValidateIPFacts ==
    ASSUME NEW b, Fresh(b), NEW v \in {"4", "6"}, NEW w \in {"4", "6"}, v # w
    PROVE  LET c == ValidateIP(b, v, w)
           IN  /\ Fresh(c)
               /\ ~local => \A f \in {Ip(w), Udp(w)} : Len(b.params[f]) <= 1 => c.params[f] = <<>>
               /\ ~local /\ AddressAccepted(b, v) =>
                      /\ c.params[Ip(v)] # <<>>
                      /\ Len(b.params[Ip(v)]) <= 1 \/ Len(c.params[Ip(v)]) <= 1 =>
                             Last(c.params[Ip(v)]) = Remote(v)
               /\ \A f \in Field \ {Ip(v), Ip(w), Udp(w)} : c.params[f] = b.params[f]
<1> DEFINE own == OwnFilled(b, v)
           ip == b.params[Ip(v)]
           c == ValidateIP(b, v, w)
<1>1. /\ Ip(v) # Ip(w) /\ Ip(v) # Udp(w) /\ Ip(w) # Udp(w)
      /\ Ip(v) \in Field /\ Ip(w) \in Field /\ Udp(w) \in Field
    BY Names
<1>2. Remote(v) \in Lists /\ Remote(v) # Empty
    <2>1. "remote" \in Texts /\ v \in Texts
        BY DEF Texts
    <2>2. <<"remote", v>> \in Seq(Texts) /\ Len(<<"remote", v>>) = 2
        BY <2>1
    <2> QED BY <2>2 DEF Remote, Lists, Empty
<1>3. ip \in Seq(Lists) /\ \A f \in Field : b.params[f] \in Seq(Lists)
    BY <1>1 DEF Fresh
<1>4. /\ Fresh(own)
      /\ \A f \in Field \ {Ip(v)} : own.params[f] = b.params[f]
      /\ ~local /\ AddressAccepted(b, v) =>
             /\ own.params[Ip(v)] # <<>>
             /\ Len(ip) <= 1 \/ Len(own.params[Ip(v)]) <= 1 => Last(own.params[Ip(v)]) = Remote(v)
    <2>1. CASE NoAddress(GetParam(b, Ip(v)))
        <3> DEFINE d == DelParam(b, Ip(v))
        <3>1. own = AddParam(d, Ip(v), Remote(v))
            BY <2>1 DEF OwnFilled
        <3>2. /\ Fresh(d) /\ d.params[Ip(v)] \in Seq(Lists)
              /\ \A f \in Field \ {Ip(v)} : d.params[f] = b.params[f]
            BY <1>1, DelFacts DEF Fresh
        <3> HIDE DEF d
        <3>3. /\ Fresh(own) /\ own.params[Ip(v)] = Append(d.params[Ip(v)], Remote(v))
              /\ \A f \in Field \ {Ip(v)} : own.params[f] = d.params[f]
            <4> HIDE DEF own
            <4> QED BY <1>1, <1>2, <3>1, <3>2, AddFacts
        <3>4. own.params[Ip(v)] # <<>> /\ Last(own.params[Ip(v)]) = Remote(v)
            BY <1>2, <3>2, <3>3, Values
        <3> HIDE DEF own
        <3> QED BY <3>2, <3>3, <3>4
    <2>2. CASE ~NoAddress(GetParam(b, Ip(v)))
        <3>1. own = b
            BY <2>2 DEF OwnFilled
        <3>2. ip # <<>> /\ GetParam(b, Ip(v)) = Head(ip)
            BY <2>2 DEF NoAddress, GetParam, Has
        <3>3. ~local /\ AddressAccepted(b, v) => Head(ip) = Remote(v)
            BY <2>2, <3>2 DEF AddressAccepted
        <3>4. Len(ip) <= 1 => Last(ip) = Head(ip)
            BY <1>3, <3>2, Values
        <3> HIDE DEF own
        <3> QED BY <3>1, <3>2, <3>3, <3>4
    <2> QED BY <2>1, <2>2
<1> HIDE DEF own, ip
<1>5. CASE c = own /\ local
    BY <1>4, <1>5
<1>6. CASE c = DelParam(DelParam(own, Udp(w)), Ip(w))
    <2> DEFINE d == DelParam(own, Udp(w))
    <2>1. /\ Fresh(d)
          /\ d.params[Udp(w)] = IF own.params[Udp(w)] = <<>> THEN <<>> ELSE Tail(own.params[Udp(w)])
          /\ \A g \in Field \ {Udp(w)} : d.params[g] = own.params[g]
        BY <1>1, <1>4, DelFacts
    <2>0. c = DelParam(d, Ip(w))
        BY <1>6
    <2> HIDE DEF d, c
    <2>2. /\ Fresh(c)
          /\ c.params[Ip(w)] = IF d.params[Ip(w)] = <<>> THEN <<>> ELSE Tail(d.params[Ip(w)])
          /\ \A g \in Field \ {Ip(w)} : c.params[g] = d.params[g]
        BY <1>1, <2>0, <2>1, DelFacts
    <2>3. ASSUME NEW f \in {Ip(w), Udp(w)}, Len(b.params[f]) <= 1 PROVE c.params[f] = <<>>
        <3>1. f \in Field /\ own.params[f] = b.params[f] /\ b.params[f] \in Seq(Lists)
            BY <1>1, <1>3, <1>4
        <3>2. c.params[f] = IF b.params[f] = <<>> THEN <<>> ELSE Tail(b.params[f])
            BY <1>1, <2>1, <2>2, <3>1
        <3> QED BY <2>3, <3>1, <3>2, Values
    <2>4. c.params[Ip(v)] = own.params[Ip(v)]
        BY <1>1, <2>1, <2>2
    <2>5. \A f \in Field \ {Ip(v), Ip(w), Udp(w)} : c.params[f] = b.params[f]
        BY <1>4, <2>1, <2>2
    <2> QED BY <1>4, <2>2, <2>3, <2>4, <2>5 DEF ip, c
<1>7. c = own \/ c = DelParam(DelParam(own, Udp(w)), Ip(w))
    BY DEF ValidateIP, own
<1>8. c = DelParam(DelParam(own, Udp(w)), Ip(w)) \/ local
    BY DEF ValidateIP, own
<1> QED BY <1>5, <1>6, <1>7, <1>8

\* A feature that is listed has a first place in the list.
LEMMA Found ==
    ASSUME NEW su \in Lists, NEW feature \in ToSet(su)
    PROVE  FirstOf(su, feature) \in DOMAIN su /\ su[FirstOf(su, feature)] = feature
<1> DEFINE at == {i \in DOMAIN su : su[i] = feature}
<1>1. DOMAIN su = 1 .. Len(su) /\ Len(su) \in Nat
    BY DEF Lists
<1>2. at \in SUBSET Nat
    BY <1>1
<1>3. PICK i : i \in at
    BY DEF ToSet
<1>4. PICK m \in at : \A k \in at : m <= k
    <2>1. PICK m \in at : \A k \in at : <<k, m>> \notin OpToRel(<, Nat)
        BY <1>2, <1>3, NatLessThanWellFounded, WFMin
    <2>2. \A k \in at : ~(k < m)
        BY <1>2, <2>1 DEF OpToRel
    <2>3. ASSUME NEW k \in at PROVE m <= k
        <3>1. m \in Nat /\ k \in Nat /\ ~(k < m)
            BY <1>2, <2>2, <2>3
        <3> QED BY <3>1
    <2> QED BY <2>3
<1> QED BY <1>4 DEF FirstOf

\* A list with one place taken out.
LEMMA Removed ==
    ASSUME NEW su \in Lists, NEW i \in DOMAIN su
    PROVE  LET r == RemoveAt(su, i)
           IN  /\ r \in Lists /\ Len(r) = Len(su) - 1
               /\ \A j \in 1 .. Len(su) - 1 : r[j] = IF j < i THEN su[j] ELSE su[j + 1]
<1>1. DOMAIN su = 1 .. Len(su) /\ Len(su) \in Nat /\ i \in 1 .. Len(su) /\ su \in Seq(Texts)
    BY DEF Lists
<1> DEFINE a == SubSeq(su, 1, i - 1)
           b == SubSeq(su, i + 1, Len(su))
<1>2. a \in Seq(Texts) /\ Len(a) = i - 1
    BY <1>1
<1>3. \A j \in 1 .. i - 1 : a[j] = su[j]
    BY <1>1
<1>4. b \in Seq(Texts) /\ Len(b) = Len(su) - i
    BY <1>1
<1>5. \A j \in 1 .. Len(su) - i : b[j] = su[j + i]
    BY <1>1
<1>6. RemoveAt(su, i) = a \o b
    BY DEF RemoveAt
<1> HIDE DEF a, b
<1>7. /\ a \o b \in Seq(Texts) /\ Len(a \o b) = Len(a) + Len(b)
      /\ \A j \in 1 .. Len(a) + Len(b) :
             (a \o b)[j] = IF j <= Len(a) THEN a[j] ELSE b[j - Len(a)]
    BY <1>2, <1>4, ConcatProperties
<1>8. Len(a \o b) = Len(su) - 1
    BY <1>1, <1>2, <1>4, <1>7
<1>9. ASSUME NEW j \in 1 .. Len(su) - 1
      PROVE  (a \o b)[j] = IF j < i THEN su[j] ELSE su[j + 1]
    <2>0. (a \o b)[j] = IF j <= i - 1 THEN a[j] ELSE b[j - (i - 1)]
        BY <1>1, <1>2, <1>4, <1>7
    <2>1. CASE j < i
        BY <1>1, <1>3, <2>0, <2>1
    <2>2. CASE ~(j < i)
        <3> DEFINE k == j - (i - 1)
        <3>1. k \in 1 .. Len(su) - i /\ k + i = j + 1 /\ ~(j <= i - 1)
            BY <1>1, <2>2
        <3>2. (a \o b)[j] = b[k]
            BY <2>0, <3>1
        <3> HIDE DEF k
        <3> QED BY <1>5, <2>2, <3>1, <3>2
    <2> QED BY <2>1, <2>2
<1> QED BY <1>6, <1>7, <1>8, <1>9 DEF Lists

\* Nothing comes in by it, and a single feature goes.
LEMMA RemovedSet ==
    ASSUME NEW su \in Lists, NEW feature \in ToSet(su)
    PROVE  LET r == RemoveAt(su, FirstOf(su, feature))
           IN  /\ r \in Lists /\ ToSet(r) \subseteq ToSet(su)
               /\ IsInjective(su) => IsInjective(r) /\ feature \notin ToSet(r)
<1> DEFINE i == FirstOf(su, feature)
           r == RemoveAt(su, i)
<1>1. i \in DOMAIN su /\ su[i] = feature
    BY Found
<1> HIDE DEF i
<1>2. /\ r \in Lists /\ Len(r) = Len(su) - 1
      /\ \A j \in 1 .. Len(su) - 1 : r[j] = IF j < i THEN su[j] ELSE su[j + 1]
    BY <1>1, Removed
<1> HIDE DEF r
<1>3. DOMAIN su = 1 .. Len(su) /\ Len(su) \in Nat /\ DOMAIN r = 1 .. Len(su) - 1
    BY <1>2 DEF Lists
<1> DEFINE at(j) == IF j < i THEN j ELSE j + 1
<1>4. \A j \in DOMAIN r : at(j) \in DOMAIN su /\ at(j) # i /\ r[j] = su[at(j)]
    BY <1>1, <1>2, <1>3
<1>5. \A j, k \in DOMAIN r : at(j) = at(k) => j = k
    BY <1>1, <1>3
<1> HIDE DEF at
<1>6. ToSet(r) \subseteq ToSet(su)
    BY <1>4 DEF ToSet
<1>7. ASSUME IsInjective(su) PROVE IsInjective(r) /\ feature \notin ToSet(r)
    BY <1>1, <1>4, <1>5, <1>7 DEF IsInjective, ToSet
<1> QED BY <1>2, <1>6, <1>7 DEF r, i

\* What becomes of an SU whose text stays whole is its features.
LEMMA ErasedFacts ==
    ASSUME NEW su \in Lists, ToSet(su) \cap {Piece, NoPiece} = {}, NEW feature \in ToSet(su),
           LET rest == Erased(su, FirstOf(su, feature)) IN rest = Empty \/ Last(rest) # NoPiece
    PROVE  Erased(su, FirstOf(su, feature)) = RemoveAt(su, FirstOf(su, feature))
<1> DEFINE i == FirstOf(su, feature)
           rest == Erased(su, i)
           r == RemoveAt(su, i)
<1>0. rest = Empty \/ Last(rest) # NoPiece
    OBVIOUS
<1>1. i \in DOMAIN su /\ r \in Lists /\ ToSet(r) \subseteq ToSet(su)
    BY Found, RemovedSet
<1>2. Len(r) = Len(su) - 1
    BY <1>1, Removed
<1>3. Len(su) \in Nat /\ DOMAIN su = 1 .. Len(su)
    BY DEF Lists
<1>4. rest = IF Len(su) = 1 \/ r = <<NoPiece>> THEN Empty
             ELSE IF i = Len(su) THEN [su EXCEPT ![i] = NoPiece] ELSE r
    BY DEF Erased
<1> HIDE DEF i, rest, r
<1>5. r # <<NoPiece>>
    <2>1. NoPiece \notin ToSet(r)
        BY <1>1
    <2>2. NoPiece \in ToSet(<<NoPiece>>)
        BY DEF ToSet
    <2> QED BY <2>1, <2>2
<1>6. CASE Len(su) = 1
    <2>1. Len(r) = 0
        BY <1>2, <1>6
    <2>2. r = <<>>
        BY <1>1, <2>1, EmptySeq DEF Lists
    <2> QED BY <1>4, <1>6, <2>2 DEF i, rest, r, Empty
<1>7. CASE Len(su) # 1 /\ i = Len(su)
    <2> DEFINE e == [su EXCEPT ![i] = NoPiece]
    <2>1. rest = e
        BY <1>4, <1>5, <1>7
    <2>2. DOMAIN e = 1 .. Len(su) /\ e[Len(su)] = NoPiece /\ e \in Lists /\ Len(e) = Len(su)
        BY <1>1, <1>3, <1>7 DEF Lists, Texts
    <2> HIDE DEF e
    <2>3. Last(e) = NoPiece
        BY <2>2 DEF Last
    <2>4. e # <<>>
        BY <1>1, <1>3, <2>2
    <2> QED BY <1>0, <2>1, <2>3, <2>4 DEF Empty
<1>8. CASE Len(su) # 1 /\ i # Len(su)
    BY <1>4, <1>5, <1>8 DEF i, rest, r
<1> QED BY <1>6, <1>7, <1>8

\* removeClientSupport changes SU and the filters only; a feature that is listed
\* once is gone.
LEMMA RemoveFacts ==
    ASSUME NEW u, Shaped(u), NEW feature
    PROVE  LET s == RemoveClientSupport(u, feature)
           IN  /\ Shaped(s) /\ s.cached = u.cached
               /\ \A f \in Field \ {"SU"} : s.fields[f] = u.fields[f]
               /\ ToSet(s.filters) \subseteq ToSet(u.filters)
               /\ u.suText = "thrown" => s.suText = "thrown"
               /\ IsInjective(u.filters) =>
                      /\ IsInjective(s.filters)
                      /\ s.suText # "thrown" => feature \notin ToSet(s.filters)
<1> DEFINE s == RemoveClientSupport(u, feature)
           su == u.fields["SU"]
           rest == Erased(su, FirstOf(su, feature))
           r == RemoveAt(u.filters, FirstOf(u.filters, feature))
           size == Cardinality(supports) - 1
           left == [u EXCEPT !.filters = r]
<1>1. CASE feature \notin ToSet(u.filters) \/ u.suText = "thrown"
    <2>1. s = u
        BY <1>1, Zenon DEF RemoveClientSupport
    <2> QED BY <1>1, <2>1
<1>2. CASE feature \in ToSet(u.filters) /\ u.suText # "thrown"
    <2>1. u.filters \in Lists
        BY DEF Shaped
    <2>2. /\ r \in Lists /\ ToSet(r) \subseteq ToSet(u.filters)
          /\ IsInjective(u.filters) => IsInjective(r) /\ feature \notin ToSet(r)
        BY <1>2, <2>1, RemovedSet
    <2>3. /\ left = [fields |-> u.fields, filters |-> r, suText |-> u.suText, cached |-> u.cached]
        BY DEF Shaped
    <2>4. \/ s = [left EXCEPT !.suText = "thrown"]
          \/ s = [left EXCEPT !.fields["SU"] = Characters(rest, size), !.suText = "cut"]
          \/ /\ s = [left EXCEPT !.fields["SU"] = rest]
             /\ feature \in ToSet(su) /\ (rest = Empty \/ Last(rest) # NoPiece)
        <3>1. s = IF feature \notin ToSet(su) THEN [left EXCEPT !.suText = "thrown"]
                  ELSE IF rest = Empty \/ Last(rest) # NoPiece THEN [left EXCEPT !.fields["SU"] = rest]
                  ELSE IF supports = {} \/ size > 5 * (Len(rest) - 1)
                  THEN [left EXCEPT !.suText = "thrown"]
                  ELSE [left EXCEPT !.fields["SU"] = Characters(rest, size), !.suText = "cut"]
            BY <1>2, Zenon DEF RemoveClientSupport
        <3> HIDE DEF s, left, rest, size, su
        <3> QED BY <3>1, Zenon
    <2>5. PICK new, text :
              /\ s = [fields |-> new, filters |-> r, suText |-> text, cached |-> u.cached]
              /\ DOMAIN new = Field /\ \A f \in Field \ {"SU"} : new[f] = u.fields[f]
              /\ text \in {"whole", "cut", "thrown"}
              /\ text = "whole" => /\ u.suText = "whole" /\ new["SU"] = rest
                                   /\ feature \in ToSet(su) /\ (rest = Empty \/ Last(rest) # NoPiece)
        <3>0. u.suText \in {"whole", "cut", "thrown"} /\ DOMAIN u.fields = Field /\ "SU" \in Field
            BY DEF Shaped, Field
        <3> HIDE DEF r, rest, size, left, s, su
        <3>1. CASE s = [left EXCEPT !.suText = "thrown"]
            <4>1. s = [fields |-> u.fields, filters |-> r, suText |-> "thrown", cached |-> u.cached]
                BY <2>3, <3>1
            <4> QED BY <3>0, <4>1
        <3>2. CASE s = [left EXCEPT !.fields["SU"] = Characters(rest, size), !.suText = "cut"]
            <4> DEFINE x == [u.fields EXCEPT !["SU"] = Characters(rest, size)]
            <4>1. s = [fields |-> x, filters |-> r, suText |-> "cut", cached |-> u.cached]
                BY <2>3, <3>2
            <4>2. DOMAIN x = Field /\ \A f \in Field \ {"SU"} : x[f] = u.fields[f]
                BY <3>0
            <4>3. "cut" # "whole" /\ "cut" \in {"whole", "cut", "thrown"}
                OBVIOUS
            <4> HIDE DEF x
            <4> WITNESS x, "cut"
            <4> QED BY <4>1, <4>2, <4>3
        <3>3. CASE /\ s = [left EXCEPT !.fields["SU"] = rest]
                   /\ feature \in ToSet(su) /\ (rest = Empty \/ Last(rest) # NoPiece)
            <4> DEFINE x == [u.fields EXCEPT !["SU"] = rest]
            <4>1. s = [fields |-> x, filters |-> r, suText |-> u.suText, cached |-> u.cached]
                BY <2>3, <3>3
            <4>2. /\ DOMAIN x = Field /\ x["SU"] = rest
                  /\ \A f \in Field \ {"SU"} : x[f] = u.fields[f]
                BY <3>0
            <4> HIDE DEF x
            <4> QED BY <3>0, <3>3, <4>1, <4>2
        <3> QED BY <2>4, <3>1, <3>2, <3>3
    <2>6. ASSUME text = "whole" PROVE new["SU"] \in Lists /\ r = Features(new["SU"])
        <3>1. su \in Lists /\ u.filters = Features(su)
            BY <2>5, <2>6 DEF Shaped
        <3>2. u.filters = su /\ ToSet(su) \cap {Piece, NoPiece} = {}
            <4>1. ToSet(<<>>) = {}
                BY DEF ToSet
            <4> QED BY <1>2, <3>1, <4>1 DEF Features
        <3>3. rest = Empty \/ Last(rest) # NoPiece
            BY <2>5, <2>6
        <3>4. new["SU"] = r
            BY <1>2, <2>5, <2>6, <3>1, <3>2, <3>3, ErasedFacts
        <3> HIDE DEF r
        <3> QED BY <2>2, <3>2, <3>4 DEF Features
    <2> HIDE DEF s, r
    <2>7. Shaped(s)
        <3>1. DOMAIN u.fields = Field /\ u.fields["PD"] = Empty /\ "SU" # "PD"
              /\ (u.cached = NoBuffer \/ DOMAIN u.cached = Field)
            BY DEF Shaped
        <3>2. DOMAIN s.fields = Field /\ s.fields["PD"] = Empty /\ s.fields = new
            BY <2>5, <3>1 DEF Field
        <3> QED BY <2>2, <2>5, <2>6, <3>1, <3>2 DEF Shaped
    <2>8. \A f \in Field \ {"SU"} : s.fields[f] = u.fields[f]
        BY <2>5
    <2> QED BY <1>2, <2>2, <2>5, <2>7, <2>8 DEF s
<1> QED BY <1>1, <1>2

\* stripProtocolSupports: no single feature of the second protocol is left.
LEMMA StripFacts ==
    ASSUME NEW u, Shaped(u)
    PROVE  LET s == StripProtocolSupports(u)
           IN  /\ Shaped(s) /\ s.cached = u.cached
               /\ \A f \in Field \ {"SU"} : s.fields[f] = u.fields[f]
               /\ IsInjective(u.filters) =>
                      IsInjective(s.filters) /\ (s.suText # "thrown" => ~Strippable(s))
<1> DEFINE t == RemoveClientSupport(u, TcpFeature)
           s == RemoveClientSupport(t, UdpFeature)
<1>1. /\ Shaped(t) /\ t.cached = u.cached
      /\ \A f \in Field \ {"SU"} : t.fields[f] = u.fields[f]
      /\ IsInjective(u.filters) =>
             IsInjective(t.filters) /\ (t.suText # "thrown" => TcpFeature \notin ToSet(t.filters))
    BY RemoveFacts
<1> HIDE DEF t
<1>2. /\ Shaped(s) /\ s.cached = t.cached
      /\ \A f \in Field \ {"SU"} : s.fields[f] = t.fields[f]
      /\ ToSet(s.filters) \subseteq ToSet(t.filters)
      /\ t.suText = "thrown" => s.suText = "thrown"
      /\ IsInjective(t.filters) =>
             IsInjective(s.filters) /\ (s.suText # "thrown" => UdpFeature \notin ToSet(s.filters))
    BY <1>1, RemoveFacts
<1> HIDE DEF s
<1>3. s = StripProtocolSupports(u)
    BY DEF StripProtocolSupports, s, t
<1> QED BY <1>1, <1>2, <1>3 DEF Strippable

\* The last of each parameter.
LEMMA LastFacts ==
    ASSUME NEW params \in [Field -> Seq(Lists)]
    PROVE  /\ DOMAIN LastOfEach(params) = {f \in Field : params[f] # <<>>}
           /\ \A f \in DOMAIN LastOfEach(params) :
                  LastOfEach(params)[f] = Last(params[f]) /\ LastOfEach(params)[f] \in Lists
<1>1. ASSUME NEW f \in Field, params[f] # <<>> PROVE Last(params[f]) \in Lists
    BY <1>1, Values
<1> QED BY <1>1 DEF LastOfEach

\* What a user or an observer has after some values.
LEMMA MergeFacts ==
    ASSUME NEW view, NEW values
    PROVE  /\ DOMAIN Merge(view, values) = Field
           /\ \A f \in Field : Merge(view, values)[f] = IF f \in DOMAIN values THEN values[f]
                                                        ELSE view[f]
BY DEF Merge

\* setField for values other than PD.
LEMMA SetFieldsFacts ==
    ASSUME NEW u, NEW values, Shaped(u), DOMAIN values \subseteq Field \ {"PD"},
           "SU" \in DOMAIN values => values["SU"] \in Lists
    PROVE  LET s == SetFields(u, values)
           IN  /\ Shaped(s)
               /\ \A f \in Field : s.fields[f] = IF f \in DOMAIN values THEN values[f]
                                                 ELSE u.fields[f]
               /\ s.filters = IF "SU" \in DOMAIN values THEN Features(values["SU"]) ELSE u.filters
               /\ s.suText = IF "SU" \in DOMAIN values THEN "whole" ELSE u.suText
               /\ s.cached = IF DOMAIN values = {} THEN u.cached ELSE NoBuffer
<1> DEFINE s == SetFields(u, values)
<1>1. /\ s = [fields |-> s.fields, filters |-> s.filters, suText |-> s.suText,
              cached |-> s.cached]
      /\ s.fields = Merge(u.fields, values)
      /\ s.filters = IF "SU" \in DOMAIN values THEN Features(values["SU"]) ELSE u.filters
      /\ s.suText = IF "SU" \in DOMAIN values THEN "whole" ELSE u.suText
      /\ s.cached = IF DOMAIN values = {} THEN u.cached ELSE NoBuffer
    BY DEF SetFields
<1> HIDE DEF s
<1>2. /\ DOMAIN s.fields = Field
      /\ \A f \in Field : s.fields[f] = IF f \in DOMAIN values THEN values[f] ELSE u.fields[f]
    BY <1>1, MergeFacts
<1>3. "PD" \in Field /\ "SU" \in Field
    BY DEF Field
<1>4. "SU" \in DOMAIN values => Features(values["SU"]) \in Lists
    <2>1. <<>> \in Lists
        BY DEF Lists
    <2> QED BY <2>1 DEF Features
<1>5. Shaped(s)
    <2>1. CASE "SU" \in DOMAIN values
        BY <1>1, <1>2, <1>3, <1>4, <2>1 DEF Shaped
    <2>2. CASE "SU" \notin DOMAIN values
        BY <1>1, <1>2, <1>3, <2>2 DEF Shaped
    <2> QED BY <2>1, <2>2
<1> QED BY <1>1, <1>2, <1>5 DEF s

\* updateFields: the last of each parameter but PD.
LEMMA UpdateFacts ==
    ASSUME NEW u, NEW c, Shaped(u), Fresh(c)
    PROVE  LET n == UpdateFields(u, c)
               last == LastOfEach(c.params)
           IN  /\ Shaped(n)
               /\ \A f \in Field : n.fields[f] = IF f \in DOMAIN last \ {"PD"} THEN last[f]
                                                 ELSE u.fields[f]
               /\ n.filters = IF "SU" \in DOMAIN last THEN Features(last["SU"]) ELSE u.filters
               /\ n.suText = IF "SU" \in DOMAIN last THEN "whole" ELSE u.suText
               /\ n.cached = IF DOMAIN last \ {"PD"} = {} THEN u.cached ELSE NoBuffer
<1> DEFINE others == [c.params EXCEPT !["PD"] = <<>>]
           last == LastOfEach(c.params)
           told == LastOfEach(others)
<1>1. c.params \in [Field -> Seq(Lists)] /\ others \in [Field -> Seq(Lists)]
    <2>1. c.params \in [Field -> Seq(Lists)]
        BY DEF Fresh
    <2>2. <<>> \in Seq(Lists)
        OBVIOUS
    <2> QED BY <2>1, <2>2
<1>2. \A f \in Field : others[f] = IF f = "PD" THEN <<>> ELSE c.params[f]
    BY <1>1
<1> HIDE DEF others
<1>3. /\ DOMAIN told = DOMAIN last \ {"PD"}
      /\ \A f \in DOMAIN told : told[f] = last[f] /\ told[f] \in Lists
    BY <1>1, <1>2, LastFacts
<1>4. DOMAIN told \subseteq Field \ {"PD"}
    BY <1>1, <1>3, LastFacts
<1>5. UpdateFields(u, c) = SetFields(u, told)
    BY DEF UpdateFields, others
<1>6. "SU" # "PD"
    OBVIOUS
<1> HIDE DEF told, last
<1>7. LET s == SetFields(u, told)
      IN  /\ Shaped(s)
          /\ \A f \in Field : s.fields[f] = IF f \in DOMAIN told THEN told[f] ELSE u.fields[f]
          /\ s.filters = IF "SU" \in DOMAIN told THEN Features(told["SU"]) ELSE u.filters
          /\ s.suText = IF "SU" \in DOMAIN told THEN "whole" ELSE u.suText
          /\ s.cached = IF DOMAIN told = {} THEN u.cached ELSE NoBuffer
    BY <1>3, <1>4, SetFieldsFacts
<1> QED BY <1>3, <1>5, <1>6, <1>7 DEF last

\* A list that names nothing twice, or whose text is no list, is single.
LEMMA SingleFacts ==
    ASSUME NEW su, IsInjective(su)
    PROVE  IsInjective(Features(su))
<1>1. IsInjective(<<>>)
    BY DEF IsInjective
<1> QED BY <1>1 DEF Features

\* What a command repeats.
LEMMA RepeatedFacts ==
    ASSUME NEW params \in [Field -> Seq(Lists)]
    PROVE  /\ Repeated(params) \subseteq Field
           /\ \A f \in Field \ Repeated(params) : Len(params[f]) <= 1
           /\ "SU" \notin Repeated(params) /\ params["SU"] # <<>> => IsInjective(Last(params["SU"]))
<1>1. ASSUME NEW f \in Field \ Repeated(params) PROVE Len(params[f]) <= 1
    <2>1. params[f] \in Seq(Lists) /\ ~(Len(params[f]) > 1)
        BY <1>1 DEF Repeated
    <2>2. Len(params[f]) \in Nat
        BY <2>1
    <2> QED BY <2>1, <2>2
<1>2. Repeated(params) \subseteq Field
    BY DEF Repeated, Field
<1>3. "SU" \notin Repeated(params) /\ params["SU"] # <<>> => IsInjective(Last(params["SU"]))
    BY DEF Repeated, IsInjective
<1> QED BY <1>1, <1>2, <1>3

\* What verifyINF makes of the user: its own address is its connection's, the
\* second protocol is not touched, and features of it come in only if they may,
\* but for what the command repeats.
LEMMA InfFacts ==
    ASSUME NEW params \in Infs, NEW b, Fresh(b), \A f \in Field \ {"CT"} : b.params[f] = params[f],
           NEW u, NEW ver, NEW rep, NEW keeps \in BOOLEAN,
           Shaped(u), Single(u, rep), SecondOK(u, ver, rep),
           AddressAccepted(Received(params), First)
    PROVE  LET c    == CheckedINF(b)
               a    == AfterINF(u, c, keeps)
               n    == UpdateFields(u, c)
               last == LastOfEach(c.params)
               new  == (rep \ DOMAIN last) \cup Repeated(params)
           IN  /\ Fresh(c) /\ GetBuffer(c) = c.params
               /\ DOMAIN last \subseteq Field /\ ("PD" \in DOMAIN last => params["PD"] # <<>>)
               /\ ~local => /\ \A f \in {Ip(Second), Udp(Second)} \ new :
                                   f \notin DOMAIN last /\ f \notin rep
                            /\ Ip(First) \in DOMAIN last
                            /\ Ip(First) \notin new => last[Ip(First)] = Remote(First)
               /\ \A f \in Field : n.fields[f] = IF f \in DOMAIN last \ {"PD"} THEN last[f]
                                                 ELSE u.fields[f]
               /\ Shaped(a) /\ Single(a, new) /\ UserOK(a, ver, new)
               /\ \A f \in Field \ {"SU"} : a.fields[f] = n.fields[f]
               /\ a.cached = IF DOMAIN last \ {"PD"} = {} THEN u.cached ELSE NoBuffer
               /\ a.suText # "thrown" /\ Strippable(a) /\ "SU" \notin new =>
                      keeps \/ (u.suText # "thrown" /\ Strippable(u) /\ "SU" \notin rep)
<1> DEFINE c == CheckedINF(b)
           a == AfterINF(u, c, keeps)
           n == UpdateFields(u, c)
           last == LastOfEach(c.params)
           new == (rep \ DOMAIN last) \cup Repeated(params)
<1>1. params \in [Field -> Seq(Lists)]
    BY ReceivedFacts
<1>2. /\ \A v \in {"4", "6"} : {Ip(v), Udp(v)} \subseteq Field \ {"PD", "SU", "CT"}
      /\ {"PD", "SU", "CT"} \subseteq Field
    BY Names DEF Field
<1>3. AddressAccepted(b, First)
    <2>1. b.params[Ip(First)] = Received(params).params[Ip(First)]
        BY <1>2, Names, ReceivedFacts
    <2> QED BY <2>1 DEF AddressAccepted, GetParam, Has
<1>4. /\ Fresh(c)
      /\ ~local => \A f \in {Ip(Second), Udp(Second)} : Len(params[f]) <= 1 => c.params[f] = <<>>
      /\ ~local => /\ c.params[Ip(First)] # <<>>
                   /\ Len(params[Ip(First)]) <= 1 => Last(c.params[Ip(First)]) = Remote(First)
      /\ c.params["SU"] = params["SU"] /\ c.params["PD"] = params["PD"]
    <2>1. \A f \in {Ip(Second), Udp(Second), Ip(First), "SU", "PD"} : b.params[f] = params[f]
        BY <1>2, Names
    <2>2. /\ Fresh(c)
          /\ ~local => \A f \in {Ip(Second), Udp(Second)} : Len(b.params[f]) <= 1 => c.params[f] = <<>>
          /\ ~local => /\ c.params[Ip(First)] # <<>>
                       /\ Len(b.params[Ip(First)]) <= 1 => Last(c.params[Ip(First)]) = Remote(First)
          /\ \A f \in Field \ {Ip(First), Ip(Second), Udp(Second)} : c.params[f] = b.params[f]
        BY <1>3, Names, ValidateIPFacts DEF CheckedINF
    <2> HIDE DEF c
    <2>3. {"SU", "PD"} \cap {Ip(First), Ip(Second), Udp(Second)} = {}
        BY <1>2, Names
    <2> QED BY <1>2, <2>1, <2>2, <2>3
<1> HIDE DEF c
<1>5. GetBuffer(c) = c.params /\ c.params \in [Field -> Seq(Lists)]
    BY <1>4 DEF Fresh, GetBuffer
<1>6. /\ DOMAIN last = {f \in Field : c.params[f] # <<>>}
      /\ \A f \in DOMAIN last : last[f] = Last(c.params[f]) /\ last[f] \in Lists
    BY <1>5, LastFacts
<1>7. /\ Repeated(params) \subseteq Field
      /\ \A f \in Field \ Repeated(params) : Len(params[f]) <= 1
      /\ "SU" \notin Repeated(params) /\ params["SU"] # <<>> => IsInjective(Last(params["SU"]))
    BY <1>1, RepeatedFacts
<1> HIDE DEF last
<1>8. \A f : f \notin new => f \notin Repeated(params) /\ (f \in rep => f \in DOMAIN last)
    OBVIOUS
<1>9. ASSUME ~local
      PROVE  /\ \A f \in {Ip(Second), Udp(Second)} \ new : f \notin DOMAIN last /\ f \notin rep
             /\ Ip(First) \in DOMAIN last
             /\ Ip(First) \notin new => last[Ip(First)] = Remote(First)
    <2>1. ASSUME NEW f \in {Ip(Second), Udp(Second)} \ new PROVE f \notin DOMAIN last /\ f \notin rep
        BY <1>2, <1>4, <1>6, <1>7, <1>8, <1>9, <2>1, Names
    <2> QED BY <1>2, <1>4, <1>6, <1>7, <1>8, <1>9, <2>1, Names
<1> HIDE DEF new
<1>10. /\ Shaped(n)
       /\ \A f \in Field : n.fields[f] = IF f \in DOMAIN last \ {"PD"} THEN last[f] ELSE u.fields[f]
       /\ n.filters = IF "SU" \in DOMAIN last THEN Features(last["SU"]) ELSE u.filters
       /\ n.suText = IF "SU" \in DOMAIN last THEN "whole" ELSE u.suText
       /\ n.cached = IF DOMAIN last \ {"PD"} = {} THEN u.cached ELSE NoBuffer
    BY <1>4, UpdateFacts DEF last
<1> HIDE DEF n
<1>11. Single(n, new)
    <2>1. CASE "SU" \in DOMAIN last
        <3>1. last["SU"] = Last(params["SU"]) /\ params["SU"] # <<>>
            BY <1>4, <1>6, <2>1
        <3>2. "SU" \notin new => IsInjective(last["SU"])
            BY <1>7, <1>8, <3>1
        <3> QED BY <1>10, <2>1, <3>2, SingleFacts DEF Single
    <2>2. CASE "SU" \notin DOMAIN last
        BY <1>8, <1>10, <2>2 DEF Single
    <2> QED BY <2>1, <2>2
<1>12. UserOK(n, ver, new)
    <2>1. CASE ~local
        <3>1. n.cached = NoBuffer
            BY <1>2, <1>9, <1>10, <2>1, Names
        <3>2. Ip(First) \notin new => n.fields[Ip(First)] = Remote(First)
            BY <1>2, <1>9, <1>10, <2>1, Names
        <3>3. \A f \in {Ip(Second), Udp(Second)} \ new : n.fields[f] = u.fields[f] /\ f \notin rep
            BY <1>2, <1>9, <1>10, <2>1, Names
        <3>4. n.fields["PD"] = Empty
            BY <1>10 DEF Shaped
        <3> QED BY <2>1, <3>1, <3>2, <3>3, <3>4 DEF SecondOK, UserOK, ShowsVerified
    <2> QED BY <2>1 DEF UserOK
<1>13. Has(c, "SU") <=> "SU" \in DOMAIN last
    BY <1>2, <1>6 DEF Has
<1>14. CASE Has(c, "SU") /\ ~keeps
    <2>1. a = StripProtocolSupports(n)
        BY <1>14 DEF AfterINF, n
    <2> HIDE DEF a
    <2>2. /\ Shaped(a) /\ a.cached = n.cached
          /\ \A f \in Field \ {"SU"} : a.fields[f] = n.fields[f]
          /\ IsInjective(n.filters) =>
                 IsInjective(a.filters) /\ (a.suText # "thrown" => ~Strippable(a))
        BY <1>10, <2>1, StripFacts
    <2>3. Single(a, new)
        BY <1>11, <2>2 DEF Single
    <2>4. a.suText # "thrown" /\ "SU" \notin new => ~Strippable(a)
        BY <1>11, <2>2 DEF Single
    <2>5. UserOK(a, ver, new)
        BY <1>2, <1>12, <2>2, Names DEF UserOK, ShowsVerified
    <2>6. \A f \in Field \ {"SU"} : a.fields[f] = n.fields[f]
        BY <2>2
    <2>7. "PD" \in DOMAIN last => params["PD"] # <<>>
        BY <1>4, <1>6
    <2> QED BY <1>4, <1>5, <1>6, <1>9, <1>10, <2>2, <2>3, <2>4, <2>5, <2>7 DEF a, c, last, new, n
<1>15. CASE ~(Has(c, "SU") /\ ~keeps)
    <2>1. a = n
        BY <1>15 DEF AfterINF, n
    <2> HIDE DEF a
    <2>2. ~keeps => n.filters = u.filters /\ n.suText = u.suText /\ ("SU" \notin new => "SU" \notin rep)
        BY <1>8, <1>10, <1>13, <1>15
    <2>3. a.suText # "thrown" /\ Strippable(a) /\ "SU" \notin new =>
              keeps \/ (u.suText # "thrown" /\ Strippable(u) /\ "SU" \notin rep)
        BY <2>1, <2>2 DEF Strippable
    <2>4. "PD" \in DOMAIN last => params["PD"] # <<>>
        BY <1>4, <1>6
    <2> QED BY <1>4, <1>5, <1>6, <1>9, <1>10, <1>11, <1>12, <2>1, <2>3, <2>4
               DEF a, c, last, new, n
<1> QED BY <1>14, <1>15

\* What an observer shows after an INF that went to all.
LEMMA Sent ==
    ASSUME NEW values, SendToAll(values)
    PROVE  /\ DOMAIN shown' = Observer
           /\ \A o \in Observer, f \in Field : o \in present =>
                  shown'[o][f] = IF f \in DOMAIN values THEN values[f] ELSE shown[o][f]
BY MergeFacts DEF SendToAll

----------------------------------------------------------------------------
(* The actions.                                                            *)

\* The shape of the user, and what is known before each step.
LEMMA Known ==
    ASSUME EInv
    PROVE  /\ Shaped(Now) /\ Single(Now, repeated) /\ TypeOK
           /\ Now.fields = fields /\ Now.filters = filters /\ Now.cached = cached
           /\ Now.suText = suText
           /\ state \in {"PROTOCOL", "IDENTIFY", "VERIFY", "HBRI", "NORMAL"} =>
                  /\ SecondOK(Now, verified, repeated)
                  /\ Reason(Now, repeated, validate \/ skipped \/ verified # {})
           /\ MaxTokens \in Nat \ {0} /\ tokens \in 0 .. MaxTokens
<1>1. /\ Shaped(Now) /\ Single(Now, repeated) /\ TypeOK
      /\ Now.fields = fields /\ Now.filters = filters /\ Now.cached = cached
      /\ Now.suText = suText
      /\ MaxTokens \in Nat \ {0} /\ tokens \in 0 .. MaxTokens
    BY ConstantsAssumption DEF EInv, Now, TypeOK
<1>2. CASE state \in {"PROTOCOL", "IDENTIFY"}
    <2>1. Now = Unnamed
        BY <1>2 DEF EInv
    <2>2. SecondOK(Now, verified, repeated)
        BY <2>1, Names DEF SecondOK, Unnamed, Blank
    <2>3. ~Strippable(Now)
        BY <2>1 DEF Strippable, Unnamed, ToSet
    <2> QED BY <1>1, <2>2, <2>3 DEF Reason
<1>3. CASE state \in {"VERIFY", "HBRI", "NORMAL"}
    BY <1>1, <1>3 DEF EInv, UserOK, SecondOK, ShowsVerified
<1> QED BY <1>1, <1>2, <1>3

\* What holds of the user in every state it can get into, for a step.
LEMMA Keeps ==
    ASSUME NEW u, Shaped(u), Become(u), Single(u, repeated'), TypeOK',
           state' \notin {"PROTOCOL", "IDENTIFY", "gone"}, state' = "HBRI" => validate' \/ skipped',
           UserOK(u, verified', repeated'), UNCHANGED local,
           Reason(u, repeated', validate' \/ skipped' \/ verified' # {}),
           state' = "NORMAL" /\ ~local =>
               \A o \in present' : ShowsVerified(shown'[o], verified', repeated')
    PROVE  EInv'
<1>1. Now' = u
    BY Becomes
<1>2. Shaped(Now') /\ Single(Now', repeated')
    BY <1>1
<1>3. UserOK(Now, verified, repeated)'
    BY <1>1 DEF UserOK, ShowsVerified
<1>4. Reason(Now, repeated, validate \/ skipped \/ verified # {})'
    BY <1>1 DEF Reason, Strippable
<1>5. Shaped(Now)' /\ Single(Now, repeated)'
    BY <1>2 DEF Shaped, Single
<1>6. (state = "NORMAL" /\ ~local => \A o \in present : ShowsVerified(shown[o], verified, repeated))'
    BY DEF ShowsVerified
<1> QED BY <1>3, <1>4, <1>5, <1>6 DEF EInv

\* enterNormal, from the login or at the end of the validation.
LEMMA Enters ==
    ASSUME NEW u, NEW flagged \in BOOLEAN, NEW left \in 0 .. MaxTokens, EInv, Shaped(u),
           Single(u, repeated'), EnterNormal(u, flagged, left),
           UNCHANGED <<local, supports, present>>, unsaid' \subseteq Field, repeated' \subseteq Field,
           UserOK(u, verified', repeated'),
           Reason(u, repeated', flagged \/ skipped \/ verified' # {})
    PROVE  EInv'
<1>1. TypeOK /\ MaxTokens \in Nat \ {0} /\ left \in Nat /\ left <= MaxTokens
    BY ConstantsAssumption DEF EInv
<1>2. CASE flagged /\ CanValidate
    <2>1. /\ left < MaxTokens /\ Become(u) /\ state' = "HBRI" /\ validate' = TRUE
          /\ tokens' = left + 1 /\ UNCHANGED <<shown, skipped>>
        BY <1>2 DEF EnterNormal
    <2>2. tokens' \in 0 .. MaxTokens /\ tokens' > 0
        BY <1>1, <2>1
    <2>3. TypeOK'
        BY <1>1, <2>1, <2>2 DEF TypeOK, Become, Shaped
    <2>4. Reason(u, repeated', validate' \/ skipped' \/ verified' # {})
        BY <2>1 DEF Reason
    <2> QED BY <2>1, <2>3, <2>4, Keeps
<1>3. CASE ~(flagged /\ CanValidate)
    <2> DEFINE w == WithINF(u)
               fewer == IF "HBRI" \in supports /\ left > 0 THEN left - 1 ELSE left
    <2>1. /\ Become(w) /\ SendToAll(w.cached) /\ state' = "NORMAL"
          /\ validate' = FALSE /\ tokens' = fewer
          /\ skipped' = (Strippable(u) /\ (skipped \/ flagged))
        BY <1>3 DEF EnterNormal
    <2>0. fewer \in 0 .. MaxTokens
        <3>1. CASE left > 0
            BY <1>1, <3>1
        <3>2. CASE ~(left > 0)
            BY <1>1, <3>2
        <3> QED BY <3>1, <3>2
    <2> HIDE DEF fewer
    <2>2. /\ Shaped(w) /\ w.filters = u.filters /\ DOMAIN w.cached = Field
          /\ w.fields = u.fields /\ w.suText = u.suText
          /\ w.cached = IF u.cached = NoBuffer THEN u.fields ELSE u.cached
        BY DEF WithINF, Shaped
    <2> HIDE DEF w
    <2>3. /\ UserOK(w, verified', repeated')
          /\ ~local => ShowsVerified(w.cached, verified', repeated')
        BY <2>2 DEF UserOK
    <2>4. Single(w, repeated')
        BY <2>2 DEF Single
    <2>5. \A o \in present, f \in Field : shown'[o][f] = w.cached[f]
        BY <1>1, <2>1, <2>2, Sent DEF TypeOK
    <2>6. ~local => \A o \in present : ShowsVerified(shown'[o], verified', repeated')
        BY <2>3, <2>5, Names DEF ShowsVerified, Field
    <2>7. TypeOK'
        <3>1. skipped' \in BOOLEAN /\ validate' \in BOOLEAN /\ ~validate'
            BY <2>1, Zenon
        <3>2. DOMAIN shown' = Observer
            BY <2>1, Sent
        <3>3. /\ DOMAIN fields' = Field /\ fields'["PD"] = Empty
              /\ cached' = NoBuffer \/ DOMAIN cached' = Field
              /\ suText' \in {"whole", "cut", "thrown"}
            BY <2>1, <2>2 DEF Become, Shaped
        <3>4. state' = "NORMAL" /\ tokens' \in 0 .. MaxTokens
            BY <2>0, <2>1
        <3> QED BY <1>1, <3>1, <3>2, <3>3, <3>4 DEF TypeOK
    <2>8. Reason(w, repeated', validate' \/ skipped' \/ verified' # {})
        BY <2>1, <2>2 DEF Reason, Strippable
    <2>9. state' = "NORMAL"
        BY <2>1
    <2> QED BY <2>1, <2>2, <2>3, <2>4, <2>6, <2>7, <2>8, <2>9, Keeps
<1> QED BY <1>2, <1>3

\* What setFlag and unsetFlag make of the user.
LEMMA TypedFacts ==
    ASSUME NEW u, NEW type, Shaped(u)
    PROVE  /\ Shaped(Typed(u, type)) /\ Typed(u, type).cached = NoBuffer
           /\ Typed(u, type).filters = u.filters /\ Typed(u, type).suText = u.suText
           /\ \A f \in Field \ {"CT"} : Typed(u, type).fields[f] = u.fields[f]
           /\ \A rep : Single(u, rep) => Single(Typed(u, type), rep)
           /\ \A ver, rep : SecondOK(u, ver, rep) => SecondOK(Typed(u, type), ver, rep)
           /\ Strippable(Typed(u, type)) <=> Strippable(u)
<1> DEFINE changed == [f \in {"CT"} |-> type]
           t == SetFields(u, changed)
<1>1. DOMAIN changed = {"CT"} /\ "CT" \in Field \ {"PD"} /\ "SU" # "CT"
    BY DEF Field
<1> HIDE DEF changed
<1>2. /\ Shaped(t) /\ t.cached = NoBuffer /\ t.filters = u.filters /\ t.suText = u.suText
      /\ \A f \in Field \ {"CT"} : t.fields[f] = u.fields[f]
    BY <1>1, SetFieldsFacts
<1> HIDE DEF t
<1>3. \A f \in {Ip(Second), Udp(Second)} : t.fields[f] = u.fields[f]
    BY <1>2, Names
<1>4. Typed(u, type) = t
    BY DEF Typed, t, changed
<1> QED BY <1>2, <1>3, <1>4 DEF Single, SecondOK, Strippable

\* The INF of the login.
LEMMA InfLoginKeeps ==
    ASSUME EInv, NEW params \in Infs, NEW type, InfLogin(params, type)
    PROVE  EInv'
<1> DEFINE b == Received(params)
           c == CheckedINF(b)
           base == Typed(Now, type)
           waits == Claims(params)
           u == AfterINF(base, c, waits)
<1>1. /\ state = "IDENTIFY" /\ suText # "thrown" /\ AddressAccepted(Received(params), First)
      /\ EnterNormal(u, waits, tokens)
      /\ repeated' = (repeated \ DOMAIN LastOfEach(c.params)) \cup Repeated(params)
      /\ UNCHANGED <<local, supports, present, verified, unsaid>> /\ waits \in BOOLEAN
    BY DEF InfLogin, Running, Accepted, RepeatedAfter, Claims
<1>2. Fresh(b) /\ b.params = params /\ params \in [Field -> Seq(Lists)]
    BY ReceivedFacts
<1>3. /\ Shaped(base) /\ Single(base, repeated) /\ SecondOK(base, verified, repeated)
      /\ ~Strippable(base)
    <2>1. Now = Unnamed
        BY <1>1 DEF EInv
    <2>2. ~Strippable(Now)
        BY <2>1 DEF Strippable, Unnamed, ToSet
    <2> QED BY <1>1, <2>2, Known, TypedFacts
<1> HIDE DEF b, base, waits
<1>4. /\ Shaped(u) /\ Single(u, repeated') /\ UserOK(u, verified, repeated')
      /\ u.suText # "thrown" /\ Strippable(u) /\ "SU" \notin repeated' => waits
    BY <1>1, <1>2, <1>3, InfFacts
<1>5. repeated' \subseteq Field /\ unsaid' \subseteq Field /\ verified' = verified
    BY <1>1, <1>2, Known, RepeatedFacts DEF TypeOK
<1> HIDE DEF u
<1>6. Reason(u, repeated', waits \/ skipped \/ verified' # {})
    BY <1>4 DEF Reason
<1>7. UserOK(u, verified', repeated')
    BY <1>4, <1>5
<1>8. tokens \in 0 .. MaxTokens
    BY Known
<1> QED BY <1>1, <1>4, <1>5, <1>6, <1>7, <1>8, Enters

\* The INF of a registered user before its password, or during the validation.
LEMMA InfRegisteredKeeps ==
    ASSUME EInv, NEW params \in Infs, NEW type \in ClientType, InfRegistered(params, type)
    PROVE  EInv'
<1> DEFINE b == AddParam(Received(params), "CT", type)
           c == CheckedINF(b)
           base == Typed(Now, type)
           waits == validate \/ Claims(params)
           keeps == waits \/ state = "HBRI"
           u == AfterINF(base, c, keeps)
<1>1. /\ state \in {"PROTOCOL", "IDENTIFY", "VERIFY", "HBRI"} /\ suText # "thrown"
      /\ AddressAccepted(Received(params), First)
      /\ Become(u) /\ state' = "VERIFY" /\ validate' = waits
      /\ repeated' = (repeated \ DOMAIN LastOfEach(c.params)) \cup Repeated(params)
      /\ UNCHANGED <<local, supports, tokens, present, shown, verified, skipped, unsaid>>
    BY DEF InfRegistered, Running, Accepted, RepeatedAfter
<1>2. params \in [Field -> Seq(Lists)] /\ TypeOK
    BY ReceivedFacts, Known
<1>3. Fresh(b) /\ \A f \in Field \ {"CT"} : b.params[f] = params[f]
    <2>1. type \in Lists /\ "CT" \in Field
        BY DEF ClientType, Lists, Texts, Field
    <2> QED BY <2>1, ReceivedFacts, AddFacts
<1>4. waits \in BOOLEAN /\ keeps \in BOOLEAN
    BY <1>2 DEF TypeOK, Claims
<1>5. /\ Shaped(base) /\ Single(base, repeated) /\ SecondOK(base, verified, repeated)
      /\ Strippable(base) <=> Strippable(Now)
    BY <1>1, Known, TypedFacts
<1> HIDE DEF b, base
<1>6. /\ Shaped(u) /\ Single(u, repeated') /\ UserOK(u, verified, repeated')
      /\ u.suText # "thrown" /\ Strippable(u) /\ "SU" \notin repeated' =>
             keeps \/ (Strippable(base) /\ "SU" \notin repeated)
    <2>1. /\ AddressAccepted(Received(params), First)
          /\ repeated' = (repeated \ DOMAIN LastOfEach(c.params)) \cup Repeated(params)
        BY <1>1
    <2>2. keeps \in BOOLEAN
        BY <1>4
    <2> HIDE DEF keeps
    <2>3. LET new == (repeated \ DOMAIN LastOfEach(c.params)) \cup Repeated(params)
          IN  /\ Shaped(u) /\ Single(u, new) /\ UserOK(u, verified, new)
              /\ u.suText # "thrown" /\ Strippable(u) /\ "SU" \notin new =>
                     keeps \/ (Strippable(base) /\ "SU" \notin repeated)
        BY <2>1, <2>2, <1>3, <1>5, InfFacts
    <2> HIDE DEF u, c
    <2> QED BY <2>1, <2>3
<1> HIDE DEF u, c
<1>7. Reason(u, repeated', validate' \/ skipped' \/ verified' # {})
    <2>1. state = "HBRI" => validate \/ skipped
        BY DEF EInv
    <2>2. Strippable(Now) /\ "SU" \notin repeated => validate \/ skipped \/ verified # {}
        BY <1>1, Known DEF Reason
    <2> QED BY <1>1, <1>5, <1>6, <2>1, <2>2 DEF Reason
<1>8. TypeOK'
    <2>1. validate' \in BOOLEAN
        BY <1>1, <1>4, Zenon
    <2>2. repeated' \subseteq Field
        BY <1>1, <1>2, RepeatedFacts DEF TypeOK
    <2> QED BY <1>1, <1>2, <1>6, <2>1, <2>2 DEF TypeOK, Become, Shaped
<1>9. UserOK(u, verified', repeated')
    BY <1>1, <1>6
<1> QED BY <1>1, <1>6, <1>7, <1>8, <1>9, Keeps

\* The right password.
LEMMA PasKeeps ==
    ASSUME EInv, Pas
    PROVE  EInv'
<1>1. /\ state = "VERIFY" /\ EnterNormal(Now, validate, tokens)
      /\ UNCHANGED <<local, supports, present, verified, unsaid, repeated>>
    BY DEF Pas
<1>2. /\ TypeOK /\ validate \in BOOLEAN /\ unsaid' \subseteq Field /\ repeated' \subseteq Field
    BY <1>1, Known DEF TypeOK
<1>3. /\ Shaped(Now) /\ Single(Now, repeated') /\ tokens \in 0 .. MaxTokens
      /\ UserOK(Now, verified', repeated')
      /\ Reason(Now, repeated', validate \/ skipped \/ verified' # {})
    BY <1>1, Known DEF EInv
<1> QED BY <1>1, <1>2, <1>3, Enters

\* The INF of a connected user.
LEMMA InfUpdateKeeps ==
    ASSUME EInv, NEW params \in Infs, InfUpdate(params)
    PROVE  EInv'
<1> DEFINE b == Received(params)
           c == CheckedINF(b)
           asks == Claims(params) /\ CanValidate
           waits == validate \/ asks
           u == AfterINF(Now, c, waits)
           last == LastOfEach(c.params)
           new == (repeated \ DOMAIN last) \cup Repeated(params)
<1>1. /\ state = "NORMAL" /\ suText # "thrown" /\ params["PD"] = <<>>
      /\ AddressAccepted(Received(params), First)
      /\ asks => tokens < MaxTokens
      /\ UNCHANGED <<state, local, supports, present, verified>>
      /\ Become(u) /\ SendToAll(LastOfEach(GetBuffer(c)))
      /\ validate' = waits
      /\ tokens' = IF asks THEN tokens + 1 ELSE tokens
      /\ skipped' = (skipped /\ Strippable(u))
      /\ repeated' = new
    BY ReceivedFacts DEF InfUpdate, Running, Accepted, RepeatedAfter, Has
<1>2. unsaid' \subseteq Field
    BY Known DEF InfUpdate, TypeOK, Field
<1>3. waits \in BOOLEAN /\ asks \in BOOLEAN
    BY Known DEF TypeOK, Claims, CanValidate
<1>4. Fresh(b) /\ b.params = params /\ params \in [Field -> Seq(Lists)]
    BY ReceivedFacts
<1>5. /\ Shaped(Now) /\ Single(Now, repeated) /\ SecondOK(Now, verified, repeated)
      /\ Strippable(Now) /\ "SU" \notin repeated => validate \/ skipped \/ verified # {}
    BY <1>1, Known DEF Reason
<1> HIDE DEF b, waits, asks
<1>6. /\ GetBuffer(c) = c.params /\ DOMAIN last \subseteq Field
      /\ "PD" \in DOMAIN last => params["PD"] # <<>>
      /\ ~local => /\ \A f \in {Ip(Second), Udp(Second)} \ new : f \notin DOMAIN last /\ f \notin repeated
                   /\ Ip(First) \in DOMAIN last
                   /\ Ip(First) \notin new => last[Ip(First)] = Remote(First)
      /\ Shaped(u) /\ Single(u, new) /\ UserOK(u, verified, new)
      /\ u.suText # "thrown" /\ Strippable(u) /\ "SU" \notin new =>
             waits \/ (Strippable(Now) /\ "SU" \notin repeated)
    <2>1. /\ AddressAccepted(Received(params), First) /\ waits \in BOOLEAN /\ Fresh(b)
          /\ \A f \in Field \ {"CT"} : b.params[f] = params[f]
        BY <1>1, <1>3, <1>4
    <2> QED BY <1>5, <2>1, InfFacts
<1> HIDE DEF c, u, last, new
<1>7. TypeOK'
    <2>1. validate' \in BOOLEAN /\ skipped' \in BOOLEAN
        BY <1>1, <1>3
    <2>2. tokens' \in 0 .. MaxTokens /\ (validate' => tokens' > 0)
        <3>1. MaxTokens \in Nat /\ tokens \in 0 .. MaxTokens /\ (validate => tokens > 0)
            BY <1>1, Known DEF TypeOK
        <3>2. CASE asks
            BY <1>1, <3>1, <3>2
        <3>3. CASE ~asks
            BY <1>1, <3>1, <3>3 DEF waits
        <3> QED BY <3>2, <3>3
    <2>3. DOMAIN shown' = Observer
        BY <1>1, Sent
    <2>4. repeated' \subseteq Field
        BY <1>1, <1>4, Known, RepeatedFacts DEF new, TypeOK
    <2> QED BY <1>1, <1>2, <1>6, <2>1, <2>2, <2>3, <2>4, Known DEF TypeOK, Become, Shaped
<1>8. Reason(u, repeated', validate' \/ skipped' \/ verified' # {})
    <2>1. validate => waits
        BY DEF waits
    <2> QED BY <1>1, <1>5, <1>6, <2>1 DEF Reason
<1>9. ASSUME ~local, NEW o \in present PROVE ShowsVerified(shown'[o], verified', repeated')
    <2>1. ShowsVerified(shown[o], verified, repeated)
        BY <1>1, <1>9 DEF EInv
    <2>2. \A f \in Field : shown'[o][f] = IF f \in DOMAIN last THEN last[f] ELSE shown[o][f]
        BY <1>1, <1>6, <1>9, Sent, Known DEF TypeOK, last
    <2>3. "PD" \notin DOMAIN last /\ "PD" \in Field
        BY <1>1, <1>6 DEF Field
    <2>4. \A f \in {Ip(Second), Udp(Second)} \ new : shown'[o][f] = shown[o][f] /\ f \notin repeated
        BY <1>6, <1>9, <2>2, Names
    <2>5. Ip(First) \notin new => shown'[o][Ip(First)] = Remote(First)
        BY <1>6, <1>9, <2>2, Names
    <2>6. shown'[o]["PD"] = shown[o]["PD"]
        BY <2>2, <2>3
    <2> QED BY <1>1, <2>1, <2>4, <2>5, <2>6 DEF ShowsVerified
<1>10. Single(u, repeated') /\ UserOK(u, verified', repeated')
    BY <1>1, <1>6
<1>11. state' \notin {"PROTOCOL", "IDENTIFY", "gone", "HBRI"}
    BY <1>1
<1>12. present' = present /\ UNCHANGED local
    BY <1>1
<1> QED BY <1>1, <1>6, <1>7, <1>8, <1>9, <1>10, <1>11, <1>12, Keeps

\* A token that is used up: what is left of them.
LEMMA TokenUsed ==
    ASSUME EInv, tokens > 0
    PROVE  /\ tokens - 1 \in 0 .. MaxTokens /\ MaxTokens \in Nat \ {0}
           /\ state \in {"VERIFY", "HBRI", "NORMAL"}
<1>1. MaxTokens \in Nat \ {0} /\ tokens \in 0 .. MaxTokens /\ tokens > 0
    BY Known
<1>2. state \in {"VERIFY", "HBRI", "NORMAL"}
    BY <1>1 DEF EInv, TypeOK
<1> QED BY <1>1, <1>2

\* The end of a validation without success.
LEMMA FailHBRIKeeps ==
    ASSUME EInv, tokens > 0, suText # "thrown", FailHBRI,
           UNCHANGED <<local, supports, present, verified, repeated>>
    PROVE  EInv'
<1> DEFINE u == StripProtocolSupports(Now)
<1>1. /\ TypeOK /\ UserOK(Now, verified, repeated) /\ state \in {"VERIFY", "HBRI", "NORMAL"}
      /\ Shaped(Now) /\ Single(Now, repeated)
    BY Known, TokenUsed DEF EInv
<1>2. /\ Shaped(u) /\ u.cached = Now.cached
      /\ \A f \in Field \ {"SU"} : u.fields[f] = Now.fields[f]
      /\ IsInjective(Now.filters) =>
             IsInjective(u.filters) /\ (u.suText # "thrown" => ~Strippable(u))
    BY <1>1, StripFacts
<1>3. unsaid' \subseteq Field
    BY <1>1 DEF FailHBRI, TypeOK, Field
<1>4. /\ state = "HBRI" => EnterNormal(u, FALSE, tokens - 1)
      /\ state # "HBRI" => /\ Become(u) /\ validate' = FALSE /\ skipped' = FALSE
                           /\ tokens' = tokens - 1 /\ UNCHANGED <<state, shown>>
    BY DEF FailHBRI
<1> HIDE DEF u
<1>5. Single(u, repeated') /\ UserOK(u, verified', repeated')
    BY <1>1, <1>2, Names DEF Single, UserOK, ShowsVerified, Field
<1>6. \A why : Reason(u, repeated', why)
    BY <1>1, <1>2 DEF Single, Reason
<1>7. tokens - 1 \in 0 .. MaxTokens
    BY TokenUsed
<1>8. CASE state = "HBRI"
    <2>1. repeated' \subseteq Field
        BY <1>1 DEF TypeOK
    <2> QED BY <1>2, <1>3, <1>4, <1>5, <1>6, <1>7, <1>8, <2>1, Enters
<1>9. CASE state # "HBRI"
    <2>1. TypeOK'
        BY <1>1, <1>2, <1>3, <1>4, <1>7, <1>9 DEF TypeOK, Become, Shaped
    <2>2. state' \notin {"PROTOCOL", "IDENTIFY", "gone", "HBRI"}
        BY <1>1, <1>4, <1>9
    <2>3. state' = "NORMAL" /\ ~local =>
              \A o \in present' : ShowsVerified(shown'[o], verified', repeated')
        BY <1>4, <1>9 DEF EInv
    <2> QED BY <1>2, <1>4, <1>5, <1>6, <1>9, <2>1, <2>2, <2>3, Keeps
<1> QED BY <1>8, <1>9

\* What the parameters of a TCP tell of the user.
LEMMA ToldFacts ==
    ASSUME NEW params \in Tcps, AddressAccepted(Received(params), Second)
    PROVE  LET told == TcpParams(params)
               last == LastOfEach(told)
           IN  /\ told \in [Field -> Seq(Lists)]
               /\ DOMAIN last \subseteq {"SU", Ip(Second), Udp(Second)}
               /\ ~local => /\ Ip(Second) \in DOMAIN last
                            /\ Ip(Second) \notin Repeated(told) =>
                                   last[Ip(Second)] = Remote(Second)
<1> DEFINE c == ValidateIP(Received(params), Second, First)
           told == TcpParams(params)
           last == LastOfEach(told)
<1>1. /\ Fresh(c)
      /\ ~local => /\ c.params[Ip(Second)] # <<>>
                   /\ Len(c.params[Ip(Second)]) <= 1 => Last(c.params[Ip(Second)]) = Remote(Second)
    BY Names, ReceivedFacts, ValidateIPFacts
<1>2. told = [f \in Field |-> IF f \in {"SU", Ip(Second), Udp(Second)} THEN c.params[f] ELSE <<>>]
    BY DEF TcpParams
<1> HIDE DEF c
<1>3. told \in [Field -> Seq(Lists)]
    <2>1. <<>> \in Seq(Lists) /\ c.params \in [Field -> Seq(Lists)]
        BY <1>1 DEF Fresh
    <2> QED BY <1>2, <2>1
<1>4. \A f \in Field : told[f] = IF f \in {"SU", Ip(Second), Udp(Second)} THEN c.params[f] ELSE <<>>
    BY <1>2
<1> HIDE DEF told
<1>5. /\ DOMAIN last = {f \in Field : told[f] # <<>>}
      /\ \A f \in DOMAIN last : last[f] = Last(told[f])
    BY <1>3, LastFacts
<1>6. Ip(Second) \in Field /\ told[Ip(Second)] = c.params[Ip(Second)]
    BY <1>4, Names
<1>7. \A f \in Field \ Repeated(told) : Len(told[f]) <= 1
    BY <1>3, RepeatedFacts
<1>8. DOMAIN last \subseteq {"SU", Ip(Second), Udp(Second)}
    BY <1>4, <1>5
<1> HIDE DEF last
<1> QED BY <1>1, <1>3, <1>5, <1>6, <1>7, <1>8 DEF told, last

\* A validation: its address is the one it comes from, and it is known, and
\* shown, together with what it tells of the second protocol.
LEMMA ValidateKeeps ==
    ASSUME EInv, NEW params \in Tcps, Validate(params)
    PROVE  EInv'
<1> DEFINE told == TcpParams(params)
           last == LastOfEach(told)
           inf == Received(told)
           u == UpdateFields(Now, inf)
<1>1. /\ state \in {"HBRI", "NORMAL"} /\ tokens > 0 /\ suText # "thrown"
      /\ AddressAccepted(Received(params), Second)
      /\ UNCHANGED <<local, supports, present>>
      /\ verified' = verified \cup {Remote(Second)}
    BY DEF Validate, Waiting, Running
<1>2. /\ Shaped(Now) /\ Single(Now, repeated) /\ TypeOK /\ UserOK(Now, verified, repeated)
    BY <1>1, Known DEF EInv
<1>3. /\ told \in [Field -> Seq(Lists)]
      /\ DOMAIN last \subseteq {"SU", Ip(Second), Udp(Second)}
      /\ ~local => /\ Ip(Second) \in DOMAIN last
                   /\ Ip(Second) \notin Repeated(told) => last[Ip(Second)] = Remote(Second)
    BY <1>1, ToldFacts
<1>4. inf.params = told /\ GetBuffer(inf) = told
    BY DEF Received, GetBuffer
<1>5. Fresh(inf)
    BY <1>3 DEF Received, Fresh
<1>6. /\ state = "HBRI" => EnterNormal(u, FALSE, tokens - 1) /\ UNCHANGED unsaid
      /\ state # "HBRI" => /\ Become(u) /\ SendToAll(last) /\ validate' = FALSE
                           /\ skipped' = FALSE /\ tokens' = tokens - 1
                           /\ unsaid' = unsaid \ DOMAIN last /\ UNCHANGED state
      /\ repeated' = (repeated \ DOMAIN last) \cup Repeated(told)
    BY <1>4 DEF Validate, RepeatedAfter
<1> HIDE DEF told, inf
<1>7. /\ Shaped(u)
      /\ \A f \in Field : u.fields[f] = IF f \in DOMAIN last \ {"PD"} THEN last[f] ELSE Now.fields[f]
      /\ u.filters = IF "SU" \in DOMAIN last THEN Features(last["SU"]) ELSE Now.filters
      /\ u.cached = IF DOMAIN last \ {"PD"} = {} THEN Now.cached ELSE NoBuffer
    BY <1>2, <1>4, <1>5, UpdateFacts
<1> HIDE DEF u
<1>8. /\ DOMAIN last = {f \in Field : told[f] # <<>>}
      /\ \A f \in DOMAIN last : last[f] = Last(told[f])
      /\ "SU" \notin Repeated(told) /\ told["SU"] # <<>> => IsInjective(Last(told["SU"]))
    BY <1>3, LastFacts, RepeatedFacts
<1> HIDE DEF last
<1>9. Single(u, repeated')
    <2>1. CASE "SU" \in DOMAIN last
        <3>1. "SU" \notin repeated' => IsInjective(last["SU"])
            BY <1>6, <1>8, <2>1
        <3> QED BY <1>7, <2>1, <3>1, SingleFacts DEF Single
    <2>2. CASE "SU" \notin DOMAIN last
        BY <1>2, <1>6, <1>7, <2>2 DEF Single
    <2> QED BY <2>1, <2>2
<1>10. /\ "PD" \notin DOMAIN last /\ Ip(First) \notin DOMAIN last
    BY <1>3, Names
<1>11. verified \subseteq verified' /\ verified' # {} /\ Remote(Second) \in verified'
    BY <1>1
<1>12. Ip(First) \in repeated => Ip(First) \in repeated'
    BY <1>6, <1>10
<1>13. UserOK(u, verified', repeated')
    <2>1. CASE ~local
        <3>1. u.cached = NoBuffer
            BY <1>3, <1>7, <1>10, <2>1
        <3>2. u.fields[Ip(First)] = Now.fields[Ip(First)]
            BY <1>7, <1>10, Names
        <3>3. u.fields["PD"] = Empty
            BY <1>7 DEF Shaped
        <3>4. Ip(Second) \notin repeated' => u.fields[Ip(Second)] = Remote(Second)
            BY <1>3, <1>6, <1>7, <1>10, <2>1, Names
        <3> QED BY <1>2, <1>11, <1>12, <2>1, <3>1, <3>2, <3>3, <3>4 DEF UserOK, ShowsVerified
    <2> QED BY <2>1 DEF UserOK
<1>14. \A why : Reason(u, repeated', why \/ verified' # {})
    BY <1>11 DEF Reason
<1>15. tokens - 1 \in 0 .. MaxTokens
    BY <1>1, TokenUsed
<1>16. repeated' \subseteq Field /\ unsaid' \subseteq Field
    <2>1. Repeated(told) \subseteq Field
        BY <1>3, RepeatedFacts
    <2> QED BY <1>2, <1>6, <2>1 DEF TypeOK
<1>17. CASE state = "HBRI"
    <2>1. Reason(u, repeated', FALSE \/ skipped \/ verified' # {})
        BY <1>11 DEF Reason
    <2> QED BY <1>1, <1>6, <1>7, <1>9, <1>13, <1>15, <1>16, <1>17, <2>1, Enters
<1>18. CASE state = "NORMAL"
    <2>1. /\ Become(u) /\ SendToAll(last) /\ validate' = FALSE /\ skipped' = FALSE
          /\ tokens' = tokens - 1 /\ UNCHANGED state
        BY <1>6, <1>18
    <2>2. TypeOK'
        <3>1. DOMAIN shown' = Observer
            BY <2>1, Sent
        <3> QED BY <1>1, <1>2, <1>7, <1>15, <1>16, <2>1, <3>1 DEF TypeOK, Become, Shaped
    <2>3. ASSUME ~local, NEW o \in present PROVE ShowsVerified(shown'[o], verified', repeated')
        <3>1. ShowsVerified(shown[o], verified, repeated)
            BY <1>18, <2>3 DEF EInv
        <3>2. \A f \in Field : shown'[o][f] = IF f \in DOMAIN last THEN last[f] ELSE shown[o][f]
            BY <1>2, <2>1, <2>3, Sent DEF TypeOK
        <3>3. Ip(Second) \notin repeated' => shown'[o][Ip(Second)] = Remote(Second)
            BY <1>3, <1>6, <2>3, <3>2, Names
        <3>4. shown'[o][Ip(First)] = shown[o][Ip(First)] /\ shown'[o]["PD"] = shown[o]["PD"]
            BY <1>10, <3>2, Names DEF Field
        <3> QED BY <1>11, <1>12, <3>1, <3>3, <3>4 DEF ShowsVerified
    <2>4. Reason(u, repeated', validate' \/ skipped' \/ verified' # {})
        BY <1>11 DEF Reason
    <2>5. present' = present /\ UNCHANGED local /\ state' \notin {"PROTOCOL", "IDENTIFY", "gone", "HBRI"}
        BY <1>1, <1>18, <2>1
    <2> QED BY <1>7, <1>9, <1>13, <2>1, <2>2, <2>3, <2>4, <2>5, Keeps
<1> QED BY <1>1, <1>17, <1>18

\* A user about whom, and of whom nobody is told, nothing changes.
LEMMA SameUserKeeps ==
    ASSUME EInv, state \in {"VERIFY", "HBRI", "NORMAL"}, TypeOK',
           UNCHANGED <<state, local, user, present, shown, verified, repeated>>,
           validate' \/ skipped' \/ (validate' = validate /\ skipped' = skipped)
    PROVE  EInv'
<1>1. /\ Shaped(Now) /\ Single(Now, repeated) /\ UserOK(Now, verified, repeated)
      /\ Reason(Now, repeated, validate \/ skipped \/ verified # {})
      /\ state = "HBRI" => validate \/ skipped
    BY DEF EInv
<1>2. Become(Now)
    BY DEF user, Become, Now
<1>3. Reason(Now, repeated', validate' \/ skipped' \/ verified' # {})
    BY <1>1 DEF Reason
<1>4. /\ Single(Now, repeated') /\ UserOK(Now, verified', repeated')
      /\ state' \notin {"PROTOCOL", "IDENTIFY", "gone"} /\ (state' = "HBRI" => validate' \/ skipped')
    BY <1>1
<1>5. state' = "NORMAL" /\ ~local =>
          \A o \in present' : ShowsVerified(shown'[o], verified', repeated')
    BY DEF EInv
<1> QED BY <1>1, <1>2, <1>3, <1>4, <1>5, Keeps

\* A validation over the wrong protocol.
LEMMA WrongProtocolKeeps ==
    ASSUME EInv, ValidateWrongProtocol
    PROVE  EInv'
<1>1. /\ state \in {"HBRI", "NORMAL"} /\ tokens > 0
      /\ validate' = FALSE /\ tokens' = tokens - 1 /\ skipped' = TRUE
      /\ UNCHANGED <<state, local, user, supports, present, shown, verified, unsaid, repeated>>
    BY DEF ValidateWrongProtocol, Waiting
<1>2. tokens - 1 \in 0 .. MaxTokens
    BY <1>1, TokenUsed
<1>3. TypeOK'
    BY <1>1, <1>2, Known DEF TypeOK, user
<1> QED BY <1>1, <1>3, SameUserKeeps

\* A validation before the password.
LEMMA BadStateKeeps ==
    ASSUME EInv, ValidateBadState
    PROVE  EInv'
<1>1. /\ state = "VERIFY" /\ validate' = FALSE /\ skipped' = TRUE
      /\ UNCHANGED <<state, local, user, supports, tokens, present, shown, verified, unsaid,
                     repeated>>
    BY DEF ValidateBadState
<1>2. TypeOK'
    BY <1>1, Known DEF TypeOK, user
<1> QED BY <1>1, <1>2, SameUserKeeps

\* A SUP of a connected user.
LEMMA SupKeeps ==
    ASSUME EInv, Sup
    PROVE  EInv'
<1>1. /\ state = "NORMAL"
      /\ UNCHANGED <<state, local, user, validate, tokens, present, shown, verified, skipped,
                     unsaid, repeated>>
    BY DEF Sup, history
<1>2. TypeOK'
    BY <1>1, Known DEF TypeOK, user
<1> QED BY <1>1, <1>2, SameUserKeeps

\* A new level.
LEMMA SetLevelKeeps ==
    ASSUME EInv, NEW type, SetLevel(type)
    PROVE  EInv'
<1> DEFINE u == Typed(Now, type)
<1>1. /\ state \in {"VERIFY", "HBRI", "NORMAL"} /\ Become(u)
      /\ UNCHANGED <<state, local, supports, validate, tokens, present, shown, verified, skipped,
                     repeated>>
    BY DEF SetLevel
<1>2. /\ TypeOK /\ Shaped(Now) /\ Single(Now, repeated) /\ UserOK(Now, verified, repeated)
      /\ Reason(Now, repeated, validate \/ skipped \/ verified # {})
      /\ state = "HBRI" => validate \/ skipped
    BY <1>1 DEF EInv
<1>3. unsaid' \subseteq Field
    BY <1>2 DEF SetLevel, TypeOK, Field
<1>4. /\ Shaped(u) /\ u.cached = NoBuffer /\ u.suText = Now.suText /\ Single(u, repeated)
      /\ \A f \in Field \ {"CT"} : u.fields[f] = Now.fields[f]
      /\ Strippable(u) <=> Strippable(Now)
    BY <1>2, TypedFacts
<1> HIDE DEF u
<1>5. UserOK(u, verified', repeated')
    BY <1>1, <1>2, <1>4, Names DEF UserOK, ShowsVerified, Field
<1>6. Reason(u, repeated', validate' \/ skipped' \/ verified' # {})
    BY <1>1, <1>2, <1>4 DEF Reason
<1>7. TypeOK'
    BY <1>1, <1>2, <1>3, <1>4 DEF TypeOK, Become, Shaped
<1>8. state' = "NORMAL" /\ ~local =>
          \A o \in present' : ShowsVerified(shown'[o], verified', repeated')
    BY <1>1 DEF EInv
<1>9. /\ Single(u, repeated') /\ UNCHANGED local
      /\ state' \notin {"PROTOCOL", "IDENTIFY", "gone"} /\ (state' = "HBRI" => validate' \/ skipped')
    BY <1>1, <1>2, <1>4
<1> QED BY <1>1, <1>4, <1>5, <1>6, <1>7, <1>8, <1>9, Keeps

\* The rest of the invariant is about users who are logging in or are connected.
LEMMA ElsewhereKeeps ==
    ASSUME EInv, state \in {"PROTOCOL", "IDENTIFY", "gone"}, TypeOK',
           UNCHANGED <<state, user, tokens, repeated>>
    PROVE  EInv'
<1>1. Now' = Now
    BY DEF Now, user
<1> QED BY <1>1 DEF EInv, Shaped, Single

\* A newcomer is sent the cached INF, which getINF may have to make.
LEMMA JoinKeeps ==
    ASSUME EInv, NEW o \in Observer, Join(o)
    PROVE  EInv'
<1>1. /\ TypeOK /\ present' = present \cup {o}
      /\ UNCHANGED <<state, local, supports, validate, tokens, verified, skipped, unsaid, repeated>>
    BY Known DEF Join, history
<1>2. CASE state = "NORMAL"
    <2> DEFINE w == WithINF(Now)
    <2>1. Become(w) /\ shown' = [shown EXCEPT ![o] = w.cached]
        BY <1>2 DEF Join
    <2>2. /\ Shaped(Now) /\ Single(Now, repeated) /\ UserOK(Now, verified, repeated)
          /\ Reason(Now, repeated, validate \/ skipped \/ verified # {})
        BY <1>2 DEF EInv
    <2>3. /\ w = [fields |-> Now.fields, filters |-> Now.filters, suText |-> Now.suText,
                  cached |-> w.cached]
          /\ w.cached \in {Now.cached, Now.fields}
          /\ ~local => ShowsVerified(w.cached, verified, repeated)
        BY <2>2 DEF WithINF, Shaped, UserOK, Now
    <2> HIDE DEF w
    <2>4. Shaped(w) /\ Single(w, repeated') /\ UserOK(w, verified', repeated')
        BY <1>1, <2>2, <2>3 DEF Shaped, Single, UserOK
    <2>5. Reason(w, repeated', validate' \/ skipped' \/ verified' # {})
        BY <1>1, <2>2, <2>3 DEF Reason, Strippable
    <2>6. TypeOK'
        BY <1>1, <2>1, <2>4 DEF TypeOK, Become, Shaped
    <2>7. ~local => \A p \in present' : ShowsVerified(shown'[p], verified', repeated')
        BY <1>1, <1>2, <2>1, <2>3 DEF EInv, TypeOK
    <2>8. UNCHANGED local /\ state' \notin {"PROTOCOL", "IDENTIFY", "gone", "HBRI"}
        BY <1>1, <1>2
    <2> QED BY <2>1, <2>4, <2>5, <2>6, <2>7, <2>8, Keeps
<1>3. CASE state # "NORMAL"
    <2>1. UNCHANGED user /\ UNCHANGED shown
        BY <1>3 DEF Join
    <2>2. TypeOK'
        BY <1>1, <2>1 DEF TypeOK, user
    <2>3. Now' = Now
        BY <2>1 DEF Now, user
    <2>4. CASE state \in {"VERIFY", "HBRI"}
        <3>1. /\ Shaped(Now) /\ Single(Now, repeated) /\ UserOK(Now, verified, repeated)
              /\ Reason(Now, repeated, validate \/ skipped \/ verified # {})
              /\ state = "HBRI" => validate \/ skipped
            BY <2>4 DEF EInv
        <3>2. Become(Now)
            BY <2>1 DEF user, Become, Now
        <3>3. /\ Single(Now, repeated') /\ UserOK(Now, verified', repeated') /\ UNCHANGED local
              /\ state' \notin {"PROTOCOL", "IDENTIFY", "gone", "NORMAL"}
              /\ state' = "HBRI" => validate' \/ skipped'
              /\ Reason(Now, repeated', validate' \/ skipped' \/ verified' # {})
            BY <1>1, <2>4, <3>1
        <3> QED BY <2>2, <3>1, <3>2, <3>3, Keeps
    <2>5. CASE state \in {"PROTOCOL", "IDENTIFY", "gone"}
        BY <1>1, <2>1, <2>2, <2>5, ElsewhereKeeps
    <2> QED BY <1>1, <1>3, <2>4, <2>5 DEF TypeOK
<1> QED BY <1>2, <1>3

\* An observer leaves.
LEMMA LeaveKeeps ==
    ASSUME EInv, NEW o \in Observer, Leave(o)
    PROVE  EInv'
<1>1. /\ present' = present \ {o} /\ shown' = [shown EXCEPT ![o] = Blank] /\ TypeOK
      /\ UNCHANGED <<state, local, user, supports, validate, tokens, verified, skipped, unsaid,
                     repeated>>
    BY Known DEF Leave, history
<1>2. TypeOK'
    BY <1>1 DEF TypeOK, user
<1>3. CASE state \in {"VERIFY", "HBRI", "NORMAL"}
    <2>1. /\ Shaped(Now) /\ Single(Now, repeated) /\ UserOK(Now, verified, repeated)
          /\ Reason(Now, repeated, validate \/ skipped \/ verified # {})
          /\ state = "HBRI" => validate \/ skipped
        BY <1>3 DEF EInv
    <2>2. Become(Now)
        BY <1>1 DEF user, Become, Now
    <2>3. state' = "NORMAL" /\ ~local =>
              \A p \in present' : ShowsVerified(shown'[p], verified', repeated')
        BY <1>1 DEF EInv, TypeOK
    <2>4. /\ Single(Now, repeated') /\ UserOK(Now, verified', repeated') /\ UNCHANGED local
          /\ state' \notin {"PROTOCOL", "IDENTIFY", "gone"} /\ (state' = "HBRI" => validate' \/ skipped')
          /\ Reason(Now, repeated', validate' \/ skipped' \/ verified' # {})
        BY <1>1, <1>3, <2>1
    <2> QED BY <1>2, <2>1, <2>2, <2>3, <2>4, Keeps
<1>4. CASE state \in {"PROTOCOL", "IDENTIFY", "gone"}
    BY <1>1, <1>2, <1>4, ElsewhereKeeps
<1> QED BY <1>1, <1>3, <1>4 DEF TypeOK

----------------------------------------------------------------------------
(* The theorems.                                                           *)

\* Nothing is known of a user who has not sent an INF, nor of one who is gone.
LEMMA UnnamedFacts ==
    ASSUME NEW rep
    PROVE  /\ Shaped(Unnamed) /\ Single(Unnamed, rep)
           /\ DOMAIN Blank = Field /\ Blank["PD"] = Empty
<1>1. <<>> \in Lists /\ Features(<<>>) = <<>> /\ IsInjective(<<>>)
    BY DEF Lists, Features, IsInjective
<1>2. DOMAIN Blank = Field /\ Blank["PD"] = Empty /\ Blank["SU"] = <<>>
    BY DEF Blank, Field, Empty
<1> QED BY <1>1, <1>2 DEF Shaped, Single, Unnamed

\* In every order of INFs, validations, refusals, timeouts, changes of supports
\* and of levels, and of others who come and go, the invariant holds.
THEOREM Invariant == Spec => []EInv
<1>1. Init => EInv
    <2> SUFFICES ASSUME Init PROVE EInv
        OBVIOUS
    <2>1. /\ ~validate /\ validate \in BOOLEAN /\ ~skipped /\ skipped \in BOOLEAN
          /\ tokens = 0
        BY Zenon DEF Init
    <2>2. /\ state = "PROTOCOL" /\ local \in BOOLEAN /\ present = {} /\ unsaid = {}
          /\ repeated = {} /\ DOMAIN shown = Observer /\ Now = Unnamed
          /\ fields = Blank /\ cached = NoBuffer /\ suText = "whole"
        BY DEF Init, Now, Unnamed
    <2>3. TypeOK
        BY <2>1, <2>2, UnnamedFacts, ConstantsAssumption DEF TypeOK
    <2> QED BY <2>1, <2>2, <2>3, UnnamedFacts DEF EInv
<1>2. EInv /\ [Next]_vars => EInv'
    <2> SUFFICES ASSUME EInv, [Next]_vars PROVE EInv'
        OBVIOUS
    <2>0. CASE FirstSup
        <3>1. /\ state = "PROTOCOL" /\ state' = "IDENTIFY"
              /\ UNCHANGED <<local, user, validate, tokens, present, shown, verified, skipped,
                             unsaid, repeated>>
            BY <2>0 DEF FirstSup, history
        <3>2. TypeOK'
            BY <3>1, Known DEF TypeOK, user
        <3>3. Now' = Now
            BY <3>1 DEF Now, user
        <3> QED BY <3>1, <3>2, <3>3 DEF EInv, Shaped, Single
    <2>1. ASSUME NEW params \in Infs, NEW type \in ClientType, InfLogin(params, type)
          PROVE  EInv'
        BY <2>1, InfLoginKeeps
    <2>2. ASSUME NEW params \in Infs, NEW type \in ClientType, InfRegistered(params, type)
          PROVE  EInv'
        BY <2>2, InfRegisteredKeeps
    <2>3. CASE Pas
        BY <2>3, PasKeeps
    <2>4. ASSUME NEW params \in Infs, InfUpdate(params) PROVE EInv'
        BY <2>4, InfUpdateKeeps
    <2>5. CASE Disconnected
        <3>1. /\ state' = "gone" /\ Become(Unnamed) /\ unsaid' = {} /\ repeated' = {}
              /\ shown' = [o \in Observer |-> Blank]
              /\ UNCHANGED <<local, supports, present>>
            BY <2>5 DEF Disconnected
        <3>2. /\ ~validate' /\ validate' \in BOOLEAN /\ ~skipped' /\ skipped' \in BOOLEAN
              /\ tokens' = 0
            BY <2>5, Zenon DEF Disconnected
        <3>3. Shaped(Unnamed) /\ Single(Unnamed, repeated')
            BY UnnamedFacts
        <3>4. Now' = Unnamed
            BY <3>1, <3>3, Becomes
        <3>5. fields' = Blank /\ cached' = NoBuffer /\ suText' = "whole"
            BY <3>1 DEF Become, Unnamed
        <3>6. TypeOK'
            BY <3>1, <3>2, <3>5, UnnamedFacts, Known DEF TypeOK
        <3>7. Shaped(Now)' /\ Single(Now, repeated)'
            BY <3>3, <3>4 DEF Shaped, Single
        <3> QED BY <3>1, <3>2, <3>6, <3>7 DEF EInv
    <2>6. ASSUME NEW params \in Tcps, Validate(params) PROVE EInv'
        BY <2>6, ValidateKeeps
    <2>7. ASSUME NEW params \in Tcps, ValidateRefused(params) PROVE EInv'
        BY <2>7, FailHBRIKeeps DEF ValidateRefused, Waiting, Running
    <2>8. CASE ValidateWrongProtocol
        BY <2>8, WrongProtocolKeeps
    <2>9. CASE ValidateBadState
        BY <2>9, BadStateKeeps
    <2>10. CASE Timeout
        BY <2>10, FailHBRIKeeps DEF Timeout, Running
    <2>11. CASE Sup
        BY <2>11, SupKeeps
    <2>12. ASSUME NEW type \in ClientType, SetLevel(type) PROVE EInv'
        BY <2>12, SetLevelKeeps
    <2>13. ASSUME NEW o \in Observer, Join(o) PROVE EInv'
        BY <2>13, JoinKeeps
    <2>14. ASSUME NEW o \in Observer, Leave(o) PROVE EInv'
        BY <2>14, LeaveKeeps
    <2>15. CASE UNCHANGED vars
        <3>1. UNCHANGED <<state, local, user, supports, validate, tokens, present, shown,
                          verified, skipped, unsaid, repeated>>
            BY <2>15 DEF vars, history
        <3>2. TypeOK'
            BY <3>1, Known DEF TypeOK, user
        <3>3. state \in {"PROTOCOL", "IDENTIFY", "gone"} \/ state \in {"VERIFY", "HBRI", "NORMAL"}
            BY Known DEF TypeOK
        <3> QED BY <3>1, <3>2, <3>3, SameUserKeeps, ElsewhereKeeps
    <2> QED BY <2>0, <2>1, <2>2, <2>3, <2>4, <2>5, <2>6, <2>7, <2>8, <2>9, <2>10, <2>11, <2>12,
               <2>13, <2>14, <2>15 DEF Next
<1> QED BY <1>1, <1>2, PTL DEF Spec

\* The variables have their types; PD is never kept, and a validation that is
\* waited for has a token (Entity.h, hbriTokens).
THEOREM TypeCorrect == Spec => []TypeOK
<1>1. EInv => TypeOK
    BY DEF EInv
<1> QED BY <1>1, Invariant, PTL

\* Nobody is shown an address of the second protocol before it was validated,
\* whatever the INFs, the validations and their order, but for what a command
\* names twice (validateIP, handle(TCP), stripProtocolSupports, failHBRI).
THEOREM AddressesVerified == Spec => []SecondaryVerified
<1>1. EInv => SecondaryVerified
    <2>1. Now.cached = cached /\ Now.suText = suText
        BY DEF Now
    <2> QED BY <2>1 DEF EInv, SecondaryVerified, UserOK, Reason, Running
<1> QED BY <1>1, Invariant, PTL

----------------------------------------------------------------------------
(* The user is the same for all.                                           *)

\* The cached INF says what the fields say, but for the fields in `un'.
CacheOK(u, un) == u.cached # NoBuffer => \A f \in Field \ un : u.cached[f] = u.fields[f]

\* Before the login is over nothing is cached; from then on the cached INF and
\* what observers show are what the hub knows, but for what changed in silence.
SInv ==
    /\ state \in {"PROTOCOL", "IDENTIFY", "VERIFY", "HBRI"} => cached = NoBuffer
    /\ state = "NORMAL" => CacheOK(Now, unsaid) /\ \A o \in present : Agrees(shown[o])

\* Before the login is over.
LEMMA SilentSaid ==
    ASSUME NEW u, Become(u), u.cached = NoBuffer, state' # "NORMAL"
    PROVE  SInv'
BY DEF SInv, Become

\* Afterwards.
LEMMA AloudSaid ==
    ASSUME NEW u, Become(u), state' = "NORMAL", CacheOK(u, unsaid'),
           \A o \in present' : \A f \in Field \ unsaid' : shown'[o][f] = u.fields[f]
    PROVE  SInv'
<1>1. fields' = u.fields /\ cached' = u.cached
    BY DEF Become
<1>2. CacheOK(Now, unsaid)'
    BY <1>1 DEF CacheOK, Now
<1>3. (\A o \in present : Agrees(shown[o]))'
    BY <1>1 DEF Agrees
<1> QED BY <1>2, <1>3 DEF SInv

\* enterNormal tells everybody everything.
LEMMA EnterSaid ==
    ASSUME NEW u, NEW flagged, NEW left, Shaped(u), u.cached = NoBuffer,
           EnterNormal(u, flagged, left), present \subseteq Observer, UNCHANGED present
    PROVE  SInv'
<1>1. CASE flagged /\ CanValidate
    <2>1. Become(u) /\ state' = "HBRI"
        BY <1>1 DEF EnterNormal
    <2> QED BY <2>1, SilentSaid
<1>2. CASE ~(flagged /\ CanValidate)
    <2> DEFINE w == WithINF(u)
    <2>1. Become(w) /\ SendToAll(w.cached) /\ state' = "NORMAL"
        BY <1>2 DEF EnterNormal
    <2>2. w.fields = u.fields /\ w.cached = u.fields /\ DOMAIN u.fields = Field
        BY DEF WithINF, Shaped
    <2> HIDE DEF w
    <2>3. CacheOK(w, unsaid')
        BY <2>2 DEF CacheOK
    <2>4. \A o \in present' : \A f \in Field \ unsaid' : shown'[o][f] = w.fields[f]
        BY <2>1, <2>2, Sent
    <2> QED BY <2>1, <2>3, <2>4, AloudSaid
<1> QED BY <1>1, <1>2

\* What becomes of the fields and of the cached INF.
LEMMA InfSaid ==
    ASSUME NEW b, Fresh(b), NEW u, Shaped(u), NEW keeps
    PROVE  LET c    == CheckedINF(b)
               a    == AfterINF(u, c, keeps)
               n    == UpdateFields(u, c)
               last == LastOfEach(c.params)
           IN  /\ Shaped(a) /\ GetBuffer(c) = c.params /\ DOMAIN last \subseteq Field
               /\ "PD" \in DOMAIN last => b.params["PD"] # <<>>
               /\ \A f \in Field : n.fields[f] = IF f \in DOMAIN last \ {"PD"} THEN last[f]
                                                 ELSE u.fields[f]
               /\ \A f \in Field \ {"SU"} : a.fields[f] = n.fields[f]
               /\ a.cached \in {u.cached, NoBuffer}
               /\ DOMAIN last \ {"PD"} # {} => a.cached = NoBuffer
<1> DEFINE c == CheckedINF(b)
           a == AfterINF(u, c, keeps)
           n == UpdateFields(u, c)
           last == LastOfEach(c.params)
<1>1. Fresh(c) /\ c.params["PD"] = b.params["PD"]
    <2>1. Fresh(c) /\ \A f \in Field \ {Ip(First), Ip(Second), Udp(Second)} : c.params[f] = b.params[f]
        BY Names, ValidateIPFacts DEF CheckedINF
    <2> HIDE DEF c
    <2> QED BY <2>1, Names DEF Field
<1> HIDE DEF c
<1>2. GetBuffer(c) = c.params /\ c.params \in [Field -> Seq(Lists)]
    BY <1>1 DEF Fresh, GetBuffer
<1>3. DOMAIN last = {f \in Field : c.params[f] # <<>>}
    BY <1>2, LastFacts
<1>4. /\ Shaped(n)
      /\ \A f \in Field : n.fields[f] = IF f \in DOMAIN last \ {"PD"} THEN last[f] ELSE u.fields[f]
      /\ n.cached = IF DOMAIN last \ {"PD"} = {} THEN u.cached ELSE NoBuffer
    BY <1>1, UpdateFacts
<1> HIDE DEF n, last
<1>5. Shaped(a) /\ a.cached = n.cached /\ \A f \in Field \ {"SU"} : a.fields[f] = n.fields[f]
    <2>1. a = n \/ a = StripProtocolSupports(n)
        BY DEF AfterINF, n
    <2> HIDE DEF a
    <2> QED BY <1>4, <2>1, StripFacts
<1> HIDE DEF a
<1> QED BY <1>1, <1>2, <1>3, <1>4, <1>5 DEF c, a, n, last

\* The INFs of the login.
LEMMA LoginSaid ==
    ASSUME EInv, NEW params \in Infs, NEW type, InfLogin(params, type)
    PROVE  SInv'
<1> DEFINE b == Received(params)
           base == Typed(Now, type)
           waits == Claims(params)
           u == AfterINF(base, CheckedINF(b), waits)
<1>1. /\ state = "IDENTIFY" /\ EnterNormal(u, waits, tokens) /\ UNCHANGED present
      /\ present \subseteq Observer
    BY Known DEF InfLogin, TypeOK
<1>2. Fresh(b) /\ b.params = params
    BY ReceivedFacts
<1>3. Shaped(base) /\ base.cached = NoBuffer
    BY <1>1, Known, TypedFacts
<1> HIDE DEF b, base, waits
<1>4. Shaped(u) /\ u.cached = NoBuffer
    <2>1. Shaped(u) /\ u.cached \in {base.cached, NoBuffer}
        BY <1>2, <1>3, InfSaid
    <2> HIDE DEF u
    <2> QED BY <1>3, <2>1
<1> HIDE DEF u
<1> QED BY <1>1, <1>4, EnterSaid

LEMMA RegisteredSaid ==
    ASSUME EInv, NEW params \in Infs, NEW type \in ClientType, InfRegistered(params, type)
    PROVE  SInv'
<1> DEFINE b == AddParam(Received(params), "CT", type)
           base == Typed(Now, type)
           keeps == validate \/ Claims(params) \/ state = "HBRI"
           u == AfterINF(base, CheckedINF(b), keeps)
<1>1. state \in {"PROTOCOL", "IDENTIFY", "VERIFY", "HBRI"} /\ Become(u) /\ state' = "VERIFY"
    BY DEF InfRegistered
<1>2. Fresh(b) /\ \A f \in Field \ {"CT"} : b.params[f] = params[f]
    <2>1. type \in Lists /\ "CT" \in Field
        BY DEF ClientType, Lists, Texts, Field
    <2> QED BY <2>1, ReceivedFacts, AddFacts
<1>3. Shaped(base) /\ base.cached = NoBuffer
    BY <1>1, Known, TypedFacts
<1> HIDE DEF b, base, keeps
<1>4. u.cached = NoBuffer
    <2>1. u.cached \in {base.cached, NoBuffer}
        BY <1>2, <1>3, InfSaid
    <2> HIDE DEF u
    <2> QED BY <1>3, <2>1
<1> HIDE DEF u
<1> QED BY <1>1, <1>4, SilentSaid

\* The INF of a connected user is what observers are sent, but for SU where
\* features are taken out of it.
LEMMA UpdateSaid ==
    ASSUME EInv, SInv, NEW params \in Infs, InfUpdate(params)
    PROVE  SInv'
<1> DEFINE b == Received(params)
           c == CheckedINF(b)
           waits == validate \/ (Claims(params) /\ CanValidate)
           u == AfterINF(Now, c, waits)
           n == UpdateFields(Now, c)
           last == LastOfEach(c.params)
<1>1. /\ state = "NORMAL" /\ params["PD"] = <<>>
      /\ UNCHANGED <<state, present>> /\ Become(u) /\ SendToAll(LastOfEach(GetBuffer(c)))
      /\ unsaid' = (unsaid \ DOMAIN last) \cup {f \in {"SU"} : u # n}
    BY ReceivedFacts DEF InfUpdate, Has
<1>2. present \subseteq Observer
    BY Known DEF TypeOK
<1>3. Fresh(b) /\ b.params = params
    BY ReceivedFacts
<1>4. /\ Shaped(Now)
      /\ CacheOK(Now, unsaid) /\ \A o \in present : \A f \in Field \ unsaid : shown[o][f] = Now.fields[f]
    BY <1>1, Known DEF SInv, Agrees
<1> HIDE DEF b, waits
<1>5. /\ GetBuffer(c) = c.params /\ DOMAIN last \subseteq Field /\ "PD" \notin DOMAIN last
      /\ \A f \in Field : n.fields[f] = IF f \in DOMAIN last \ {"PD"} THEN last[f] ELSE Now.fields[f]
      /\ \A f \in Field \ {"SU"} : u.fields[f] = n.fields[f]
      /\ u.cached \in {Now.cached, NoBuffer}
      /\ DOMAIN last # {} => u.cached = NoBuffer
    <2>1. /\ GetBuffer(c) = c.params /\ DOMAIN last \subseteq Field
          /\ "PD" \in DOMAIN last => b.params["PD"] # <<>>
          /\ \A f \in Field : n.fields[f] = IF f \in DOMAIN last \ {"PD"} THEN last[f]
                                            ELSE Now.fields[f]
          /\ \A f \in Field \ {"SU"} : u.fields[f] = n.fields[f]
          /\ u.cached \in {Now.cached, NoBuffer}
          /\ DOMAIN last \ {"PD"} # {} => u.cached = NoBuffer
        BY <1>3, <1>4, InfSaid
    <2> HIDE DEF c, u, n, last
    <2> QED BY <1>1, <1>3, <2>1
<1> HIDE DEF c, u, n, last
<1>6. \A f \in Field \ unsaid' :
          /\ u.fields[f] = IF f \in DOMAIN last THEN last[f] ELSE Now.fields[f]
          /\ f \notin DOMAIN last => f \notin unsaid
    <2>1. \A f \in Field \ unsaid' : u.fields[f] = n.fields[f]
        BY <1>1, <1>5
    <2> QED BY <1>1, <1>5, <2>1
<1>7. CacheOK(u, unsaid')
    <2>1. CASE DOMAIN last = {}
        BY <1>4, <1>5, <1>6, <2>1 DEF CacheOK
    <2>2. CASE DOMAIN last # {}
        BY <1>5, <2>2 DEF CacheOK
    <2> QED BY <2>1, <2>2
<1>8. ASSUME NEW o \in present', NEW f \in Field \ unsaid' PROVE shown'[o][f] = u.fields[f]
    <2>1. o \in present /\ o \in Observer
        BY <1>1, <1>2
    <2>2. shown'[o][f] = IF f \in DOMAIN last THEN last[f] ELSE shown[o][f]
        BY <1>1, <1>5, <2>1, Sent DEF last
    <2> QED BY <1>4, <1>6, <2>1, <2>2
<1> QED BY <1>1, <1>7, <1>8, AloudSaid

\* The end of a validation without success; afterwards SU may be another.
LEMMA FailHBRISaid ==
    ASSUME EInv, SInv, tokens > 0, FailHBRI, UNCHANGED present
    PROVE  SInv'
<1> DEFINE u == StripProtocolSupports(Now)
<1>1. /\ Shaped(Now) /\ TypeOK /\ state \in {"VERIFY", "HBRI", "NORMAL"}
      /\ Now.fields = fields /\ Now.cached = cached
    BY Known, TokenUsed
<1>2. /\ Shaped(u) /\ u.cached = Now.cached
      /\ \A f \in Field \ {"SU"} : u.fields[f] = Now.fields[f]
    BY <1>1, StripFacts
<1>3. /\ state = "HBRI" => EnterNormal(u, FALSE, tokens - 1)
      /\ state # "HBRI" => Become(u) /\ UNCHANGED <<state, shown>>
      /\ state = "NORMAL" => unsaid' = unsaid \cup {f \in {"SU"} : u # Now}
    BY DEF FailHBRI
<1> HIDE DEF u
<1>4. CASE state = "HBRI"
    <2>1. u.cached = NoBuffer /\ present \subseteq Observer
        BY <1>1, <1>2, <1>4 DEF SInv, TypeOK
    <2> QED BY <1>2, <1>3, <1>4, <2>1, EnterSaid
<1>5. CASE state = "VERIFY"
    <2>1. u.cached = NoBuffer
        BY <1>1, <1>2, <1>5 DEF SInv
    <2> QED BY <1>3, <1>5, <2>1, SilentSaid
<1>6. CASE state = "NORMAL"
    <2>1. CacheOK(Now, unsaid) /\ \A o \in present : \A f \in Field \ unsaid : shown[o][f] = Now.fields[f]
        BY <1>1, <1>6 DEF SInv, Agrees
    <2>2. \A f \in Field \ unsaid' : f \notin unsaid /\ u.fields[f] = Now.fields[f]
        BY <1>2, <1>3, <1>6
    <2>3. CacheOK(u, unsaid')
        BY <1>2, <2>1, <2>2 DEF CacheOK
    <2>4. \A o \in present' : \A f \in Field \ unsaid' : shown'[o][f] = u.fields[f]
        BY <1>3, <1>6, <2>1, <2>2
    <2> QED BY <1>3, <1>6, <2>3, <2>4, AloudSaid
<1> QED BY <1>1, <1>4, <1>5, <1>6

\* A validation tells everybody what it tells the hub.
LEMMA ValidateSaid ==
    ASSUME EInv, SInv, NEW params \in Tcps, Validate(params)
    PROVE  SInv'
<1> DEFINE told == TcpParams(params)
           last == LastOfEach(told)
           inf == Received(told)
           u == UpdateFields(Now, inf)
<1>1. /\ state \in {"HBRI", "NORMAL"} /\ AddressAccepted(Received(params), Second)
      /\ UNCHANGED present
    BY DEF Validate, Waiting
<1>2. Shaped(Now) /\ present \subseteq Observer /\ Now.fields = fields /\ Now.cached = cached
    BY Known DEF TypeOK
<1>3. /\ told \in [Field -> Seq(Lists)] /\ DOMAIN last \subseteq {"SU", Ip(Second), Udp(Second)}
    BY <1>1, ToldFacts
<1>4. inf.params = told /\ GetBuffer(inf) = told
    BY DEF Received, GetBuffer
<1>5. Fresh(inf)
    BY <1>3 DEF Received, Fresh
<1>6. /\ state = "HBRI" => EnterNormal(u, FALSE, tokens - 1)
      /\ state # "HBRI" => /\ Become(u) /\ SendToAll(last)
                           /\ unsaid' = unsaid \ DOMAIN last /\ UNCHANGED state
    BY <1>4 DEF Validate
<1> HIDE DEF told, inf
<1>7. /\ Shaped(u)
      /\ \A f \in Field : u.fields[f] = IF f \in DOMAIN last \ {"PD"} THEN last[f] ELSE Now.fields[f]
      /\ u.cached = IF DOMAIN last \ {"PD"} = {} THEN Now.cached ELSE NoBuffer
    BY <1>2, <1>4, <1>5, UpdateFacts
<1>8. "PD" \notin DOMAIN last
    BY <1>3, Names
<1> HIDE DEF u, last
<1>9. CASE state = "HBRI"
    <2>1. u.cached = NoBuffer
        BY <1>2, <1>7, <1>9 DEF SInv
    <2> QED BY <1>1, <1>2, <1>6, <1>7, <1>9, <2>1, EnterSaid
<1>10. CASE state = "NORMAL"
    <2>1. CacheOK(Now, unsaid) /\ \A o \in present : \A f \in Field \ unsaid : shown[o][f] = Now.fields[f]
        BY <1>2, <1>10 DEF SInv, Agrees
    <2>2. Become(u) /\ SendToAll(last) /\ unsaid' = unsaid \ DOMAIN last /\ state' = "NORMAL"
        BY <1>6, <1>10
    <2>3. CacheOK(u, unsaid')
        BY <1>7, <1>8, <2>1, <2>2 DEF CacheOK
    <2>4. ASSUME NEW o \in present', NEW f \in Field \ unsaid' PROVE shown'[o][f] = u.fields[f]
        <3>1. o \in present /\ o \in Observer
            BY <1>1, <1>2
        <3>2. shown'[o][f] = IF f \in DOMAIN last THEN last[f] ELSE shown[o][f]
            BY <2>2, <3>1, Sent
        <3> QED BY <1>7, <1>8, <2>1, <2>2, <3>1, <3>2
    <2> QED BY <2>2, <2>3, <2>4, AloudSaid
<1> QED BY <1>1, <1>9, <1>10

\* A new level is told nobody, and the cached INF is thrown away.
LEMMA SetLevelSaid ==
    ASSUME EInv, SInv, NEW type, SetLevel(type)
    PROVE  SInv'
<1> DEFINE u == Typed(Now, type)
<1>1. /\ Become(u) /\ UNCHANGED <<state, present, shown>>
      /\ state = "NORMAL" => unsaid' = unsaid \cup {"CT"}
    BY DEF SetLevel
<1>2. /\ u.cached = NoBuffer /\ Now.fields = fields
      /\ \A f \in Field \ {"CT"} : u.fields[f] = Now.fields[f]
    BY Known, TypedFacts
<1> HIDE DEF u
<1>3. CASE state = "NORMAL"
    <2>1. \A o \in present' : \A f \in Field \ unsaid' : shown'[o][f] = u.fields[f]
        BY <1>1, <1>2, <1>3 DEF SInv, Agrees
    <2>2. CacheOK(u, unsaid')
        BY <1>2 DEF CacheOK
    <2> QED BY <1>1, <1>3, <2>1, <2>2, AloudSaid
<1>4. CASE state # "NORMAL"
    BY <1>1, <1>2, <1>4, SilentSaid
<1> QED BY <1>3, <1>4

\* A newcomer is told what the cached INF says.
LEMMA JoinSaid ==
    ASSUME EInv, SInv, NEW o \in Observer, Join(o)
    PROVE  SInv'
<1>1. /\ TypeOK /\ present' = present \cup {o} /\ UNCHANGED <<state, unsaid>>
      /\ Shaped(Now) /\ Now.fields = fields /\ Now.cached = cached
    BY Known DEF Join, history
<1>2. CASE state = "NORMAL"
    <2> DEFINE w == WithINF(Now)
    <2>1. Become(w) /\ shown' = [shown EXCEPT ![o] = w.cached]
        BY <1>2 DEF Join
    <2>2. CacheOK(Now, unsaid) /\ \A p \in present : \A f \in Field \ unsaid : shown[p][f] = Now.fields[f]
        BY <1>1, <1>2 DEF SInv, Agrees
    <2>3. /\ w.fields = Now.fields /\ \A f \in Field \ unsaid : w.cached[f] = w.fields[f]
        BY <1>1, <2>2 DEF WithINF, CacheOK, Shaped
    <2> HIDE DEF w
    <2>4. CacheOK(w, unsaid')
        BY <1>1, <2>3 DEF CacheOK
    <2>5. \A p \in present' : \A f \in Field \ unsaid' : shown'[p][f] = w.fields[f]
        BY <1>1, <2>1, <2>2, <2>3 DEF TypeOK
    <2> QED BY <1>1, <1>2, <2>1, <2>4, <2>5, AloudSaid
<1>3. CASE state # "NORMAL"
    <2>1. UNCHANGED user
        BY <1>3 DEF Join
    <2> QED BY <1>1, <1>3, <2>1 DEF SInv, user
<1> QED BY <1>2, <1>3

\* Steps by which nobody is told anything, and nothing is to be told.
LEMMA QuietSaid ==
    ASSUME SInv, UNCHANGED <<state, user, unsaid>>, present' \subseteq present,
           \A o \in present' : shown'[o] = shown[o]
    PROVE  SInv'
<1>1. Now' = Now
    BY DEF Now, user
<1> QED BY <1>1 DEF SInv, CacheOK, Agrees, user

\* What is cached and what is shown agrees with what is known, in every order of
\* INFs, validations, timeouts, changes of level and newcomers.
THEOREM SaidInvariant == Spec => []SInv
<1>1. Init => SInv
    BY DEF Init, SInv
<1>2. EInv /\ SInv /\ [Next]_vars => SInv'
    <2> SUFFICES ASSUME EInv, SInv, [Next]_vars PROVE SInv'
        OBVIOUS
    <2>0. CASE FirstSup
        <3>1. state = "PROTOCOL" /\ state' = "IDENTIFY" /\ UNCHANGED user
            BY <2>0 DEF FirstSup
        <3> QED BY <3>1 DEF SInv, user
    <2>1. ASSUME NEW params \in Infs, NEW type \in ClientType, InfLogin(params, type)
          PROVE  SInv'
        BY <2>1, LoginSaid
    <2>2. ASSUME NEW params \in Infs, NEW type \in ClientType, InfRegistered(params, type)
          PROVE  SInv'
        BY <2>2, RegisteredSaid
    <2>3. CASE Pas
        <3>1. /\ state = "VERIFY" /\ EnterNormal(Now, validate, tokens) /\ UNCHANGED present
              /\ Shaped(Now) /\ Now.cached = NoBuffer /\ present \subseteq Observer
            BY <2>3, Known DEF Pas, SInv, TypeOK
        <3> QED BY <3>1, EnterSaid
    <2>4. ASSUME NEW params \in Infs, InfUpdate(params) PROVE SInv'
        BY <2>4, UpdateSaid
    <2>5. CASE Disconnected
        BY <2>5 DEF Disconnected, SInv
    <2>6. ASSUME NEW params \in Tcps, Validate(params) PROVE SInv'
        BY <2>6, ValidateSaid
    <2>7. ASSUME NEW params \in Tcps, ValidateRefused(params) PROVE SInv'
        BY <2>7, FailHBRISaid DEF ValidateRefused, Waiting
    <2>8. CASE ValidateWrongProtocol
        BY <2>8, QuietSaid DEF ValidateWrongProtocol
    <2>9. CASE ValidateBadState
        BY <2>9, QuietSaid DEF ValidateBadState
    <2>10. CASE Timeout
        BY <2>10, FailHBRISaid DEF Timeout
    <2>11. CASE Sup
        BY <2>11, QuietSaid DEF Sup, history
    <2>12. ASSUME NEW type \in ClientType, SetLevel(type) PROVE SInv'
        BY <2>12, SetLevelSaid
    <2>13. ASSUME NEW o \in Observer, Join(o) PROVE SInv'
        BY <2>13, JoinSaid
    <2>14. ASSUME NEW o \in Observer, Leave(o) PROVE SInv'
        <3>1. /\ present' = present \ {o} /\ shown' = [shown EXCEPT ![o] = Blank]
              /\ UNCHANGED <<state, user, unsaid>> /\ TypeOK
            BY <2>14, Known DEF Leave, history
        <3>2. \A p \in present' : shown'[p] = shown[p]
            BY <3>1 DEF TypeOK
        <3> QED BY <3>1, <3>2, QuietSaid
    <2>15. CASE UNCHANGED vars
        BY <2>15, QuietSaid DEF vars, history
    <2> QED BY <2>0, <2>1, <2>2, <2>3, <2>4, <2>5, <2>6, <2>7, <2>8, <2>9, <2>10, <2>11, <2>12,
               <2>13, <2>14, <2>15 DEF Next
<1> QED BY <1>1, <1>2, Invariant, PTL DEF Spec

\* Everybody shows the user alike, whenever they came, and searches are routed by
\* the features it lists (Entity::setField, getINF, isFiltered, sendToAll).
THEOREM ShownAlike == Spec => []SameUser
<1>1. EInv /\ SInv => SameUser
    <2> SUFFICES ASSUME EInv, SInv, suText # "thrown", state = "NORMAL"
                 PROVE  /\ \A o \in present : Agrees(shown[o])
                        /\ cached # NoBuffer => Agrees(cached)
                        /\ suText = "whole" => Routed
        BY DEF SameUser, Running
    <2>1. Now.fields = fields /\ Now.filters = filters /\ Now.cached = cached /\ Now.suText = suText
        BY DEF Now
    <2>2. (\A o \in present : Agrees(shown[o])) /\ (cached # NoBuffer => Agrees(cached))
        BY <2>1 DEF SInv, CacheOK, Agrees
    <2>3. ASSUME suText = "whole" PROVE Routed
        <3>1. filters = Features(fields["SU"])
            BY <2>1, <2>3, Known DEF Shaped
        <3>2. filters = <<>> => ToSet(filters) = {}
            BY DEF ToSet
        <3>3. ASSUME NEW f PROVE IsFiltered(<<[sign |-> "+", feature |-> f]>>) <=> f \notin Listed
            <4> DEFINE list == <<[sign |-> "+", feature |-> f]>>
            <4>1. DOMAIN list = {1} /\ list[1].sign = "+" /\ list[1].feature = f
                OBVIOUS
            <4>2. IsFiltered(list) <=> filters = <<>> \/ f \notin ToSet(filters)
                <5> HIDE DEF list
                <5> QED BY <4>1 DEF IsFiltered
            <4> QED BY <3>1, <3>2, <4>2 DEF Listed
        <3> QED BY <3>3 DEF Routed
    <2> QED BY <2>2, <2>3
<1> QED BY <1>1, Invariant, SaidInvariant, PTL
====

---- MODULE ClientDataProofs ----
(***************************************************************************)
(* Theorems about ClientData, for streams, buffers and data requests of    *)
(* any length: the receive path of a client loses nothing, and what is a   *)
(* command and what is raw data does not depend on how the network cuts.   *)
(***************************************************************************)
EXTENDS ClientData, SequenceTheorems, WellFoundedInduction, TLAPS

\* The number of bytes MaxData allows a handler to ask for is a number.
LEMMA BoundsNat == MaxData \in Nat /\ LF \in Byte
    BY BoundsAssumption DEF Byte

\* Cutting a sequence in two and joining the parts gives the sequence.
LEMMA CutJoin ==
    ASSUME NEW s \in Seq(Byte), NEW n \in 0..Len(s)
    PROVE  /\ SubSeq(s, 1, n) \in Seq(Byte)
           /\ SubSeq(s, n + 1, Len(s)) \in Seq(Byte)
           /\ Len(SubSeq(s, 1, n)) = n
           /\ \A i \in 1..n : SubSeq(s, 1, n)[i] = s[i]
           /\ SubSeq(s, 1, n) \o SubSeq(s, n + 1, Len(s)) = s
<1> DEFINE a == SubSeq(s, 1, n)
           b == SubSeq(s, n + 1, Len(s))
<1>1. Len(s) \in Nat /\ n \in Nat /\ \A i \in 1..Len(s) : s[i] \in Byte
    BY LenProperties, ElementOfSeq
<1>2. a \in Seq(Byte) /\ Len(a) = n /\ \A i \in 1..n : a[i] = s[i]
    BY <1>1
<1>3. /\ b \in Seq(Byte) /\ Len(b) = Len(s) - n
      /\ \A i \in 1..(Len(s) - n) : b[i] = s[n + i]
    BY <1>1
<1> HIDE DEF a, b
<1>4. /\ a \o b \in Seq(Byte) /\ Len(a \o b) = Len(a) + Len(b)
      /\ \A i \in 1..(Len(a) + Len(b)) :
            (a \o b)[i] = IF i <= Len(a) THEN a[i] ELSE b[i - Len(a)]
    BY <1>2, <1>3, ConcatProperties
<1>5. \A i \in 1..Len(s) : (a \o b)[i] = s[i]
    <2> SUFFICES ASSUME NEW i \in 1..Len(s)
                 PROVE  (a \o b)[i] = s[i]
        OBVIOUS
    <2>1. CASE i <= n
        BY <2>1, <1>1, <1>2, <1>3, <1>4
    <2>2. CASE ~(i <= n)
        <3>1. i - n \in 1..(Len(s) - n) /\ n + (i - n) = i
            BY <2>2, <1>1
        <3> QED BY <2>2, <3>1, <1>1, <1>2, <1>3, <1>4
    <2> QED BY <2>1, <2>2
<1>6. a \o b = s
    <2>1. Len(a \o b) = Len(s)
        BY <1>1, <1>2, <1>3, <1>4
    <2> QED BY <2>1, <1>4, <1>5, SeqEqual
<1> QED BY <1>2, <1>3, <1>6 DEF a, b

\* Logging a line: one entry for each byte, the last one ends the line.
LEMMA LoggedLineBytes ==
    ASSUME NEW bytes \in Seq(Byte), NEW n \in 0..MaxData
    PROVE  /\ LoggedLine(bytes, n) \in Seq(Use)
           /\ Len(LoggedLine(bytes, n)) = Len(bytes)
           /\ \A i \in 1..Len(bytes) :
                /\ LoggedLine(bytes, n)[i].byte = bytes[i]
                /\ LoggedLine(bytes, n)[i].use =
                        IF i = Len(bytes) THEN "end" ELSE "line"
                /\ LoggedLine(bytes, n)[i].opens =
                        IF i = Len(bytes) THEN n ELSE 0
<1>1. Len(bytes) \in Nat /\ \A i \in 1..Len(bytes) : bytes[i] \in Byte
    BY LenProperties, ElementOfSeq
<1>2. 0 \in 0..MaxData
    BY BoundsNat
<1> QED BY <1>1, <1>2 DEF LoggedLine, Use

\* Logging raw data: one entry for each byte.
LEMMA LoggedDataBytes ==
    ASSUME NEW bytes \in Seq(Byte)
    PROVE  /\ LoggedData(bytes) \in Seq(Use)
           /\ Len(LoggedData(bytes)) = Len(bytes)
           /\ \A i \in 1..Len(bytes) :
                /\ LoggedData(bytes)[i].byte = bytes[i]
                /\ LoggedData(bytes)[i].use = "data"
                /\ LoggedData(bytes)[i].opens = 0
<1>1. Len(bytes) \in Nat /\ \A i \in 1..Len(bytes) : bytes[i] \in Byte
    BY LenProperties, ElementOfSeq
<1>2. 0 \in 0..MaxData
    BY BoundsNat
<1> QED BY <1>1, <1>2 DEF LoggedData, Use

\* The bytes of the log are a sequence of bytes.
LEMMA BytesType ==
    ASSUME NEW l \in Seq(Use)
    PROVE  /\ Bytes(l) \in Seq(Byte)
           /\ Len(Bytes(l)) = Len(l)
           /\ \A i \in 1..Len(l) : Bytes(l)[i] = l[i].byte
<1>1. Len(l) \in Nat /\ \A i \in 1..Len(l) : l[i] \in Use
    BY LenProperties, ElementOfSeq
<1>2. \A i \in 1..Len(l) : l[i].byte \in Byte
    BY <1>1 DEF Use
<1> QED BY <1>1, <1>2 DEF Bytes

\* Appending entries to the log appends their bytes.
LEMMA BytesAppend ==
    ASSUME NEW l \in Seq(Use), NEW bytes \in Seq(Byte), NEW more \in Seq(Use),
           Len(more) = Len(bytes),
           \A i \in 1..Len(bytes) : more[i].byte = bytes[i]
    PROVE  Bytes(l \o more) = Bytes(l) \o bytes
<1> DEFINE old == Bytes(l)
           new == l \o more
<1>1. /\ more \in Seq(Use) /\ Len(more) = Len(bytes)
      /\ \A i \in 1..Len(bytes) : more[i].byte = bytes[i]
    OBVIOUS
<1>2. /\ old \in Seq(Byte) /\ Len(old) = Len(l)
      /\ \A i \in 1..Len(l) : old[i] = l[i].byte
    BY BytesType
<1>3. Len(l) \in Nat /\ Len(bytes) \in Nat
    BY LenProperties
<1> HIDE DEF old
<1>4. /\ new \in Seq(Use) /\ Len(new) = Len(l) + Len(more)
      /\ \A i \in 1..(Len(l) + Len(more)) :
            new[i] = IF i <= Len(l) THEN l[i] ELSE more[i - Len(l)]
    BY <1>1, ConcatProperties
<1>5. /\ old \o bytes \in Seq(Byte)
      /\ Len(old \o bytes) = Len(old) + Len(bytes)
      /\ \A i \in 1..(Len(old) + Len(bytes)) :
            (old \o bytes)[i] =
                IF i <= Len(old) THEN old[i] ELSE bytes[i - Len(old)]
    BY <1>2, ConcatProperties
<1> HIDE DEF new
<1>6. /\ Bytes(new) \in Seq(Byte) /\ Len(Bytes(new)) = Len(new)
      /\ \A i \in 1..Len(new) : Bytes(new)[i] = new[i].byte
    BY <1>4, BytesType
<1>7. \A i \in 1..Len(Bytes(new)) : Bytes(new)[i] = (old \o bytes)[i]
    <2> SUFFICES ASSUME NEW i \in 1..Len(Bytes(new))
                 PROVE  Bytes(new)[i] = (old \o bytes)[i]
        OBVIOUS
    <2>1. i \in 1..(Len(l) + Len(bytes)) /\ Bytes(new)[i] = new[i].byte
        BY <1>1, <1>4, <1>6
    <2>2. CASE i <= Len(l)
        BY <2>1, <2>2, <1>1, <1>2, <1>3, <1>4, <1>5
    <2>3. CASE ~(i <= Len(l))
        <3>1. i - Len(l) \in 1..Len(bytes)
            BY <2>1, <2>3, <1>3
        <3>2. new[i] = more[i - Len(l)] /\ (old \o bytes)[i] = bytes[i - Len(l)]
            BY <2>1, <2>3, <1>1, <1>2, <1>3, <1>4, <1>5
        <3> QED BY <2>1, <3>1, <3>2, <1>1
    <2> QED BY <2>2, <2>3
<1>8. Len(Bytes(new)) = Len(old \o bytes)
    BY <1>1, <1>2, <1>4, <1>5, <1>6
<1>9. Bytes(new) = old \o bytes
    BY <1>5, <1>6, <1>7, <1>8, SeqEqual
<1> QED BY <1>9 DEF new, old

\* Every non-empty set of numbers has a least element.
LEMMA LeastNumber ==
    ASSUME NEW T, T \subseteq Nat, T # {}
    PROVE  \E x \in T : \A y \in T : x <= y
<1> DEFINE R == OpToRel(<, Nat)
<1>1. IsWellFoundedOn(R, Nat)
    BY NatLessThanWellFounded
<1>2. \A x, y \in Nat : y < x => <<y, x>> \in R
    BY DEF OpToRel
<1> HIDE DEF R
<1>3. \E x \in T : \A y \in T : ~(<<y, x>> \in R)
    BY <1>1, WFMin
<1>4. PICK x \in T : \A y \in T : ~(<<y, x>> \in R)
    BY <1>3
<1>5. \A y \in T : ~(y < x)
    BY <1>2, <1>4
<1> QED BY <1>5

\* The first line end of a buffer that has one.
LEMMA FirstEndIsFirst ==
    ASSUME chunk \in Seq(Byte), LineEnds # {}
    PROVE  /\ FirstEnd \in 1..Len(chunk)
           /\ chunk[FirstEnd] = LF
           /\ \A k \in 1..(FirstEnd - 1) : chunk[k] # LF
<1>1. Len(chunk) \in Nat
    BY LenProperties
<1>2. LineEnds \subseteq Nat
    BY <1>1 DEF LineEnds
<1>3. \E i \in LineEnds : \A k \in LineEnds : i <= k
    BY <1>2, LeastNumber
<1>4. FirstEnd \in LineEnds /\ \A k \in LineEnds : FirstEnd <= k
    BY <1>3 DEF FirstEnd
<1>5. FirstEnd \in 1..Len(chunk) /\ chunk[FirstEnd] = LF
    BY <1>4 DEF LineEnds
<1>6. ASSUME NEW k \in 1..(FirstEnd - 1), chunk[k] = LF
      PROVE  FALSE
    <2>1. k \in LineEnds
        BY <1>1, <1>5, <1>6 DEF LineEnds
    <2> QED BY <1>1, <1>4, <1>5, <1>6, <2>1
<1> QED BY <1>5, <1>6

\* The line that is handled: it ends with LF, and with no earlier one.
LEMMA LineIsWhole ==
    ASSUME chunk \in Seq(Byte), buffer \in Seq(Byte), LineEnds # {},
           \A i \in 1..Len(buffer) : buffer[i] # LF
    PROVE  /\ Line \in Seq(Byte)
           /\ Len(Line) \in Nat \ {0}
           /\ \A i \in 1..Len(Line) : Line[i] = LF <=> i = Len(Line)
           /\ Line \o SubSeq(chunk, FirstEnd + 1, Len(chunk)) = buffer \o chunk
<1> DEFINE a == SubSeq(chunk, 1, FirstEnd)
           b == SubSeq(chunk, FirstEnd + 1, Len(chunk))
<1>1. /\ Len(chunk) \in Nat /\ Len(buffer) \in Nat
      /\ FirstEnd \in 1..Len(chunk)
      /\ chunk[FirstEnd] = LF /\ \A k \in 1..(FirstEnd - 1) : chunk[k] # LF
    BY LenProperties, FirstEndIsFirst
<1>2. /\ a \in Seq(Byte) /\ b \in Seq(Byte) /\ Len(a) = FirstEnd
      /\ \A i \in 1..FirstEnd : a[i] = chunk[i]
      /\ a \o b = chunk
    <2>1. FirstEnd \in 0..Len(chunk)
        BY <1>1
    <2> QED BY <2>1, CutJoin
<1>3. Line = buffer \o a
    BY DEF Line
<1> HIDE DEF a, b
<1>4. /\ Line \in Seq(Byte) /\ Len(Line) = Len(buffer) + Len(a)
      /\ \A i \in 1..(Len(buffer) + Len(a)) :
            Line[i] = IF i <= Len(buffer) THEN buffer[i]
                      ELSE a[i - Len(buffer)]
    BY <1>2, <1>3, ConcatProperties
<1>5. Len(Line) \in Nat \ {0}
    BY <1>1, <1>2, <1>4
<1>6. ASSUME NEW i \in 1..Len(Line)
      PROVE  Line[i] = LF <=> i = Len(Line)
    <2>1. CASE i <= Len(buffer)
        BY <1>1, <1>2, <1>4, <1>6, <2>1
    <2>2. CASE i > Len(buffer)
        <3>1. /\ i - Len(buffer) \in 1..FirstEnd
              /\ i = Len(Line) <=> i - Len(buffer) = FirstEnd
              /\ Line[i] = a[i - Len(buffer)]
            BY <1>1, <1>2, <1>4, <1>6, <2>2
        <3>2. Line[i] = chunk[i - Len(buffer)]
            BY <1>2, <3>1
        <3>3. CASE i - Len(buffer) = FirstEnd
            BY <1>1, <3>1, <3>2, <3>3
        <3>4. CASE i - Len(buffer) # FirstEnd
            <4> DEFINE k == i - Len(buffer)
            <4>1. k \in 1..FirstEnd /\ k # FirstEnd
                BY <3>1, <3>4
            <4> HIDE DEF k
            <4>2. k \in 1..(FirstEnd - 1)
                BY <1>1, <4>1
            <4>3. chunk[k] # LF
                BY <1>1, <4>2
            <4> QED BY <3>1, <3>2, <3>4, <4>3 DEF k
        <3> QED BY <3>3, <3>4
    <2> QED BY <1>1, <2>1, <2>2
<1>7. Line \o b = buffer \o chunk
    <2>1. (buffer \o a) \o b = buffer \o (a \o b)
        <3>1. a \in Seq(Byte) /\ b \in Seq(Byte) /\ buffer \in Seq(Byte)
            BY <1>2
        <3> QED BY <3>1, ConcatAssociative
    <2> QED BY <1>2, <1>3, <2>1
<1> QED BY <1>4, <1>5, <1>6, <1>7 DEF b
----------------------------------------------------------------------------
\* What the log says of itself stays true while neither the log nor the
\* number of awaited bytes changes.
LEMMA LogKept ==
    ASSUME IInv, log' = log, dataBytes' = dataBytes,
           chunk' \in Seq(Byte), buffer' \in Seq(Byte), received' \in Seq(Byte),
           disconnecting' \in BOOLEAN,
           NothingLost',
           \A i \in 1..Len(buffer') : buffer'[i] = LF => disconnecting',
           dataBytes > 0 => buffer' = <<>>
    PROVE  IInv'
<1>1. TypeOK'
    BY DEF IInv, TypeOK
<1>2. Framed'
    BY DEF IInv, Framed
<1>3. CommandBound'
    BY DEF IInv, CommandBound
<1>4. WindowsClosed' /\ WholeLines'
    BY DEF IInv, WindowsClosed, WholeLines
<1> QED BY <1>1, <1>2, <1>3, <1>4 DEF IInv

\* Init establishes the invariant.
LEMMA InitInv == Init => IInv
<1> SUFFICES ASSUME Init PROVE IInv
    OBVIOUS
<1>1. TypeOK
    <2>1. <<>> \in Seq(Byte) /\ <<>> \in Seq(Use) /\ 0 \in 0..MaxData
        BY BoundsNat, EmptySeq
    <2> QED BY <2>1 DEF Init, TypeOK
<1>2. /\ log \in Seq(Use) /\ Len(log) = 0 /\ buffer = <<>> /\ chunk = <<>>
      /\ Len(buffer) = 0 /\ dataBytes = 0 /\ received = <<>>
    BY <1>1 DEF Init, TypeOK
<1>3. NothingLost
    <2>1. Bytes(log) \in Seq(Byte) /\ Len(Bytes(log)) = 0
        BY <1>2, BytesType
    <2>2. Bytes(log) = <<>>
        BY <2>1, EmptySeq
    <2>3. <<>> \in Seq(Byte)
        BY EmptySeq
    <2>4. <<>> \o <<>> = <<>>
        BY <2>3, ConcatEmptySeq
    <2> QED BY <1>2, <2>2, <2>4 DEF NothingLost
<1>4. Framed /\ CommandBound /\ WindowsClosed /\ WholeLines
    BY <1>2 DEF Framed, CommandBound, WindowsClosed, WholeLines
<1> QED BY <1>1, <1>3, <1>4 DEF IInv

\* A new buffer.
LEMMA OnDataStep ==
    ASSUME IInv, NEW n \in 1..MaxChunk, NEW bytes \in [1..n -> Byte],
           OnData(bytes)
    PROVE  IInv'
<1>1. bytes \in Seq(Byte)
    BY BoundsAssumption
<1>2. /\ Bytes(log) \in Seq(Byte) /\ buffer \in Seq(Byte)
      /\ received \in Seq(Byte)
    BY BytesType DEF IInv, TypeOK
<1> DEFINE out == Bytes(log) \o buffer
<1>3. out \in Seq(Byte)
    BY <1>2, ConcatProperties
<1>4. out = received
    <2>1. out \o <<>> = out
        BY <1>3, ConcatEmptySeq
    <2> QED BY <2>1 DEF IInv, NothingLost, OnData
<1>5. received' \in Seq(Byte)
    BY <1>1, <1>2, ConcatProperties DEF OnData
<1>6. NothingLost'
    BY <1>4 DEF NothingLost, OnData
<1> QED BY <1>1, <1>2, <1>5, <1>6, LogKept DEF OnData, IInv, TypeOK, Framed

\* The rest of a buffer is kept.
LEMMA TakePartStep ==
    ASSUME IInv, TakePart
    PROVE  IInv'
<1>1. /\ Bytes(log) \in Seq(Byte) /\ buffer \in Seq(Byte)
      /\ chunk \in Seq(Byte) /\ <<>> \in Seq(Byte)
    BY BytesType, EmptySeq DEF IInv, TypeOK
<1> DEFINE kept == buffer \o chunk
<1>2. /\ kept \in Seq(Byte) /\ Len(kept) = Len(buffer) + Len(chunk)
      /\ Len(buffer) \in Nat /\ Len(chunk) \in Nat
      /\ \A i \in 1..(Len(buffer) + Len(chunk)) :
            kept[i] = IF i <= Len(buffer) THEN buffer[i]
                      ELSE chunk[i - Len(buffer)]
    BY <1>1, ConcatProperties, LenProperties
<1>3. ASSUME NEW i \in 1..Len(kept)
      PROVE  kept[i] # LF
    <2>1. CASE i <= Len(buffer)
        BY <1>2, <1>3, <2>1 DEF IInv, Framed, TakePart, InLoop
    <2>2. CASE i > Len(buffer)
        <3>1. i - Len(buffer) \in 1..Len(chunk)
            BY <1>2, <1>3, <2>2
        <3>2. chunk[i - Len(buffer)] # LF
            BY <3>1 DEF TakePart, LineEnds
        <3> QED BY <1>2, <1>3, <2>2, <3>2
    <2> QED BY <1>2, <2>1, <2>2
<1>4. NothingLost'
    <2> DEFINE old == Bytes(log)
    <2>1. old \in Seq(Byte)
        BY <1>1
    <2>2. (old \o buffer) \o chunk = received
        BY DEF IInv, NothingLost, TakePart, InLoop
    <2>3. (old \o buffer) \o chunk = old \o kept
        BY <1>1, <2>1, ConcatAssociative
    <2>4. (old \o kept) \in Seq(Byte)
        BY <1>2, <2>1, ConcatProperties
    <2>5. (old \o kept) \o <<>> = old \o kept
        BY <2>4, ConcatEmptySeq
    <2> QED BY <2>2, <2>3, <2>5 DEF NothingLost, TakePart
<1>5. /\ chunk' = <<>> /\ buffer' = kept /\ received' = received
      /\ log' = log /\ dataBytes' = dataBytes
      /\ disconnecting' = disconnecting /\ dataBytes = 0
    BY DEF TakePart
<1> HIDE DEF kept
<1>6. received' \in Seq(Byte) /\ disconnecting' \in BOOLEAN
    BY <1>5 DEF IInv, TypeOK
<1> QED BY <1>1, <1>2, <1>3, <1>4, <1>5, <1>6, LogKept

\* A line refused.
LEMMA RefuseLineStep ==
    ASSUME IInv, NEW wrongSid \in BOOLEAN, RefuseLine(wrongSid)
    PROVE  IInv'
<1>1. Line \in Seq(Byte)
    BY LineIsWhole DEF IInv, TypeOK, Framed, RefuseLine, LineEnded, InLoop
<1>2. chunk' \in Seq(Byte)
    <2>1. FirstEnd \in 0..Len(chunk)
        BY FirstEndIsFirst, LenProperties
        DEF IInv, TypeOK, RefuseLine, LineEnded
    <2> QED BY <2>1, CutJoin DEF IInv, TypeOK, RefuseLine, LineEnded
<1>3. NothingLost'
    BY DEF NothingLost, RefuseLine
<1> QED BY <1>1, <1>2, <1>3, LogKept
        DEF RefuseLine, LineEnded, IInv, TypeOK

\* A disconnect from elsewhere.
LEMMA DisconnectStep ==
    ASSUME IInv, Disconnect
    PROVE  IInv'
<1>1. NothingLost'
    BY DEF NothingLost, Disconnect
<1> QED BY <1>1, LogKept DEF Disconnect, IInv, TypeOK, Framed

\* What a log entry asks for is a number.
LEMMA OpensNat ==
    ASSUME log \in Seq(Use), NEW j \in 1..Len(log)
    PROVE  log[j].opens \in Nat
<1>1. log[j] \in Use
    BY ElementOfSeq
<1>2. log[j].opens \in 0..MaxData
    BY <1>1 DEF Use
<1> QED BY <1>2, BoundsNat

\* Raw data handed over.
LEMMA TakeDataStep ==
    ASSUME IInv, NEW kick \in BOOLEAN, TakeData(kick)
    PROVE  IInv'
<1> DEFINE n    == DataLength
           L    == Len(log)
           a    == SubSeq(chunk, 1, n)
           b    == SubSeq(chunk, n + 1, Len(chunk))
           more == LoggedData(a)
<1>1. /\ Len(chunk) \in Nat \ {0} /\ L \in Nat /\ dataBytes \in Nat \ {0}
      /\ dataBytes \in 0..MaxData /\ MaxData \in Nat
      /\ n \in Nat \ {0} /\ n <= dataBytes /\ n <= Len(chunk)
      /\ n \in 0..Len(chunk)
    <2>1. /\ chunk \in Seq(Byte) /\ chunk # <<>> /\ log \in Seq(Use)
          /\ dataBytes > 0 /\ dataBytes \in 0..MaxData
        BY DEF IInv, TypeOK, TakeData, InLoop
    <2>2. Len(chunk) \in Nat \ {0} /\ L \in Nat
        BY <2>1, EmptySeq, LenProperties
    <2> QED BY <2>1, <2>2, BoundsNat DEF DataLength
<1>2. /\ a \in Seq(Byte) /\ b \in Seq(Byte) /\ Len(a) = n /\ a \o b = chunk
    BY <1>1, CutJoin DEF IInv, TypeOK
<1>3. /\ more \in Seq(Use) /\ Len(more) = n
      /\ \A i \in 1..n : /\ more[i].byte = a[i]
                        /\ more[i].use = "data" /\ more[i].opens = 0
    BY <1>2, LoggedDataBytes
<1>4. /\ log' = log \o more /\ dataBytes' = dataBytes - n /\ chunk' = b
      /\ buffer' = buffer /\ received' = received /\ disconnecting' = kick
      /\ buffer = <<>> /\ ~disconnecting /\ log \in Seq(Use)
    BY <1>1 DEF TakeData, InLoop, IInv, Framed, TypeOK
<1> HIDE DEF n, a, b, more
<1>5. /\ log' \in Seq(Use) /\ Len(log') = L + n
      /\ \A i \in 1..L : log'[i] = log[i]
      /\ \A i \in (L + 1)..(L + n) :
            log'[i].use = "data" /\ log'[i].opens = 0
    <2>1. /\ log' \in Seq(Use) /\ Len(log') = L + n
          /\ \A i \in 1..(L + n) :
                log'[i] = IF i <= L THEN log[i] ELSE more[i - L]
        BY <1>3, <1>4, ConcatProperties
    <2>2. \A i \in 1..L : log'[i] = log[i]
        BY <1>1, <2>1
    <2>3. ASSUME NEW i \in (L + 1)..(L + n)
          PROVE  log'[i].use = "data" /\ log'[i].opens = 0
        <3>1. i - L \in 1..n /\ i \in 1..(L + n) /\ ~(i <= L)
            BY <1>1, <2>3
        <3> QED BY <1>3, <2>1, <3>1
    <2> QED BY <2>1, <2>2, <2>3
<1>6. PICK w \in 1..L : log[w].opens = L - w + dataBytes
    BY <1>1 DEF IInv, Framed
<1>7. TypeOK'
    <2>1. dataBytes' \in 0..MaxData
        BY <1>1, <1>4
    <2> QED BY <1>2, <1>4, <1>5, <2>1 DEF IInv, TypeOK
<1>8. NothingLost'
    <2> DEFINE old == Bytes(log)
    <2>1. old \in Seq(Byte) /\ <<>> \in Seq(Byte)
        BY <1>4, BytesType, EmptySeq
    <2>2. Bytes(log') = old \o a
        BY <1>2, <1>3, <1>4, BytesAppend
    <2>3. (old \o <<>>) \o chunk = received
        BY <1>4 DEF IInv, NothingLost
    <2>4. old \o chunk = received
        BY <2>1, <2>3, ConcatEmptySeq
    <2>5. (old \o a) \o b = old \o (a \o b)
        <3>1. old \in Seq(Byte) /\ a \in Seq(Byte) /\ b \in Seq(Byte)
            BY <1>2, <2>1
        <3> HIDE DEF old
        <3> QED BY <3>1, ConcatAssociative
    <2>6. old \o a \in Seq(Byte)
        BY <1>2, <2>1, ConcatProperties
    <2>7. (old \o a) \o <<>> = old \o a
        BY <2>1, <2>6, ConcatEmptySeq
    <2> HIDE DEF old
    <2> QED BY <1>2, <1>4, <2>2, <2>4, <2>5, <2>7 DEF NothingLost
<1>9. Framed'
    <2>1. ASSUME NEW i \in 1..Len(log')
          PROVE  /\ log'[i].use = "data" <=>
                        \E j \in 1..(i - 1) : i - j <= log'[j].opens
                 /\ log'[i].use # "data" =>
                        (log'[i].use = "end" <=> log'[i].byte = LF)
                 /\ log'[i].opens > 0 => log'[i].use = "end"
        <3>1. CASE i <= L
            <4>1. i \in 1..L /\ \A j \in 1..(i - 1) : j \in 1..L
                BY <1>1, <1>5, <2>1, <3>1
            <4>2. log'[i] = log[i] /\ \A j \in 1..(i - 1) : log'[j] = log[j]
                BY <1>5, <4>1
            <4> QED BY <4>1, <4>2 DEF IInv, Framed
        <3>2. CASE i > L
            <4>1. i \in (L + 1)..(L + n)
                BY <1>1, <1>5, <2>1, <3>2
            <4>2. log'[i].use = "data" /\ log'[i].opens = 0
                BY <1>5, <4>1
            <4>3. w \in 1..(i - 1) /\ log'[w] = log[w]
                BY <1>1, <1>5, <4>1
            <4>4. i - w <= log'[w].opens
                BY <1>1, <1>6, <4>1, <4>3
            <4> QED BY <4>2, <4>3, <4>4
        <3> QED BY <1>1, <1>5, <2>1, <3>1, <3>2
    <2>2. \A i \in 1..Len(buffer') : buffer'[i] = LF => disconnecting'
        <3>1. Len(buffer') = 0
            BY <1>4, EmptySeq
        <3> QED BY <3>1
    <2>3. dataBytes' > 0 =>
              /\ buffer' = <<>>
              /\ \E j \in 1..Len(log') :
                    log'[j].opens = Len(log') - j + dataBytes'
        <3>1. w \in 1..Len(log') /\ log'[w] = log[w]
            BY <1>1, <1>5
        <3>2. Len(log') - w + dataBytes' = L - w + dataBytes
            BY <1>1, <1>4, <1>5
        <3>3. log'[w].opens = Len(log') - w + dataBytes'
            BY <1>6, <3>1, <3>2
        <3> QED BY <1>4, <3>1, <3>3
    <2> QED BY <2>1, <2>2, <2>3 DEF Framed
<1>10. CommandBound'
    <2> SUFFICES ASSUME MaxCommandSize > 0,
                        NEW i \in 1..Len(log'), NEW j \in 1..Len(log'),
                        i <= j,
                        \A k \in i..(j - 1) : log'[k].use = "line",
                        log'[j].use = "end"
                 PROVE  j - i + 1 <= MaxCommandSize
        BY DEF CommandBound
    <2>1. j \in 1..L
        BY <1>1, <1>5
    <2>2. i \in 1..L /\ \A k \in i..(j - 1) : k \in 1..L
        BY <1>1, <1>5, <2>1
    <2>3. log[j].use = "end" /\ \A k \in i..(j - 1) : log[k].use = "line"
        BY <1>5, <2>1, <2>2
    <2> QED BY <2>1, <2>2, <2>3 DEF IInv, CommandBound
<1>11. WindowsClosed'
    <2> SUFFICES ASSUME NEW j \in 1..Len(log')
                 PROVE  log'[j].opens <= Len(log') - j + dataBytes'
        BY DEF WindowsClosed
    <2>1. CASE j <= L
        <3>1. j \in 1..L /\ log'[j] = log[j]
            BY <1>1, <1>5, <2>1
        <3>2. log[j].opens <= L - j + dataBytes
            BY <3>1 DEF IInv, WindowsClosed
        <3>3. Len(log') - j + dataBytes' = L - j + dataBytes
            BY <1>1, <1>4, <1>5
        <3> QED BY <3>1, <3>2, <3>3
    <2>2. CASE j > L
        <3>1. log'[j].opens = 0
            BY <1>1, <1>5, <2>2
        <3> QED BY <1>1, <1>4, <1>5, <3>1
    <2> QED BY <1>1, <1>5, <2>1, <2>2
<1>12. WholeLines'
    BY <1>1, <1>5 DEF WholeLines
<1> QED BY <1>7, <1>8, <1>9, <1>10, <1>11, <1>12 DEF IInv

\* A line handled.
LEMMA HandleLineStep ==
    ASSUME IInv, NEW n \in 0..MaxData, NEW kick \in BOOLEAN,
           HandleLine(n, kick)
    PROVE  IInv'
<1> DEFINE L    == Len(log)
           m    == Len(Line)
           b    == SubSeq(chunk, FirstEnd + 1, Len(chunk))
           more == LoggedLine(Line, n)
<1>1. /\ chunk \in Seq(Byte) /\ buffer \in Seq(Byte) /\ log \in Seq(Use)
      /\ LineEnds # {} /\ dataBytes = 0 /\ ~disconnecting
      /\ \A i \in 1..Len(buffer) : buffer[i] # LF
    BY DEF IInv, TypeOK, Framed, HandleLine, LineEnded, InLoop
<1>2. /\ Line \in Seq(Byte) /\ m \in Nat \ {0}
      /\ \A i \in 1..m : Line[i] = LF <=> i = m
      /\ Line \o b = buffer \o chunk
    BY <1>1, LineIsWhole
<1>3. b \in Seq(Byte)
    <2>1. FirstEnd \in 0..Len(chunk)
        BY <1>1, FirstEndIsFirst, LenProperties
    <2> QED BY <1>1, <2>1, CutJoin
<1>4. /\ more \in Seq(Use) /\ Len(more) = m
      /\ \A i \in 1..m :
            /\ more[i].byte = Line[i]
            /\ more[i].use = IF i = m THEN "end" ELSE "line"
            /\ more[i].opens = IF i = m THEN n ELSE 0
    BY <1>2, LoggedLineBytes
<1>5. /\ log' = log \o more /\ dataBytes' = n /\ chunk' = b
      /\ buffer' = <<>> /\ received' = received /\ disconnecting' = kick
      /\ ~TooLong(Line)
    BY DEF HandleLine, LineEnded
<1>6. L \in Nat /\ n \in Nat
    BY <1>1, BoundsNat, LenProperties
<1> HIDE DEF m, b, more
<1>7. /\ log' \in Seq(Use) /\ Len(log') = L + m
      /\ \A i \in 1..L : log'[i] = log[i]
      /\ \A i \in (L + 1)..(L + m) :
            /\ log'[i].byte = LF <=> i = L + m
            /\ log'[i].use = IF i = L + m THEN "end" ELSE "line"
            /\ log'[i].opens = IF i = L + m THEN n ELSE 0
    <2>1. /\ log' \in Seq(Use) /\ Len(log') = L + m
          /\ \A i \in 1..(L + m) :
                log'[i] = IF i <= L THEN log[i] ELSE more[i - L]
        BY <1>1, <1>4, <1>5, ConcatProperties
    <2>2. \A i \in 1..L : log'[i] = log[i]
        BY <1>2, <1>6, <2>1
    <2>3. ASSUME NEW i \in (L + 1)..(L + m)
          PROVE  /\ log'[i].byte = LF <=> i = L + m
                 /\ log'[i].use = IF i = L + m THEN "end" ELSE "line"
                 /\ log'[i].opens = IF i = L + m THEN n ELSE 0
        <3>1. /\ i - L \in 1..m /\ i \in 1..(L + m) /\ ~(i <= L)
              /\ i = L + m <=> i - L = m
            BY <1>2, <1>6, <2>3
        <3>2. log'[i] = more[i - L]
            BY <2>1, <3>1
        <3> QED BY <1>2, <1>4, <3>1, <3>2
    <2> QED BY <2>1, <2>2, <2>3
<1>8. TypeOK'
    <2>1. <<>> \in Seq(Byte)
        BY EmptySeq
    <2> QED BY <1>3, <1>5, <1>7, <2>1 DEF IInv, TypeOK
<1>9. NothingLost'
    <2> DEFINE old == Bytes(log)
               new == old \o Line
    <2>1. /\ old \in Seq(Byte) /\ Line \in Seq(Byte) /\ b \in Seq(Byte)
          /\ buffer \in Seq(Byte) /\ chunk \in Seq(Byte)
        BY <1>1, <1>2, <1>3, BytesType
    <2>2. Bytes(log') = new
        BY <1>1, <1>2, <1>4, <1>5, BytesAppend DEF m
    <2>3. (old \o buffer) \o chunk = received
        BY <1>1 DEF IInv, NothingLost
    <2> HIDE DEF old
    <2>4. (old \o buffer) \o chunk = old \o (buffer \o chunk)
        BY <2>1, ConcatAssociative
    <2>5. (old \o Line) \o b = old \o (Line \o b)
        <3>1. old \in Seq(Byte) /\ Line \in Seq(Byte) /\ b \in Seq(Byte)
            BY <2>1
        <3> QED BY <3>1, ConcatAssociative
    <2>6. new \in Seq(Byte)
        BY <2>1, ConcatProperties
    <2> HIDE DEF new
    <2>7. new \o <<>> = new
        BY <2>6, ConcatEmptySeq
    <2> QED BY <1>2, <1>5, <2>2, <2>3, <2>4, <2>5, <2>7 DEF NothingLost, new
<1>10. Framed'
    <2>1. ASSUME NEW i \in 1..Len(log')
          PROVE  /\ log'[i].use = "data" <=>
                        \E j \in 1..(i - 1) : i - j <= log'[j].opens
                 /\ log'[i].use # "data" =>
                        (log'[i].use = "end" <=> log'[i].byte = LF)
                 /\ log'[i].opens > 0 => log'[i].use = "end"
        <3>1. CASE i <= L
            <4>1. i \in 1..L /\ \A j \in 1..(i - 1) : j \in 1..L
                BY <1>6, <1>7, <2>1, <3>1
            <4>2. log'[i] = log[i] /\ \A j \in 1..(i - 1) : log'[j] = log[j]
                BY <1>7, <4>1
            <4> QED BY <4>1, <4>2 DEF IInv, Framed
        <3>2. CASE i > L
            <4>1. i \in (L + 1)..(L + m)
                BY <1>2, <1>6, <1>7, <2>1, <3>2
            <4>2. ASSUME NEW j \in 1..(i - 1)
                  PROVE  ~(i - j <= log'[j].opens)
                <5>1. CASE j <= L
                    <6>1. j \in 1..L /\ log'[j] = log[j]
                        BY <1>6, <1>7, <4>2, <5>1
                    <6>2. log[j].opens <= L - j
                        BY <1>1, <1>6, <6>1 DEF IInv, WindowsClosed
                    <6>3. log[j].opens \in Nat
                        BY <1>1, <6>1, OpensNat
                    <6> QED BY <1>6, <3>2, <4>1, <6>1, <6>2, <6>3
                <5>2. CASE j > L
                    <6>1. j \in (L + 1)..(L + m) /\ j # L + m
                        BY <1>2, <1>6, <4>1, <4>2, <5>2
                    <6>2. log'[j].opens = 0
                        BY <1>7, <6>1
                    <6> QED BY <4>1, <4>2, <6>1, <6>2
                <5> QED BY <1>6, <4>2, <5>1, <5>2
            <4>3. /\ log'[i].use # "data"
                  /\ log'[i].use = "end" <=> log'[i].byte = LF
                  /\ log'[i].opens > 0 => log'[i].use = "end"
                BY <1>7, <4>1
            <4> QED BY <4>2, <4>3
        <3> QED BY <1>6, <1>7, <2>1, <3>1, <3>2
    <2>2. \A i \in 1..Len(buffer') : buffer'[i] = LF => disconnecting'
        <3>1. Len(buffer') = 0
            BY <1>5, EmptySeq
        <3> QED BY <3>1
    <2>3. dataBytes' > 0 =>
              /\ buffer' = <<>>
              /\ \E j \in 1..Len(log') :
                    log'[j].opens = Len(log') - j + dataBytes'
        <3>1. L + m \in 1..Len(log') /\ L + m \in (L + 1)..(L + m)
            BY <1>2, <1>6, <1>7
        <3>2. log'[L + m].opens = n
            BY <1>7, <3>1
        <3>3. Len(log') - (L + m) + dataBytes' = n
            BY <1>2, <1>5, <1>6, <1>7
        <3> QED BY <1>5, <3>1, <3>2, <3>3
    <2> QED BY <2>1, <2>2, <2>3 DEF Framed
<1>11. CommandBound'
    <2> SUFFICES ASSUME MaxCommandSize > 0,
                        NEW i \in 1..Len(log'), NEW j \in 1..Len(log'),
                        i <= j,
                        \A k \in i..(j - 1) : log'[k].use = "line",
                        log'[j].use = "end"
                 PROVE  j - i + 1 <= MaxCommandSize
        BY DEF CommandBound
    <2>1. CASE j <= L
        <3>1. i \in 1..L /\ j \in 1..L /\ \A k \in i..(j - 1) : k \in 1..L
            BY <1>6, <1>7, <2>1
        <3>2. log[j].use = "end" /\ \A k \in i..(j - 1) : log[k].use = "line"
            BY <1>7, <3>1
        <3> QED BY <3>1, <3>2 DEF IInv, CommandBound
    <2>2. CASE j > L
        <3>1. j \in (L + 1)..(L + m)
            BY <1>2, <1>6, <1>7, <2>2
        <3>2. i > L
            <4> SUFFICES ASSUME i <= L PROVE FALSE
                BY <1>6
            <4>1. L \in i..(j - 1) /\ L \in 1..L
                BY <1>6, <3>1
            <4>2. log[L].use = "line"
                BY <1>7, <4>1
            <4> QED BY <1>6, <4>1, <4>2 DEF IInv, WholeLines
        <3>3. j - i + 1 <= m
            BY <1>2, <1>6, <3>1, <3>2
        <3>4. MaxCommandSize \in Nat /\ ~(m > MaxCommandSize)
            BY <1>5, BoundsAssumption DEF TooLong, m
        <3> QED BY <1>2, <1>6, <3>1, <3>2, <3>3, <3>4
    <2> QED BY <1>6, <2>1, <2>2
<1>12. WindowsClosed'
    <2> SUFFICES ASSUME NEW j \in 1..Len(log')
                 PROVE  log'[j].opens <= Len(log') - j + dataBytes'
        BY DEF WindowsClosed
    <2>1. CASE j <= L
        <3>1. j \in 1..L /\ log'[j] = log[j]
            BY <1>6, <1>7, <2>1
        <3>2. log[j].opens <= L - j
            BY <1>1, <1>6, <3>1 DEF IInv, WindowsClosed
        <3>3. log[j].opens \in Nat
            BY <1>1, <3>1, OpensNat
        <3> QED BY <1>2, <1>5, <1>6, <1>7, <3>1, <3>2, <3>3
    <2>2. CASE j > L
        <3>1. j \in (L + 1)..(L + m)
            BY <1>2, <1>6, <1>7, <2>2
        <3>2. log'[j].opens = IF j = L + m THEN n ELSE 0
            BY <1>7, <3>1
        <3> QED BY <1>2, <1>5, <1>6, <1>7, <3>1, <3>2
    <2> QED BY <1>6, <2>1, <2>2
<1>13. WholeLines'
    <2>1. L + m \in (L + 1)..(L + m)
        BY <1>2, <1>6
    <2> QED BY <1>7, <2>1 DEF WholeLines
<1> QED BY <1>8, <1>9, <1>10, <1>11, <1>12, <1>13 DEF IInv

\* Every step keeps the invariant.
LEMMA StepInv == IInv /\ [Next]_vars => IInv'
<1> SUFFICES ASSUME IInv, [Next]_vars PROVE IInv'
    OBVIOUS
<1>1. ASSUME NEW n \in 1..MaxChunk, NEW bytes \in [1..n -> Byte],
             OnData(bytes)
      PROVE  IInv'
    BY <1>1, OnDataStep
<1>2. ASSUME NEW kick \in BOOLEAN, TakeData(kick)
      PROVE  IInv'
    BY <1>2, TakeDataStep
<1>3. CASE TakePart
    BY <1>3, TakePartStep
<1>4. ASSUME NEW wrongSid \in BOOLEAN, RefuseLine(wrongSid)
      PROVE  IInv'
    BY <1>4, RefuseLineStep
<1>5. ASSUME NEW n \in 0..MaxData, NEW kick \in BOOLEAN, HandleLine(n, kick)
      PROVE  IInv'
    BY <1>5, HandleLineStep
<1>6. CASE Disconnect
    BY <1>6, DisconnectStep
<1>7. CASE UNCHANGED vars
    <2>1. NothingLost'
        BY <1>7 DEF IInv, NothingLost, vars
    <2> QED BY <1>7, <2>1, LogKept DEF vars, IInv, TypeOK, Framed
<1> QED BY <1>1, <1>2, <1>3, <1>4, <1>5, <1>6, <1>7 DEF Next

\* The invariant holds whatever the stream, its cuts and the handlers.
THEOREM Invariant == Spec => []IInv
<1> QED BY InitInv, StepInv, PTL DEF Spec

\* Client::onData and setDataMode keep every member of Client in its type.
THEOREM TypeCorrect == Spec => []TypeOK
<1>1. IInv => TypeOK
    BY DEF IInv
<1> QED BY <1>1, Invariant, PTL

\* Client::onData loses no byte and delivers none twice, for every cut of
\* the stream.
THEOREM StreamKept == Spec => []NothingLost
<1>1. IInv => NothingLost
    BY DEF IInv
<1> QED BY <1>1, Invariant, PTL

\* What is a command and what is raw data depends on the stream and on what
\* the handlers ask for only, not on the cut.
THEOREM StreamFramed == Spec => []Framed
<1>1. IInv => Framed
    BY DEF IInv
<1> QED BY <1>1, Invariant, PTL

\* No command longer than MaxCommandSize reaches the hub.
THEOREM CommandsBounded == Spec => []CommandBound
<1>1. IInv => CommandBound
    BY DEF IInv
<1> QED BY <1>1, Invariant, PTL

\* Nothing of a client's stream is handled once it is disconnecting.
THEOREM Quiet == Spec => QuietAfterDisconnect
<1>1. ASSUME [Next]_vars
      PROVE  [disconnecting => log' = log]_vars
    <2>1. CASE disconnecting
        BY <1>1, <2>1
        DEF Next, OnData, TakeData, TakePart, RefuseLine, HandleLine,
            LineEnded, InLoop, Disconnect, vars
    <2> QED BY <2>1
<1> QED BY <1>1, PTL DEF Spec, QuietAfterDisconnect

====

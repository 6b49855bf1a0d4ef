---- MODULE SocketProofs ----
(***************************************************************************)
(* A connection is never shut down with data pending, and the network gets *)
(* exactly the accepted bytes, for buffers, limits, timeouts and streams   *)
(* of any size.  And what it carries: a command that is written as a line   *)
(* and parsed says what it said, for any characters and parameters.        *)
(***************************************************************************)
EXTENDS ManagedSocket, AdcCommand, SequenceTheorems, WellFoundedInduction, TLAPS

\* A queue without an outstanding write is empty as long as the owner can
\* call; a socket that is shut down has no write outstanding and accepts
\* nothing more.  An age can be told from Never.
SInv ==
    /\ {lastWrite, disc} \subseteq Nat \cup {Never}
    /\ attached /\ ~Writing => outBuf = <<>>
    /\ sock = "shutdown" => Disconnecting /\ ~Writing /\ outBuf = <<>>

\* prepareWrite leaves a queue without a write only if there is none.
LEMMA PrepareWriteWrites ==
    ASSUME NEW b, PrepareWrite(b)
    PROVE  (lastWrite' = Never <=> b = <<>>) /\ lastWrite' \in {0, Never}
BY TimesAssumption DEF PrepareWrite

\* disconnect() shuts down at once only when nothing is pending.
LEMMA StartDisconnectDrained ==
    ASSUME SInv, attached, ~Disconnecting, StartDisconnect,
           UNCHANGED <<lastWrite, outBuf, attached>>
    PROVE  SInv'
<1>1. disc' \in Nat /\ disc' # Never
    BY TimesAssumption DEF StartDisconnect
<1> QED BY <1>1 DEF StartDisconnect, SInv, Writing, Disconnecting

LEMMA WriteDrained ==
    ASSUME SInv, NEW size \in Size, NEW lowPrio \in BOOLEAN, Write(size, lowPrio)
    PROVE  SInv'
<1>1. attached /\ ~Disconnecting /\ UNCHANGED attached /\ sock # "shutdown"
    BY DEF Write, SInv
<1>2. CASE Writing
    <2>1. UNCHANGED lastWrite /\ (StartDisconnect \/ NoDisconnect)
        BY <1>2 DEF Write
    <2>2. disc' \in Nat \cup {Never}
        BY <2>1 DEF SInv, StartDisconnect, NoDisconnect
    <2>3. sock' = sock
        BY <1>2, <2>1 DEF StartDisconnect, NoDisconnect, Writing
    <2> QED BY <1>1, <1>2, <2>1, <2>2, <2>3 DEF SInv, Writing
<1>3. CASE ~Writing
    <2>1. PrepareWrite(outBuf') /\ NoDisconnect
        BY <1>3 DEF Write
    <2>2. (lastWrite' = Never <=> outBuf' = <<>>) /\ lastWrite' \in {0, Never}
        BY <2>1, PrepareWriteWrites
    <2> QED BY <1>1, <2>1, <2>2 DEF SInv, Writing, Disconnecting, NoDisconnect
<1> QED BY <1>2, <1>3

LEMMA CompleteWriteDrained ==
    ASSUME SInv, NEW k \in 1..MaxBytes, CompleteWrite(k)
    PROVE  SInv'
<1>1. (lastWrite' = Never <=> outBuf' = <<>>) /\ lastWrite' \in {0, Never}
    BY PrepareWriteWrites DEF CompleteWrite
<1>2. sock # "shutdown"
    BY DEF CompleteWrite, SInv
<1> QED BY <1>1, <1>2 DEF CompleteWrite, SInv, Writing, Disconnecting

LEMMA TickDrained ==
    ASSUME SInv, Tick
    PROVE  SInv'
<1>1. /\ lastWrite' = Never <=> lastWrite = Never
      /\ disc' = Never <=> disc = Never
      /\ {lastWrite', disc'} \subseteq Nat \cup {Never}
    BY TimesAssumption DEF SInv, Tick, Older
<1> QED BY <1>1 DEF Tick, SInv, Writing, Disconnecting

\* disconnect() keeps its promise that "pending data will be written": in
\* every order of writes, completions, errors, timeouts, jobs and the
\* owner's calls, what is shut down has been drained.
THEOREM ShutdownIsDrained == Spec => []ShutdownDrained
<1>1. Init => SInv
    BY DEF Init, SInv
<1>2. SInv /\ [Next]_vars => SInv'
    <2> SUFFICES ASSUME SInv, [Next]_vars PROVE SInv'
        OBVIOUS
    <2>1. CASE CompleteAccept
        BY <2>1 DEF CompleteAccept, writeVars, SInv, Writing, Disconnecting
    <2>2. CASE AcceptError
        BY <2>2 DEF AcceptError, Fail, writeVars, SInv, Writing, Disconnecting
    <2>3. CASE Ready
        BY <2>3 DEF Ready, writeVars, SInv, Writing, Disconnecting
    <2>4. ASSUME NEW size \in Size, NEW lowPrio \in BOOLEAN, Write(size, lowPrio)
          PROVE  SInv'
        BY <2>4, WriteDrained
    <2>5. ASSUME NEW size \in Size, WriteOverflow(size) PROVE SInv'
        BY <2>5, StartDisconnectDrained DEF WriteOverflow, writeVars
    <2>6. ASSUME NEW k \in 1..MaxBytes, CompleteWrite(k) PROVE SInv'
        BY <2>6, CompleteWriteDrained
    <2>7. CASE WriteError
        BY <2>7 DEF WriteError, Fail, SInv, Writing, Disconnecting
    <2>8. CASE PrepareRead2
        BY <2>8 DEF PrepareRead2, writeVars, SInv, Writing, Disconnecting
    <2>9. CASE CompleteRead
        BY <2>9 DEF CompleteRead, writeVars, SInv, Writing, Disconnecting
    <2>10. CASE ReadError
        BY <2>10 DEF ReadError, Fail, writeVars, SInv, Writing, Disconnecting
    <2>11. CASE Disconnect
        BY <2>11, StartDisconnectDrained DEF Disconnect, writeVars
    <2>12. CASE Report
        BY <2>12 DEF Report, Fail, writeVars, SInv, Writing, Disconnecting
    <2>13. CASE Close
        BY <2>13 DEF Close, writeVars, SInv, Writing, Disconnecting
    <2>14. CASE Tick
        BY <2>14, TickDrained
    <2>15. CASE UNCHANGED vars
        BY <2>15 DEF vars, writeVars, SInv, Writing, Disconnecting
    <2> QED BY <2>1, <2>2, <2>3, <2>4, <2>5, <2>6, <2>7, <2>8, <2>9, <2>10, <2>11,
               <2>12, <2>13, <2>14, <2>15 DEF Next
<1>3. SInv => ShutdownDrained
    BY DEF SInv, ShutdownDrained
<1> QED BY <1>1, <1>2, <1>3, PTL DEF Spec
----------------------------------------------------------------------------
\* A set of numbers has a least one.
LEMMA Least ==
    ASSUME NEW T \in SUBSET Nat, T # {}
    PROVE  \E n \in T : \A m \in T : n <= m
<1> DEFINE R == {p \in Nat \X Nat : p[1] < p[2]}
<1>1. IsWellFoundedOn(OpToRel(<, Nat), Nat)
    BY NatLessThanWellFounded, Zenon
<1>2. OpToRel(<, Nat) = R
    BY DEF OpToRel
<1>3. IsWellFoundedOn(R, Nat)
    BY <1>1, <1>2, Zenon
<1>4. PICK n \in T : \A m \in T : ~(<<m, n>> \in R)
    BY <1>3, WFMin, Zenon
<1>5. \A m \in T : ~(m < n)
    BY <1>4
<1> QED BY <1>5

\* The concatenations of the first buffers, 1 to n of them.
Partial(f, seqs, n) ==
    f = [i \in 1 .. n |-> IF i = 1 THEN seqs[i] ELSE f[i - 1] \o seqs[i]]

\* There is such a function.
LEMMA PartialExists ==
    ASSUME NEW seqs, NEW n \in Nat
    PROVE  \E f : Partial(f, seqs, n)
<1> DEFINE T == {m \in Nat : ~ \E f : Partial(f, seqs, m)}
<1> SUFFICES ASSUME T # {} PROVE FALSE
    OBVIOUS
<1>1. PICK m \in T : \A k \in T : m <= k
    BY Least
<1>2. CASE m = 0
    <2> DEFINE f == [i \in 1 .. m |-> seqs[i]]
    <2>1. Partial(f, seqs, m)
        BY <1>2 DEF Partial
    <2> QED BY <1>1, <2>1
<1>3. CASE m # 0
    <2>1. m \in Nat /\ m - 1 \in Nat /\ m - 1 \notin T
        BY <1>1, <1>3
    <2>2. PICK g : Partial(g, seqs, m - 1)
        BY <2>1
    <2> DEFINE f == [i \in 1 .. m |-> IF i = 1 THEN seqs[i] ELSE g[i - 1] \o seqs[i]]
    <2>3. \A i \in 1 .. m - 1 : g[i] = IF i = 1 THEN seqs[i] ELSE g[i - 1] \o seqs[i]
        BY <2>2, Zenon DEF Partial
    <2>4. \A i \in 1 .. m - 1 : f[i] = g[i]
        BY <2>1, <2>3
    <2>5. \A i \in 1 .. m : i # 1 => f[i - 1] = g[i - 1]
        <3> HIDE DEF f
        <3> QED BY <2>1, <2>4
    <2>6. Partial(f, seqs, m)
        BY <2>1, <2>5 DEF Partial
    <2> QED BY <1>1, <2>6
<1> QED BY <1>2, <1>3

\* What FlattenSeq returns is the last of them.
LEMMA FlatDef ==
    ASSUME NEW seqs, Len(seqs) \in Nat, Len(seqs) # 0
    PROVE  \E f : Partial(f, seqs, Len(seqs)) /\ FlattenSeq(seqs) = f[Len(seqs)]
<1> DEFINE f == CHOOSE f : Partial(f, seqs, Len(seqs))
<1>1. Partial(f, seqs, Len(seqs))
    BY PartialExists, Zenon
<1>2. FlattenSeq(seqs) = f[Len(seqs)]
    BY Zenon DEF FlattenSeq, Partial
<1> QED BY <1>1, <1>2

\* The first n values of s are lists, and those of t as well.
Same(s, t, n, S) == \A i \in 1 .. n : s[i] \in Seq(S) /\ t[i] = s[i]

\* The same lists have the same concatenations.
LEMMA PartialFacts ==
    ASSUME NEW S, NEW s, NEW t, NEW n \in Nat, NEW m \in Nat, n <= m,
           Same(s, t, n, S),
           NEW f, Partial(f, s, n), NEW g, Partial(g, t, m)
    PROVE  Same(f, g, n, S)
<1> USE DEF Same
<1> DEFINE T == {i \in Nat : i \in 1 .. n /\ ~(f[i] \in Seq(S) /\ g[i] = f[i])}
<1> SUFFICES ASSUME T # {} PROVE FALSE
    OBVIOUS
<1>1. PICK i \in T : \A k \in T : i <= k
    BY Least
<1>2. i \in 1 .. n /\ i \in 1 .. m /\ i \in Nat
    BY <1>1
<1>3. f[i] = IF i = 1 THEN s[i] ELSE f[i - 1] \o s[i]
    BY <1>2, Zenon DEF Partial
<1>4. g[i] = IF i = 1 THEN t[i] ELSE g[i - 1] \o t[i]
    BY <1>2, Zenon DEF Partial
<1>5. CASE i = 1
    BY <1>1, <1>2, <1>3, <1>4, <1>5
<1>6. CASE i # 1
    <2>1. i - 1 \in 1 .. n /\ i - 1 \notin T
        BY <1>1, <1>2, <1>6
    <2>2. f[i - 1] \in Seq(S) /\ g[i - 1] = f[i - 1]
        BY <2>1
    <2>3. f[i] = f[i - 1] \o s[i] /\ g[i] = f[i - 1] \o s[i] /\ s[i] \in Seq(S)
        BY <1>2, <1>3, <1>4, <1>6, <2>2
    <2>4. f[i - 1] \o s[i] \in Seq(S)
        BY <2>2, <2>3, ConcatProperties
    <2> QED BY <1>1, <2>3, <2>4
<1> QED BY <1>5, <1>6

\* The concatenation of lists is a list.
LEMMA FlatList ==
    ASSUME NEW S, NEW b \in Seq(Seq(S))
    PROVE  FlattenSeq(b) \in Seq(S) /\ FlattenSeq(<<>>) = <<>>
<1>1. FlattenSeq(<<>>) = <<>>
    <2>1. Len(<<>>) = 0
        OBVIOUS
    <2> QED BY <2>1, Zenon DEF FlattenSeq
<1>2. CASE b = <<>>
    BY <1>1, <1>2, EmptySeq
<1>3. CASE b # <<>>
    <2>1. /\ Len(b) \in Nat /\ Len(b) # 0 /\ Len(b) <= Len(b)
          /\ \A i \in 1 .. Len(b) : b[i] \in Seq(S) /\ b[i] = b[i]
        <3>1. Len(b) \in Nat /\ Len(b) # 0
            BY <1>3, EmptySeq
        <3>2. \A i \in 1 .. Len(b) : b[i] \in Seq(S)
            BY ElementOfSeq
        <3> QED BY <3>1, <3>2
    <2>2. PICK f : Partial(f, b, Len(b)) /\ FlattenSeq(b) = f[Len(b)]
        BY <2>1, FlatDef
    <2>3. \A i \in 1 .. Len(b) : f[i] \in Seq(S)
        <3>1. Same(b, b, Len(b), S)
            BY <2>1 DEF Same
        <3>2. Same(f, f, Len(b), S)
            BY <2>1, <2>2, <3>1, PartialFacts
        <3> QED BY <3>2 DEF Same
    <2>4. Len(b) \in 1 .. Len(b)
        BY <2>1
    <2> QED BY <1>1, <2>2, <2>3, <2>4
<1> QED BY <1>2, <1>3

\* A buffer that joins the queue joins its bytes.
LEMMA FlatAppend ==
    ASSUME NEW S, NEW b \in Seq(Seq(S)), NEW x \in Seq(S)
    PROVE  FlattenSeq(Append(b, x)) = FlattenSeq(b) \o x
<1> DEFINE c == Append(b, x)
           n == Len(b)
<1>1. /\ c \in Seq(Seq(S)) /\ Len(c) = n + 1 /\ c[n + 1] = x /\ n \in Nat
      /\ \A i \in 1 .. n : b[i] \in Seq(S) /\ c[i] = b[i]
      /\ Len(c) \in Nat /\ Len(c) # 0
    <2>1. c \in Seq(Seq(S)) /\ Len(c) = n + 1 /\ c[n + 1] = x /\ n \in Nat
        BY AppendProperties, LenProperties
    <2>2. \A i \in 1 .. n : b[i] \in Seq(S) /\ c[i] = b[i]
        BY AppendProperties, ElementOfSeq
    <2> HIDE DEF c, n
    <2> QED BY <2>1, <2>2
<1> HIDE DEF c
<1>2. PICK g : Partial(g, c, n + 1) /\ FlattenSeq(c) = g[n + 1]
    BY <1>1, FlatDef
<1>3. n + 1 \in 1 .. n + 1
    BY <1>1
<1>4. g[n + 1] = IF n + 1 = 1 THEN c[n + 1] ELSE g[(n + 1) - 1] \o c[n + 1]
    BY <1>2, <1>3, Zenon DEF Partial
<1>5. CASE n = 0
    <2>1. b = <<>>
        BY <1>5
    <2>2. FlattenSeq(b) = <<>>
        BY <2>1, FlatList
    <2>3. g[n + 1] = x
        BY <1>1, <1>4, <1>5
    <2>4. <<>> \o x = x
        BY ConcatEmptySeq
    <2> QED BY <1>2, <2>2, <2>3, <2>4 DEF c
<1>6. CASE n # 0
    <2>1. PICK f : Partial(f, b, n) /\ FlattenSeq(b) = f[n]
        BY <1>1, <1>6, FlatDef
    <2>2. n \in 1 .. n /\ n <= n + 1 /\ n + 1 # 1 /\ (n + 1) - 1 = n
        BY <1>1, <1>6
    <2>3. \A i \in 1 .. n : g[i] = f[i]
        <3>1. n + 1 \in Nat /\ n \in Nat
            BY <1>1
        <3> HIDE DEF n
        <3>2. \A i \in 1 .. n : f[i] \in Seq(S) /\ g[i] = f[i]
            <4>1. Same(b, c, n, S)
                BY <1>1 DEF Same
            <4>2. Partial(f, b, n) /\ Partial(g, c, n + 1)
                BY <1>2, <2>1
            <4>3. n \in Nat /\ n + 1 \in Nat /\ n <= n + 1
                BY <1>1
            <4>4. Same(f, g, n, S)
                BY <4>1, <4>2, <4>3, PartialFacts
            <4> QED BY <4>4 DEF Same
        <3> QED BY <3>2
    <2>4. g[n + 1] = f[n] \o x
        BY <1>1, <1>4, <2>2, <2>3
    <2> QED BY <1>2, <2>1, <2>4 DEF c
<1> QED BY <1>5, <1>6

\* Lists and their concatenation, unexpanded.
Lists(S) == Seq(S)
Cat(s, t) == s \o t

\* Parentheses do not matter.
LEMMA CatAssociative ==
    \A S : \A a, b, c \in Lists(S) : Cat(Cat(a, b), c) = Cat(a, Cat(b, c))
BY ConcatAssociative, Zenon DEF Cat, Lists

\* The same for four lists.
LEMMA Regroup ==
    ASSUME NEW S, NEW s \in Lists(S), NEW t \in Lists(S), NEW u \in Lists(S),
           NEW v \in Lists(S)
    PROVE  Cat(Cat(s, t), Cat(u, v)) = Cat(s, Cat(Cat(t, u), v))
<1>1. \A a, b \in Lists(S) : Cat(a, b) \in Lists(S)
    BY ConcatProperties DEF Cat, Lists
<1> QED BY <1>1, CatAssociative

\* Two queues, one behind the other.
LEMMA FlatConcat ==
    ASSUME NEW S, NEW a \in Seq(Seq(S)), NEW b \in Seq(Seq(S))
    PROVE  FlattenSeq(a \o b) = FlattenSeq(a) \o FlattenSeq(b)
<1> DEFINE Joins(c) == FlattenSeq(a \o c) = FlattenSeq(a) \o FlattenSeq(c)
           T == {n \in Nat : \E c \in Seq(Seq(S)) : Len(c) = n /\ ~Joins(c)}
<1>0. SUFFICES T = {}
    BY LenProperties
<1> SUFFICES ASSUME T # {} PROVE FALSE
    OBVIOUS
<1>1. PICK n \in T : \A k \in T : n <= k
    <2>1. T \in SUBSET Nat
        OBVIOUS
    <2> HIDE DEF T
    <2> QED BY <2>1, Least
<1>2. PICK c \in Seq(Seq(S)) : Len(c) = n /\ ~Joins(c)
    BY <1>1
<1>3. FlattenSeq(a) \in Seq(S)
    BY FlatList
<1>4. c # <<>>
    <2> SUFFICES ASSUME c = <<>> PROVE Joins(c)
        BY <1>2
    <2>1. FlattenSeq(c) = <<>>
        BY FlatList
    <2>2. a \o <<>> = a /\ FlattenSeq(a) \o <<>> = FlattenSeq(a)
        BY <1>3, ConcatEmptySeq
    <2> QED BY <2>1, <2>2
<1>5. PICK d \in Seq(Seq(S)), x \in Seq(S) : c = Append(d, x)
    BY <1>4, SequenceEmptyOrAppend
<1>6. Joins(d)
    <2>1. Len(d) \in Nat /\ Len(c) = Len(d) + 1
        BY <1>5, AppendProperties, LenProperties
    <2>2. Len(d) \notin T
        <3> HIDE DEF T
        <3> QED BY <1>1, <1>2, <2>1
    <2> QED BY <2>1, <2>2
<1>7. FlattenSeq(d) \in Seq(S) /\ a \o d \in Seq(Seq(S))
    BY FlatList, ConcatProperties
<1>8. a \o c = Append(a \o d, x)
    <2>1. c = d \o <<x>> /\ Append(a \o d, x) = (a \o d) \o <<x>>
        BY <1>5, <1>7, AppendIsConcat
    <2>2. <<x>> \in Seq(Seq(S))
        OBVIOUS
    <2>3. (a \o d) \o <<x>> = a \o (d \o <<x>>)
        <3>1. a \in Lists(Seq(S)) /\ d \in Lists(Seq(S)) /\ <<x>> \in Lists(Seq(S))
            BY <2>2 DEF Lists
        <3>2. Cat(Cat(a, d), <<x>>) = Cat(a, Cat(d, <<x>>))
            BY <3>1, CatAssociative
        <3> QED BY <3>2 DEF Cat
    <2> QED BY <2>1, <2>3
<1>9. /\ FlattenSeq(a \o c) = FlattenSeq(a \o d) \o x
      /\ FlattenSeq(c) = FlattenSeq(d) \o x
    BY <1>5, <1>7, <1>8, FlatAppend
<1>10. (FlattenSeq(a) \o FlattenSeq(d)) \o x = FlattenSeq(a) \o (FlattenSeq(d) \o x)
    <2>1. /\ FlattenSeq(a) \in Lists(S) /\ FlattenSeq(d) \in Lists(S)
          /\ x \in Lists(S)
        BY <1>3, <1>7 DEF Lists
    <2>2. Cat(Cat(FlattenSeq(a), FlattenSeq(d)), x)
              = Cat(FlattenSeq(a), Cat(FlattenSeq(d), x))
        BY <2>1, CatAssociative
    <2> QED BY <2>2 DEF Cat
<1> QED BY <1>2, <1>6, <1>9, <1>10

\* A list is its first k elements and the rest.
LEMMA Cut ==
    ASSUME NEW S, NEW s \in Seq(S), NEW k \in 0 .. Len(s)
    PROVE  LET h == SubSeq(s, 1, k)
               t == SubSeq(s, k + 1, Len(s))
           IN h \in Seq(S) /\ t \in Seq(S) /\ Len(h) = k /\ h \o t = s
<1>1. Len(s) \in Nat /\ \A i \in 1 .. Len(s) : s[i] \in S
    BY LenProperties, ElementOfSeq
<1>2. SubSeq(s, 1, k) \o SubSeq(s, k + 1, Len(s)) = s
    <2>1. 1 \in 1 .. Len(s) + 1 /\ k \in 1 - 1 .. Len(s) /\ Len(s) \in k .. Len(s)
        BY <1>1
    <2>2. SubSeq(s, 1, k) \o SubSeq(s, k + 1, Len(s)) = SubSeq(s, 1, Len(s))
        BY <2>1, ConcatAdjacentSubSeq
    <2> QED BY <2>2, SubSeqFull
<1>3. SubSeq(s, 1, k) \in Seq(S) /\ Len(SubSeq(s, 1, k)) = k
    <2>1. 1 \in Int /\ k \in Int /\ \A i \in 1 .. k : s[i] \in S
        BY <1>1
    <2>2. SubSeq(s, 1, k) \in Seq(S)
          /\ Len(SubSeq(s, 1, k)) = IF 1 <= k THEN k - 1 + 1 ELSE 0
        BY <2>1, SubSeqProperties
    <2> QED BY <2>2
<1>4. SubSeq(s, k + 1, Len(s)) \in Seq(S)
    <2>1. k + 1 \in Int /\ Len(s) \in Int /\ \A i \in k + 1 .. Len(s) : s[i] \in S
        BY <1>1
    <2> QED BY <2>1, SubSeqProperties
<1> QED BY <1>2, <1>3, <1>4

\* What a concatenation begins with.
LEMMA FirstPart ==
    ASSUME NEW S, NEW a \in Seq(S), NEW b \in Seq(S)
    PROVE  SubSeq(a \o b, 1, Len(a)) = a
<1>1. CASE Len(a) = 0
    <2>1. a = <<>>
        BY <1>1, EmptySeq
    <2> QED BY <1>1, <2>1, SubSeqEmpty
<1>2. CASE Len(a) # 0
    <2>1. 1 \in 1 .. Len(a) /\ Len(a) \in 1 .. Len(a)
        BY <1>2, LenProperties
    <2>2. SubSeq(a \o b, 1, Len(a)) = SubSeq(a, 1, Len(a))
        BY <2>1, SubSeqOfConcat1
    <2> QED BY <2>2, SubSeqFull
<1> QED BY <1>1, <1>2

\* A queue of one buffer.
LEMMA FlatOne ==
    ASSUME NEW S, NEW x \in Seq(S)
    PROVE  <<x>> \in Seq(Seq(S)) /\ FlattenSeq(<<x>>) = x
<1>1. <<>> \in Seq(Seq(S)) /\ <<>> \o x = x
    BY ConcatEmptySeq, EmptySeq
<1>2. Append(<<>>, x) = <<x>>
    OBVIOUS
<1>3. FlattenSeq(Append(<<>>, x)) = FlattenSeq(<<>>) \o x
    BY <1>1, FlatAppend
<1>4. FlattenSeq(<<>>) = <<>>
    BY <1>1, FlatList
<1> QED BY <1>1, <1>2, <1>3, <1>4

\* The buffers that are gone as a whole: there is a last one.
LEMMA MaxExists ==
    ASSUME NEW n \in Nat, NEW W \in SUBSET (0 .. n), W # {}
    PROVE  Max(W) \in W /\ \A j \in W : j <= Max(W)
<1> DEFINE T == {m \in 0 .. n : n - m \in W}
<1>1. T \in SUBSET Nat /\ T # {}
    <2>1. PICK j \in W : TRUE
        OBVIOUS
    <2>2. n - j \in 0 .. n /\ n - (n - j) = j
        OBVIOUS
    <2>3. n - (n - j) \in W
        BY <2>1, <2>2, Zenon
    <2>4. n - j \in T
        BY <2>2, <2>3, Zenon
    <2>5. T \in SUBSET Nat
        OBVIOUS
    <2> QED BY <2>4, <2>5, Zenon
<1>2. PICK m \in T : \A t \in T : m <= t
    <2> HIDE DEF T
    <2> QED BY <1>1, Least
<1>3. m \in 0 .. n /\ n - m \in W
    BY <1>2
<1>4. ASSUME NEW j \in W PROVE n - m >= j
    <2>1. n - j \in 0 .. n /\ n - (n - j) = j
        OBVIOUS
    <2>2. n - j \in T
        BY <2>1
    <2>3. m <= n - j
        BY <1>2, <2>2
    <2> QED BY <1>3, <2>1, <2>3
<1>5. Max(W) \in W /\ \A j \in W : Max(W) >= j
    BY <1>3, <1>4, Zenon DEF Max
<1> QED BY <1>5

\* completeWrite's loop takes the first k bytes from the queue, whichever
\* buffers they are in.
LEMMA DropFacts ==
    ASSUME NEW S, NEW b \in Seq(Seq(S)), NEW k \in 0 .. Queued(b)
    PROVE  /\ Drop(b, k) \in Seq(Seq(S))
           /\ \E a \in Seq(S) : /\ Len(a) = k
                                /\ FlattenSeq(b) = a \o FlattenSeq(Drop(b, k))
<1> DEFINE W == {i \in 0 .. Len(b) : Queued(SubSeq(b, 1, i)) <= k}
           i == Max(W)
           P == SubSeq(b, 1, i)
           R == SubSeq(b, i + 1, Len(b))
           part == k - Queued(P)
           Q == SubSeq(b, i + 2, Len(b))
           x == b[i + 1]
           h == SubSeq(x, 1, part)
           y == SubSeq(x, part + 1, Len(x))
<1>0. Drop(b, k) = IF part = 0 THEN R ELSE <<y>> \o Q
    BY Zenon DEF Drop
<1>1. Len(b) \in Nat /\ Queued(b) \in Nat /\ FlattenSeq(b) \in Seq(S)
    BY FlatList, LenProperties DEF Queued
<1>2. 0 \in W
    <2>1. SubSeq(b, 1, 0) = <<>>
        BY SubSeqEmpty
    <2>2. Queued(<<>>) = 0
        <3>1. FlattenSeq(<<>>) = <<>>
            BY FlatList
        <3> QED BY <3>1 DEF Queued
    <2>3. 0 \in 0 .. Len(b) /\ 0 <= k
        BY <1>1
    <2> QED BY <2>1, <2>2, <2>3
<1>3. i \in W /\ \A j \in W : j <= i
    <2>1. W \in SUBSET (0 .. Len(b)) /\ W # {}
        BY <1>2
    <2> HIDE DEF W
    <2> QED BY <1>1, <2>1, MaxExists
<1>4. i \in 0 .. Len(b) /\ Queued(P) <= k
    BY <1>3
<1> HIDE DEF i
<1>5. P \in Seq(Seq(S)) /\ R \in Seq(Seq(S)) /\ Len(P) = i /\ P \o R = b
    BY <1>1, <1>4, Cut
<1>6. /\ FlattenSeq(P) \in Seq(S) /\ FlattenSeq(R) \in Seq(S)
      /\ FlattenSeq(b) = FlattenSeq(P) \o FlattenSeq(R)
    <2> HIDE DEF P, R
    <2> QED BY <1>5, FlatList, FlatConcat
<1>7. Queued(P) \in Nat /\ Queued(P) = Len(FlattenSeq(P)) /\ part \in Nat
    <2>1. Queued(P) \in Nat
        BY <1>6, LenProperties DEF Queued
    <2> HIDE DEF P
    <2> QED BY <1>1, <1>4, <2>1 DEF Queued
<1>8. CASE part = 0
    <2>1. Len(FlattenSeq(P)) = k
        <3> HIDE DEF P
        <3> QED BY <1>1, <1>7, <1>8
    <2>2. Drop(b, k) = R
        BY <1>0, <1>8, Zenon
    <2> HIDE DEF P, R
    <2> QED BY <1>5, <1>6, <2>1, <2>2
<1>9. CASE part # 0
    <2>1. i + 1 \in 1 .. Len(b)
        <3> SUFFICES ASSUME i = Len(b) PROVE FALSE
            BY <1>1, <1>4
        <3>1. P = b
            BY SubSeqFull
        <3> HIDE DEF P
        <3> QED BY <1>1, <1>4, <1>7, <1>9, <3>1
    <2>2. x \in Seq(S) /\ Len(x) \in Nat
        BY <2>1, ElementOfSeq, LenProperties
    <2>3. R = <<x>> \o Q
        <3>1. Len(b) \in i + 1 .. Len(b) /\ (i + 1) + 1 = i + 2
            BY <1>1, <1>4, <2>1
        <3> QED BY <2>1, <3>1, SubSeqRecursiveFirst
    <2>4. Q \in Seq(Seq(S))
        <3>1. i + 2 \in Int /\ Len(b) \in Int
              /\ \A j \in i + 2 .. Len(b) : b[j] \in Seq(S)
            BY <1>1, <1>4, <2>1, ElementOfSeq
        <3> QED BY <3>1, SubSeqProperties
    <2>5. SubSeq(b, 1, i + 1) = P \o <<x>>
        <3>1. 1 \in 1 .. Len(b) /\ i + 1 \in 1 .. Len(b) /\ (i + 1) - 1 = i
            BY <1>1, <1>4, <2>1
        <3> QED BY <3>1, SubSeqRecursiveSecond
    <2> HIDE DEF P, R, Q, x, W
    <2>6. Queued(P \o <<x>>) = Queued(P) + Len(x)
        <3>1. <<x>> \in Seq(Seq(S)) /\ FlattenSeq(<<x>>) = x
            BY <2>2, FlatOne
        <3>2. FlattenSeq(P \o <<x>>) = FlattenSeq(P) \o x
            BY <1>5, <3>1, FlatConcat
        <3> QED BY <1>6, <2>2, <3>2, ConcatProperties DEF Queued
    <2>7. ~(Queued(SubSeq(b, 1, i + 1)) <= k)
        <3>1. i + 1 \notin W
            BY <1>1, <1>3, <1>4
        <3>2. i + 1 \in 0 .. Len(b)
            BY <1>1, <2>1
        <3> QED BY <3>1, <3>2 DEF W
    <2>8. part \in 0 .. Len(x)
        <3>1. ~(Queued(P) + Len(x) <= k)
            BY <2>5, <2>6, <2>7
        <3> HIDE DEF part
        <3>2. part = k - Queued(P)
            BY DEF part
        <3> QED BY <1>1, <1>7, <2>2, <3>1, <3>2
    <2> HIDE DEF part
    <2>9. h \in Seq(S) /\ y \in Seq(S) /\ Len(h) = part /\ h \o y = x
        BY <2>2, <2>8, Cut
    <2> HIDE DEF h, y
    <2>10. /\ <<y>> \o Q \in Seq(Seq(S)) /\ FlattenSeq(Q) \in Seq(S)
           /\ FlattenSeq(<<y>> \o Q) = y \o FlattenSeq(Q)
           /\ FlattenSeq(R) = x \o FlattenSeq(Q)
        <3>1. <<y>> \in Seq(Seq(S)) /\ FlattenSeq(<<y>>) = y
            BY <2>9, FlatOne
        <3>2. <<x>> \in Seq(Seq(S)) /\ FlattenSeq(<<x>>) = x
            BY <2>2, FlatOne
        <3>3. FlattenSeq(Q) \in Seq(S)
            BY <2>4, FlatList
        <3>4. /\ FlattenSeq(<<y>> \o Q) = y \o FlattenSeq(Q)
              /\ FlattenSeq(<<x>> \o Q) = x \o FlattenSeq(Q)
            BY <2>4, <3>1, <3>2, FlatConcat
        <3>5. <<y>> \o Q \in Seq(Seq(S))
            BY <2>4, <3>1, ConcatProperties
        <3> QED BY <2>3, <3>3, <3>4, <3>5
    <2> DEFINE a == FlattenSeq(P) \o h
    <2>11. a \in Seq(S) /\ Len(a) = k
        <3>1. a \in Seq(S) /\ Len(a) = Len(FlattenSeq(P)) + Len(h)
            BY <1>6, <2>9, ConcatProperties
        <3> HIDE DEF a
        <3> QED BY <1>1, <1>7, <2>8, <2>9, <3>1 DEF part
    <2>12. FlattenSeq(b) = a \o FlattenSeq(<<y>> \o Q)
        <3>1. a \o (y \o FlattenSeq(Q)) = FlattenSeq(P) \o ((h \o y) \o FlattenSeq(Q))
            <4>1. FlattenSeq(P) \in Lists(S) /\ FlattenSeq(Q) \in Lists(S)
                BY <1>6, <2>10 DEF Lists
            <4>2. h \in Lists(S) /\ y \in Lists(S)
                BY <2>9 DEF Lists
            <4>3. Cat(Cat(FlattenSeq(P), h), Cat(y, FlattenSeq(Q)))
                      = Cat(FlattenSeq(P), Cat(Cat(h, y), FlattenSeq(Q)))
                BY <4>1, <4>2, Regroup
            <4> QED BY <4>3 DEF Cat
        <3> QED BY <1>6, <2>9, <2>10, <3>1
    <2>13. Drop(b, k) = <<y>> \o Q
        BY <1>0, <1>9, Zenon DEF h, y, Q, R, P, part, x
    <2> HIDE DEF a
    <2> QED BY <2>10, <2>11, <2>12, <2>13
<1> QED BY <1>8, <1>9

\* A list and what goes before or behind it.
LEMMA PrefixSplit ==
    ASSUME NEW S, NEW s \in Seq(S), NEW t \in Seq(S), IsPrefix(s, t)
    PROVE  \E u \in Seq(S) : t = s \o u
<1>1. Len(s) \in 0 .. Len(t) /\ SubSeq(t, 1, Len(s)) = s
    BY SubSeqFull, LenProperties DEF IsPrefix
<1>2. /\ SubSeq(t, Len(s) + 1, Len(t)) \in Seq(S)
      /\ SubSeq(t, 1, Len(s)) \o SubSeq(t, Len(s) + 1, Len(t)) = t
    BY <1>1, Cut
<1> QED BY <1>1, <1>2

\* A list is a prefix of itself with more behind it.
LEMMA PrefixOf ==
    ASSUME NEW S, NEW s \in Seq(S), NEW u \in Seq(S)
    PROVE  IsPrefix(s, s \o u)
<1>1. SubSeq(s, 1, Len(s)) = s /\ SubSeq(s \o u, 1, Len(s)) = s
    BY SubSeqFull, FirstPart
<1>2. Len(s) <= Len(s \o u)
    BY ConcatProperties, LenProperties
<1> QED BY <1>1, <1>2 DEF IsPrefix

\* What is written is at the head of the queue.
LEMMA BatchFacts ==
    ASSUME NEW S, NEW b \in Seq(Seq(S))
    PROVE  Batch(b) \in Seq(S) /\ IsPrefix(Batch(b), FlattenSeq(b))
<1> DEFINE f == FlattenSeq(b)
<1>1. f \in Seq(S) /\ Len(f) \in Nat /\ f \o <<>> = f /\ <<>> \in Seq(S)
    BY FlatList, LenProperties, ConcatEmptySeq, EmptySeq
<1>2. CASE Len(b) = 1 \/ Queued(b) <= WriteBytes
    <2>1. Batch(b) = f
        BY <1>2 DEF Batch
    <2> HIDE DEF f
    <2>2. IsPrefix(f, f \o <<>>)
        BY <1>1, PrefixOf
    <2> QED BY <1>1, <2>1, <2>2 DEF f
<1>3. CASE ~(Len(b) = 1 \/ Queued(b) <= WriteBytes)
    <2>1. Batch(b) = SubSeq(f, 1, WriteBytes) /\ WriteBytes \in 0 .. Len(f)
        BY <1>1, <1>3, TimesAssumption DEF Batch, Queued
    <2> DEFINE h == SubSeq(f, 1, WriteBytes)
               t == SubSeq(f, WriteBytes + 1, Len(f))
    <2> HIDE DEF f
    <2>2. h \in Seq(S) /\ t \in Seq(S) /\ h \o t = f
        BY <1>1, <2>1, Cut
    <2> HIDE DEF h, t
    <2>3. IsPrefix(h, h \o t)
        BY <2>2, PrefixOf
    <2> QED BY <2>1, <2>2, <2>3 DEF f, h
<1> QED BY <1>2, <1>3

\* The bytes after the first n.
LEMMA Continued ==
    ASSUME NEW n \in Nat, NEW m \in Nat
    PROVE  [i \in 1 .. n |-> i] \o [i \in 1 .. m |-> n + i] = [i \in 1 .. n + m |-> i]
<1> DEFINE a == [i \in 1 .. n |-> i]
           b == [i \in 1 .. m |-> n + i]
           c == [i \in 1 .. n + m |-> i]
<1>1. a \in Seq(Nat) /\ Len(a) = n /\ \A i \in 1 .. n : a[i] = i
    OBVIOUS
<1>2. b \in Seq(Nat) /\ Len(b) = m /\ \A i \in 1 .. m : b[i] = n + i
    <2>1. \A i \in 1 .. m : n + i \in Nat
        OBVIOUS
    <2> QED BY <2>1
<1>3. c \in Seq(Nat) /\ Len(c) = n + m /\ \A i \in 1 .. n + m : c[i] = i
    <2>1. n + m \in Nat
        OBVIOUS
    <2> QED BY <2>1
<1> HIDE DEF a, b, c
<1>4. /\ a \o b \in Seq(Nat) /\ Len(a \o b) = n + m
      /\ \A i \in 1 .. n + m : (a \o b)[i] = IF i <= n THEN a[i] ELSE b[i - n]
    <2>1. /\ a \o b \in Seq(Nat) /\ Len(a \o b) = Len(a) + Len(b)
          /\ \A i \in 1 .. Len(a) + Len(b) :
                (a \o b)[i] = IF i <= Len(a) THEN a[i] ELSE b[i - Len(a)]
        <3>1. a \in Seq(Nat) /\ b \in Seq(Nat)
            BY <1>1, <1>2
        <3> QED BY <3>1, ConcatProperties
    <2> QED BY <1>1, <1>2, <2>1, Zenon
<1>5. ASSUME NEW i \in 1 .. n + m PROVE (a \o b)[i] = c[i]
    <2>1. CASE i <= n
        BY <1>1, <1>3, <1>4, <2>1
    <2>2. CASE ~(i <= n)
        <3>1. i - n \in 1 .. m /\ n + (i - n) = i
            BY <2>2
        <3> QED BY <1>2, <1>3, <1>4, <2>2, <3>1
    <2> QED BY <2>1, <2>2
<1>6. a \o b = c
    BY <1>3, <1>4, <1>5, SeqEqual
<1> QED BY <1>6 DEF a, b, c

\* The queue, the outstanding write and the stream fit together.
StreamInv == TypeOK /\ Stream /\ OverflowExact

Byte == 1 .. MaxBytes

\* What the types say of the queue's bytes.
LEMMA Typed ==
    ASSUME TypeOK
    PROVE  /\ outBuf \in Seq(Seq(Byte)) /\ flight \in Seq(Byte) /\ sent \in Seq(Byte)
           /\ FlattenSeq(outBuf) \in Seq(Byte)
           /\ Queued(outBuf) = Len(FlattenSeq(outBuf)) /\ Queued(outBuf) \in Nat
           /\ accepted \in Nat /\ MaxBytes \in Nat /\ MaxBufferSize \in Nat
           /\ Never \notin Nat
<1>1. outBuf \in Seq(Seq(Byte)) /\ flight \in Seq(Byte) /\ sent \in Seq(Byte)
    BY DEF TypeOK, Byte
<1>2. FlattenSeq(outBuf) \in Seq(Byte)
    BY <1>1, FlatList
<1>3. accepted \in Nat /\ MaxBytes \in Nat /\ MaxBufferSize \in Nat /\ Never \notin Nat
    BY TimesAssumption DEF TypeOK
<1> QED BY <1>1, <1>2, <1>3, LenProperties DEF Queued

\* prepareWrite hands the head of the queue to the network.
LEMMA PrepareWriteFacts ==
    ASSUME NEW b \in Seq(Seq(Byte)), PrepareWrite(b)
    PROVE  /\ flight' \in Seq(Byte) /\ IsPrefix(flight', FlattenSeq(b))
           /\ lastWrite' \in Nat \cup {Never}
<1>1. CASE b = <<>>
    <2>1. flight' = <<>> /\ FlattenSeq(b) = <<>> /\ lastWrite' = Never
        BY <1>1, FlatList DEF PrepareWrite
    <2>2. <<>> \in Seq(Byte) /\ <<>> \o <<>> = <<>>
        BY ConcatEmptySeq, EmptySeq
    <2>3. IsPrefix(<<>>, <<>> \o <<>>)
        BY <2>2, PrefixOf
    <2> QED BY <2>1, <2>2, <2>3
<1>2. CASE b # <<>>
    BY <1>2, BatchFacts DEF PrepareWrite
<1> QED BY <1>1, <1>2

\* write() puts the next bytes behind the others.
LEMMA WriteStreams ==
    ASSUME StreamInv, NEW size \in Size, NEW lowPrio \in BOOLEAN, Write(size, lowPrio)
    PROVE  StreamInv'
<1> DEFINE buf == [i \in 1 .. size |-> accepted + i]
           f == FlattenSeq(outBuf)
           whole == [i \in 1 .. accepted |-> i]
           over == Over(Queued(outBuf) + size)
<1>1. /\ size \in Nat \ {0} /\ accepted + size <= MaxBytes
      /\ outBuf' = Append(outBuf, buf) /\ accepted' = accepted + size
      /\ overflow' = IF over THEN 0 ELSE overflow
      /\ UNCHANGED <<stage, attached, reading, sent>>
    BY TimesAssumption DEF Write
<1>2. buf \in Seq(Byte) /\ Len(buf) = size
    <2>1. accepted \in Nat /\ MaxBytes \in Nat
        BY Typed DEF StreamInv
    <2>2. \A i \in 1 .. size : accepted + i \in Byte
        BY <1>1, <2>1 DEF Byte
    <2> QED BY <1>1, <2>2
<1> HIDE DEF buf
<1>3. outBuf' \in Seq(Seq(Byte)) /\ FlattenSeq(outBuf') = f \o buf /\ f \in Seq(Byte)
    BY <1>1, <1>2, Typed, FlatAppend, AppendProperties DEF StreamInv
<1>4. Queued(outBuf') = Queued(outBuf) + size
    <2> HIDE DEF f
    <2>1. Len(f \o buf) = Len(f) + Len(buf)
        BY <1>2, <1>3, ConcatProperties
    <2> QED BY <1>2, <1>3, <2>1 DEF Queued, f
<1>5. sent \o FlattenSeq(outBuf') = [i \in 1 .. accepted' |-> i]
    <2>1. sent \in Seq(Byte) /\ sent \o f = whole
        BY Typed DEF StreamInv, Stream
    <2> HIDE DEF f, whole
    <2>2. sent \o (f \o buf) = (sent \o f) \o buf
        <3>1. sent \in Lists(Byte) /\ f \in Lists(Byte) /\ buf \in Lists(Byte)
            BY <1>2, <1>3, <2>1 DEF Lists
        <3>2. Cat(Cat(sent, f), buf) = Cat(sent, Cat(f, buf))
            BY <3>1, CatAssociative
        <3> QED BY <3>2 DEF Cat
    <2>3. whole \o buf = [i \in 1 .. accepted + size |-> i]
        BY <1>1, Typed, Continued DEF whole, buf, StreamInv
    <2> QED BY <1>1, <1>3, <2>1, <2>2, <2>3
<1>6. /\ flight' \in Seq(Byte) /\ IsPrefix(flight', FlattenSeq(outBuf'))
      /\ lastWrite' \in Nat \cup {Never}
    <2>1. CASE Writing
        <3>1. UNCHANGED <<flight, lastWrite>>
            BY <2>1 DEF Write
        <3>2. flight \in Seq(Byte) /\ IsPrefix(flight, f) /\ lastWrite \in Nat \cup {Never}
            BY Typed DEF StreamInv, Stream, TypeOK
        <3> HIDE DEF f
        <3>3. PICK u \in Seq(Byte) : f = flight \o u
            <4>1. f \in Seq(Byte) /\ flight \in Seq(Byte) /\ IsPrefix(flight, f)
                BY <1>3, <3>2
            <4> QED BY <4>1, PrefixSplit
        <3>4. u \o buf \in Seq(Byte)
            BY <1>2, <3>3, ConcatProperties
        <3>6. (flight \o u) \o buf = flight \o (u \o buf)
            <4>1. flight \in Lists(Byte) /\ u \in Lists(Byte) /\ buf \in Lists(Byte)
                BY <1>2, <3>2, <3>3 DEF Lists
            <4>2. Cat(Cat(flight, u), buf) = Cat(flight, Cat(u, buf))
                BY <4>1, CatAssociative
            <4> QED BY <4>2 DEF Cat
        <3>5. IsPrefix(flight, flight \o (u \o buf))
            BY <3>2, <3>4, PrefixOf
        <3> QED BY <1>3, <3>1, <3>2, <3>3, <3>5, <3>6
    <2>2. CASE ~Writing
        BY <1>3, <2>2, PrepareWriteFacts DEF Write
    <2> QED BY <2>1, <2>2
<1>7. sock' \in {"open", "shutdown", "closed"} /\ disc' \in Nat \cup {Never}
      /\ reporter' \in BOOLEAN
    <2>1. StartDisconnect \/ NoDisconnect
        BY DEF Write
    <2>2. sock \in {"open", "shutdown", "closed"} /\ disc \in Nat \cup {Never}
          /\ reporter \in BOOLEAN
        BY DEF StreamInv, TypeOK
    <2>3. CASE StartDisconnect
        BY <2>2, <2>3 DEF StartDisconnect
    <2>4. CASE NoDisconnect
        BY <2>2, <2>4 DEF NoDisconnect
    <2> QED BY <2>1, <2>3, <2>4
<1>8. TypeOK'
    <2>1. accepted' \in 0 .. MaxBytes /\ overflow' \in Nat \cup {Never}
        BY <1>1, Typed DEF StreamInv, TypeOK
    <2> QED BY <1>1, <1>3, <1>6, <1>7, <2>1 DEF StreamInv, TypeOK, Byte
<1>9. Stream'
    BY <1>1, <1>5, <1>6 DEF Stream
<1>10. OverflowExact'
    <2>1. /\ Queued(outBuf) \in Nat /\ MaxBufferSize \in Nat /\ 0 # Never
        BY Typed DEF StreamInv
    <2> QED BY <1>1, <1>4, <2>1 DEF StreamInv, OverflowExact, Over
<1> QED BY <1>8, <1>9, <1>10 DEF StreamInv

\* What completeWrite drops from the queue is what the network took.
LEMMA CompleteWriteStreams ==
    ASSUME StreamInv, NEW k \in 1 .. MaxBytes, CompleteWrite(k)
    PROVE  StreamInv'
<1> DEFINE f == FlattenSeq(outBuf)
           g == FlattenSeq(Drop(outBuf, k))
<1>1. /\ k <= Len(flight) /\ outBuf' = Drop(outBuf, k)
      /\ sent' = sent \o SubSeq(flight, 1, k)
      /\ overflow' = IF overflow = Never THEN Never ELSE OverflowAfter(outBuf')
      /\ PrepareWrite(outBuf')
      /\ sock' = IF Disconnecting /\ outBuf' = <<>> /\ sock = "open"
                 THEN "shutdown" ELSE sock
      /\ UNCHANGED <<stage, disc, reporter, attached, reading, accepted>>
    BY DEF CompleteWrite
<1>2. /\ outBuf \in Seq(Seq(Byte)) /\ flight \in Seq(Byte) /\ sent \in Seq(Byte)
      /\ f \in Seq(Byte) /\ Queued(outBuf) = Len(f) /\ Queued(outBuf) \in Nat
      /\ k \in Nat /\ k # 0 /\ Len(flight) \in Nat /\ MaxBufferSize \in Nat
    BY Typed, LenProperties DEF StreamInv
<1>3. Len(flight) <= Len(f) /\ flight = SubSeq(f, 1, Len(flight))
    <2>1. IsPrefix(flight, f)
        BY DEF StreamInv, Stream
    <2> HIDE DEF f, g
    <2>2. SubSeq(flight, 1, Len(flight)) = flight
        BY <1>2, SubSeqFull, Zenon
    <2> QED BY <2>1, <2>2 DEF IsPrefix
<1>4. Drop(outBuf, k) \in Seq(Seq(Byte))
      /\ \E a \in Seq(Byte) : Len(a) = k /\ f = a \o g
    <2>1. k \in 0 .. Queued(outBuf)
        BY <1>1, <1>2, <1>3
    <2>2. outBuf \in Seq(Seq(Byte))
        BY <1>2
    <2> QED BY <2>1, <2>2, DropFacts
<1>5. PICK a \in Seq(Byte) : Len(a) = k /\ f = a \o g
    BY <1>4
<1>6. g \in Seq(Byte) /\ Queued(outBuf') = Len(g)
    BY <1>1, <1>4, FlatList DEF Queued
<1>7. SubSeq(flight, 1, k) = a
    <2>1. 1 \in 1 .. Len(flight) /\ k \in 1 .. Len(flight) /\ 1 \in 1 .. Len(f)
          /\ Len(flight) \in 1 .. Len(f)
        BY <1>1, <1>2, <1>3
    <2> HIDE DEF f, g
    <2>2. SubSeq(SubSeq(f, 1, Len(flight)), 1, k) = SubSeq(f, 1, k)
        <3>1. /\ 1 \in 1 .. Len(flight) - 1 + 1 /\ k \in 1 .. Len(flight) - 1 + 1
              /\ 1 + 1 - 1 = 1 /\ 1 + k - 1 = k
            BY <1>2, <2>1
        <3> QED BY <1>2, <2>1, <3>1, SubSeqOfSubSeq
    <2>3. SubSeq(f, 1, k) = a
        BY <1>5, <1>6, FirstPart
    <2> QED BY <1>3, <2>2, <2>3
<1>8. Len(g) \in Nat /\ Queued(outBuf) = k + Len(g)
    <2> HIDE DEF f, g
    <2>1. Len(a \o g) = Len(a) + Len(g)
        BY <1>5, <1>6, ConcatProperties
    <2> QED BY <1>2, <1>5, <1>6, <2>1, LenProperties
<1>9. sent' \in Seq(Byte) /\ sent' \o FlattenSeq(outBuf') = [i \in 1 .. accepted' |-> i]
    <2>1. sent \o f = [i \in 1 .. accepted |-> i]
        BY DEF StreamInv, Stream
    <2>2. sent' = sent \o a /\ FlattenSeq(outBuf') = g /\ accepted' = accepted
        BY <1>1, <1>7
    <2> HIDE DEF f, g
    <2>3. sent \o a \in Seq(Byte)
        BY <1>2, <1>5, ConcatProperties
    <2>4. (sent \o a) \o g = sent \o (a \o g)
        <3>1. sent \in Lists(Byte) /\ a \in Lists(Byte) /\ g \in Lists(Byte)
            BY <1>2, <1>5, <1>6 DEF Lists
        <3>2. Cat(Cat(sent, a), g) = Cat(sent, Cat(a, g))
            BY <3>1, CatAssociative
        <3> QED BY <3>2 DEF Cat
    <2> QED BY <1>5, <2>1, <2>2, <2>3, <2>4
<1>10. /\ flight' \in Seq(Byte) /\ IsPrefix(flight', FlattenSeq(outBuf'))
       /\ lastWrite' \in Nat \cup {Never} /\ outBuf' \in Seq(Seq(Byte))
    BY <1>1, <1>4, PrepareWriteFacts
<1> HIDE DEF f, g
<1>11. TypeOK'
    <2>1. overflow' \in Nat \cup {Never} /\ sock' \in {"open", "shutdown", "closed"}
        BY <1>1 DEF StreamInv, TypeOK, OverflowAfter
    <2> QED BY <1>1, <1>9, <1>10, <2>1 DEF StreamInv, TypeOK, Byte
<1>12. Stream'
    BY <1>9, <1>10 DEF Stream
<1>13. OverflowExact'
    <2>1. Queued(outBuf') \in Nat /\ Queued(outBuf') <= Queued(outBuf)
        BY <1>2, <1>6, <1>8
    <2>2. OverflowExact
        BY DEF StreamInv
    <2> QED BY <1>1, <1>2, <2>1, <2>2 DEF OverflowExact, Over, OverflowAfter
<1> QED BY <1>11, <1>12, <1>13 DEF StreamInv

\* The other actions leave the queue and the stream alone.
LEMMA OthersStream ==
    ASSUME StreamInv, UNCHANGED writeVars,
           stage' \in {"new", "handshake", "ready"},
           sock' \in {"open", "shutdown", "closed"}, disc' \in Nat \cup {Never},
           reporter' \in BOOLEAN, attached' \in BOOLEAN,
           reading' \in {"idle", "probe", "data"}
    PROVE  StreamInv'
BY DEF StreamInv, TypeOK, Stream, OverflowExact, writeVars

\* An error leaves the queue as it is; nothing is in flight.
LEMMA WriteErrorStreams ==
    ASSUME StreamInv, WriteError
    PROVE  StreamInv'
<1>1. /\ flight' = <<>> /\ lastWrite' = Never /\ attached' = FALSE
      /\ UNCHANGED <<stage, sock, outBuf, overflow, disc, reporter, reading,
                     accepted, sent>>
    BY DEF WriteError, Fail
<1>2. FlattenSeq(outBuf) \in Seq(Byte) /\ <<>> \in Seq(Byte)
    BY Typed, EmptySeq DEF StreamInv
<1>3. <<>> \o FlattenSeq(outBuf) = FlattenSeq(outBuf)
    BY <1>2, ConcatEmptySeq
<1>4. IsPrefix(<<>>, FlattenSeq(outBuf))
    BY <1>2, <1>3, PrefixOf
<1>5. TypeOK'
    BY <1>1, <1>2 DEF StreamInv, TypeOK, Byte
<1>6. Stream'
    BY <1>1, <1>4 DEF StreamInv, Stream
<1> QED BY <1>1, <1>5, <1>6 DEF StreamInv, OverflowExact

\* Time changes no byte, and no stamp comes or goes.
LEMMA TickStreams ==
    ASSUME StreamInv, Tick
    PROVE  StreamInv'
<1>1. /\ UNCHANGED <<stage, sock, outBuf, flight, accepted, sent, reporter,
                     attached, reading>>
      /\ lastWrite' \in Nat \cup {Never} /\ disc' \in Nat \cup {Never}
      /\ overflow' \in Nat \cup {Never} /\ (overflow' = Never <=> overflow = Never)
    BY TimesAssumption DEF StreamInv, TypeOK, Tick, Older
<1>2. TypeOK' /\ Stream'
    BY <1>1 DEF StreamInv, TypeOK, Stream
<1> QED BY <1>1, <1>2 DEF StreamInv, OverflowExact

\* The invariant holds.
LEMMA StreamInvariant == Spec => []StreamInv
<1>1. Init => StreamInv
    <2> SUFFICES ASSUME Init PROVE StreamInv
        OBVIOUS
    <2>1. <<>> \in Seq(Byte) /\ <<>> \in Seq(Seq(Byte)) /\ <<>> \o <<>> = <<>>
        BY EmptySeq, ConcatEmptySeq
    <2>2. FlattenSeq(<<>>) = <<>>
        BY <2>1, FlatList
    <2>3. IsPrefix(<<>>, <<>>)
        BY <2>1, PrefixOf
    <2>4. TypeOK
        <3>1. 0 \in 0 .. MaxBytes
            BY TimesAssumption
        <3> QED BY <2>1, <3>1 DEF Init, TypeOK, Byte
    <2>5. [i \in 1 .. 0 |-> i] = <<>>
        OBVIOUS
    <2>6. Stream
        BY <2>1, <2>2, <2>3, <2>5 DEF Init, Stream
    <2>7. OverflowExact
        BY <2>2, TimesAssumption DEF Init, OverflowExact, Over, Queued
    <2> QED BY <2>4, <2>6, <2>7 DEF StreamInv
<1>2. StreamInv /\ [Next]_vars => StreamInv'
    <2> SUFFICES ASSUME StreamInv, [Next]_vars PROVE StreamInv'
        OBVIOUS
    <2> USE DEF Fail, StreamInv, TypeOK
    <2>1. CASE CompleteAccept
        BY <2>1, OthersStream DEF CompleteAccept
    <2>2. CASE AcceptError
        BY <2>2, OthersStream DEF AcceptError
    <2>3. CASE Ready
        BY <2>3, OthersStream DEF Ready
    <2>4. ASSUME NEW size \in Size, NEW lowPrio \in BOOLEAN, Write(size, lowPrio)
          PROVE  StreamInv'
        BY <2>4, WriteStreams
    <2>5. ASSUME NEW size \in Size, WriteOverflow(size) PROVE StreamInv'
        BY <2>5, OthersStream DEF WriteOverflow, StartDisconnect
    <2>6. ASSUME NEW k \in 1 .. MaxBytes, CompleteWrite(k) PROVE StreamInv'
        BY <2>6, CompleteWriteStreams
    <2>7. CASE WriteError
        BY <2>7, WriteErrorStreams
    <2>8. CASE PrepareRead2
        BY <2>8, OthersStream DEF PrepareRead2
    <2>9. CASE CompleteRead
        BY <2>9, OthersStream DEF CompleteRead
    <2>10. CASE ReadError
        BY <2>10, OthersStream DEF ReadError
    <2>11. CASE Disconnect
        BY <2>11, OthersStream DEF Disconnect, StartDisconnect
    <2>12. CASE Report
        BY <2>12, OthersStream DEF Report
    <2>13. CASE Close
        BY <2>13, OthersStream DEF Close
    <2>14. CASE Tick
        BY <2>14, TickStreams
    <2>15. CASE UNCHANGED vars
        BY <2>15, OthersStream DEF vars
    <2> QED BY <2>1, <2>2, <2>3, <2>4, <2>5, <2>6, <2>7, <2>8, <2>9, <2>10, <2>11,
               <2>12, <2>13, <2>14, <2>15 DEF Next
<1> QED BY <1>1, <1>2, PTL DEF Spec

\* Every variable of a connection keeps its type.
THEOREM TypeCorrect == Spec => []TypeOK
<1>1. StreamInv => TypeOK
    BY DEF StreamInv
<1> QED BY <1>1, StreamInvariant, PTL

\* SocketStream::write and completeWrite: the network gets the accepted bytes
\* in order, each once, whatever the sizes of buffers and writes; an
\* outstanding write stays the head of the queue it was started from.
THEOREM StreamExact == Spec => []Stream
<1>1. StreamInv => Stream
    BY DEF StreamInv
<1> QED BY <1>1, StreamInvariant, PTL

\* write() and completeWrite: the queue is stamped as overflowed when it is
\* beyond the limit, and never while it is below.
THEOREM OverflowIsExact == Spec => []OverflowExact
<1>1. StreamInv => OverflowExact
    BY DEF StreamInv
<1> QED BY <1>1, StreamInvariant, PTL
----------------------------------------------------------------------------
(* Commands on the wire: what is written to a socket is read again.         *)

\* The loop of parse between two characters, and behind a backslash.
At(words, cur)     == [words |-> words, cur |-> cur, escape |-> FALSE, ok |-> TRUE]
Behind(words, cur) == [words |-> words, cur |-> cur, escape |-> TRUE, ok |-> TRUE]

\* The characters that mean something, to be told from others or not.
Marks == {SP, LF, BS, "s", "n", "0xFE", "0xFF"} \cup Types

\* The parts of a concatenation.
Parts(c, s, t, S) ==
    /\ c \in Seq(S) /\ Len(s) \in Nat /\ Len(t) \in Nat
    /\ Len(c) = Len(s) + Len(t) /\ Len(c) \in Nat
    /\ \A i \in 1 .. Len(s) : c[i] = s[i]
    /\ \A i \in 1 .. Len(t) : c[Len(s) + i] = t[i]
LEMMA ConcatParts ==
    ASSUME NEW S, NEW s \in Seq(S), NEW t \in Seq(S)
    PROVE  Parts(s \o t, s, t, S)
<1>1. PICK c, n, m : c = s \o t /\ n = Len(s) /\ m = Len(t)
    OBVIOUS
<1>2. n \in Nat /\ m \in Nat
    BY <1>1, LenProperties
<1>3. /\ c \in Seq(S) /\ Len(c) = n + m
      /\ \A i \in 1 .. n + m : c[i] = IF i <= n THEN s[i] ELSE t[i - n]
    BY <1>1, ConcatProperties
<1>4. \A i \in 1 .. n : c[i] = s[i]
    BY <1>2, <1>3
<1>5. ASSUME NEW i \in 1 .. m PROVE c[n + i] = t[i]
    <2>1. n + i \in 1 .. n + m /\ ~(n + i <= n) /\ (n + i) - n = i
        BY <1>2
    <2> QED BY <1>3, <2>1
<1> QED BY <1>1, <1>2, <1>3, <1>4, <1>5 DEF Parts

\* The states after the first characters, 0 to n of them.
Steps(f, st, text, n) ==
    f = [i \in 0 .. n |-> IF i = 0 THEN st ELSE Scan(f[i - 1], text[i])]

\* There are such states.
LEMMA StepsExist ==
    ASSUME NEW st, NEW text, NEW n \in Nat
    PROVE  \E f : Steps(f, st, text, n)
<1> DEFINE T == {m \in Nat : ~ \E f : Steps(f, st, text, m)}
<1> SUFFICES ASSUME T # {} PROVE FALSE
    OBVIOUS
<1>1. PICK m \in T : \A k \in T : m <= k
    BY Least
<1>2. CASE m = 0
    <2> DEFINE f == [i \in 0 .. m |-> st]
    <2>1. f = [i \in 0 .. m |-> IF i = 0 THEN st ELSE Scan(f[i - 1], text[i])]
        BY <1>2
    <2> QED BY <1>1, <2>1 DEF Steps
<1>3. CASE m # 0
    <2>1. m \in Nat /\ m - 1 \in Nat /\ m - 1 \notin T
        BY <1>1, <1>3
    <2>2. PICK g : Steps(g, st, text, m - 1)
        BY <2>1
    <2> DEFINE f == [i \in 0 .. m |-> IF i = 0 THEN st ELSE Scan(g[i - 1], text[i])]
    <2>3. \A i \in 0 .. m - 1 : g[i] = IF i = 0 THEN st ELSE Scan(g[i - 1], text[i])
        BY <2>2, Zenon DEF Steps
    <2>4. \A i \in 0 .. m - 1 : f[i] = g[i]
        BY <2>1, <2>3
    <2>5. \A i \in 0 .. m : i # 0 => f[i - 1] = g[i - 1]
        <3> HIDE DEF f
        <3> QED BY <2>1, <2>4
    <2>6. Steps(f, st, text, m)
        BY <2>1, <2>5 DEF Steps
    <2> QED BY <1>1, <2>6
<1> QED BY <1>2, <1>3

\* The loop ends in the last of them.
LEMMA ScanDef ==
    ASSUME NEW st, NEW text, Len(text) \in Nat
    PROVE  \E f : Steps(f, st, text, Len(text)) /\ ScanFrom(st, text) = f[Len(text)]
<1> DEFINE f == CHOOSE f : Steps(f, st, text, Len(text))
<1>1. Steps(f, st, text, Len(text))
    BY StepsExist, Zenon
<1>2. ScanFrom(st, text) = f[Len(text)]
    BY Zenon DEF ScanFrom, Steps
<1> QED BY <1>1, <1>2

\* One state after the other.
Walk(f, text, n)  == \A i \in 1 .. n : f[i] = Scan(f[i - 1], text[i])
Alike(s, t, n)    == \A i \in 1 .. n : s[i] = t[i]
LEMMA StepsFacts ==
    ASSUME NEW st, NEW text, NEW n \in Nat, NEW f, Steps(f, st, text, n)
    PROVE  f[0] = st /\ Walk(f, text, n)
<1>1. \A i \in 0 .. n : f[i] = IF i = 0 THEN st ELSE Scan(f[i - 1], text[i])
    BY Zenon DEF Steps
<1> QED BY <1>1 DEF Walk

\* Two such lists of states for the same characters and from the same state.
LEMMA StepsSame ==
    ASSUME NEW n \in Nat, NEW f, NEW g, f[0] = g[0], NEW s, NEW t,
           Walk(f, s, n), Walk(g, t, n), Alike(s, t, n)
    PROVE  f[n] = g[n]
<1> DEFINE T == {i \in Nat : i <= n /\ f[i] # g[i]}
<1> SUFFICES ASSUME T # {} PROVE FALSE
    OBVIOUS
<1>1. PICK i \in T : \A k \in T : i <= k
    BY Least
<1>2. i \in Nat /\ i # 0 /\ i \in 1 .. n /\ f[i] # g[i]
    BY <1>1
<1>3. i - 1 \in Nat /\ i - 1 <= n /\ i - 1 \notin T
    BY <1>1, <1>2
<1>4. f[i - 1] = g[i - 1]
    BY <1>3
<1>5. f[i] = Scan(f[i - 1], s[i]) /\ g[i] = Scan(g[i - 1], t[i]) /\ s[i] = t[i]
    BY <1>2 DEF Walk, Alike
<1> QED BY <1>2, <1>4, <1>5

\* A text is read after another from where that one left the loop.
LEMMA ScanConcat ==
    ASSUME NEW S, NEW a \in Seq(S), NEW b \in Seq(S), NEW st
    PROVE  ScanFrom(st, a \o b) = ScanFrom(ScanFrom(st, a), b)
<1> DEFINE c == a \o b
           n == Len(a)
           m == Len(b)
<1>1. /\ n \in Nat /\ m \in Nat /\ Len(c) = n + m /\ Len(c) \in Nat
      /\ \A i \in 1 .. n : c[i] = a[i]
      /\ \A i \in 1 .. m : c[n + i] = b[i]
    BY ConcatParts DEF Parts
<1>2. PICK f : Steps(f, st, a, n) /\ ScanFrom(st, a) = f[n]
    BY <1>1, ScanDef
<1>3. PICK g : Steps(g, f[n], b, m) /\ ScanFrom(f[n], b) = g[m]
    BY <1>1, ScanDef
<1>4. PICK h : Steps(h, st, c, n + m) /\ ScanFrom(st, c) = h[n + m]
    <2>1. \E h : Steps(h, st, c, Len(c)) /\ ScanFrom(st, c) = h[Len(c)]
        BY <1>1, ScanDef
    <2> QED BY <1>1, <2>1
<1> HIDE DEF c, n, m
<1>5. h[n] = f[n]
    <2>1. f[0] = st /\ Walk(f, a, n)
        BY <1>1, <1>2, StepsFacts, Zenon
    <2>2. h[0] = st /\ Walk(h, c, n + m)
        <3>1. n + m \in Nat
            BY <1>1
        <3> QED BY <1>4, <3>1, StepsFacts, Zenon
    <2>3. Walk(h, c, n) /\ Alike(a, c, n)
        BY <1>1, <2>2 DEF Walk, Alike
    <2> QED BY <1>1, <2>1, <2>2, <2>3, StepsSame, ZenonT(60)
<1>6. h[n + m] = g[m]
    <2>1. PICK k : k = [i \in 0 .. m |-> h[n + i]]
        OBVIOUS
    <2>2. g[0] = f[n] /\ Walk(g, b, m)
        BY <1>1, <1>3, StepsFacts, Zenon
    <2>3. k[0] = g[0] /\ k[m] = h[n + m]
        <3>1. k[0] = h[n + 0] /\ k[m] = h[n + m] /\ n + 0 = n
            BY <1>1, <2>1
        <3> QED BY <1>5, <2>2, <3>1
    <2>4. ASSUME NEW i \in 1 .. m PROVE k[i] = Scan(k[i - 1], b[i])
        <3>1. n + i \in 1 .. n + m /\ (n + i) - 1 = n + (i - 1) /\ i \in 0 .. m /\ i - 1 \in 0 .. m
            BY <1>1
        <3>2. Walk(h, c, n + m)
            <4>1. n + m \in Nat
                BY <1>1
            <4> QED BY <1>4, <4>1, StepsFacts, Zenon
        <3>3. h[n + i] = Scan(h[(n + i) - 1], c[n + i])
            BY <3>1, <3>2, Zenon DEF Walk
        <3>4. k[i] = h[n + i] /\ k[i - 1] = h[n + (i - 1)] /\ c[n + i] = b[i]
            BY <1>1, <2>1, <3>1
        <3> QED BY <3>1, <3>3, <3>4
    <2>5. Walk(k, b, m) /\ Alike(b, b, m)
        BY <2>4 DEF Walk, Alike
    <2>6. k[m] = g[m]
        BY <1>1, <2>2, <2>3, <2>5, StepsSame, Zenon
    <2> QED BY <2>3, <2>6
<1> QED BY <1>2, <1>3, <1>4, <1>6 DEF c

\* No character, and one.
LEMMA ScanFew ==
    ASSUME NEW st
    PROVE  /\ ScanFrom(st, <<>>) = st
           /\ \A ch : ScanFrom(st, <<ch>>) = Scan(st, ch)
<1>1. ScanFrom(st, <<>>) = st
    <2>0. Len(<<>>) = 0 /\ 0 \in Nat
        OBVIOUS
    <2>1. PICK f : Steps(f, st, <<>>, 0) /\ ScanFrom(st, <<>>) = f[0]
        BY <2>0, ScanDef
    <2> QED BY <2>0, <2>1, StepsFacts, Zenon
<1>2. ASSUME NEW ch PROVE ScanFrom(st, <<ch>>) = Scan(st, ch)
    <2>1. Len(<<ch>>) = 1 /\ <<ch>>[1] = ch
        OBVIOUS
    <2>2. PICK f : Steps(f, st, <<ch>>, 1) /\ ScanFrom(st, <<ch>>) = f[1]
        BY <2>1, ScanDef
    <2>3. f[0] = st /\ f[1] = Scan(f[1 - 1], <<ch>>[1])
        <3>1. f[0] = st /\ Walk(f, <<ch>>, 1)
            BY <2>2, StepsFacts
        <3> QED BY <3>1 DEF Walk
    <2> QED BY <2>1, <2>2, <2>3
<1> QED BY <1>1, <1>2

\* What is escaped, and how.
LEMMA EscapedIs ==
    /\ Escaped(SP) = <<BS, "s">> /\ Escaped(LF) = <<BS, "n">> /\ Escaped(BS) = <<BS, BS>>
    /\ \A ch : ch \notin {SP, LF, BS} => Escaped(ch) = <<ch>>
<1>1. SP # LF /\ SP # BS /\ LF # BS
    BY DEF SP, LF, BS
<1>2. \A e \in Escapes : /\ e[1] = SP <=> e = <<SP, "s">>
                         /\ e[1] = LF <=> e = <<LF, "n">>
                         /\ e[1] = BS <=> e = <<BS, BS>>
                         /\ e[1] \in {SP, LF, BS}
    BY <1>1 DEF Escapes
<1>3. <<SP, "s">> \in Escapes /\ <<LF, "n">> \in Escapes /\ <<BS, BS>> \in Escapes
    BY DEF Escapes
<1>4. /\ (CHOOSE e \in Escapes : e[1] = SP) = <<SP, "s">>
      /\ (CHOOSE e \in Escapes : e[1] = LF) = <<LF, "n">>
      /\ (CHOOSE e \in Escapes : e[1] = BS) = <<BS, BS>>
    BY <1>2, <1>3
<1>5. \A ch : ch \notin {SP, LF, BS} => Escaped(ch) = <<ch>>
    BY <1>2 DEF Escaped
<1>6. Escaped(SP) = <<BS, "s">> /\ Escaped(LF) = <<BS, "n">> /\ Escaped(BS) = <<BS, BS>>
    BY <1>2, <1>3, <1>4 DEF Escaped
<1> QED BY <1>5, <1>6

\* How one character moves the loop.
LEMMA ScanIs ==
    ASSUME NEW words, NEW cur
    PROVE  /\ Scan(At(words, cur), BS) = Behind(words, cur)
           /\ Scan(At(words, cur), SP) = At(Append(words, cur), <<>>)
           /\ \A ch : ch \notin {SP, BS} => Scan(At(words, cur), ch) = At(words, Append(cur, ch))
           /\ Scan(Behind(words, cur), "s") = At(words, Append(cur, SP))
           /\ Scan(Behind(words, cur), "n") = At(words, Append(cur, LF))
           /\ Scan(Behind(words, cur), BS) = At(words, Append(cur, BS))
<1>1. SP # BS /\ "s" # "n" /\ "s" # BS /\ "n" # BS
    BY DEF SP, BS
<1>2. \A e \in Escapes : /\ e[2] = "s" <=> e = <<SP, "s">>
                         /\ e[2] = "n" <=> e = <<LF, "n">>
                         /\ e[2] = BS <=> e = <<BS, BS>>
    BY <1>1 DEF Escapes
<1>3. <<SP, "s">> \in Escapes /\ <<LF, "n">> \in Escapes /\ <<BS, BS>> \in Escapes
    BY DEF Escapes
<1>4. /\ (CHOOSE e \in Escapes : e[2] = "s") = <<SP, "s">>
      /\ (CHOOSE e \in Escapes : e[2] = "n") = <<LF, "n">>
      /\ (CHOOSE e \in Escapes : e[2] = BS) = <<BS, BS>>
    BY <1>2, <1>3
<1>5. Scan(At(words, cur), BS) = Behind(words, cur)
    <2>1. At(words, cur).escape = FALSE
        BY DEF At
    <2>2. Scan(At(words, cur), BS) = [At(words, cur) EXCEPT !.escape = TRUE]
        BY <1>1, <2>1 DEF Scan
    <2> QED BY <2>2 DEF At, Behind
<1>6. Scan(At(words, cur), SP) = At(Append(words, cur), <<>>)
    BY <1>1 DEF Scan, At
<1>7. \A ch : ch \notin {SP, BS} => Scan(At(words, cur), ch) = At(words, Append(cur, ch))
    BY DEF Scan, At
<1>8. ASSUME NEW e \in Escapes, (CHOOSE d \in Escapes : d[2] = e[2]) = e
      PROVE  Scan(Behind(words, cur), e[2]) = At(words, Append(cur, e[1]))
    <2>1. \E d \in Escapes : d[2] = e[2]
        OBVIOUS
    <2> QED BY <1>8, <2>1 DEF Scan, At, Behind
<1>9. /\ Scan(Behind(words, cur), "s") = At(words, Append(cur, SP))
      /\ Scan(Behind(words, cur), "n") = At(words, Append(cur, LF))
      /\ Scan(Behind(words, cur), BS) = At(words, Append(cur, BS))
    BY <1>3, <1>4, <1>8
<1> QED BY <1>5, <1>6, <1>7, <1>9

\* The last element of a list, and those before it.
LEMMA FrontLast ==
    ASSUME NEW S, NEW s \in Seq(S), NEW x \in S
    PROVE  Front(Append(s, x)) = s /\ Last(Append(s, x)) = x
<1>1. PICK t : t = Append(s, x)
    OBVIOUS
<1>2. /\ t \in Seq(S) /\ Len(t) = Len(s) + 1 /\ Len(s) \in Nat /\ t[Len(s) + 1] = x
      /\ \A i \in 1 .. Len(s) : t[i] = s[i]
    BY <1>1, AppendProperties, LenProperties
<1>3. SubSeq(t, 1, Len(t) - 1) = s
    BY <1>2
<1> QED BY <1>1, <1>2, <1>3 DEF Front, Last

\* An element joins the second of two lists.
Joins(S, s) == \A t \in Seq(S), x \in S : Append(Cat(s, t), x) = Cat(s, Append(t, x))
LEMMA AppendCat ==
    ASSUME NEW S, NEW s \in Seq(S)
    PROVE  Joins(S, s)
<1> SUFFICES ASSUME NEW t \in Seq(S), NEW x \in S
             PROVE  Append(Cat(s, t), x) = Cat(s, Append(t, x))
    BY DEF Joins
<1>1. s \in Lists(S) /\ t \in Lists(S) /\ <<x>> \in Lists(S)
    BY DEF Lists
<1>2. Cat(Cat(s, t), <<x>>) = Cat(s, Cat(t, <<x>>))
    BY <1>1, CatAssociative
<1>3. (s \o t) \o <<x>> = s \o (t \o <<x>>)
    BY <1>2 DEF Cat
<1>4. s \o t \in Seq(S)
    BY ConcatProperties
<1>5. Append(s \o t, x) = (s \o t) \o <<x>>
    BY <1>4, AppendIsConcat
<1>6. Append(t, x) = t \o <<x>>
    BY AppendIsConcat
<1> QED BY <1>3, <1>5, <1>6 DEF Cat

\* Escaping, one character after the other.
LEMMA EscapeIs ==
    ASSUME NEW S, Marks \subseteq S
    PROVE  /\ Escape(<<>>) = <<>>
           /\ \A t \in Seq(S) : Escape(t) \in Seq(S)
           /\ \A ch \in S : Escaped(ch) \in Seq(S)
           /\ \A t \in Seq(S), ch \in S : Escape(Append(t, ch)) = Escape(t) \o Escaped(ch)
<1>1. {SP, LF, BS, "s", "n"} \subseteq S
    BY DEF Marks
<1>2. ASSUME NEW ch \in S PROVE Escaped(ch) \in Seq(S)
    <2>1. /\ <<BS, "s">> \in Seq(S) /\ <<BS, "n">> \in Seq(S) /\ <<BS, BS>> \in Seq(S)
          /\ <<ch>> \in Seq(S)
        BY <1>1
    <2>2. Escaped(ch) \in {<<BS, "s">>, <<BS, "n">>, <<BS, BS>>, <<ch>>}
        BY EscapedIs, Zenon
    <2> QED BY <2>1, <2>2
<1> DEFINE M(t) == [i \in DOMAIN t |-> Escaped(t[i])]
<1>3. ASSUME NEW t \in Seq(S)
      PROVE  M(t) \in Seq(Seq(S)) /\ Len(M(t)) = Len(t) /\ \A i \in 1 .. Len(t) : M(t)[i] = Escaped(t[i])
    <2>1. DOMAIN t = 1 .. Len(t) /\ Len(t) \in Nat /\ \A i \in 1 .. Len(t) : t[i] \in S
        OBVIOUS
    <2>2. \A i \in 1 .. Len(t) : Escaped(t[i]) \in Seq(S)
        BY <1>2, <2>1
    <2> QED BY <2>1, <2>2
<1>4. Escape(<<>>) = <<>>
    <2>1. M(<<>>) = <<>>
        OBVIOUS
    <2>2. FlattenSeq(<<>>) = <<>>
        <3>1. <<>> \in Seq(Seq(S))
            OBVIOUS
        <3> QED BY <3>1, FlatList, Zenon
    <2> HIDE DEF M
    <2> QED BY <2>1, <2>2, Zenon DEF Escape, M
<1>5. ASSUME NEW t \in Seq(S) PROVE Escape(t) \in Seq(S)
    <2>1. M(t) \in Seq(Seq(S))
        BY <1>3
    <2> HIDE DEF M
    <2>2. FlattenSeq(M(t)) \in Seq(S)
        BY <2>1, FlatList
    <2> QED BY <2>2 DEF Escape, M
<1>6. ASSUME NEW t \in Seq(S), NEW ch \in S
      PROVE  Escape(Append(t, ch)) = Escape(t) \o Escaped(ch)
    <2>1. PICK u : u = Append(t, ch)
        OBVIOUS
    <2>2. /\ u \in Seq(S) /\ Len(u) = Len(t) + 1 /\ Len(t) \in Nat /\ u[Len(t) + 1] = ch
          /\ \A i \in 1 .. Len(t) : u[i] = t[i]
        BY <2>1, AppendProperties, LenProperties
    <2>3. /\ M(u) \in Seq(Seq(S)) /\ Len(M(u)) = Len(u) /\ \A i \in 1 .. Len(u) : M(u)[i] = Escaped(u[i])
          /\ M(t) \in Seq(Seq(S)) /\ Len(M(t)) = Len(t) /\ \A i \in 1 .. Len(t) : M(t)[i] = Escaped(t[i])
        BY <1>3, <2>2
    <2>4. PICK v : v = Append(M(t), Escaped(ch))
        OBVIOUS
    <2> HIDE DEF M
    <2>5. /\ v \in Seq(Seq(S)) /\ Len(v) = Len(t) + 1 /\ v[Len(t) + 1] = Escaped(ch)
          /\ \A i \in 1 .. Len(t) : v[i] = M(t)[i]
        BY <1>2, <2>3, <2>4, AppendProperties
    <2>6. ASSUME NEW i \in 1 .. Len(t) + 1 PROVE M(u)[i] = v[i]
        <3>1. i \in 1 .. Len(t) \/ i = Len(t) + 1
            BY <2>2
        <3>2. M(u)[i] = Escaped(u[i])
            BY <2>2, <2>3
        <3> QED BY <2>2, <2>3, <2>5, <3>1, <3>2, Zenon
    <2>7. M(u) = v
        BY <2>2, <2>3, <2>5, <2>6, SeqEqual
    <2>8. FlattenSeq(v) = FlattenSeq(M(t)) \o Escaped(ch)
        BY <1>2, <2>3, <2>4, FlatAppend
    <2> QED BY <2>1, <2>7, <2>8 DEF Escape, M
<1> QED BY <1>2, <1>4, <1>5, <1>6

\* The spelling w of a text: behind the space that ends the word before it, it
\* is read as the text.
Spells(w, text, S) ==
    /\ w \in Seq(S) /\ text \in Seq(S)
    /\ \A words : ScanFrom(At(words, <<>>), w) = At(words, text)

\* The escaped text spells it.
LEMMA EscapeSpells ==
    ASSUME NEW S, Marks \subseteq S, NEW text \in Seq(S)
    PROVE  Spells(Escape(text), text, S)
<1> DEFINE T == {n \in Nat : \E t \in Seq(S) : Len(t) = n /\ ~Spells(Escape(t), t, S)}
<1>0. SUFFICES T = {}
    BY LenProperties
<1> SUFFICES ASSUME T # {} PROVE FALSE
    OBVIOUS
<1>1. PICK n \in T : \A k \in T : n <= k
    <2>1. T \in SUBSET Nat
        OBVIOUS
    <2> HIDE DEF T
    <2> QED BY <2>1, Least
<1>2. PICK t \in Seq(S) : Len(t) = n /\ ~Spells(Escape(t), t, S)
    BY <1>1
<1>3. t # <<>>
    <2> SUFFICES ASSUME t = <<>> PROVE Spells(Escape(t), t, S)
        BY <1>2
    <2>1. Escape(t) = <<>> /\ <<>> \in Seq(S)
        BY EscapeIs
    <2> QED BY <2>1, ScanFew DEF Spells
<1>4. PICK d \in Seq(S), x \in S : t = Append(d, x)
    BY <1>3, SequenceEmptyOrAppend
<1>5. Spells(Escape(d), d, S)
    <2>1. Len(d) \in Nat /\ Len(t) = Len(d) + 1
        BY <1>4, AppendProperties, LenProperties
    <2>2. Len(d) \notin T
        <3> HIDE DEF T
        <3> QED BY <1>1, <1>2, <2>1
    <2> QED BY <2>1, <2>2
<1>6. Escape(t) = Escape(d) \o Escaped(x) /\ Escape(d) \in Seq(S) /\ Escape(t) \in Seq(S)
      /\ Escaped(x) \in Seq(S)
    BY <1>4, EscapeIs
<1>7. ASSUME NEW words PROVE ScanFrom(At(words, <<>>), Escape(t)) = At(words, t)
    <2>1. ScanFrom(At(words, <<>>), Escape(t)) = ScanFrom(At(words, d), Escaped(x))
        BY <1>5, <1>6, ScanConcat DEF Spells
    <2>2. ScanFrom(At(words, d), Escaped(x)) = At(words, Append(d, x))
        <3>1. ASSUME NEW y \in {"s", "n", BS}, Escaped(x) = <<BS, y>>,
                     Scan(Behind(words, d), y) = At(words, Append(d, x))
              PROVE  ScanFrom(At(words, d), Escaped(x)) = At(words, Append(d, x))
            <4>1. <<BS>> \in Seq(S) /\ <<y>> \in Seq(S) /\ <<BS, y>> = <<BS>> \o <<y>>
                BY DEF Marks
            <4>2. ScanFrom(At(words, d), <<BS>> \o <<y>>) = ScanFrom(ScanFrom(At(words, d), <<BS>>), <<y>>)
                BY <4>1, ScanConcat, Zenon
            <4>3. ScanFrom(At(words, d), <<BS>>) = Behind(words, d)
                <5>1. Scan(At(words, d), BS) = Behind(words, d)
                    BY ScanIs
                <5> QED BY <5>1, ScanFew, Zenon
            <4>4. ScanFrom(Behind(words, d), <<y>>) = Scan(Behind(words, d), y)
                BY ScanFew, Zenon
            <4> QED BY <3>1, <4>1, <4>2, <4>3, <4>4, Zenon
        <3>2. CASE x \in {SP, LF, BS}
            <4>1. /\ Scan(Behind(words, d), "s") = At(words, Append(d, SP))
                  /\ Scan(Behind(words, d), "n") = At(words, Append(d, LF))
                  /\ Scan(Behind(words, d), BS) = At(words, Append(d, BS))
                BY ScanIs, Zenon
            <4> QED BY <3>1, <3>2, <4>1, EscapedIs
        <3>3. CASE x \notin {SP, LF, BS}
            <4>1. Escaped(x) = <<x>>
                BY <3>3, EscapedIs, Zenon
            <4>2. Scan(At(words, d), x) = At(words, Append(d, x))
                <5>1. x \notin {SP, BS}
                    BY <3>3
                <5> QED BY <5>1, ScanIs
            <4> QED BY <4>1, <4>2, ScanFew, Zenon
        <3> QED BY <3>2, <3>3
    <2> QED BY <1>4, <2>1, <2>2
<1> QED BY <1>2, <1>6, <1>7 DEF Spells

\* A text with nothing to escape spells itself.
LEMMA PlainSpells ==
    ASSUME NEW S, Marks \subseteq S, NEW text \in Seq(S), Plain(text)
    PROVE  Spells(text, text, S)
<1> DEFINE T == {n \in Nat : \E t \in Seq(S) : Len(t) = n /\ Plain(t) /\ Escape(t) # t}
<1>0. SUFFICES T = {}
    BY LenProperties, EscapeSpells
<1> SUFFICES ASSUME T # {} PROVE FALSE
    OBVIOUS
<1>1. PICK n \in T : \A k \in T : n <= k
    <2>1. T \in SUBSET Nat
        OBVIOUS
    <2> HIDE DEF T
    <2> QED BY <2>1, Least
<1>2. PICK t \in Seq(S) : Len(t) = n /\ Plain(t) /\ Escape(t) # t
    BY <1>1
<1>3. t # <<>>
    BY <1>2, EscapeIs
<1>4. PICK d \in Seq(S), x \in S : t = Append(d, x)
    BY <1>3, SequenceEmptyOrAppend
<1>5. /\ Len(d) \in Nat /\ Len(t) = Len(d) + 1 /\ t[Len(d) + 1] = x
      /\ \A i \in 1 .. Len(d) : t[i] = d[i]
    BY <1>4, AppendProperties, LenProperties
<1>6. Plain(d) /\ x \notin {SP, LF, BS}
    <2>1. \A i \in 1 .. Len(d) + 1 : t[i] \notin {SP, LF, BS}
        <3>1. DOMAIN t = 1 .. Len(d) + 1
            BY <1>2, <1>5
        <3> QED BY <1>2, <3>1 DEF Plain, ToSet
    <2>2. x \notin {SP, LF, BS}
        BY <1>5, <2>1
    <2>3. \A i \in 1 .. Len(d) : d[i] \notin {SP, LF, BS}
        BY <1>5, <2>1
    <2> QED BY <2>2, <2>3 DEF Plain, ToSet
<1>7. Escape(d) = d
    <2>1. Len(d) \notin T
        <3> HIDE DEF T
        <3> QED BY <1>1, <1>2, <1>5
    <2> QED BY <1>5, <1>6, <2>1
<1>8. Escape(t) = d \o <<x>> /\ t = d \o <<x>>
    <2>1. Escape(Append(d, x)) = Escape(d) \o Escaped(x)
        BY EscapeIs, Zenon
    <2>2. Escaped(x) = <<x>>
        BY <1>6, EscapedIs, Zenon
    <2>3. Append(d, x) = d \o <<x>>
        BY AppendIsConcat
    <2> QED BY <1>4, <1>7, <2>1, <2>2, <2>3, Zenon
<1> QED BY <1>2, <1>8

\* Words behind spaces, one after the other.
LEMMA JoinedIs ==
    ASSUME NEW S, Marks \subseteq S
    PROVE  /\ Joined(<<>>) = <<>>
           /\ \A ws \in Seq(Seq(S)) : Joined(ws) \in Seq(S)
           /\ \A ws \in Seq(Seq(S)), w \in Seq(S) :
                 Joined(Append(ws, w)) = Joined(ws) \o (<<SP>> \o w)
<1>1. <<SP>> \in Seq(S)
    BY DEF Marks
<1>2. \A w \in Seq(S) : <<SP>> \o w \in Seq(S)
    BY <1>1, ConcatProperties
<1> DEFINE M(t) == [i \in DOMAIN t |-> <<SP>> \o t[i]]
<1>3. ASSUME NEW t \in Seq(Seq(S))
      PROVE  M(t) \in Seq(Seq(S)) /\ Len(M(t)) = Len(t) /\ \A i \in 1 .. Len(t) : M(t)[i] = <<SP>> \o t[i]
    <2>1. DOMAIN t = 1 .. Len(t) /\ Len(t) \in Nat /\ \A i \in 1 .. Len(t) : t[i] \in Seq(S)
        BY LenProperties, ElementOfSeq
    <2>2. \A i \in 1 .. Len(t) : <<SP>> \o t[i] \in Seq(S)
        BY <1>2, <2>1
    <2> QED BY <2>1, <2>2
<1>4. Joined(<<>>) = <<>>
    <2>1. M(<<>>) = <<>>
        OBVIOUS
    <2>2. FlattenSeq(<<>>) = <<>>
        <3>1. <<>> \in Seq(Seq(S))
            OBVIOUS
        <3> QED BY <3>1, FlatList, Zenon
    <2> HIDE DEF M
    <2> QED BY <2>1, <2>2, Zenon DEF Joined, M
<1>5. ASSUME NEW t \in Seq(Seq(S)) PROVE Joined(t) \in Seq(S)
    <2>1. M(t) \in Seq(Seq(S))
        BY <1>3
    <2> HIDE DEF M
    <2>2. FlattenSeq(M(t)) \in Seq(S)
        BY <2>1, FlatList
    <2> QED BY <2>2 DEF Joined, M
<1>6. ASSUME NEW t \in Seq(Seq(S)), NEW w \in Seq(S)
      PROVE  Joined(Append(t, w)) = Joined(t) \o (<<SP>> \o w)
    <2>1. PICK u : u = Append(t, w)
        OBVIOUS
    <2>2. /\ u \in Seq(Seq(S)) /\ Len(u) = Len(t) + 1 /\ Len(t) \in Nat /\ u[Len(t) + 1] = w
          /\ \A i \in 1 .. Len(t) : u[i] = t[i]
        BY <2>1, AppendProperties, LenProperties
    <2>3. /\ M(u) \in Seq(Seq(S)) /\ Len(M(u)) = Len(u) /\ \A i \in 1 .. Len(u) : M(u)[i] = <<SP>> \o u[i]
          /\ M(t) \in Seq(Seq(S)) /\ Len(M(t)) = Len(t) /\ \A i \in 1 .. Len(t) : M(t)[i] = <<SP>> \o t[i]
        BY <1>3, <2>2
    <2>4. PICK x, v : x = <<SP>> \o w /\ v = Append(M(t), x)
        OBVIOUS
    <2>x. x \in Seq(S)
        BY <1>2, <2>4
    <2> HIDE DEF M
    <2>5. /\ v \in Seq(Seq(S)) /\ Len(v) = Len(t) + 1 /\ v[Len(t) + 1] = x
          /\ \A i \in 1 .. Len(t) : v[i] = M(t)[i]
        BY <2>3, <2>4, <2>x, AppendProperties
    <2>6. ASSUME NEW i \in 1 .. Len(t) + 1 PROVE M(u)[i] = v[i]
        <3>1. i \in 1 .. Len(t) \/ i = Len(t) + 1
            BY <2>2
        <3>2. M(u)[i] = <<SP>> \o u[i]
            BY <2>2, <2>3
        <3> QED BY <2>2, <2>3, <2>4, <2>5, <3>1, <3>2, Zenon
    <2>7. M(u) = v
        BY <2>2, <2>3, <2>5, <2>6, SeqEqual
    <2>8. FlattenSeq(v) = FlattenSeq(M(t)) \o x
        BY <2>3, <2>4, <2>x, FlatAppend
    <2> QED BY <2>1, <2>4, <2>7, <2>8 DEF Joined, M
<1> QED BY <1>4, <1>5, <1>6

\* Words behind spaces are read as what they spell; the last is not ended.
LEMMA ScanJoined ==
    ASSUME NEW S, Marks \subseteq S,
           NEW ws \in Seq(Seq(S)), NEW ts \in Seq(Seq(S)), ws # <<>>, Len(ts) = Len(ws),
           \A i \in 1 .. Len(ws) : Spells(ws[i], ts[i], S)
    PROVE  \E body \in Seq(S) :
              /\ Joined(ws) = <<SP>> \o body
              /\ Scanned(body) = At(Front(ts), Last(ts))
<1> DEFINE Start == At(<<>>, <<>>)
           Read(u, v) == \E body \in Seq(S) :
                            /\ Joined(u) = <<SP>> \o body
                            /\ ScanFrom(Start, body) = At(Front(v), Last(v))
           Pair(u, v) == Len(u) = Len(v) /\ \A i \in 1 .. Len(u) : Spells(u[i], v[i], S)
           T == {n \in Nat : \E u, v \in Seq(Seq(S)) :
                    Len(u) = n /\ u # <<>> /\ Pair(u, v) /\ ~Read(u, v)}
<1>0. SUFFICES T = {}
    BY LenProperties DEF Scanned, At
<1> SUFFICES ASSUME T # {} PROVE FALSE
    OBVIOUS
<1>1. PICK n \in T : \A k \in T : n <= k
    <2>1. T \in SUBSET Nat
        OBVIOUS
    <2> HIDE DEF T
    <2> QED BY <2>1, Least
<1>2. PICK u, v \in Seq(Seq(S)) : Len(u) = n /\ u # <<>> /\ Pair(u, v) /\ ~Read(u, v)
    BY <1>1
<1>3. v # <<>>
    BY <1>2, EmptySeq
<1>4. PICK us \in Seq(Seq(S)), w \in Seq(S) : u = Append(us, w)
    BY <1>2, SequenceEmptyOrAppend
<1>5. PICK vs \in Seq(Seq(S)), t \in Seq(S) : v = Append(vs, t)
    BY <1>3, SequenceEmptyOrAppend
<1>6. /\ Len(us) \in Nat /\ Len(u) = Len(us) + 1 /\ u[Len(us) + 1] = w
      /\ \A i \in 1 .. Len(us) : u[i] = us[i]
    BY <1>4, AppendProperties, LenProperties
<1>7. /\ Len(vs) \in Nat /\ Len(v) = Len(vs) + 1 /\ v[Len(vs) + 1] = t
      /\ \A i \in 1 .. Len(vs) : v[i] = vs[i]
    BY <1>5, AppendProperties, LenProperties
<1>8. Len(us) = Len(vs)
    <2>1. Len(u) = Len(v)
        BY <1>2
    <2> QED BY <1>6, <1>7, <2>1
<1>9. Pair(us, vs) /\ Spells(w, t, S)
    <2>1. \A i \in 1 .. Len(us) + 1 : Spells(u[i], v[i], S)
        BY <1>2, <1>6
    <2>2. ASSUME NEW i \in 1 .. Len(us) PROVE Spells(us[i], vs[i], S)
        <3>1. i \in 1 .. Len(us) + 1 /\ i \in 1 .. Len(vs)
            BY <1>6, <1>8
        <3> QED BY <1>6, <1>7, <2>1, <3>1, Zenon
    <2>3. Len(us) + 1 \in 1 .. Len(us) + 1
        BY <1>6
    <2>4. Spells(w, t, S)
        BY <1>6, <1>7, <1>8, <2>1, <2>3, Zenon
    <2> QED BY <1>8, <2>2, <2>4
<1>10. /\ Joined(u) = Joined(us) \o (<<SP>> \o w) /\ Joined(us) \in Seq(S)
       /\ <<SP>> \in Seq(S) /\ <<SP>> \o w \in Seq(S)
    <2>1. <<SP>> \in Seq(S)
        BY DEF Marks
    <2>2. <<SP>> \o w \in Seq(S)
        BY <2>1, ConcatProperties
    <2> QED BY <1>4, <2>1, <2>2, JoinedIs
<1>11. Front(v) = vs /\ Last(v) = t
    BY <1>5, FrontLast
<1>12. \A words : ScanFrom(At(words, <<>>), w) = At(words, t)
    BY <1>9 DEF Spells
<1>13. CASE us = <<>>
    <2>1. Joined(us) = <<>> /\ <<>> \o (<<SP>> \o w) = <<SP>> \o w
        BY <1>10, <1>13, JoinedIs, ConcatEmptySeq
    <2>2. vs = <<>>
        <3>1. Len(us) = 0
            BY <1>13
        <3> QED BY <1>8, <3>1, EmptySeq
    <2>3. Joined(u) = <<SP>> \o w
        BY <1>10, <2>1
    <2>4. ScanFrom(Start, w) = At(Front(v), Last(v))
        BY <1>11, <1>12, <2>2
    <2> QED BY <1>2, <2>3, <2>4
<1>14. CASE us # <<>>
    <2>1. Read(us, vs)
        <3>1. Len(us) \notin T
            <4> HIDE DEF T
            <4> QED BY <1>1, <1>2, <1>6
        <3> QED BY <1>6, <1>9, <1>14, <3>1
    <2>2. PICK body \in Seq(S) : /\ Joined(us) = <<SP>> \o body
                                 /\ ScanFrom(Start, body) = At(Front(vs), Last(vs))
        BY <2>1
    <2>3. PICK next : next = body \o (<<SP>> \o w)
        OBVIOUS
    <2>4. next \in Seq(S)
        BY <1>10, <2>3, ConcatProperties
    <2>5. Joined(u) = <<SP>> \o next
        <3>1. PICK a, c : a = <<SP>> /\ c = <<SP>> \o w
            OBVIOUS
        <3>2. a \in Lists(S) /\ body \in Lists(S) /\ c \in Lists(S)
            BY <1>10, <3>1 DEF Lists
        <3>3. Cat(Cat(a, body), c) = Cat(a, Cat(body, c))
            BY <3>2, CatAssociative
        <3>4. (a \o body) \o c = a \o (body \o c)
            BY <3>3 DEF Cat
        <3> QED BY <1>10, <2>2, <2>3, <3>1, <3>4, Zenon
    <2>6. vs # <<>>
        BY <1>8, <1>14, EmptySeq
    <2>7. Append(Front(vs), Last(vs)) = vs
        <3>1. PICK r \in Seq(Seq(S)), x \in Seq(S) : vs = Append(r, x)
            BY <2>6, SequenceEmptyOrAppend
        <3>2. Front(vs) = r /\ Last(vs) = x
            BY <3>1, FrontLast
        <3> QED BY <3>1, <3>2
    <2>8. ScanFrom(Start, next) = At(vs, t)
        <3>1. ScanFrom(Start, next) = ScanFrom(ScanFrom(Start, body), <<SP>> \o w)
            BY <1>10, <2>3, ScanConcat
        <3>2. \A st : ScanFrom(st, <<SP>> \o w) = ScanFrom(ScanFrom(st, <<SP>>), w)
            BY <1>10, ScanConcat
        <3>3. ScanFrom(At(Front(vs), Last(vs)), <<SP>>) = At(vs, <<>>)
            <4>1. Scan(At(Front(vs), Last(vs)), SP) = At(Append(Front(vs), Last(vs)), <<>>)
                BY ScanIs
            <4> QED BY <2>7, <4>1, ScanFew, Zenon
        <3>4. ScanFrom(At(vs, <<>>), w) = At(vs, t)
            BY <1>12
        <3> QED BY <2>2, <3>1, <3>2, <3>3, <3>4, Zenon
    <2>9. Read(u, v)
        BY <1>11, <2>4, <2>5, <2>8
    <2> QED BY <1>2, <2>9
<1> QED BY <1>13, <1>14

\* Commands of the program: a command made of characters of S.
Command(S) ==
    [type : Types, cmd : Seq(S), from : Seq(S), to : Seq(S), features : Seq(S),
     params : Seq(Seq(S))]

\* A line, and the line taken apart.
Taken(line, type, cmd, body) ==
    /\ Len(line) >= 5 /\ line[1] = type /\ line[5] = SP
    /\ SubSeq(line, 2, 4) = cmd
    /\ SubSeq(line, 6, Len(line) - 1) = body
Line(type, cmd, body) == <<type>> \o cmd \o (<<SP>> \o body) \o <<LF>>

LEMMA LineParts ==
    ASSUME NEW S, Marks \subseteq S, NEW type \in S, NEW cmd \in Seq(S), Len(cmd) = 3,
           NEW body \in Seq(S), NEW line, line = Line(type, cmd, body)
    PROVE  Taken(line, type, cmd, body)
<1> DEFINE a == <<type>> \o cmd
           b == <<SP>> \o body
           c == a \o b
           m == Len(body)
<1>0. line = c \o <<LF>>
    BY DEF Line
<1>1. <<type>> \in Seq(S) /\ <<SP>> \in Seq(S) /\ <<LF>> \in Seq(S) /\ m \in Nat
    BY LenProperties DEF Marks
<1> HIDE DEF a, b, c, m
<1>2. /\ a \in Seq(S) /\ Len(a) = 4 /\ a[1] = type
      /\ \A i \in 1 .. 3 : a[1 + i] = cmd[i]
    <2>1. Len(<<type>>) = 1 /\ <<type>>[1] = type
        OBVIOUS
    <2>2. Parts(a, <<type>>, cmd, S)
        BY <1>1, ConcatParts, Zenon DEF a
    <2> QED BY <2>1, <2>2 DEF Parts
<1>3. /\ b \in Seq(S) /\ Len(b) = 1 + m /\ b[1] = SP
      /\ \A i \in 1 .. m : b[1 + i] = body[i]
    <2>1. Len(<<SP>>) = 1 /\ <<SP>>[1] = SP
        OBVIOUS
    <2>2. Parts(b, <<SP>>, body, S)
        BY <1>1, ConcatParts, Zenon DEF b
    <2> QED BY <2>1, <2>2 DEF Parts, m
<1>4. /\ c \in Seq(S) /\ Len(c) = 4 + (1 + m)
      /\ \A i \in 1 .. 4 : c[i] = a[i]
      /\ \A i \in 1 .. 1 + m : c[4 + i] = b[i]
    <2>1. Parts(c, a, b, S)
        BY <1>2, <1>3, ConcatParts, Zenon DEF c
    <2> QED BY <1>2, <1>3, <2>1 DEF Parts
<1>5. /\ line \in Seq(S) /\ Len(line) = m + 6
      /\ \A i \in 1 .. m + 5 : line[i] = c[i]
    <2>1. Parts(line, c, <<LF>>, S) /\ Len(<<LF>>) = 1
        BY <1>0, <1>1, <1>4, ConcatParts, Zenon
    <2> QED BY <1>1, <1>4, <2>1 DEF Parts
<1>6. line[1] = type /\ line[5] = SP
    <2>1. 1 \in 1 .. m + 5 /\ 5 \in 1 .. m + 5 /\ 1 \in 1 .. 1 + m /\ 4 + 1 = 5 /\ 1 \in 1 .. 4
        BY <1>1
    <2>2. line[1] = a[1] /\ line[5] = b[1]
        BY <1>4, <1>5, <2>1
    <2> QED BY <1>2, <1>3, <2>2
<1>7. SubSeq(line, 2, 4) = cmd
    <2>1. PICK s : s = SubSeq(line, 2, 4)
        OBVIOUS
    <2>2. \A i \in 2 .. 4 : line[i] = a[i] /\ line[i] \in S
        BY <1>1, <1>4, <1>5
    <2>3. s \in Seq(S) /\ Len(s) = 3 /\ \A i \in 1 .. 3 : s[i] = line[2 + i - 1]
        BY <2>1, <2>2, SubSeqProperties
    <2>4. ASSUME NEW i \in 1 .. 3 PROVE s[i] = cmd[i]
        <3>1. 2 + i - 1 = 1 + i /\ 1 + i \in 2 .. 4
            OBVIOUS
        <3> QED BY <1>2, <2>2, <2>3, <3>1
    <2>5. s = cmd
        BY <2>3, <2>4, SeqEqual
    <2> QED BY <2>1, <2>5
<1>8. SubSeq(line, 6, Len(line) - 1) = body
    <2>1. PICK s, k : k = m + 5 /\ s = SubSeq(line, 6, k)
        OBVIOUS
    <2>2. 6 \in Int /\ k \in Int /\ \A i \in 6 .. k : line[i] \in S
        BY <1>1, <1>5, <2>1
    <2>3. s \in Seq(S) /\ Len(s) = m /\ \A i \in 1 .. m : s[i] = line[6 + i - 1]
        <3>1. /\ s \in Seq(S)
              /\ Len(s) = IF 6 <= k THEN k - 6 + 1 ELSE 0
              /\ \A i \in 1 .. k - 6 + 1 : s[i] = line[6 + i - 1]
            BY <2>1, <2>2, SubSeqProperties
        <3>2. k - 6 + 1 = m /\ (6 <= k <=> m # 0)
            BY <1>1, <2>1
        <3> QED BY <1>1, <3>1, <3>2
    <2>4. ASSUME NEW i \in 1 .. m PROVE s[i] = body[i]
        <3>1. 6 + i - 1 = 4 + (1 + i) /\ 1 + i \in 1 .. 1 + m /\ 4 + (1 + i) \in 1 .. m + 5
            BY <1>1
        <3>2. line[4 + (1 + i)] = b[1 + i]
            BY <1>4, <1>5, <3>1
        <3> QED BY <1>3, <2>3, <3>1, <3>2
    <2>5. s = body
        BY <2>3, <2>4, SeqEqual DEF m
    <2>6. Len(line) - 1 = m + 5
        BY <1>1, <1>5
    <2> QED BY <2>1, <2>5, <2>6
<1>9. Len(line) >= 5
    BY <1>1, <1>5
<1> QED BY <1>6, <1>7, <1>8, <1>9 DEF Taken

\* The words before the parameters: how many, which, and that they are plain.
LEMMA HeadingIs ==
    ASSUME NEW S, Marks \subseteq S, NEW c \in Command(S), WellFormed(c)
    PROVE  /\ Heading(c) \in Seq(Seq(S)) /\ Len(Heading(c)) = HeadWords(c.type)
           /\ HasFrom(c.type) => Len(Heading(c)) >= 1 /\ Heading(c)[1] = c.from
           /\ HasTo(c.type) => Len(Heading(c)) = 2 /\ Heading(c)[2] = c.to
           /\ HasFeatures(c.type) => Len(Heading(c)) = 2 /\ Heading(c)[2] = c.features
           /\ \A i \in 1 .. Len(Heading(c)) : Plain(Heading(c)[i])
           /\ HasFrom(c.type) /\ (HasFeatures(c.type) => c.features # <<>>)
                  => Heading(c) # <<>> /\ Last(Heading(c)) # <<>>
<1>0. /\ c.from \in Seq(S) /\ c.to \in Seq(S) /\ c.features \in Seq(S)
    BY DEF Command
<1>1. ASSUME NEW x, NEW y
      PROVE  /\ (<<x>> \o <<y>>) \o <<>> = <<x, y>>
             /\ (<<x>> \o <<>>) \o <<y>> = <<x, y>>
             /\ (<<x>> \o <<>>) \o <<>> = <<x>>
    <2>1. <<x>> \o <<>> = <<x>>
        OBVIOUS
    <2>2. <<x>> \o <<y>> = <<x, y>>
        <3>1. <<x>> \in Seq({x, y})
            OBVIOUS
        <3>2. Append(<<x>>, y) = <<x, y>>
            <4>1. PICK a, b, t : a = <<x>> /\ b = <<x, y>> /\ t = Append(a, y)
                OBVIOUS
            <4>2. Len(a) = 1 /\ a[1] = x /\ b \in Seq({x, y}) /\ Len(b) = 2 /\ b[1] = x /\ b[2] = y
                BY <4>1
            <4>3. t \in Seq({x, y}) /\ Len(t) = 2 /\ t[1] = x /\ t[2] = y
                BY <3>1, <4>1, <4>2, AppendProperties
            <4>4. b = t
                BY <4>2, <4>3, SeqEqual
            <4> QED BY <4>1, <4>4, Zenon
        <3> QED BY <3>1, <3>2, AppendIsConcat
    <2>3. <<x, y>> \o <<>> = <<x, y>>
        OBVIOUS
    <2> QED BY <2>1, <2>2, <2>3, Zenon
<1>2. CASE HasTo(c.type)
    <2>1. HasFrom(c.type) /\ ~HasFeatures(c.type) /\ HeadWords(c.type) = 2
        BY <1>2 DEF HasFrom, HasTo, HasFeatures, HeadWords
    <2>2. Heading(c) = <<c.from, c.to>>
        BY <1>1, <1>2, <2>1, Zenon DEF Heading
    <2>3. Plain(c.from) /\ Plain(c.to) /\ Len(c.to) = 4
        BY <1>2, <2>1 DEF WellFormed
    <2>4. c.to # <<>>
        BY <2>3
    <2> QED BY <1>0, <1>2, <2>1, <2>2, <2>3, <2>4 DEF Last
<1>3. CASE HasFeatures(c.type)
    <2>1. HasFrom(c.type) /\ ~HasTo(c.type) /\ HeadWords(c.type) = 2
        BY <1>3 DEF HasFrom, HasTo, HasFeatures, HeadWords
    <2>2. Heading(c) = <<c.from, c.features>>
        BY <1>1, <1>3, <2>1, Zenon DEF Heading
    <2>3. Plain(c.from) /\ Plain(c.features)
        BY <1>3, <2>1 DEF WellFormed
    <2> QED BY <1>0, <1>3, <2>1, <2>2, <2>3 DEF Last
<1>4. CASE ~HasTo(c.type) /\ ~HasFeatures(c.type) /\ HasFrom(c.type)
    <2>1. HeadWords(c.type) = 1
        BY <1>4 DEF HeadWords
    <2>2. Heading(c) = <<c.from>>
        BY <1>1, <1>4, Zenon DEF Heading
    <2>3. Plain(c.from) /\ Len(c.from) = 4
        BY <1>4 DEF WellFormed
    <2>4. c.from # <<>>
        BY <2>3
    <2> QED BY <1>0, <1>4, <2>1, <2>2, <2>3, <2>4 DEF Last
<1>5. CASE ~HasTo(c.type) /\ ~HasFeatures(c.type) /\ ~HasFrom(c.type)
    <2>1. HeadWords(c.type) = 0 /\ Heading(c) = <<>>
        BY <1>5 DEF HeadWords, Heading
    <2> QED BY <1>5, <2>1
<1> QED BY <1>2, <1>3, <1>4, <1>5

\* The words that parse keeps of those it read: an empty last one is dropped.
LEMMA KeptWords ==
    ASSUME NEW C, NEW h \in Seq(C), NEW p \in Seq(C),
           p # <<>> \/ (h # <<>> /\ Last(h) # <<>>)
    PROVE  LET ts == h \o p
           IN  /\ ts # <<>>
               /\ (IF Last(ts) = <<>> THEN Front(ts) ELSE Append(Front(ts), Last(ts)))
                    = h \o WithoutEmptyEnd(p)
<1>1. CASE p # <<>>
    <2>1. PICK q \in Seq(C), y \in C : p = Append(q, y)
        BY <1>1, SequenceEmptyOrAppend
    <2>2. h \o p = Append(h \o q, y) /\ h \o q \in Seq(C)
        <3>1. Append(Cat(h, q), y) = Cat(h, Append(q, y))
            <4>1. Joins(C, h)
                BY AppendCat
            <4> QED BY <4>1 DEF Joins
        <3>2. h \o q \in Seq(C)
            BY ConcatProperties
        <3> QED BY <2>1, <3>1, <3>2 DEF Cat
    <2>3. Front(h \o p) = h \o q /\ Last(h \o p) = y /\ Front(p) = q /\ Last(p) = y
        <3>1. PICK k : k = h \o q
            OBVIOUS
        <3>2. k \in Seq(C)
            BY <2>2, <3>1
        <3>3. Front(Append(k, y)) = k /\ Last(Append(k, y)) = y
            BY <3>2, FrontLast
        <3>4. Front(Append(q, y)) = q /\ Last(Append(q, y)) = y
            BY FrontLast
        <3> QED BY <2>1, <2>2, <3>1, <3>3, <3>4, Zenon
    <2>4. h \o p # <<>>
        BY <2>2, AppendProperties
    <2>5. WithoutEmptyEnd(p) = IF y = <<>> THEN q ELSE p
        BY <1>1, <2>3 DEF WithoutEmptyEnd
    <2> QED BY <2>2, <2>3, <2>4, <2>5
<1>2. CASE p = <<>>
    <2>1. WithoutEmptyEnd(p) = <<>> /\ h \o <<>> = h
        BY <1>2, ConcatEmptySeq DEF WithoutEmptyEnd
    <2>2. PICK q \in Seq(C), y \in C : h = Append(q, y)
        BY <1>2, SequenceEmptyOrAppend
    <2>3. Front(h) = q /\ Last(h) = y
        BY <2>2, FrontLast
    <2> QED BY <1>2, <2>1, <2>2, <2>3
<1> QED BY <1>1, <1>2

\* The parameters that are kept: a list, of parameters of the command.
LEMMA KeptParams ==
    ASSUME NEW S, NEW p \in Seq(Seq(S))
    PROVE  /\ WithoutEmptyEnd(p) \in Seq(Seq(S))
           /\ \A i \in DOMAIN WithoutEmptyEnd(p) : i \in DOMAIN p /\ WithoutEmptyEnd(p)[i] = p[i]
<1>1. CASE p = <<>> \/ Last(p) # <<>>
    BY <1>1 DEF WithoutEmptyEnd
<1>2. CASE p # <<>> /\ Last(p) = <<>>
    <2>1. PICK q \in Seq(Seq(S)), y \in Seq(S) : p = Append(q, y)
        BY <1>2, SequenceEmptyOrAppend
    <2>2. WithoutEmptyEnd(p) = q
        BY <1>2, <2>1, FrontLast DEF WithoutEmptyEnd
    <2>3. /\ Len(p) = Len(q) + 1 /\ Len(q) \in Nat
          /\ \A i \in 1 .. Len(q) : p[i] = q[i]
        BY <2>1, AppendProperties, LenProperties
    <2>4. DOMAIN q = 1 .. Len(q) /\ DOMAIN p = 1 .. Len(p)
        BY LenProperties
    <2> QED BY <2>2, <2>3, <2>4
<1> QED BY <1>1, <1>2

\* What is written is one line: type, name, the words and the parameters as they
\* are spelled.
LEMMA FormatReads ==
    ASSUME NEW S, Marks \subseteq S, NEW c \in Command(S), WellFormed(c), Rewritable(c)
    PROVE  \E body \in Seq(S) :
              /\ Format(c) = Line(c.type, c.cmd, body)
              /\ Scanned(body) = At(Front(Heading(c) \o c.params), Last(Heading(c) \o c.params))
<1>1. PICK h, p, e, ws, ts : /\ h = Heading(c) /\ p = c.params
                             /\ e = [i \in DOMAIN p |-> Escape(p[i])]
                             /\ ws = h \o e /\ ts = h \o p
    OBVIOUS
<1>2. h \in Seq(Seq(S)) /\ p \in Seq(Seq(S))
    BY <1>1, HeadingIs DEF Command
<1>3. /\ e \in Seq(Seq(S)) /\ Len(e) = Len(p) /\ Len(p) \in Nat
      /\ \A i \in 1 .. Len(p) : e[i] = Escape(p[i]) /\ p[i] \in Seq(S)
    <2>1. DOMAIN p = 1 .. Len(p) /\ Len(p) \in Nat /\ \A i \in 1 .. Len(p) : p[i] \in Seq(S)
        BY <1>2, LenProperties, ElementOfSeq
    <2>2. \A i \in 1 .. Len(p) : Escape(p[i]) \in Seq(S)
        BY <2>1, EscapeIs
    <2> QED BY <1>1, <2>1, <2>2
<1>4. Parts(ws, h, e, Seq(S)) /\ Parts(ts, h, p, Seq(S))
    BY <1>1, <1>2, <1>3, ConcatParts, Zenon
<1>5. Len(ts) = Len(ws) /\ Len(ws) = Len(h) + Len(p) /\ Len(h) \in Nat
    BY <1>3, <1>4 DEF Parts
<1>6. ASSUME NEW i \in 1 .. Len(ws) PROVE Spells(ws[i], ts[i], S)
    <2>1. CASE i \in 1 .. Len(h)
        <3>1. ws[i] = h[i] /\ ts[i] = h[i]
            BY <1>4, <2>1 DEF Parts
        <3>2. h[i] \in Seq(S) /\ Plain(h[i])
            BY <1>1, <1>2, <2>1, HeadingIs, ElementOfSeq
        <3> QED BY <3>1, <3>2, PlainSpells
    <2>2. CASE i \notin 1 .. Len(h)
        <3>1. PICK k \in 1 .. Len(p) : i = Len(h) + k
            <4>1. i - Len(h) \in 1 .. Len(p) /\ i = Len(h) + (i - Len(h))
                BY <1>3, <1>5, <2>2
            <4> QED BY <4>1
        <3>2. ws[i] = e[k] /\ ts[i] = p[k]
            BY <1>3, <1>4, <3>1 DEF Parts
        <3>3. p[k] \in Seq(S) /\ e[k] = Escape(p[k])
            BY <1>3
        <3> QED BY <3>2, <3>3, EscapeSpells
    <2> QED BY <2>1, <2>2
<1>7. ws # <<>>
    <2>1. p # <<>> \/ (h # <<>> /\ Last(h) # <<>>)
        BY <1>1, HeadingIs DEF Rewritable
    <2>2. Len(h) + Len(p) # 0
        <3>1. h # <<>> => Len(h) # 0
            BY <1>2, EmptySeq
        <3>2. p # <<>> => Len(p) # 0
            BY <1>2, EmptySeq
        <3> QED BY <1>3, <1>5, <2>1, <3>1, <3>2
    <2>3. Len(ws) # 0
        BY <1>5, <2>2
    <2> QED BY <2>3
<1>8. ws \in Seq(Seq(S)) /\ ts \in Seq(Seq(S))
    BY <1>4 DEF Parts
<1>9. PICK body \in Seq(S) : Joined(ws) = <<SP>> \o body /\ Scanned(body) = At(Front(ts), Last(ts))
    BY <1>5, <1>6, <1>7, <1>8, ScanJoined
<1>10. Format(c) = <<c.type>> \o c.cmd \o Joined(ws) \o <<LF>>
    BY <1>1 DEF Format
<1>11. Format(c) = Line(c.type, c.cmd, body)
    BY <1>9, <1>10, Zenon DEF Line
<1> QED BY <1>1, <1>9, <1>11, Zenon

\* What is written and then read says what the command says: for any characters,
\* any SIDs, any number of parameters of any length, whatever they contain.
THEOREM WrittenIsRead ==
    ASSUME NEW S, Marks \subseteq S, NEW c \in Command(S)
    PROVE  RoundTrip(c)
<1> SUFFICES ASSUME WellFormed(c), Rewritable(c) PROVE Parse(Format(c)) = Said(c)
    BY DEF RoundTrip
<1>1. PICK line : line = Format(c)
    OBVIOUS
<1>2. PICK body \in Seq(S) :
          /\ line = Line(c.type, c.cmd, body)
          /\ Scanned(body) = At(Front(Heading(c) \o c.params), Last(Heading(c) \o c.params))
    BY <1>1, FormatReads
<1>3. /\ c.type \in Types /\ c.type \in S /\ c.cmd \in Seq(S) /\ Len(c.cmd) = 3
      /\ c.params \in Seq(Seq(S))
    BY DEF Command, Marks, WellFormed
<1>4. /\ Len(line) >= 5 /\ line[1] = c.type /\ line[5] = SP /\ SubSeq(line, 2, 4) = c.cmd
      /\ SubSeq(line, 6, Len(line) - 1) = body
    <2>1. PICK type, cmd : type = c.type /\ cmd = c.cmd
        OBVIOUS
    <2>2. type \in S /\ cmd \in Seq(S) /\ Len(cmd) = 3 /\ line = Line(type, cmd, body)
        BY <1>2, <1>3, <2>1
    <2>3. /\ Len(line) >= 5 /\ line[1] = type /\ line[5] = SP /\ SubSeq(line, 2, 4) = cmd
          /\ SubSeq(line, 6, Len(line) - 1) = body
        <3>1. PICK l, b : l = line /\ b = body
            OBVIOUS
        <3>2. b \in Seq(S) /\ l = Line(type, cmd, b)
            BY <2>2, <3>1
        <3>3. Taken(l, type, cmd, b)
            BY <2>2, <3>2, LineParts, Zenon
        <3> QED BY <3>1, <3>3, Zenon DEF Taken
    <2> QED BY <2>1, <2>3
<1>5. PICK h, kept, st, words : /\ h = Heading(c) /\ kept = WithoutEmptyEnd(c.params)
                                /\ st = Scanned(body)
                                /\ words = IF st.cur = <<>> THEN st.words ELSE Append(st.words, st.cur)
    OBVIOUS
<1>6. h \in Seq(Seq(S)) /\ Len(h) = HeadWords(c.type) /\ Len(h) \in Nat
    BY <1>5, HeadingIs, LenProperties
<1>7. kept \in Seq(Seq(S)) /\ \A i \in DOMAIN kept : i \in DOMAIN c.params /\ kept[i] = c.params[i]
    BY <1>3, <1>5, KeptParams
<1>8. st.ok /\ ~st.escape /\ words = h \o kept
    <2>1. c.params # <<>> \/ (h # <<>> /\ Last(h) # <<>>)
        BY <1>5, HeadingIs DEF Rewritable
    <2>2. (IF Last(h \o c.params) = <<>> THEN Front(h \o c.params)
               ELSE Append(Front(h \o c.params), Last(h \o c.params))) = h \o kept
        BY <1>3, <1>5, <1>6, <2>1, KeptWords
    <2>3. st = At(Front(h \o c.params), Last(h \o c.params))
        BY <1>2, <1>5
    <2>4. /\ st.words = Front(h \o c.params) /\ st.cur = Last(h \o c.params)
          /\ st.escape = FALSE /\ st.ok = TRUE
        BY <2>3 DEF At
    <2>5. words = h \o kept
        BY <1>5, <2>2, <2>4, Zenon
    <2> QED BY <2>4, <2>5
<1>9. Parts(words, h, kept, Seq(S))
    BY <1>6, <1>7, <1>8, ConcatParts
<1>10. /\ Len(words) >= Len(h) /\ Len(words) \in Nat
       /\ SubSeq(words, Len(h) + 1, Len(words)) = kept
    <2>1. PICK n, k : n = Len(h) /\ k = Len(kept)
        OBVIOUS
    <2>2. n \in Nat /\ k \in Nat /\ Len(words) = n + k /\ words \in Seq(Seq(S))
        BY <1>9, <2>1 DEF Parts
    <2>3. PICK s : s = SubSeq(words, n + 1, n + k)
        OBVIOUS
    <2>4. /\ s \in Seq(Seq(S)) /\ Len(s) = k
          /\ \A i \in 1 .. k : s[i] = words[(n + 1) + i - 1]
        <3>1. PICK a, b : a = n + 1 /\ b = n + k
            OBVIOUS
        <3>2. a \in Int /\ b \in Int /\ \A i \in a .. b : words[i] \in Seq(S)
            <4>1. \A i \in a .. b : i \in 1 .. Len(words)
                BY <2>2, <3>1
            <4> QED BY <2>2, <3>1, <4>1, ElementOfSeq
        <3>3. /\ s \in Seq(Seq(S)) /\ Len(s) = IF a <= b THEN b - a + 1 ELSE 0
              /\ \A i \in 1 .. b - a + 1 : s[i] = words[a + i - 1]
            BY <2>3, <3>1, <3>2, SubSeqProperties
        <3>4. b - a + 1 = k /\ (a <= b <=> k # 0)
            BY <2>2, <3>1
        <3> QED BY <2>2, <3>1, <3>3, <3>4
    <2>5. ASSUME NEW i \in 1 .. k PROVE s[i] = kept[i]
        <3>1. (n + 1) + i - 1 = n + i
            BY <2>2
        <3>2. words[n + i] = kept[i]
            BY <1>9, <2>1 DEF Parts
        <3> QED BY <2>4, <3>1, <3>2
    <2>6. s = kept
        BY <1>7, <2>1, <2>4, <2>5, SeqEqual
    <2>7. Len(words) >= Len(h) /\ Len(words) \in Nat
        BY <2>1, <2>2
    <2>8. Len(words) = n + k
        BY <2>2
    <2>9. SubSeq(words, Len(h) + 1, Len(words)) = kept
        BY <2>1, <2>3, <2>6, <2>8, Zenon
    <2> QED BY <2>7, <2>9
<1>11. /\ HasFrom(c.type) => words[1] = c.from
       /\ HasTo(c.type) => words[2] = c.to
       /\ HasFeatures(c.type) => words[2] = c.features
    <2>1. \A i \in 1 .. Len(h) : words[i] = h[i]
        BY <1>9 DEF Parts
    <2>2. /\ HasFrom(c.type) => Len(h) >= 1 /\ h[1] = c.from
          /\ HasTo(c.type) => Len(h) = 2 /\ h[2] = c.to
          /\ HasFeatures(c.type) => Len(h) = 2 /\ h[2] = c.features
        BY <1>5, HeadingIs, Zenon
    <2> QED BY <1>6, <2>1, <2>2
<1>12. /\ HasFrom(c.type) => Len(words[1]) = 4
       /\ HasTo(c.type) => Len(words[2]) = 4
       /\ HasFeatures(c.type) => Len(words[2]) % 5 = 0
    BY <1>11 DEF WellFormed
<1>13. \A i \in DOMAIN kept : NotUtf8 \notin ToSet(kept[i])
    BY <1>7 DEF WellFormed
<1>14. Parse(line) =
          [type |-> c.type, cmd |-> c.cmd,
           from |-> IF HasFrom(c.type) THEN words[1] ELSE InvalidSid,
           to |-> IF HasTo(c.type) THEN words[2] ELSE IF c.type = "H" THEN HubSid ELSE InvalidSid,
           features |-> IF HasFeatures(c.type) THEN words[2] ELSE <<>>,
           params |-> kept]
    BY <1>3, <1>4, <1>5, <1>6, <1>8, <1>10, <1>12, <1>13, Zenon DEF Parse
<1>15. Said(c) =
          [type |-> c.type, cmd |-> c.cmd,
           from |-> IF HasFrom(c.type) THEN words[1] ELSE InvalidSid,
           to |-> IF HasTo(c.type) THEN words[2] ELSE IF c.type = "H" THEN HubSid ELSE InvalidSid,
           features |-> IF HasFeatures(c.type) THEN words[2] ELSE <<>>,
           params |-> kept]
    <2>1. c = [type |-> c.type, cmd |-> c.cmd, from |-> c.from, to |-> c.to,
               features |-> c.features, params |-> c.params]
        BY DEF Command
    <2>2. Said(c) =
              [type |-> c.type, cmd |-> c.cmd,
               from |-> IF HasFrom(c.type) THEN c.from ELSE InvalidSid,
               to |-> IF HasTo(c.type) THEN c.to ELSE IF c.type = "H" THEN HubSid ELSE InvalidSid,
               features |-> IF HasFeatures(c.type) THEN c.features ELSE <<>>,
               params |-> WithoutEmptyEnd(c.params)]
        <3>1. PICK from, to, features, params :
                  /\ from = IF HasFrom(c.type) THEN c.from ELSE InvalidSid
                  /\ to = IF HasTo(c.type) THEN c.to ELSE IF c.type = "H" THEN HubSid ELSE InvalidSid
                  /\ features = IF HasFeatures(c.type) THEN c.features ELSE <<>>
                  /\ params = WithoutEmptyEnd(c.params)
            OBVIOUS
        <3>2. Said(c) = [c EXCEPT !.from = from, !.to = to, !.features = features, !.params = params]
            BY <3>1, Zenon DEF Said
        <3>3. [c EXCEPT !.from = from, !.to = to, !.features = features, !.params = params]
                = [type |-> c.type, cmd |-> c.cmd, from |-> from, to |-> to,
                   features |-> features, params |-> params]
            <4>1. PICK type, cmd, f, t, s, p :
                      c = [type |-> type, cmd |-> cmd, from |-> f, to |-> t, features |-> s, params |-> p]
                BY <2>1
            <4>2. c.type = type /\ c.cmd = cmd
                BY <4>1
            <4>3. PICK d : d = [c EXCEPT !.from = from]
                OBVIOUS
            <4>4. d = [type |-> type, cmd |-> cmd, from |-> from, to |-> t, features |-> s, params |-> p]
                BY <4>1, <4>3
            <4>5. PICK e : e = [d EXCEPT !.to = to]
                OBVIOUS
            <4>6. e = [type |-> type, cmd |-> cmd, from |-> from, to |-> to, features |-> s, params |-> p]
                BY <4>4, <4>5
            <4>7. PICK g : g = [e EXCEPT !.features = features]
                OBVIOUS
            <4>8. g = [type |-> type, cmd |-> cmd, from |-> from, to |-> to,
                       features |-> features, params |-> p]
                BY <4>6, <4>7
            <4>9. [g EXCEPT !.params = params]
                    = [type |-> type, cmd |-> cmd, from |-> from, to |-> to,
                       features |-> features, params |-> params]
                BY <4>8
            <4>10. [c EXCEPT !.from = from, !.to = to, !.features = features, !.params = params]
                    = [[[[c EXCEPT !.from = from] EXCEPT !.to = to] EXCEPT !.features = features]
                          EXCEPT !.params = params]
                OBVIOUS
            <4> QED BY <4>2, <4>3, <4>5, <4>7, <4>9, <4>10, Zenon
        <3> QED BY <3>1, <3>2, <3>3, Zenon
    <2> QED BY <1>5, <1>11, <2>2
<1> QED BY <1>1, <1>14, <1>15

\* The loop of parse makes words of the characters that it reads.
Reading(S) == [words : Seq(Seq(S)), cur : Seq(S), escape : BOOLEAN, ok : BOOLEAN]
LEMMA ScanReads ==
    ASSUME NEW S, Marks \subseteq S, NEW st \in Reading(S), NEW ch \in S
    PROVE  Scan(st, ch) \in Reading(S)
<1>1. PICK C : C = Seq(S)
    OBVIOUS
<1>2. PICK words, cur, escape, ok :
          st = [words |-> words, cur |-> cur, escape |-> escape, ok |-> ok]
    BY DEF Reading
<1>3. words \in Seq(C) /\ cur \in C /\ escape \in BOOLEAN /\ ok \in BOOLEAN
    BY <1>1, <1>2 DEF Reading
<1>4. <<>> \in C /\ Append(words, cur) \in Seq(C)
    BY <1>1, <1>3, EmptySeq, AppendProperties
<1>5. \A x \in S : Append(cur, x) \in C
    BY <1>1, <1>3, AppendProperties
<1>6. CASE st.escape /\ (\E e \in Escapes : e[2] = ch)
    <2>1. PICK e \in Escapes : e = CHOOSE d \in Escapes : d[2] = ch
        BY <1>6
    <2>2. e[1] \in S
        <3>1. \A d \in Escapes : d[1] \in {SP, LF, BS}
            BY DEF Escapes
        <3> QED BY <2>1, <3>1 DEF Marks
    <2>3. Scan(st, ch) = [st EXCEPT !.cur = Append(@, e[1]), !.escape = FALSE]
        BY <1>6, <2>1, Zenon DEF Scan
    <2>4. Append(cur, e[1]) \in C
        BY <1>5, <2>2
    <2>5. Scan(st, ch) = [words |-> words, cur |-> Append(cur, e[1]), escape |-> FALSE, ok |-> ok]
        BY <1>2, <2>3
    <2> QED BY <1>1, <1>3, <2>4, <2>5 DEF Reading
<1>7. CASE st.escape /\ ~(\E e \in Escapes : e[2] = ch)
    <2>1. Scan(st, ch) = [st EXCEPT !.ok = FALSE]
        BY <1>7, Zenon DEF Scan
    <2> QED BY <2>1 DEF Reading
<1>8. CASE ~st.escape /\ ch = BS
    <2>1. Scan(st, ch) = [st EXCEPT !.escape = TRUE]
        <3>1. SP # BS
            BY DEF SP, BS
        <3> QED BY <1>8, <3>1, Zenon DEF Scan
    <2> QED BY <2>1 DEF Reading
<1>9. CASE ~st.escape /\ ch # BS /\ ch = SP
    <2>1. Scan(st, ch) = [st EXCEPT !.words = Append(@, st.cur), !.cur = <<>>]
        BY <1>9, Zenon DEF Scan
    <2>2. Scan(st, ch) = [words |-> Append(words, cur), cur |-> <<>>, escape |-> escape, ok |-> ok]
        BY <1>2, <2>1
    <2> QED BY <1>1, <1>3, <1>4, <2>2 DEF Reading
<1>10. CASE ~st.escape /\ ch # BS /\ ch # SP
    <2>1. Scan(st, ch) = [st EXCEPT !.cur = Append(@, ch)]
        BY <1>10, Zenon DEF Scan
    <2>2. Append(cur, ch) \in C
        BY <1>5
    <2>3. Scan(st, ch) = [words |-> words, cur |-> Append(cur, ch), escape |-> escape, ok |-> ok]
        BY <1>2, <2>1
    <2> QED BY <1>1, <1>3, <2>2, <2>3 DEF Reading
<1> QED BY <1>6, <1>7, <1>8, <1>9, <1>10

LEMMA ScannedReads ==
    ASSUME NEW S, Marks \subseteq S, NEW text \in Seq(S)
    PROVE  Scanned(text) \in Reading(S)
<1>1. PICK st : st = [words |-> <<>>, cur |-> <<>>, escape |-> FALSE, ok |-> TRUE]
    OBVIOUS
<1>2. st \in Reading(S)
    <2>1. <<>> \in Seq(S) /\ <<>> \in Seq(Seq(S))
        BY EmptySeq
    <2> QED BY <1>1, <2>1 DEF Reading
<1>3. PICK n : n = Len(text)
    OBVIOUS
<1>4. n \in Nat /\ \A i \in 1 .. n : text[i] \in S
    BY <1>3, LenProperties, ElementOfSeq
<1>5. PICK f : Steps(f, st, text, n) /\ Scanned(text) = f[n]
    <2>1. Scanned(text) = ScanFrom(st, text)
        BY <1>1 DEF Scanned
    <2>2. \E f : Steps(f, st, text, Len(text)) /\ ScanFrom(st, text) = f[Len(text)]
        BY <1>3, <1>4, ScanDef, Zenon
    <2> QED BY <1>3, <2>1, <2>2
<1>6. f[0] = st /\ Walk(f, text, n)
    BY <1>4, <1>5, StepsFacts, Zenon
<1> DEFINE T == {i \in Nat : i <= n /\ f[i] \notin Reading(S)}
<1>7. SUFFICES ASSUME T # {} PROVE FALSE
    BY <1>4, <1>5
<1>8. PICK i \in T : \A k \in T : i <= k
    <2>1. T \in SUBSET Nat
        OBVIOUS
    <2> HIDE DEF T
    <2> QED BY <1>7, <2>1, Least
<1>9. i \in Nat /\ i # 0 /\ i \in 1 .. n /\ f[i] \notin Reading(S)
    BY <1>2, <1>4, <1>6, <1>8
<1>10. i - 1 \in Nat /\ i - 1 <= n /\ i - 1 \notin T
    BY <1>4, <1>8, <1>9
<1>11. f[i - 1] \in Reading(S)
    BY <1>10
<1>12. f[i] = Scan(f[i - 1], text[i]) /\ text[i] \in S
    BY <1>4, <1>6, <1>9 DEF Walk
<1>13. PICK x, ch : x = f[i - 1] /\ ch = text[i]
    OBVIOUS
<1>14. Scan(x, ch) \in Reading(S)
    BY <1>11, <1>12, <1>13, ScanReads
<1> QED BY <1>9, <1>12, <1>13, <1>14

\* What is accepted is a command, and none that parse would refuse.
LEMMA ParseReads ==
    ASSUME NEW S, Marks \subseteq S, NEW line \in Seq(S), NEW c, c = Parse(line), c # Malformed,
           Plain(c.from), Plain(c.to), Plain(c.features)
    PROVE  c \in Command(S) /\ WellFormed(c)
<1>1. PICK type, text, st, words, n, params :
          /\ type = line[1] /\ text = SubSeq(line, 6, Len(line) - 1) /\ st = Scanned(text)
          /\ words = IF st.cur = <<>> THEN st.words ELSE Append(st.words, st.cur)
          /\ n = HeadWords(type) /\ params = SubSeq(words, n + 1, Len(words))
    OBVIOUS
<1>2. /\ Len(line) >= 5 /\ type \in Types /\ Len(words) >= n
      /\ HasFrom(type) => Len(words[1]) = 4
      /\ HasTo(type) => Len(words[2]) = 4
      /\ HasFeatures(type) => Len(words[2]) % 5 = 0
      /\ \A i \in DOMAIN params : NotUtf8 \notin ToSet(params[i])
      /\ c = [type |-> type, cmd |-> SubSeq(line, 2, 4),
              from |-> IF HasFrom(type) THEN words[1] ELSE InvalidSid,
              to |-> IF HasTo(type) THEN words[2] ELSE IF type = "H" THEN HubSid ELSE InvalidSid,
              features |-> IF HasFeatures(type) THEN words[2] ELSE <<>>,
              params |-> params]
    BY <1>1, ZenonT(60) DEF Parse
<1>3. PICK cmd, from, to, features :
          /\ cmd = SubSeq(line, 2, 4)
          /\ from = IF HasFrom(type) THEN words[1] ELSE InvalidSid
          /\ to = IF HasTo(type) THEN words[2] ELSE IF type = "H" THEN HubSid ELSE InvalidSid
          /\ features = IF HasFeatures(type) THEN words[2] ELSE <<>>
    OBVIOUS
<1>4. /\ c = [type |-> type, cmd |-> cmd, from |-> from, to |-> to,
              features |-> features, params |-> params]
      /\ c.type = type /\ c.cmd = cmd /\ c.from = from /\ c.to = to
      /\ c.features = features /\ c.params = params
    <2>1. c = [type |-> type, cmd |-> cmd, from |-> from, to |-> to,
               features |-> features, params |-> params]
        BY <1>2, <1>3, Zenon
    <2> QED BY <2>1
<1>5. Len(line) \in Nat /\ \A i \in 1 .. Len(line) : line[i] \in S
    BY LenProperties, ElementOfSeq
<1>6. cmd \in Seq(S) /\ Len(cmd) = 3
    <2>1. \A i \in 2 .. 4 : line[i] \in S
        BY <1>2, <1>5
    <2> QED BY <1>3, <2>1, SubSeqProperties
<1>7. text \in Seq(S)
    <2>1. PICK m : m = Len(line) - 1
        OBVIOUS
    <2>2. m \in Int /\ \A i \in 6 .. m : line[i] \in S
        BY <1>5, <2>1
    <2>3. SubSeq(line, 6, m) \in Seq(S)
        BY <2>2, SubSeqProperties
    <2> QED BY <1>1, <2>1, <2>3
<1>8. PICK C : C = Seq(S)
    OBVIOUS
<1>9. words \in Seq(C)
    <2>1. st \in Reading(S)
        BY <1>1, <1>7, ScannedReads
    <2>2. PICK a, b : a = st.words /\ b = st.cur
        OBVIOUS
    <2>3. a \in Seq(C) /\ b \in C
        BY <1>8, <2>1, <2>2 DEF Reading
    <2>4. Append(a, b) \in Seq(C)
        BY <2>3, AppendProperties
    <2> QED BY <1>1, <2>2, <2>3, <2>4, Zenon
<1>10. Len(words) \in Nat /\ \A i \in 1 .. Len(words) : words[i] \in C
    BY <1>9, LenProperties, ElementOfSeq
<1>11. /\ n \in Nat
       /\ HasFrom(type) => n >= 1
       /\ HasTo(type) => n = 2
       /\ HasFeatures(type) => n = 2
    BY <1>1 DEF HeadWords, HasFrom, HasTo, HasFeatures
<1>12. /\ HasFrom(type) => words[1] \in C
       /\ HasTo(type) => words[2] \in C
       /\ HasFeatures(type) => words[2] \in C
    BY <1>2, <1>10, <1>11
<1>13. params \in Seq(C)
    <2>1. PICK a, b : a = n + 1 /\ b = Len(words)
        OBVIOUS
    <2>2. a \in Int /\ b \in Int /\ \A i \in a .. b : words[i] \in C
        BY <1>10, <1>11, <2>1
    <2>3. SubSeq(words, a, b) \in Seq(C)
        BY <1>9, <2>2, SubSeqProperties
    <2> QED BY <1>1, <2>1, <2>3
<1>14. HubSid \in C /\ InvalidSid \in C /\ <<>> \in C
    <2>1. "0xFE" \in S /\ "0xFF" \in S
        BY DEF Marks
    <2> QED BY <1>8, <2>1 DEF HubSid, InvalidSid
<1>15. from \in C /\ to \in C /\ features \in C
    BY <1>3, <1>12, <1>14, Zenon
<1>16. c \in Command(S)
    BY <1>2, <1>4, <1>6, <1>8, <1>13, <1>15 DEF Command
<1>17. /\ HasFrom(type) => Len(from) = 4
       /\ HasTo(type) => Len(to) = 4
       /\ HasFeatures(type) => Len(features) % 5 = 0
    BY <1>2, <1>3
<1>18. WellFormed(c)
    BY <1>2, <1>4, <1>6, <1>17 DEF WellFormed
<1> QED BY <1>16, <1>18

\* What has been read, from any line and however it was spelled, is written and
\* read again as it is.
THEOREM ReadIsKept ==
    ASSUME NEW S, Marks \subseteq S, NEW line \in Seq(S)
    PROVE  ReadAgain(line)
<1> SUFFICES ASSUME NEW c, c = Parse(line), c # Malformed,
                    Plain(c.from), Plain(c.to), Plain(c.features)
             PROVE  WellFormed(c) /\ RoundTrip(c)
    BY Zenon DEF ReadAgain
<1>1. c \in Command(S) /\ WellFormed(c)
    BY ParseReads
<1> QED BY <1>1, WrittenIsRead
====

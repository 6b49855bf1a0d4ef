---------------------------- MODULE AdcCommand ----------------------------
(***************************************************************************)
(* ADC commands as text: how a line is parsed and how a command is written. *)
(* A text is a sequence of characters.  The priority of a command, and the  *)
(* lookup of named parameters (module Entity), are left out.                *)
(***************************************************************************)
EXTENDS Naturals, Sequences, SequencesExt

SP == " "
LF == "\n"
BS == "\\"
NotUtf8 == "?"          \* stands for bytes that are no UTF-8

\* The bytes of the two SIDs that stand for no user.
HubSid     == <<"0xFF", "0xFF", "0xFF", "0xFF">>
InvalidSid == <<"0xFE", "0xFF", "0xFF", "0xFF">>
Malformed  == [type |-> "ParseException"]

Types == {"B", "C", "D", "E", "F", "I", "H", "U"}
\* The words before the parameters: one or two, or none.
HasFrom(type)     == type \in {"B", "D", "E", "F"}
HasTo(type)       == type \in {"D", "E"}
HasFeatures(type) == type = "F"
HeadWords(type)   == IF HasTo(type) \/ HasFeatures(type) THEN 2
                     ELSE IF HasFrom(type) THEN 1 ELSE 0

\* What is escaped, and what stands behind the backslash.
Escapes == {<<SP, "s">>, <<LF, "n">>, <<BS, BS>>}
Escaped(ch) == IF \E e \in Escapes : e[1] = ch
               THEN <<BS, (CHOOSE e \in Escapes : e[1] = ch)[2]>> ELSE <<ch>>
Escape(text) == FlattenSeq([i \in DOMAIN text |-> Escaped(text[i])])

\* One character: it follows a backslash, is one, ends a word or belongs to it.
Scan(st, ch) ==
    CASE st.escape /\ (\E e \in Escapes : e[2] = ch) ->
             [st EXCEPT !.cur = Append(@, (CHOOSE e \in Escapes : e[2] = ch)[1]), !.escape = FALSE]
      [] st.escape /\ ~(\E e \in Escapes : e[2] = ch) -> [st EXCEPT !.ok = FALSE]
      [] ~st.escape /\ ch = BS -> [st EXCEPT !.escape = TRUE]
      [] ~st.escape /\ ch = SP -> [st EXCEPT !.words = Append(@, st.cur), !.cur = <<>>]
      [] OTHER -> [st EXCEPT !.cur = Append(@, ch)]
\* The loop over a text, from a given state and from the first.
ScanFrom(st, text) ==
    LET after[i \in 0 .. Len(text)] == IF i = 0 THEN st ELSE Scan(after[i - 1], text[i])
    IN  after[Len(text)]
Scanned(text) == ScanFrom([words |-> <<>>, cur |-> <<>>, escape |-> FALSE, ok |-> TRUE], text)

\* parse: the last word is dropped when it is empty.
Parse(line) ==
    LET type   == line[1]
        st     == Scanned(SubSeq(line, 6, Len(line) - 1))
        words  == IF st.cur = <<>> THEN st.words ELSE Append(st.words, st.cur)
        n      == HeadWords(type)
        params == SubSeq(words, n + 1, Len(words))
    IN  IF /\ Len(line) >= 5 /\ type \in Types /\ line[5] = SP
           /\ st.ok /\ ~st.escape
           /\ Len(words) >= n
           /\ HasFrom(type) => Len(words[1]) = 4
           /\ HasTo(type) => Len(words[2]) = 4
           /\ HasFeatures(type) => Len(words[2]) % 5 = 0
           /\ \A i \in DOMAIN params : NotUtf8 \notin ToSet(params[i])
        THEN [type |-> type, cmd |-> SubSeq(line, 2, 4),
              from |-> IF HasFrom(type) THEN words[1] ELSE InvalidSid,
              to |-> IF HasTo(type) THEN words[2] ELSE IF type = "H" THEN HubSid ELSE InvalidSid,
              features |-> IF HasFeatures(type) THEN words[2] ELSE <<>>,
              params |-> params]
        ELSE Malformed

\* toString of a command that has no buffer: SIDs and features as they are, the
\* parameters escaped.
Heading(c) == (IF HasFrom(c.type) THEN <<c.from>> ELSE <<>>)
             \o (IF HasTo(c.type) THEN <<c.to>> ELSE <<>>)
             \o (IF HasFeatures(c.type) THEN <<c.features>> ELSE <<>>)
Joined(words) == FlattenSeq([i \in DOMAIN words |-> <<SP>> \o words[i]])
Format(c) ==
    <<c.type>> \o c.cmd
    \o Joined(Heading(c) \o [i \in DOMAIN c.params |-> Escape(c.params[i])]) \o <<LF>>

----------------------------------------------------------------------------
\* What is written unescaped has nothing to escape; what parse would refuse is
\* not in the command.
Plain(text) == ToSet(text) \cap {SP, LF, BS} = {}
WellFormed(c) ==
    /\ c.type \in Types /\ Len(c.cmd) = 3
    /\ HasFrom(c.type) => Len(c.from) = 4 /\ Plain(c.from)
    /\ HasTo(c.type) => Len(c.to) = 4 /\ Plain(c.to)
    /\ HasFeatures(c.type) => Len(c.features) % 5 = 0 /\ Plain(c.features)
    /\ \A i \in DOMAIN c.params : NotUtf8 \notin ToSet(c.params[i])
\* Without parameters, nothing or an empty feature list would end the line: such
\* a line is accepted, but not as it is written again.
Rewritable(c) ==
    c.params # <<>> \/ (HasFrom(c.type) /\ (HasFeatures(c.type) => c.features # <<>>))

\* What of a command its line says: the fields its type has, and the parameters
\* but an empty last one.
WithoutEmptyEnd(params) ==
    IF params # <<>> /\ Last(params) = <<>> THEN Front(params) ELSE params
Said(c) ==
    [c EXCEPT !.from = IF HasFrom(c.type) THEN @ ELSE InvalidSid,
              !.to = IF HasTo(c.type) THEN @ ELSE IF c.type = "H" THEN HubSid ELSE InvalidSid,
              !.features = IF HasFeatures(c.type) THEN @ ELSE <<>>,
              !.params = WithoutEmptyEnd(@)]

\* A command is read again as it was written (escape, toString and parse), and
\* whatever has been read, however it was spelled, is written and read again as
\* it is, unless its SIDs or features were spelled with an escape: those are
\* unescaped when read and not escaped when written.
RoundTrip(c) == WellFormed(c) /\ Rewritable(c) => Parse(Format(c)) = Said(c)
ReadAgain(line) ==
    LET c == Parse(line)
    IN  c # Malformed /\ Plain(c.from) /\ Plain(c.to) /\ Plain(c.features)
            => WellFormed(c) /\ RoundTrip(c)
============================================================================

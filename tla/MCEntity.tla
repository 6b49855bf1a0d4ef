---- MODULE MCEntity ----
(***************************************************************************)
(* INFs and TCPs for a user connected over IPv4, and lines and commands for *)
(* AdcCommand.                                                              *)
(***************************************************************************)
EXTENDS Entity

None     == <<>>
PID      == "PD" :> << <<"pid">> >>
Address  == "I6" :> << <<"claimed">> >> @@ "U6" :> << <<"port">> >>
Any6     == "I6" :> <<Unspecified>>
\* Of two parameters the first looks harmless.
Twice    == "I6" :> <<Unspecified, <<"hidden">> >> @@ "U6" :> <<Empty, <<"port">> >>
            @@ "I4" :> <<Remote("4"), <<"other">> >> @@ "CT" :> <<Empty, <<"op">> >>
\* IPv4 only, both protocols, in another order, twice, and no list of features.
Only     == "SU" :> << <<"TCP4", "UDP4">> >>
Both     == "SU" :> << <<"TCP4", "UDP4", "TCP6", "UDP6">> >>
Reversed == "SU" :> << <<"UDP6", "TCP6">> >>
Double   == "SU" :> << <<"TCP6">>, <<"TCP6", "TCP4", "TCP6">> >>
Odd      == "SU" :> << <<"TCP6", Piece>> >>

Logins   == {PID @@ Address @@ Both, PID @@ Only, PID @@ Twice @@ Reversed}
Updates  == {"I4" :> <<Remote("4")>> @@ Address @@ Both, Any6 @@ Odd, Both, Reversed,
             Twice @@ Double, "I6" :> <<Empty>>}
MCInfs   == {inf @@ Absent : inf \in Logins \cup Updates}
MCTcps   == {tcp @@ Absent : tcp \in
                {None, "I4" :> << <<"claimed">> >> @@ "U6" :> << <<"port">> >> @@ Both,
                 "I6" :> << <<"other">> >>, "I6" :> <<Empty, <<"hidden">> >> @@ Double}}

\* The least a SUP has, and what is usual; HBRI comes and goes in both.
MCSupports == {{"BASE", "TIGR"}, {"BASE", "TIGR", "BAS0", "UCM0", "BLO0", "ZLIF", "HBRI"}}

----------------------------------------------------------------------------
Adc == INSTANCE AdcCommand

Characters5 == {"a", "s", Adc!SP, Adc!BS, Adc!LF}
Texts(n) == UNION {[1 .. k -> Characters5] : k \in 0 .. n}
AAAA     == <<"a", "a", "a", "a">>
Heads    == {<<>>, AAAA \o <<Adc!SP>>, AAAA \o <<Adc!SP>> \o AAAA \o <<Adc!SP>>,
             AAAA \o <<Adc!SP, "+">> \o AAAA \o <<Adc!SP>>,
             <<Adc!BS, "s", "a", "a", "a", Adc!SP>>}
INF      == <<"I", "N", "F">>
Lines    == {<<type>> \o INF \o <<Adc!SP>> \o head \o text \o <<Adc!LF>> :
                type \in Adc!Types \cup {"X"}, head \in Heads, text \in Texts(3)}
Commands == UNION {[type : {type}, cmd : {INF},
                    from : {AAAA, Adc!HubSid, Adc!InvalidSid},
                    to : {AAAA, Adc!HubSid, Adc!InvalidSid},
                    features : {<<>>},
                    params : UNION {[1 .. k -> Texts(2)] : k \in 0 .. 2}] : type \in Adc!Types}

\* A SID spelled with an escape is read, and refused when it is written again.
EscapedSid == <<"B">> \o INF \o <<Adc!SP, Adc!BS, "s", "a", "a", "a", Adc!SP, "a", Adc!LF>>

\* Parsing and writing are inverse, for what is spelled as it is written.
ASSUME RoundTripAssumption ==
    /\ \A c \in Commands : Adc!WellFormed(c) /\ Adc!RoundTrip(c)
    /\ \A line \in Lines : Adc!ReadAgain(line)
    /\ EscapedSid \in Lines /\ Adc!Parse(EscapedSid) # Adc!Malformed
    /\ Adc!Parse(Adc!Format(Adc!Parse(EscapedSid))) = Adc!Malformed
====

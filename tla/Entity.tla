------------------------------ MODULE Entity ------------------------------
(***************************************************************************)
(* What the hub knows of one user and what it tells the others: the INF     *)
(* fields, the features of the field SU by which feature broadcasts are     *)
(* routed, the cached INF newcomers are sent, and the updates everybody is  *)
(* sent.  The address of the second protocol goes out only when a           *)
(* connection over that protocol has validated it (HBRI).                   *)
(*                                                                         *)
(* The user is a client connected over First; observers are the other       *)
(* users, who show what the INFs they were sent add up to.  A text is the   *)
(* sequence of its parts: SU has what stands between its commas, other      *)
(* fields have one.  Which logins collide, who is disconnected when, and a  *)
(* token erased under the timer's iterator are ClientManager's matter.      *)
(***************************************************************************)
EXTENDS Naturals, Sequences, FiniteSets, SequencesExt

CONSTANTS
    Observer,   \* the other users
    First,      \* "4" or "6", the protocol of the user's connection
    DualStack,  \* does the server have an address of the other protocol?
    Infs,       \* parameters of the INFs the user may send: field -> its values
    Tcps,       \* parameters of the TCPs a validating connection may send
    Supports,   \* sets of features its SUP may have
    MaxTokens,  \* bound: validations asked for at a time
    NoBuffer    \* a buffer that has not been made

ASSUME ConstantsAssumption ==
    First \in {"4", "6"} /\ DualStack \in BOOLEAN /\ MaxTokens \in Nat \ {0}

Second == IF First = "4" THEN "6" ELSE "4"
Ip(v)  == IF v = "4" THEN "I4" ELSE "I6"
Udp(v) == IF v = "4" THEN "U4" ELSE "U6"
Field  == {"PD", "DE", "SU", "CT", "I4", "I6", "U4", "U6"}

\* The features of the second protocol.
TcpFeature == IF Second = "4" THEN "TCP4" ELSE "TCP6"
UdpFeature == IF Second = "4" THEN "UDP4" ELSE "UDP6"
\* Other parts of an SU: the first letters of a feature, and what is behind a
\* comma at its end.
Piece   == "piece"
NoPiece == ""

ASSUME InfsAssumption == Infs \cup Tcps \subseteq [Field -> Seq(Seq(STRING))]

Empty       == <<>>
Unspecified == <<"any">>            \* "0.0.0.0" or "::"
Remote(v)   == <<"remote", v>>      \* where a connection over v comes from
Blank       == [f \in Field |-> Empty]
Absent      == [f \in Field |-> <<>>]

VARIABLES
    state,      \* PROTOCOL, IDENTIFY, VERIFY, HBRI, NORMAL, or "gone" when disconnected
    local,      \* are its addresses private ones?
    fields,     \* Entity::fields, Empty for a field that is not there
    filters,    \* Entity::filters, the features in it
    suText,     \* "whole" as the user gave SU but for features removed from it,
                \* "cut" short, or "thrown" when the program has ended there
    cached,     \* Entity::INF
    supports,   \* Entity::supports
    validate,   \* FLAG_VALIDATE_HBRI
    tokens,     \* its tokens in hbriTokens, all of them equal here
    present,    \* the observers who are connected
    shown,      \* observer -> the fields it shows
    verified,   \* history: the addresses validated over the second protocol
    skipped,    \* history: the validation was given up without its consequences
    unsaid,     \* history: fields changed behind the observers' backs
    repeated    \* history: fields that came from a command with two of them, and
                \* SU with a feature of the second protocol twice

user == <<fields, filters, suText, cached>>
history == <<verified, skipped, unsaid, repeated>>
vars == <<state, local, user, supports, validate, tokens, present, shown, history>>

----------------------------------------------------------------------------
(* AdcCommand: parameters by name, and the buffer that keeps their text.    *)

\* A command read from the network keeps the buffer it was parsed from.  It may
\* name a field more than once: by name only the first is seen and removed.
Received(params) == [params |-> params, buffer |-> params]
Has(c, f) == c.params[f] # <<>>
GetParam(c, f) == IF Has(c, f) THEN Head(c.params[f]) ELSE Empty
AddParam(c, f, value) ==
    [params |-> [c.params EXCEPT ![f] = Append(@, value)], buffer |-> NoBuffer]
\* Fault: the buffer is kept.
DelParamKeepBuffer(c, f) ==
    IF Has(c, f) THEN [c EXCEPT !.params[f] = Tail(@)] ELSE c
DelParam(c, f) ==
    IF Has(c, f) THEN [params |-> [c.params EXCEPT ![f] = Tail(@)], buffer |-> NoBuffer]
    ELSE c
GetBuffer(c) == IF c.buffer = NoBuffer THEN c.params ELSE c.buffer

\* Who takes over the parameters one after the other keeps the last of each.
LastOfEach(params) ==
    [f \in {g \in Field : params[g] # <<>>} |-> Last(params[f])]
Merge(view, values) == [f \in Field |-> IF f \in DOMAIN values THEN values[f] ELSE view[f]]

----------------------------------------------------------------------------
(* Entity: its variables as one record.                                    *)

Now == [fields |-> fields, filters |-> filters, suText |-> suText, cached |-> cached]
Become(u) == /\ fields' = u.fields /\ filters' = u.filters
             /\ suText' = u.suText /\ cached' = u.cached
Unnamed == [fields |-> Blank, filters |-> <<>>, suText |-> "whole", cached |-> NoBuffer]

\* The features of an SU, none when its length is not that of a list of features.
Features(su) == IF ToSet(su) \cap {Piece, NoPiece} = {} THEN su ELSE <<>>

\* setField for each of some values.  Fault: the cached INF stays.
SetFieldsKeepINF(u, values) ==
    [fields |-> Merge(u.fields, values),
     filters |-> IF "SU" \in DOMAIN values THEN Features(values["SU"]) ELSE u.filters,
     suText |-> IF "SU" \in DOMAIN values THEN "whole" ELSE u.suText,
     cached |-> u.cached]
SetFields(u, values) ==
    [fields |-> Merge(u.fields, values),
     filters |-> IF "SU" \in DOMAIN values THEN Features(values["SU"]) ELSE u.filters,
     suText |-> IF "SU" \in DOMAIN values THEN "whole" ELSE u.suText,
     cached |-> IF DOMAIN values = {} THEN u.cached ELSE NoBuffer]

\* Fault: the private identifier is a field like the others.
UpdateAllFields(u, c) == SetFields(u, LastOfEach(c.params))
UpdateFields(u, c) == SetFields(u, LastOfEach([c.params EXCEPT !["PD"] = <<>>]))

\* getINF fills the cache.
WithINF(u) == IF u.cached = NoBuffer THEN [u EXCEPT !.cached = u.fields] ELSE u

\* erase(find(feature), 5): the feature goes with the comma behind it; behind the
\* last there is none, and the one before it stays.
FirstOf(su, feature) ==
    CHOOSE i \in DOMAIN su : su[i] = feature /\ \A j \in DOMAIN su : su[j] = feature => i <= j
Erased(su, i) ==
    IF Len(su) = 1 \/ RemoveAt(su, i) = <<NoPiece>> THEN Empty
    ELSE IF i = Len(su) THEN [su EXCEPT ![i] = NoPiece] ELSE RemoveAt(su, i)
\* The first n characters of a list: features have four, commas are between.
Characters(su, n) ==
    SubSeq(su, 1, (n + 1) \div 5)
    \o (CASE n % 5 = 4 -> <<>> [] n % 5 = 0 -> <<NoPiece>> [] OTHER -> <<Piece>>)

\* removeClientSupport: the feature is taken out of both lists.  When a comma is
\* left at the end of SU, SU is cut to a length taken from another list, less one.
\* A feature that is not there, or too great a length (0 - 1 is one), is an
\* exception in a handler that is noexcept.
RemoveClientSupport(u, feature) ==
    LET su   == u.fields["SU"]
        rest == Erased(su, FirstOf(su, feature))
        size == Cardinality(supports) - 1
        left == [u EXCEPT !.filters = RemoveAt(@, FirstOf(@, feature))]
    IN  IF feature \notin ToSet(u.filters) \/ u.suText = "thrown" THEN u
        ELSE IF feature \notin ToSet(su) THEN [left EXCEPT !.suText = "thrown"]
        ELSE IF rest = Empty \/ Last(rest) # NoPiece THEN [left EXCEPT !.fields["SU"] = rest]
        ELSE IF supports = {} \/ size > 5 * (Len(rest) - 1) THEN [left EXCEPT !.suText = "thrown"]
        ELSE [left EXCEPT !.fields["SU"] = Characters(rest, size), !.suText = "cut"]
\* stripProtocolSupports for the protocol that is not First.
StripProtocolSupports(u) ==
    RemoveClientSupport(RemoveClientSupport(u, TcpFeature), UdpFeature)
\* Does it list features of the second protocol?
Strippable(u) == {TcpFeature, UdpFeature} \cap ToSet(u.filters) # {}

\* Is a broadcast for users with, and without, some features kept from it?
IsFiltered(list) ==
    \/ filters = <<>>
    \/ \E i \in DOMAIN list :
           (list[i].sign = "+") # (list[i].feature \in ToSet(filters))

----------------------------------------------------------------------------
(* Observers.                                                              *)

\* They take over an INF as the hub does.
SendToAll(values) ==
    shown' = [o \in Observer |-> IF o \in present THEN Merge(shown[o], values) ELSE shown[o]]

----------------------------------------------------------------------------
(* ClientManager: what an INF may say, and the validation it asks for.      *)

NoAddress(value) == value \in {Empty, Unspecified}

\* validateIP for a connection over v: an own address that is wrong is refused;
\* else it is filled in, and that of the other protocol, w, is taken out.
AddressAccepted(c, v) ==
    NoAddress(GetParam(c, Ip(v))) \/ GetParam(c, Ip(v)) = Remote(v) \/ local
OwnFilled(c, v) ==
    IF NoAddress(GetParam(c, Ip(v))) THEN AddParam(DelParam(c, Ip(v)), Ip(v), Remote(v)) ELSE c
\* Fault: only the port of the other protocol is taken out.
ValidateIPPortOnly(c, v, w) ==
    IF ~local \/ NoAddress(GetParam(c, Ip(w)))
    THEN DelParam(OwnFilled(c, v), Udp(w)) ELSE OwnFilled(c, v)
ValidateIP(c, v, w) ==
    IF ~local \/ NoAddress(GetParam(c, Ip(w)))
    THEN DelParam(DelParam(OwnFilled(c, v), Udp(w)), Ip(w)) ELSE OwnFilled(c, v)

CanValidate == "HBRI" \in supports /\ DualStack

\* enterNormal for the user u, whose FLAG_VALIDATE_HBRI is `flagged'; `left'
\* counts its tokens, of which removeLogins takes one.
EnterNormal(u, flagged, left) ==
    IF flagged /\ CanValidate
    THEN /\ left < MaxTokens
         /\ Become(u)
         /\ state' = "HBRI" /\ validate' = TRUE /\ tokens' = left + 1
         /\ UNCHANGED <<shown, skipped>>
    ELSE /\ Become(WithINF(u))
         /\ SendToAll(WithINF(u).cached)
         /\ state' = "NORMAL" /\ validate' = FALSE
         /\ tokens' = IF "HBRI" \in supports /\ left > 0 THEN left - 1 ELSE left
         /\ skipped' = (Strippable(u) /\ (skipped \/ flagged))

\* verifyINF: is there an address of the second protocol, the command that is
\* left, and the user afterwards; keeps says that it may keep its features, for
\* FLAG_VALIDATE_HBRI is set or it is in HBRI.
Claims(params) == GetParam(Received(params), Ip(Second)) # Empty
CheckedINF(c) == ValidateIP(c, First, Second)
AfterINF(u, c, keeps) ==
    IF Has(c, "SU") /\ ~keeps
    THEN StripProtocolSupports(UpdateFields(u, c)) ELSE UpdateFields(u, c)

\* What the hub does not see: fields named twice, and a feature listed twice.
Repeated(params) ==
    {f \in Field : Len(params[f]) > 1}
    \cup {f \in {"SU"} : params[f] # <<>> /\
              \E i, j \in DOMAIN Last(params[f]) :
                 i # j /\ Last(params[f])[i] = Last(params[f])[j]}
RepeatedAfter(c, params) == (repeated \ DOMAIN LastOfEach(c.params)) \cup Repeated(params)

----------------------------------------------------------------------------
\* Nothing is modelled once an exception has ended the program.
Running == suText # "thrown"

Init ==
    /\ state = "PROTOCOL"
    /\ local \in BOOLEAN
    /\ fields = Blank /\ filters = <<>> /\ suText = "whole" /\ cached = NoBuffer
    /\ supports = {}
    /\ validate = FALSE /\ tokens = 0
    /\ present = {} /\ shown = [o \in Observer |-> Blank]
    /\ verified = {} /\ skipped = FALSE /\ unsaid = {} /\ repeated = {}

\* The types of users; setFlag and unsetFlag write them to CT.
ClientType == {<<"none">>, <<"op">>}
Typed(u, type) == SetFields(u, [f \in {"CT"} |-> type])

\* An INF that is let through: the script refuses a type of the user's own.
Accepted(params) ==
    /\ GetParam(Received(params), "CT") = Empty
    /\ AddressAccepted(Received(params), First)

\* The first SUP.
FirstSup ==
    /\ Running /\ state = "PROTOCOL"
    /\ state' = "IDENTIFY" /\ supports' \in Supports
    /\ UNCHANGED <<local, user, validate, tokens, present, shown, history>>

\* The INF of the login, with PD.
InfLogin(params, type) ==
    LET c == CheckedINF(Received(params))
        u == AfterINF(Typed(Now, type), c, Claims(params))
    IN  /\ Running /\ state = "IDENTIFY" /\ type = <<"none">>
        /\ Has(Received(params), "PD") /\ Accepted(params)
        /\ EnterNormal(u, Claims(params), tokens)
        /\ repeated' = RepeatedAfter(c, params)
        /\ UNCHANGED <<local, supports, present, verified, unsaid>>

\* A registered user is asked for its password by the script, which has added the
\* user's type to the INF and called verifyINF itself.  It also does so for an INF
\* without PD that comes before the SUP or the password, or during the validation.
InfRegistered(params, type) ==
    LET c     == CheckedINF(AddParam(Received(params), "CT", type))
        waits == validate \/ Claims(params)
        u     == AfterINF(Typed(Now, type), c, waits \/ state = "HBRI")
    IN  /\ Running /\ state \in {"PROTOCOL", "IDENTIFY", "VERIFY", "HBRI"}
        /\ Has(Received(params), "PD") <=> state = "IDENTIFY"
        /\ Accepted(params)
        /\ Become(u) /\ state' = "VERIFY" /\ validate' = waits
        /\ repeated' = RepeatedAfter(c, params)
        /\ UNCHANGED <<local, supports, tokens, present, shown, verified, skipped, unsaid>>

\* The right password.
Pas ==
    /\ Running /\ state = "VERIFY"
    /\ EnterNormal(Now, validate, tokens)
    /\ UNCHANGED <<local, supports, present, verified, unsaid, repeated>>

\* The INF of a connected user goes to everybody as it is left.  It may ask for
\* a validation, which sendHBRI only starts if it can.
InfUpdate(params) ==
    LET c     == CheckedINF(Received(params))
        asks  == Claims(params) /\ CanValidate
        waits == validate \/ asks
        u     == AfterINF(Now, c, waits)
    IN  /\ Running /\ state = "NORMAL"
        /\ ~Has(Received(params), "PD") /\ Accepted(params)
        /\ asks => tokens < MaxTokens
        /\ Become(u)
        /\ SendToAll(LastOfEach(GetBuffer(c)))
        /\ validate' = waits
        /\ tokens' = IF asks THEN tokens + 1 ELSE tokens
        /\ skipped' = (skipped /\ Strippable(u))
        /\ unsaid' = (unsaid \ DOMAIN LastOfEach(c.params))
                     \cup {f \in {"SU"} : u # UpdateFields(Now, c)}
        /\ repeated' = RepeatedAfter(c, params)
        /\ UNCHANGED <<state, local, supports, present, verified>>

\* disconnect (an INF that is refused, SUP at the wrong time, a timeout, a kick)
\* and the removal that follows, of which everybody is told by QUI.  The steps
\* between are ClientManager's.
Disconnected ==
    /\ Running /\ state # "gone"
    /\ state' = "gone"
    /\ Become(Unnamed)
    /\ validate' = FALSE /\ tokens' = 0
    /\ shown' = [o \in Observer |-> Blank]
    /\ verified' = {} /\ skipped' = FALSE /\ unsaid' = {} /\ repeated' = {}
    /\ UNCHANGED <<local, supports, present>>

\* failHBRI of this user, with a token of its used up.
FailHBRI ==
    LET u == StripProtocolSupports(Now)
    IN  IF state = "HBRI"
        THEN EnterNormal(u, FALSE, tokens - 1) /\ UNCHANGED unsaid
        ELSE /\ Become(u) /\ validate' = FALSE /\ skipped' = FALSE
             /\ tokens' = tokens - 1
             /\ unsaid' = unsaid \cup {f \in {"SU"} : state = "NORMAL" /\ u # Now}
             /\ UNCHANGED <<state, shown>>

Waiting == tokens > 0 /\ state \in {"HBRI", "NORMAL"}

\* TCP: a validating connection over the second protocol, from Remote(Second).
\* Of its parameters SU and those of its protocol reach the user.
TcpParams(params) ==
    LET c == ValidateIP(Received(params), Second, First)
    IN  [f \in Field |-> IF f \in {"SU", Ip(Second), Udp(Second)} THEN c.params[f] ELSE <<>>]
Validate(params) ==
    LET inf == Received(TcpParams(params))
        u   == UpdateFields(Now, inf)
    IN  /\ Running /\ Waiting
        /\ AddressAccepted(Received(params), Second)
        /\ verified' = verified \cup {Remote(Second)}
        /\ repeated' = RepeatedAfter(inf, inf.params)
        /\ IF state = "HBRI"
           THEN EnterNormal(u, FALSE, tokens - 1) /\ UNCHANGED unsaid
           ELSE /\ Become(u)
                /\ SendToAll(LastOfEach(GetBuffer(inf)))
                /\ validate' = FALSE /\ skipped' = FALSE
                /\ tokens' = tokens - 1
                /\ unsaid' = unsaid \ DOMAIN LastOfEach(inf.params)
                /\ UNCHANGED state
        /\ UNCHANGED <<local, supports, present>>

\* Its own address is wrong: the validating connection is disconnected.
ValidateRefused(params) ==
    /\ Running /\ Waiting
    /\ ~AddressAccepted(Received(params), Second)
    /\ FailHBRI
    /\ UNCHANGED <<local, supports, present, verified, repeated>>

\* It has come over the first protocol: the token is used up, but it is the
\* validating connection that is handed to failHBRI, where it changes nothing.
ValidateWrongProtocol ==
    /\ Running /\ Waiting
    /\ validate' = FALSE /\ tokens' = tokens - 1
    /\ skipped' = TRUE
    /\ UNCHANGED <<state, local, user, supports, present, shown, verified, unsaid, repeated>>

\* It has come before the password: only the flag is lost.
ValidateBadState ==
    /\ Running /\ tokens > 0 /\ state = "VERIFY"
    /\ validate' = FALSE
    /\ skipped' = TRUE
    /\ UNCHANGED <<state, local, user, supports, tokens, present, shown, verified, unsaid,
                   repeated>>

\* onTimerSecond: the token is too old.
Timeout ==
    /\ Running /\ tokens > 0
    /\ FailHBRI
    /\ UNCHANGED <<local, supports, present, verified, repeated>>

\* SUP of a connected user: HBRI added or removed, and what every user must have,
\* which one who logged in without a SUP has not.
Sup ==
    /\ Running /\ state = "NORMAL"
    /\ \E s \in {supports \cup {"HBRI"}, supports \ {"HBRI"}} :
           supports' = s \cup {"BASE", "TIGR"}
    /\ UNCHANGED <<state, local, user, validate, tokens, present, shown, history>>

\* An operator registers the user, under another level: set_level tells nobody.
SetLevel(type) ==
    /\ Running /\ state \in {"VERIFY", "HBRI", "NORMAL"} /\ fields["CT"] # type
    /\ Become(Typed(Now, type))
    /\ unsaid' = IF state = "NORMAL" THEN unsaid \cup {"CT"} ELSE unsaid
    /\ UNCHANGED <<state, local, supports, validate, tokens, present, shown, verified,
                   skipped, repeated>>

\* Another user enters NORMAL and is sent the INF of everybody; or leaves.
Join(o) ==
    /\ Running
    /\ o \notin present /\ present' = present \cup {o}
    /\ IF state = "NORMAL"
       THEN /\ Become(WithINF(Now))
            /\ shown' = [shown EXCEPT ![o] = WithINF(Now).cached]
       ELSE UNCHANGED <<user, shown>>
    /\ UNCHANGED <<state, local, supports, validate, tokens, history>>
Leave(o) ==
    /\ Running
    /\ present' = present \ {o}
    /\ o \in present /\ shown' = [shown EXCEPT ![o] = Blank]
    /\ UNCHANGED <<state, local, user, supports, validate, tokens, history>>

Next ==
    \/ FirstSup
    \/ \E params \in Infs, type \in ClientType : InfLogin(params, type)
    \/ \E params \in Infs, type \in ClientType : InfRegistered(params, type)
    \/ Pas
    \/ \E params \in Infs : InfUpdate(params)
    \/ Disconnected
    \/ \E params \in Tcps : Validate(params)
    \/ \E params \in Tcps : ValidateRefused(params)
    \/ ValidateWrongProtocol
    \/ ValidateBadState
    \/ Timeout
    \/ Sup
    \/ \E type \in ClientType : SetLevel(type)
    \/ \E o \in Observer : Join(o)
    \/ \E o \in Observer : Leave(o)

Spec == Init /\ [][Next]_vars

----------------------------------------------------------------------------
(* Properties *)

\* The variables have their types; the private identifier is never kept, and a
\* validation that is waited for has a token, by which the timer ends it
\* (FLAG_VALIDATE_HBRI, Entity.h; hbriTokens, ClientManager.cpp).
TypeOK ==
    /\ state \in {"PROTOCOL", "IDENTIFY", "VERIFY", "HBRI", "NORMAL", "gone"}
    /\ local \in BOOLEAN /\ validate \in BOOLEAN /\ skipped \in BOOLEAN
    /\ DOMAIN fields = Field /\ fields["PD"] = Empty
    /\ cached = NoBuffer \/ DOMAIN cached = Field
    /\ suText \in {"whole", "cut", "thrown"}
    /\ tokens \in 0 .. MaxTokens
    /\ validate /\ state \in {"HBRI", "NORMAL"} => tokens > 0
    /\ present \subseteq Observer /\ DOMAIN shown = Observer
    /\ unsaid \subseteq Field /\ repeated \subseteq Field

\* What a user shows of the fields of this one.
Agrees(view) == \A f \in Field \ unsaid : view[f] = fields[f]
\* The routing of searches that ask for a feature.
Listed == ToSet(Features(fields["SU"]))
Routed == \A f \in Listed \cup {TcpFeature, UdpFeature} :
             IsFiltered(<<[sign |-> "+", feature |-> f]>>) <=> f \notin Listed

\* Everybody who is there shows the user alike, whenever they came: as the hub
\* knows it, as the cached INF tells newcomers, and as feature broadcasts are
\* routed (Entity::setField, getINF, isFiltered, ClientManager::sendToAll).
\* Excepted are fields changed in silence and an SU that was cut.
SameUser ==
    Running /\ state = "NORMAL" =>
        /\ \A o \in present : Agrees(shown[o])
        /\ cached # NoBuffer => Agrees(cached)
        /\ suText = "whole" => Routed

\* What a view may show of a user with public addresses, `ver' being validated.
\* A field that was named twice shows what the hub has not looked at.
ShowsVerified(view, ver, rep) ==
    /\ Ip(Second) \notin rep => view[Ip(Second)] \in {Empty} \cup ver
    /\ Udp(Second) \notin rep /\ view[Udp(Second)] # Empty => ver # {}
    /\ Ip(First) \notin rep => view[Ip(First)] = Remote(First)
    /\ view["PD"] = Empty

\* Nobody is shown an address or port of the second protocol before a connection
\* over it has validated the address, nor an own address the user does not have,
\* nor the private identifier; searches over the second protocol come to the
\* user only while it waits for the validation or after it has had one
\* (validateIP, stripProtocolSupports, failHBRI).  For private addresses the
\* code takes the user's word.  Excepted are users whose validation was skipped,
\* and the fields and lists that name something twice, of which validateIP and
\* removeClientSupport see the first alone.
SecondaryVerified ==
    Running /\ state = "NORMAL" =>
        /\ ~local =>
            /\ \A o \in present : ShowsVerified(shown[o], verified, repeated)
            /\ cached # NoBuffer => ShowsVerified(cached, verified, repeated)
        /\ Strippable(Now) /\ "SU" \notin repeated => validate \/ skipped \/ verified # {}

\* filters holds what SU lists (Entity.h, "INF SU").
FiltersAreSU == Running => filters = Features(fields["SU"])

============================================================================

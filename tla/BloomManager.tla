---------------------------- MODULE BloomManager ----------------------------
(***************************************************************************)
(* BloomManager with one client.  The hub asks a client that announces its  *)
(* number of files (INF SF) for a Bloom filter of its share (GET blom), gets *)
(* it in pieces (SND, then bytes), and keeps searches for files that cannot  *)
(* be there from it.  The hub's view is built from messages that are under   *)
(* way while the share goes on changing.                                    *)
(*                                                                          *)
(* The client is external: it answers a GET with the filter of the files it *)
(* shares at that moment, as the clients of the BLO0 extension do.  It may   *)
(* also leave the protocol (an unasked SND, the feature dropped): `lapsed'.  *)
(***************************************************************************)
EXTENDS HashBloom, Sequences

CONSTANTS
    Files,      \* TTHs that may be shared
    MaxChanges, \* bound: changes of the share and INFs in a run
    MaxSearches \* bound: searches counted

ASSUME FilesAssumption == Files \subseteq TTH /\ MaxChanges \in Nat

None == [m |-> 0]

VARIABLES
    share,      \* client: the files it shares
    up,         \* commands on their way to the hub, in order
    down,       \* GETs on their way to the client, in order
    changes,    \* changes made so far
    lapsed,     \* the client has left the protocol
    connected,  \* the hub has not disconnected the client
    blo0,       \* hub: the client supports BLO0
    sf,         \* hub: the entity's SF field
    bloom,      \* hub: the plugin data at bloomHandle, None if there is none
    pending,    \* hub: the PendingItem, None if there is none
    incoming,   \* the bytes of an accepted SND still to come
    searches,   \* hub: the counters of searches sent, with a TTH, stopped
    announced,  \* ghost: files shared ever since the last INF SF the hub handled
    fresh       \* ghost: the client has announced its share since it last changed

client == <<share, up, down, changes, lapsed, fresh>>
hub    == <<connected, blo0, sf, bloom, pending, incoming, searches, announced>>
vars   == <<client, hub>>

Inf(s)       == [cmd |-> "INF", sf |-> TRUE, held |-> s, n |-> Cardinality(s)]
OtherInf     == [cmd |-> "INF", sf |-> FALSE]
Sup(on)      == [cmd |-> "SUP", on |-> on]
Snd(l, data) == [cmd |-> "SND", len |-> l, data |-> data]
Get(m, k)    == [len |-> m \div Octet, m |-> m, k |-> k]

----------------------------------------------------------------------------
(* The client.                                                               *)

Changing == connected /\ changes < MaxChanges /\ changes' = changes + 1
Sends(c) == up' = Append(up, c)

Share(f) ==
    /\ Changing /\ f \notin share
    /\ share' = share \cup {f}
    /\ fresh' = FALSE
    /\ UNCHANGED <<up, down, lapsed, hub>>

\* A file that is taken out no longer counts as shared ever since an earlier INF.
Unshare(f) ==
    /\ Changing /\ f \in share
    /\ share' = share \ {f}
    /\ up' = [i \in DOMAIN up |->
                IF up[i].cmd = "INF" /\ up[i].sf
                THEN [up[i] EXCEPT !.held = @ \ {f}] ELSE up[i]]
    /\ announced' = announced \ {f}
    /\ fresh' = FALSE
    /\ UNCHANGED <<down, lapsed, connected, blo0, sf, bloom, pending, incoming, searches>>

\* It announces the number of its files, or something else.
Announce ==
    /\ Changing
    /\ \/ Sends(Inf(share)) /\ fresh' = TRUE
       \/ Sends(OtherInf) /\ fresh' = fresh
    /\ UNCHANGED <<share, down, lapsed, hub>>

\* It answers the hub's request with the filter of what it shares now.
Answer ==
    /\ connected /\ down # <<>>
    /\ LET get == Head(down) IN
         Sends(Snd(get.len, Bytes(Filter(share, get.m, get.k))))
    /\ down' = Tail(down)
    /\ UNCHANGED <<share, changes, lapsed, fresh, hub>>

\* It leaves the protocol.
Lapse ==
    /\ Changing
    /\ lapsed' = TRUE
    /\ \/ Sends(Snd(1, <<{}>>))
       \/ \E on \in BOOLEAN : Sends(Sup(on))
    /\ UNCHANGED <<share, down, fresh, hub>>

----------------------------------------------------------------------------
(* The hub.                                                                  *)

\* The next command is read, unless filter bytes are awaited.
Receives(cmd) ==
    /\ connected /\ incoming = <<>>
    /\ up # <<>> /\ Head(up).cmd = cmd
    /\ up' = Tail(up)

\* Fault: the filter in use is kept until the new one comes.
AskKeepingBloom(n) ==
    LET k == GetK(n)
        m == GetM(n, k)
    IN  /\ pending' = [m |-> m, k |-> k, buffer |-> <<>>]
        /\ down' = Append(down, Get(m, k))
        /\ UNCHANGED bloom

\* The GET and its PendingItem, the filter in use dropped.  n is a number of files:
\* an SF that is negative, or too large for the sizes, is not modelled.
Ask(n) ==
    LET k == GetK(n)
        m == GetM(n, k)
    IN  /\ bloom' = None
        /\ pending' = [m |-> m, k |-> k, buffer |-> <<>>]
        /\ down' = Append(down, Get(m, k))

\* onReceive: whether an INF makes the hub ask for a filter.
\* Faults: it asks while a filter is asked for; it does not ask while it has one.
AsksAlways(inf)  == inf.sf /\ blo0 /\ inf.n # 0
AsksOnce(inf)    == inf.sf /\ blo0 /\ pending = None /\ inf.n # 0 /\ bloom = None
AsksBloom(inf)   == inf.sf /\ blo0 /\ pending = None /\ inf.n # 0

\* onReceive of an INF, then the INF handler's update of the fields.
ReceiveINF ==
    /\ Receives("INF")
    /\ LET inf == Head(up) IN
       /\ IF AsksBloom(inf)
          THEN Ask(inf.n)
          ELSE UNCHANGED <<bloom, pending, down>>
       /\ sf' = IF inf.sf THEN inf.n ELSE sf
       /\ announced' = IF inf.sf THEN inf.held ELSE announced
    /\ UNCHANGED <<share, changes, lapsed, fresh, connected, blo0, incoming, searches>>

\* updateSupports
ReceiveSUP ==
    /\ Receives("SUP")
    /\ blo0' = Head(up).on
    /\ UNCHANGED <<share, down, changes, lapsed, fresh, connected, sf, bloom,
                   pending, incoming, searches, announced>>

\* onReceive: whether a SND is of the size that was asked for.
\* Fault: any size will do.
AnySize(snd)   == TRUE
RightSize(snd) == snd.len = pending.m \div Octet

\* onReceive of a SND: not asked for, of the wrong size, or the start of the bytes.
ReceiveSND ==
    /\ Receives("SND")
    /\ LET snd == Head(up) IN
       \/ /\ pending = None
          /\ connected' = FALSE
          /\ UNCHANGED <<pending, incoming>>
       \/ /\ pending # None /\ ~RightSize(snd)
          /\ connected' = FALSE
          /\ pending' = None
          /\ UNCHANGED incoming
       \/ /\ pending # None /\ RightSize(snd)
          /\ incoming' = snd.data
          /\ UNCHANGED <<connected, pending>>
    /\ UNCHANGED <<share, down, changes, lapsed, fresh, blo0, sf, bloom, searches, announced>>

\* onData: whether the bytes collected are all.
\* Fault: one byte more is waited for.
Beyond(buffer)   == Len(buffer) > pending.m \div Octet
Complete(buffer) == Len(buffer) = pending.m \div Octet

\* onData, with the n bytes the socket happened to read; the last complete the filter.
OnData(n) ==
    /\ connected /\ incoming # <<>>
    /\ LET buffer == pending.buffer \o SubSeq(incoming, 1, n) IN
         IF Complete(buffer)
         THEN /\ bloom' = Reset(buffer, pending.m, pending.k)
              /\ pending' = None
         ELSE /\ pending' = [pending EXCEPT !.buffer = buffer]
              /\ UNCHANGED bloom
    /\ incoming' = SubSeq(incoming, n + 1, Len(incoming))
    /\ UNCHANGED <<client, connected, blo0, sf, searches, announced>>

HasTTH(f)  == bloom = None \/ Matches(bloom, f)
Stopped(f) == ~HasTTH(f) \/ sf = 0

\* onSend: a search for one of the files, or one without a TTH, goes to the client.
Search ==
    /\ connected /\ searches.all < MaxSearches
    /\ \/ searches' = [searches EXCEPT !.all = @ + 1]
       \/ \E f \in Files :
            searches' = [all |-> searches.all + 1, tth |-> searches.tth + 1,
                         stopped |-> searches.stopped + (IF Stopped(f) THEN 1 ELSE 0)]
    /\ UNCHANGED <<client, connected, blo0, sf, bloom, pending, incoming, announced>>

----------------------------------------------------------------------------

Init ==
    /\ share \in SUBSET Files /\ fresh = FALSE
    /\ up = <<>> /\ down = <<>> /\ changes = 0 /\ lapsed = FALSE
    /\ connected = TRUE /\ blo0 \in BOOLEAN /\ sf = 0
    /\ bloom = None /\ pending = None /\ incoming = <<>>
    /\ searches = [all |-> 0, tth |-> 0, stopped |-> 0]
    /\ announced = {}

HubStep == ReceiveINF \/ ReceiveSUP \/ ReceiveSND \/ \E n \in 1 .. Len(incoming) : OnData(n)

Next ==
    \/ \E f \in Files : Share(f) \/ Unshare(f)
    \/ Announce
    \/ Answer
    \/ Lapse
    \/ HubStep
    \/ Search

\* The hub handles what arrives and the client answers what it is asked.
Fairness == WF_vars(HubStep) /\ WF_vars(Answer)

Spec == Init /\ [][Next]_vars /\ Fairness

----------------------------------------------------------------------------
(* Properties.                                                               *)

\* Type invariant.
TypeOK ==
    /\ share \subseteq Files /\ announced \subseteq Files
    /\ changes \in 0 .. MaxChanges
    /\ lapsed \in BOOLEAN /\ connected \in BOOLEAN /\ blo0 \in BOOLEAN /\ fresh \in BOOLEAN
    /\ sf \in 0 .. Cardinality(Files)
    /\ bloom # None => /\ bloom.on \subseteq 0 .. bloom.m - 1
                       /\ bloom.m % Unit = 0 /\ bloom.k \in 1 .. Keys
    /\ pending # None => /\ pending.m % Unit = 0 /\ pending.m > 0 /\ pending.k \in 1 .. Keys
                         /\ Len(pending.buffer) < pending.m \div Octet
    /\ searches.stopped <= searches.tth /\ searches.tth <= searches.all

\* A search reaches the client for every file it has shared ever since the last
\* INF the hub handled, whatever filters and announcements are under way: a filter
\* is never too old for an announcement the hub has acted on (onReceive drops the
\* filter in use before asking, ignores an announcement while one is asked for).
NoLostFile == connected /\ ~lapsed => \A f \in announced : ~Stopped(f)

\* Once nothing is under way and the client has announced its last change, the hub
\* has the filter of exactly that share, also when announcements came while a
\* filter was being fetched ("we'll end up with an old bloom" is only so of its size).
Settled ==
    connected /\ ~lapsed /\ blo0 /\ up = <<>> /\ down = <<>> /\ incoming = <<>>
    /\ fresh /\ share # {} =>
        bloom = Filter(share, bloom.m, bloom.k)

\* One request is out at a time; the bytes collected and those still to come are
\* the filter that was asked for, and bytes are only awaited for a pending filter
\* (onData's "shouldn't happen"); a client that keeps to the protocol is never
\* disconnected for its answer.
OneRequest ==
    /\ incoming # <<>> =>
           pending # None /\ Len(pending.buffer) + Len(incoming) = pending.m \div Octet
    /\ ~lapsed =>
           /\ connected
           /\ Len(down) + Cardinality({i \in DOMAIN up : up[i].cmd = "SND"})
                + (IF incoming = <<>> THEN 0 ELSE 1) = (IF pending = None THEN 0 ELSE 1)

\* A filter that was asked for arrives.
FilterArrives == pending # None ~> (pending = None \/ lapsed)
============================================================================

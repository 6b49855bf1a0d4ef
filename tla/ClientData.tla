---- MODULE ClientData ----
(***************************************************************************)
(* Client::onData: cutting the byte stream of a client into command lines, *)
(* and into the raw data that a handler asks for with setDataMode, however *)
(* the network cuts the stream into buffers.  One iteration of onData's    *)
(* loop is one step; only the loop itself runs while chunk is not used up. *)
(* A byte is LF or a member of Char; each delivered byte is logged with    *)
(* its use and, on the LF that ends a command, the data that was asked for.*)
(***************************************************************************)
EXTENDS Naturals, Sequences

CONSTANTS
    Char,           \* bytes other than LF
    LF,             \* '\n'
    MaxCommandSize, \* setting MaxCommandSize; 0: no limit
    MaxData,        \* bound: bytes a handler asks for
    MaxChunk,       \* bound: bytes of one buffer (64 in the code)
    MaxBytes        \* bound: bytes received in a behaviour

Byte == Char \cup {LF}

ASSUME BoundsAssumption ==
    /\ LF \notin Char
    /\ {MaxCommandSize, MaxData, MaxChunk, MaxBytes} \subseteq Nat

VARIABLES
    chunk,          \* what onData has not looked at yet of its buffer
    buffer,         \* the beginning of a line
    dataBytes,      \* bytes of raw data still to come
    disconnecting,
    received,       \* all bytes handed to onData
    log             \* the bytes delivered, in order

vars == <<chunk, buffer, dataBytes, disconnecting, received, log>>

\* Raw data, part of a line, or the LF that ends one.
Use == [byte : Byte, use : {"data", "line", "end"}, opens : 0..MaxData]

\* Fault: the loop goes on whatever the command's handler did.
InLoopAnyway == chunk # <<>>
\* The condition of onData's loop.
InLoop == chunk # <<>> /\ ~disconnecting

\* The bytes of a line, whose last one asks for n bytes of data, or of raw
\* data, enter the log.
LoggedLine(bytes, n) ==
    [i \in 1..Len(bytes) |->
        IF i = Len(bytes)
        THEN [byte |-> bytes[i], use |-> "end", opens |-> n]
        ELSE [byte |-> bytes[i], use |-> "line", opens |-> 0]]
LoggedData(bytes) ==
    [i \in 1..Len(bytes) |->
        [byte |-> bytes[i], use |-> "data", opens |-> 0]]

\* Fault: the whole buffer is handed over as data.
DataLengthUnbounded == Len(chunk)
\* The part of the buffer that is raw data.
DataLength == IF dataBytes < Len(chunk) THEN dataBytes ELSE Len(chunk)

LineEnds == {i \in 1..Len(chunk) : chunk[i] = LF}
FirstEnd == CHOOSE i \in LineEnds : \A k \in LineEnds : i <= k

\* Fault: what earlier buffers left is forgotten.
LineOfChunk == SubSeq(chunk, 1, FirstEnd)
\* The line that ends at the first LF, with what earlier buffers left.
Line == buffer \o SubSeq(chunk, 1, FirstEnd)

\* Fault: off by one.
TooLongByOne(line) == MaxCommandSize > 0 /\ Len(line) > MaxCommandSize + 1
TooLong(line) == MaxCommandSize > 0 /\ Len(line) > MaxCommandSize
----------------------------------------------------------------------------
Init ==
    /\ chunk = <<>> /\ buffer = <<>> /\ dataBytes = 0
    /\ disconnecting = FALSE /\ received = <<>> /\ log = <<>>

\* completeRead hands over a buffer; onData returns at once when the client
\* is disconnecting.
OnData(bytes) ==
    /\ chunk = <<>> /\ ~disconnecting
    /\ Len(received) + Len(bytes) <= MaxBytes
    /\ chunk' = bytes
    /\ received' = received \o bytes
    /\ UNCHANGED <<buffer, dataBytes, disconnecting, log>>

\* dataBytes > 0: the data handler gets as much as was asked for; kick says
\* whether it disconnects.
TakeData(kick) ==
    /\ InLoop
    /\ dataBytes > 0
    /\ log' = log \o LoggedData(SubSeq(chunk, 1, DataLength))
    /\ dataBytes' = dataBytes - DataLength
    /\ chunk' = SubSeq(chunk, DataLength + 1, Len(chunk))
    /\ disconnecting' = kick
    /\ UNCHANGED <<buffer, received>>

\* No LF in the rest: it is kept, and its length is not looked at.
TakePart ==
    /\ InLoop
    /\ dataBytes = 0 /\ LineEnds = {}
    /\ buffer' = buffer \o chunk
    /\ chunk' = <<>>
    /\ UNCHANGED <<dataBytes, disconnecting, received, log>>

\* A line is complete.
LineEnded ==
    /\ InLoop
    /\ dataBytes = 0 /\ LineEnds # {}
    /\ chunk' = SubSeq(chunk, FirstEnd + 1, Len(chunk))
    /\ UNCHANGED received

\* It is too long, or a command with another SID than the client's
\* (wrongSid): disconnect.
RefuseLine(wrongSid) ==
    /\ LineEnded
    /\ TooLong(Line) \/ (wrongSid /\ Len(Line) > 1)
    /\ disconnecting' = TRUE
    /\ buffer' = Line
    /\ UNCHANGED <<dataBytes, log>>

\* It is empty, a command (onReceive), or no command (onBadLine); n is the
\* data its handler asks for, kick says whether it disconnects.
HandleLine(n, kick) ==
    /\ LineEnded
    /\ ~TooLong(Line)
    /\ Len(Line) = 1 => n = 0 /\ ~kick
    /\ log' = log \o LoggedLine(Line, n)
    /\ dataBytes' = n
    /\ disconnecting' = kick
    /\ buffer' = <<>>

\* A timer, a script or another client's login disconnects the client.
Disconnect ==
    /\ chunk = <<>> /\ ~disconnecting
    /\ disconnecting' = TRUE
    /\ UNCHANGED <<chunk, buffer, dataBytes, received, log>>

Next ==
    \/ \E n \in 1..MaxChunk : \E bytes \in [1..n -> Byte] : OnData(bytes)
    \/ \E kick \in BOOLEAN : TakeData(kick)
    \/ TakePart
    \/ \E wrongSid \in BOOLEAN : RefuseLine(wrongSid)
    \/ \E n \in 0..MaxData, kick \in BOOLEAN : HandleLine(n, kick)
    \/ Disconnect

Spec == Init /\ [][Next]_vars
----------------------------------------------------------------------------
\* Every variable holds a value of its type.
TypeOK ==
    /\ chunk \in Seq(Byte) /\ buffer \in Seq(Byte) /\ received \in Seq(Byte)
    /\ dataBytes \in 0..MaxData
    /\ disconnecting \in BOOLEAN
    /\ log \in Seq(Use)

Bytes(uses) == [i \in 1..Len(uses) |-> uses[i].byte]

\* However the stream is cut, the delivered bytes, the kept beginning of a
\* line and the rest of the buffer are the stream: none lost, none twice.
NothingLost ==
    ~disconnecting => Bytes(log) \o buffer \o chunk = received

\* A byte is raw data exactly when it is among the n bytes after a command
\* that asked for n; every other LF ends a line, nothing else does, and no
\* complete line is kept back.
Framed ==
    /\ \A i \in 1..Len(log) :
        /\ log[i].use = "data" <=>
                \E j \in 1..(i - 1) : i - j <= log[j].opens
        /\ log[i].use # "data" => (log[i].use = "end" <=> log[i].byte = LF)
        /\ log[i].opens > 0 => log[i].use = "end"
    /\ \A i \in 1..Len(buffer) : buffer[i] = LF => disconnecting
    /\ dataBytes > 0 =>
        /\ buffer = <<>>
        /\ \E j \in 1..Len(log) : log[j].opens = Len(log) - j + dataBytes

\* No command longer than the limit is delivered, even if it came in parts.
CommandBound ==
    MaxCommandSize > 0 =>
        \A i, j \in 1..Len(log) :
            /\ i <= j
            /\ \A k \in i..(j - 1) : log[k].use = "line"
            /\ log[j].use = "end"
            => j - i + 1 <= MaxCommandSize

\* No command has asked for more data than has come and is awaited.
WindowsClosed ==
    \A j \in 1..Len(log) : log[j].opens <= Len(log) - j + dataBytes

\* Lines are delivered as a whole.
WholeLines == Len(log) > 0 => log[Len(log)].use # "line"

\* The inductive invariant behind NothingLost, Framed and CommandBound.
IInv ==
    /\ TypeOK /\ NothingLost /\ Framed /\ CommandBound
    /\ WindowsClosed /\ WholeLines

\* A client that is disconnecting gets no further command or data handled,
\* not even from the buffer at hand.
QuietAfterDisconnect == [][disconnecting => log' = log]_vars
====

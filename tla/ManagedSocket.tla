---- MODULE ManagedSocket ----
(***************************************************************************)
(* One connection of the hub: the output queue, the single outstanding     *)
(* asynchronous write, the read loop, and disconnect(), which lets the     *)
(* queue drain while a job tells the owner and a timer closes the socket.  *)
(* A byte is its number in the stream of accepted bytes; a Buffer is a     *)
(* sequence of bytes.  Of each time stamp the model keeps the age, in      *)
(* ticks, up to the first value that is late.                              *)
(***************************************************************************)
EXTENDS Naturals, SequencesExt

CONSTANTS
    Size,               \* sizes of the buffers that are written
    MaxBufferSize,      \* setting MaxBufferSize; 0: no limit
    WriteBytes,         \* most bytes one asynchronous write takes of a list
    OverflowTimeout,    \* setting OverflowTimeout
    WriteTimeout,       \* 60 seconds
    DisconnectTimeout,  \* setting DisconnectTimeout
    MaxBytes,           \* bound: bytes accepted in a behaviour
    Never               \* not_a_date_time

ASSUME TimesAssumption ==
    /\ Size \subseteq Nat \ {0}
    /\ {MaxBufferSize, OverflowTimeout, WriteTimeout, DisconnectTimeout,
        MaxBytes} \subseteq Nat
    /\ WriteBytes \in Nat \ {0}
    /\ Never \notin Nat

VARIABLES
    stage,      \* "new", "handshake", "ready"
    sock,       \* "open", "shutdown" (nothing more is sent), "closed"
    outBuf,     \* output queue
    flight,     \* the bytes of the outstanding write
    lastWrite,  \* age of the outstanding write, Never when there is none
    overflow,   \* age of the overflow stamp
    disc,       \* time since disconnect()
    reporter,   \* the Reporter job is queued
    attached,   \* the owner's handlers are set: fail() has not run
    reading,    \* "idle", "probe" (empty buffer), "data"
    accepted,   \* bytes accepted by write()
    sent        \* bytes the network took, in order

writeVars == <<outBuf, flight, lastWrite, overflow, accepted, sent>>
vars == <<stage, sock, writeVars, disc, reporter, attached, reading>>

Queued(b) == Len(FlattenSeq(b))
Writing == lastWrite # Never
Disconnecting == disc # Never
\* A time stamp that exists and is older than the limit.
Exceeds(age, limit) == IF age = Never THEN FALSE ELSE age > limit
Over(n) == MaxBufferSize > 0 /\ n > MaxBufferSize

\* Fault: one byte beyond the buffers is handed to the network.
BatchBeyond(b) == Append(FlattenSeq(b), 0)

\* SocketStream::write: one buffer as a whole, or the first bytes of several.
Batch(b) ==
    IF Len(b) = 1 \/ Queued(b) <= WriteBytes THEN FlattenSeq(b)
    ELSE SubSeq(FlattenSeq(b), 1, WriteBytes)

\* Fault: a buffer that was written in part is dropped as a whole.
DropWhole(b, k) ==
    LET i == CHOOSE i \in 0..Len(b) :
                /\ k <= Queued(SubSeq(b, 1, i))
                /\ i > 0 => Queued(SubSeq(b, 1, i - 1)) < k
    IN SubSeq(b, i + 1, Len(b))

\* completeWrite's loop: the first k bytes leave the queue.
Drop(b, k) ==
    LET whole == {i \in 0..Len(b) : Queued(SubSeq(b, 1, i)) <= k}
        i == Max(whole)
        part == k - Queued(SubSeq(b, 1, i))
    IN IF part = 0 THEN SubSeq(b, i + 1, Len(b))
       ELSE <<SubSeq(b[i + 1], part + 1, Len(b[i + 1]))>>
                \o SubSeq(b, i + 2, Len(b))

\* Fault: the stamp stays until the queue is empty.
OverflowUntilEmpty(b) == IF b = <<>> THEN Never ELSE overflow

\* completeWrite: the overflow is over when the queue is below the limit.
OverflowAfter(b) == IF Queued(b) < MaxBufferSize THEN Never ELSE overflow

\* prepareWrite when no write is outstanding.
PrepareWrite(b) ==
    IF b = <<>> THEN flight' = <<>> /\ lastWrite' = Never
    ELSE flight' = Batch(b) /\ lastWrite' = 0

\* Faults: the outstanding write is not waited for; nobody is told.
StartDisconnectAtOnce ==
    /\ disc' = 0 /\ reporter' = TRUE /\ sock' = "shutdown"
StartDisconnectSilently ==
    /\ disc' = 0 /\ UNCHANGED reporter
    /\ sock' = IF Writing THEN sock ELSE "shutdown"

\* disconnect(), not called before.
StartDisconnect ==
    /\ disc' = 0 /\ reporter' = TRUE
    /\ sock' = IF Writing THEN sock ELSE "shutdown"

NoDisconnect == UNCHANGED <<disc, reporter, sock>>
----------------------------------------------------------------------------
Init ==
    /\ stage = "new" /\ sock = "open"
    /\ outBuf = <<>> /\ flight = <<>>
    /\ lastWrite = Never /\ overflow = Never /\ disc = Never
    /\ reporter = FALSE /\ attached = TRUE /\ reading = "idle"
    /\ accepted = 0 /\ sent = <<>>

\* completeAccept: the owner is told, and the stream initialised.
CompleteAccept ==
    /\ stage = "new" /\ attached
    /\ stage' = "handshake"
    /\ UNCHANGED <<sock, writeVars, disc, reporter, attached, reading>>

\* fail(): the owner is told once, then its handlers are gone.
Fail == attached' = FALSE

AcceptError ==
    /\ stage = "new" /\ attached
    /\ Fail
    /\ UNCHANGED <<stage, sock, writeVars, disc, reporter, reading>>

\* The handshake ends (at once without TLS; a failed one is never reported).
Ready ==
    /\ stage = "handshake" /\ sock # "closed"
    /\ stage' = "ready" /\ reading' = "probe"
    /\ UNCHANGED <<sock, writeVars, disc, reporter, attached>>

\* write(), accepted: the queue grows; the overflow is stamped; a write is
\* started, or an outstanding one found too old.
Write(size, lowPrio) ==
    LET over == Over(Queued(outBuf) + size)
        buf == [i \in 1..size |-> accepted + i]
    IN
    /\ stage # "new" /\ attached /\ ~Disconnecting
    /\ accepted + size <= MaxBytes
    /\ over => ~lowPrio /\ ~Exceeds(overflow, OverflowTimeout)
    /\ overflow' = IF over THEN 0 ELSE overflow
    /\ outBuf' = Append(outBuf, buf)
    /\ accepted' = accepted + size
    /\ IF Writing
       THEN /\ UNCHANGED <<flight, lastWrite>>
            /\ IF Exceeds(lastWrite, WriteTimeout) THEN StartDisconnect
               ELSE NoDisconnect
       ELSE PrepareWrite(outBuf') /\ NoDisconnect
    /\ UNCHANGED <<stage, attached, reading, sent>>

\* write(), refused: the queue has overflowed for too long.
WriteOverflow(size) ==
    /\ stage # "new" /\ attached /\ ~Disconnecting
    /\ Over(Queued(outBuf) + size)
    /\ Exceeds(overflow, OverflowTimeout)
    /\ StartDisconnect
    /\ UNCHANGED <<stage, writeVars, attached, reading>>

\* completeWrite: k bytes are gone.
CompleteWrite(k) ==
    /\ Writing /\ k <= Len(flight)
    /\ sent' = sent \o SubSeq(flight, 1, k)
    /\ outBuf' = Drop(outBuf, k)
    /\ overflow' = IF overflow = Never THEN Never ELSE OverflowAfter(outBuf')
    /\ PrepareWrite(outBuf')
    /\ sock' = IF Disconnecting /\ outBuf' = <<>> /\ sock = "open"
               THEN "shutdown" ELSE sock
    /\ UNCHANGED <<stage, disc, reporter, attached, reading, accepted>>

WriteError ==
    /\ Writing
    /\ flight' = <<>> /\ lastWrite' = Never
    /\ Fail
    /\ UNCHANGED <<stage, sock, outBuf, overflow, disc, reporter, reading,
                   accepted, sent>>

\* prepareRead2: there is something to read.
PrepareRead2 ==
    /\ reading = "probe"
    /\ reading' = "data"
    /\ UNCHANGED <<stage, sock, writeVars, disc, reporter, attached>>

\* completeRead: the data goes to the owner, also after disconnect(), and the
\* loop starts over.
CompleteRead ==
    /\ reading = "data"
    /\ reading' = "probe"
    /\ UNCHANGED <<stage, sock, writeVars, disc, reporter, attached>>

ReadError ==
    /\ reading # "idle"
    /\ reading' = "idle"
    /\ Fail
    /\ UNCHANGED <<stage, sock, writeVars, disc, reporter>>

\* The owner calls disconnect().
Disconnect ==
    /\ stage # "new" /\ attached /\ ~Disconnecting
    /\ StartDisconnect
    /\ UNCHANGED <<stage, writeVars, attached, reading>>

\* The Reporter job: fail().
Report ==
    /\ reporter
    /\ reporter' = FALSE
    /\ Fail
    /\ UNCHANGED <<stage, sock, writeVars, disc, reading>>

\* Fault: the job waits until everything has been sent.
CloseDrained ==
    /\ Disconnecting /\ disc >= DisconnectTimeout
    /\ sock # "closed" /\ outBuf = <<>>
    /\ sock' = "closed"
    /\ UNCHANGED <<stage, writeVars, disc, reporter, attached, reading>>

\* The Disconnector job, when DisconnectTimeout has passed.
Close ==
    /\ Disconnecting /\ disc >= DisconnectTimeout
    /\ sock # "closed"
    /\ sock' = "closed"
    /\ UNCHANGED <<stage, writeVars, disc, reporter, attached, reading>>

Older(age, limit) == IF age = Never THEN age
                     ELSE IF age > limit THEN age ELSE age + 1

Tick ==
    /\ lastWrite' = Older(lastWrite, WriteTimeout)
    /\ overflow' = Older(overflow, OverflowTimeout)
    /\ disc' = Older(disc, DisconnectTimeout)
    /\ (<<lastWrite, overflow, disc>>)' # <<lastWrite, overflow, disc>>
    /\ UNCHANGED <<stage, sock, outBuf, flight, accepted, sent, reporter,
                   attached, reading>>

Next ==
    \/ CompleteAccept
    \/ AcceptError
    \/ Ready
    \/ \E size \in Size, lowPrio \in BOOLEAN : Write(size, lowPrio)
    \/ \E size \in Size : WriteOverflow(size)
    \/ \E k \in 1..MaxBytes : CompleteWrite(k)
    \/ WriteError
    \/ PrepareRead2
    \/ CompleteRead
    \/ ReadError
    \/ Disconnect
    \/ Report
    \/ Close
    \/ Tick

Spec == Init /\ [][Next]_vars

\* Posted jobs run, time passes and timers fire; whether the peer ever takes
\* or sends a byte is its own affair.
FairSpec == Spec /\ WF_vars(Report) /\ WF_vars(Close) /\ WF_vars(Tick)
----------------------------------------------------------------------------
\* Every variable holds a value of its type.
TypeOK ==
    /\ stage \in {"new", "handshake", "ready"}
    /\ sock \in {"open", "shutdown", "closed"}
    /\ outBuf \in Seq(Seq(1..MaxBytes)) /\ flight \in Seq(1..MaxBytes)
    /\ lastWrite \in Nat \cup {Never}
    /\ overflow \in Nat \cup {Never}
    /\ disc \in Nat \cup {Never}
    /\ reporter \in BOOLEAN /\ attached \in BOOLEAN
    /\ reading \in {"idle", "probe", "data"}
    /\ accepted \in 0..MaxBytes /\ sent \in Seq(1..MaxBytes)

\* The network gets the accepted bytes in order, none twice, none left out,
\* however writes split and the queue grows behind an outstanding one; what
\* an outstanding write points at is still at the head of the queue.
Stream ==
    /\ sent \o FlattenSeq(outBuf) = [i \in 1..accepted |-> i]
    /\ IsPrefix(flight, FlattenSeq(outBuf))

\* disconnect() promises that "pending data will be written": when the
\* sending side is shut down, nothing is left in the queue.
ShutdownDrained == sock = "shutdown" => outBuf = <<>>

\* The stamp verifyOverflow counts says that the queue is at its limit, and
\* a queue beyond the limit is always stamped.
OverflowExact ==
    MaxBufferSize > 0 =>
        /\ overflow # Never => Queued(outBuf) >= MaxBufferSize
        /\ Over(Queued(outBuf)) => overflow # Never

\* Whoever disconnects, the owner is told and the socket is closed, even if the
\* peer never takes the rest (Reporter, Disconnector).
DisconnectCompletes == Disconnecting ~> (~attached /\ sock = "closed")
====

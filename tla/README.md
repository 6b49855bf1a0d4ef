# A verification project for adchpp / adchppd

adchpp is an ADC chat hub: a library (`adchpp/`) that accepts TCP or TLS
connections, takes clients through the ADC login, keeps the directory of users
and routes their commands, and a daemon (`adchppd/`) around it. Scripts in Lua
(`examples/lua/`) implement passwords, bans and bots.

Everything in the hub runs on the one thread that calls `io_service::run`
(`SocketManager::run`). There are no data races; what is hard is the order of
handlers. Each handler runs to its end; between two handlers anything queued on
the io_service may run: a read, a write completion, an accept, a timer, a job.
Objects are plain pointers that live until a job deletes them, and each index
over them is maintained by hand. The models take one handler as one step.

## Inventory

| Component | State | Operations | Hard behaviour | What makes it correct |
|---|---|---|---|---|
| `ClientManager` | `entities` (by SID), `nicks`, `cids`, `hbriTokens`, `logins` | `handleIncoming`, `onConnected`, `onReceive` and the handlers of SUP, INF, TCP, `enterVerify`, `enterNormal`, `removeEntity`, `onTimerSecond`, `createBot`, `regBot` | takeover of a CID, two-connection validation (HBRI), timeouts against late answers, deletion by jobs | the indexes agree with the entities; everybody knows exactly the users; a login ends; nobody removed comes back |
| `Entity`, `Client`, `Bot` | state, flags, supports, fields, filters, cached INF; line buffer and data mode of a client | `onData`, `disconnect`, `onFailed`, `die`, `updateFields`, `updateSupports`, `stripProtocolSupports`, `getINF` | an object outlives its removal until its job runs; one user is kept as fields, as filters, as a cached text and in what others were sent | deleted once; receives nothing after its disconnect; every user is shown to all alike, with validated addresses only |
| `ManagedSocket` | `outBuf`, `lastWrite`, `overflow`, `disc`, handlers | `write`, `completeWrite`, read loop, `disconnect`, `fail` | a queue growing behind the one outstanding write, partial writes, timeouts | the stream is exact; pending data is drained; the owner is told and the socket closed |
| `SocketManager` | io_service, factories, timers | accept loop, `addJob`, `addTimedJob`, `cancelTimer`, TLS handshake | cancelling a timer whose handler is queued; a failed handshake that is not reported | a job runs once; a cancelled job's callback is not used |
| `AdcCommand` | one command | parse, escape, look up parameters | boundaries of fields, escapes | what is written is read as it was |
| `BloomManager`, `HashBloom` | pending filter, filter per entity | INF with SF, GET, SND, data, SCH | the share goes on changing while a filter is asked for, built, sent and received | a filter has the size asked for; a search for a shared file is never stopped |
| `Signal`, `PluginManager`, `ScriptManager`, Lua engine | slot lists, loaded scripts, queued jobs, timers | connect, disconnect, emit, attention, reload, load, shutdown | reloads, loads and expired timers wait in one queue; slots change while a signal is emitted | every script is loaded once and in order; no timer is lost, doubled or left behind; nothing deleted is used |
| `access.lua`, `aio.lua` | accounts by CID and by nick, salts of clients in VERIFY, the file of accounts and its backup | onINF, onPAS, +mypass, +regnick, save, load, +reload | accounts change while a user is asked for the password; the program dies inside a save | both indexes have the same accounts; who enters has the account he entered by; no crash loses accounts |
| `access.bans.lua`, `access.guard.lua`, `access.op.lua` | bans, limits | commands, vetoes | | see "Not modelled" |
| `Core`, `LogManager`, pools, `baselib`, `adchppd`, vendored `lua/`, generated `swig/` | | start-up, I/O, text and XML | | see "Not modelled" |

How they interact: the accept loop of `SocketManager` gives each
`ManagedSocket` to `ClientManager::handleIncoming`, which creates a `Client`
and registers it as the socket's owner. The socket calls the owner back
(connected, ready, data, failed); `Client::onData` cuts lines and calls
`ClientManager::onReceive`, which emits `signalReceive` (scripts may veto) and
dispatches to a handler. `disconnect` goes the other way and posts a Reporter
job; `ManagedSocket::fail`, run by that job or by an error, calls
`Client::onFailed`, which removes the entity and deletes the client.
Plugins and scripts are slots of `ClientManager`'s signals and run inside its
handlers; what they must not do there (reload the scripts) they post to the same
io_service. `BloomManager` is such a plugin: it reads INF and SND commands
before the hub's handlers do, takes raw data through `Client::setDataMode`, and
vetoes searches on their way out.

## Modules

| Module | Models |
|---|---|
| `ClientManager` | the hub's core: the entities, their login states, the four indexes, the login list, HBRI, the timer, bots, and `view`, what each client has been told |
| `UserDirectory` | abstract: what the core promises about its users |
| `MCClientManager` | values and symmetries for TLC |
| `ClientManagerProofs` | the theorems about `ClientManager` |
| `DirectoryProofs` | the nick index, that everybody knows exactly the users, and that `ClientManager` implements `UserDirectory` |
| `ManagedSocket` | one connection: queue, outstanding write, reads, disconnect, timers |
| `SocketProofs` | no connection is shut down with data pending; the network gets exactly the accepted bytes; the overflow stamp; and what it carries: a command that is written is read again |
| `ClientData` | `Client::onData`: the byte stream cut into commands and raw data |
| `ClientDataProofs` | the theorems about `ClientData` |
| `ScriptManager`, `MCScriptManager` | engines, load jobs, timed jobs, slots, +reload, shutdown, over the queue of the io_service |
| `ScriptManagerProofs` | the theorems about `ScriptManager`, its timers and the order of loading |
| `HashBloom` | the arithmetic of a filter: size, number of keys, cells, transfer bytes |
| `BloomManager`, `MCBloomManager` | the filter protocol between the hub and one client, over `HashBloom` |
| `BloomProofs` | the theorems about `BloomManager` and `HashBloom` |
| `AdcCommand` | how a line is parsed and how a command is written, over texts |
| `Entity`, `MCEntity` | one user: its INF, the features it lists, the cache, and the validation of its second address |
| `EntityProofs` | the theorems about `Entity` |
| `Aio` | `aio.lua`: saving with a backup, loading with a repair, step by step |
| `Access`, `MCAccess` | `access.lua`: the registry of accounts, logins by password, commands, over `Aio` |
| `AccountStore` | abstract: what `access.lua` promises about its accounts |
| `AccessProofs` | the theorems about `Access` and `Aio`, and that `Access` implements `AccountStore` |

### ClientManager

A member of `Client` or `Bot` is one object, used once. `life` is its way from
`new` over `accepted` (TLS handshake) and `open` to `deleted`; the other
functions over entities are its members. `closing` is the flag `disconnecting`
of Client and Bot, `failJob` says that its Reporter or BotRemover job is on the
io_service, `ghost` is `FLAG_GHOST`. The indexes are functions to an entity or
`None`. `logins[c]` is the arrival time in the list, 0 when it is not there;
since arrivals are ordered, "expired" is "arrived up to some time", which
`OnTimerSecond(X, cut)` chooses, together with the expired tokens `X`. `view[c]`
adds up the INFs (with a SID) and QUIs sent to `c`.

| Code | Action |
|---|---|
| `handleIncoming`, `onConnected` | `Accept`, `AcceptFailed` |
| `onReady` | `Ready` |
| `handle(SUP)`, `verifySUP` | `Sup` |
| `handle(INF)`, `verifyINF`, `verifyOverflow` | `InfLogin`, `InfUpdate`, `InfClearNick` |
| `verifyINF`, `enterVerify` and the password, called by `access.lua` | `InfVerify` (in IDENTIFY), `InfVerifyNoCid` (in PROTOCOL, HBRI, VERIFY), `Pas` |
| `handle(TCP)` | `TcpBadState`, `TcpWrongProtocol`, `TcpBadIp`, `TcpValidated` |
| `onTimerSecond`, `failHBRI` | `OnTimerSecond`, `UseStaleToken` |
| any refusal, and kicks by scripts | `Kick` |
| `ManagedSocket::disconnect` by overflow or write timeout | `SocketDisconnect` |
| `fail` by the Reporter; `BotRemover`; `fail` by an error | `RunJob`, `SocketError` |
| `createBot`, `regBot` | `CreateBot`, `RegBot` |

`Disconnect`, `EnterNormal`, `Enlist`, `TokensWithout` and the like are the
functions these handlers share. A removal inside a handler (`verifyINF` removes
the holder of the CID) is part of the action. `access.lua` lets an INF pass to
`handle(INF)` only for users who are not registered or who are in NORMAL; for all
others it calls `verifyINF` and `enterVerify` itself, in whatever state. So an INF
with a registered nick sends a client from HBRI or VERIFY (back) to VERIFY, where
it keeps its token (`Suspended`; `handle(TCP)` then answers with a bad state and
the token stays), and from PROTOCOL, before the SUP, to VERIFY without a CID:
`verifyINF` sets one only in IDENTIFY. `TokensWithout` takes one token of each
client, whichever comes first in the map, as the loop of `removeLogins` does.

Undefined behaviour sets `fault`, and every other action requires `~fault`, so
nothing is claimed of what happens afterwards: a token is followed to a deleted
client (`UseStaleToken`), a client is deleted that is (again) in the entity list,
or `removeLogins`, called from the loop of `onTimerSecond`, erases the token the
loop is at (`OnTimerSecond`, for a client with two tokens).

Five constants say what the surroundings may do.

* `FreshSid`: `Util::rand` never draws the SID of a login in progress.
  `makeSID` itself only looks at users. FALSE in `hub_liveness`; the safety
  properties need it (see "Findings").
* `Revalidate`: connected users may announce a secondary address and be
  validated again. A removed user's validation still sends its INF to all,
  so `Roster` is checked without it.
* `SecondToken`: a login may be sent a token while it has another. FALSE in the
  safety runs and TRUE in `hub_liveness`: a client that sends another INF during
  the validation, and then its password, is validated a second time, and
  `removeLogins` takes one token only (see "Findings").
* `DropHbri`: clients may take HBRI support back while they are validated.
* `ClearNick`: users may send an INF with an empty NI. `NickIndex` is checked
  without it.

With all of them as permissive as the code is, `GhostStaysOut`, `TokensValid`,
`EntityList`, `NickIndex` and `Roster` fail; what fails is told under "Findings", and the
passing runs show what holds otherwise.

The text of INF and SUP, IP addresses, PID and CID hashes and messages are
abstracted: a refusal is a `Kick`, a verdict is a parameter of the action. The
addresses and the fields are the part of `Entity`.

### UserDirectory

A user has a SID and perhaps a CID and a nick (a registered user who sent its INF
before the SUP has no CID); no two users share any of them.
Users arrive, leave, rename, or take over the place of another connection with
the same CID; an entity once gone never returns. `DirectorySpec` in
`ClientManager` instantiates it with `user` the entities that are listed (live,
NORMAL, not ghosts) and `gone` the deleted and the ghosts: every step of the
core is one of those or a stutter.

### ManagedSocket

A byte is its number in the stream the owner wrote, so losing, doubling or
reordering bytes is visible. `outBuf` is the list of buffers; `flight` the
bytes handed to the one outstanding `async_write_some` (all of a single
buffer, else at most `WriteBytes`, 1024 in the code; its limit of 64 buffers
is left out). Time stamps become ages that stop counting one past their limit.
The socket's `sock` goes from `open` to `shutdown` to `closed`; `attached` says
that `fail` has not run yet. Peer and network are the choices of
`CompleteWrite(k)`, `WriteError`, `CompleteRead`, `ReadError`. Statistics are
left out.

### ClientData

`OnData(bytes)` is the call; then each iteration of its loop is a step that
takes a prefix of `chunk`: `TakeData` (data mode), `TakePart` (no LF: kept in
`buffer`), `RefuseLine` (too long, or a wrong SID), `HandleLine(n, kick)` (empty
line, command or bad line; its handler may call `setDataMode` for `n` bytes and
may disconnect). `Disconnect` is a disconnect from outside the loop. A byte is
LF or another; `log` is what has been delivered, byte by byte, with its use, and
`received` the stream. `ClientManager` then sees the commands of `log` one by
one; what a command says is its part, so the two modules share no state but
`disconnecting`.

### ScriptManager

`queue` is the list of handlers the io_service will run, in order: completed
waits of timers, copies of timer callbacks, load jobs, reload jobs, the
shutdown. An engine is a number, counted by `made`; `engine` is the one alive,
0 for none. A handler refers to its engine (the raw `LuaEngine*` bound in
`loadScript_`, the Lua state of a callback) and, for a completed wait, to the
heap `Callback` of its timer; when these are gone the program is in undefined
behaviour: `crashed`, after which nothing happens. `stale` remembers that an
engine went with work for it in the queue. The slots of one signal
(`signalReceive`) are a sequence, `cursor` the iterator an emission has already
advanced.

| Code | Action |
|---|---|
| `Signal::operator()`, one slot at a time | `Receive`, `Emit` |
| `+reload`: `onReload`, `PluginManager::attention` | `Dispatch`, `OnReload` in `Emit` |
| `deadline_timer` expires; `handleWait`; the posted copy of the callback | `Expire`, `HandleWait`, `RunJob` |
| `ScriptManager::load`, `clearEngines`, `~LuaEngine`, `unloadScript` | `Reload` |
| `LuaEngine::loadScript_` | `RunLoad(works)`; a script may fail with an error, before it has registered anything |
| `Core::shutdown`, `SocketManager::onShutdown`, `~Core` | `Shutdown`, `DoShutdown`, `Destroy` |

### HashBloom and BloomManager

`HashBloom` has the source's arithmetic with its constants as parameters (192
bits of a TTH, keys of 24 bits, units of 64 bits, octets). A filter is its size,
its number of keys and the set of its cells; `Bytes` and `Reset` are the
transfer format. A TTH is a number.

`BloomManager` is one client and the hub. The client is external and does what
BLO0 asks of it: `Share`, `Unshare`, `Announce` (an INF, with or without SF),
`Answer` (SND and the filter of what it shares at that moment). It may also
leave the protocol, `Lapse`: an unasked SND or a new SUP; then only
type correctness and framing are claimed. `up` and `down` are the two directions of its connection.
The hub's handlers are `ReceiveINF` (`onReceive` and the update of SF),
`ReceiveSUP`, `ReceiveSND`, `OnData(n)` for a piece of n bytes, and `Search`
(`onSend`). The number of files in SF is one the sizes are made for: a negative one,
which the code takes for a huge size, is left out. `announced` is the set of files shared without a break since the
last announcement the hub has handled: those for which it owes searches.

### Entity and AdcCommand

`ClientManager` says who is a user; `Entity` says what everybody believes of
one. The user is connected over protocol `First`; the address of the other one
may only go out when a second connection, over that protocol, has validated it.
Four copies of the same facts must agree: `fields`, `filters` (what SU lists, by
which feature broadcasts are routed), `cached` (the INF newcomers are sent) and
`shown`, what the INFs sent so far add up to at each observer. A text is the
sequence of its parts, an address one of a few values: none, any (`0.0.0.0` or
`::`), claimed, another one, or the one a connection really comes from. A command
has for each field the list of the values it gives: `getParam` and `delParam` see
the first, `updateFields` and whoever is sent the command end with the last. `local`
says whether the addresses are private ones, for which the code takes the user's
word.

| Code | Action |
|---|---|
| `handle(INF)`, `verifyINF`, `validateIP`, `enterNormal` | `InfLogin` |
| `onINF` of `access.lua`, `verifyINF`, `enterVerify`; the password | `InfRegistered`, `Pas` |
| INF of a connected user, `sendHBRI` | `InfUpdate` |
| `handle(TCP)`, by its outcome | `Validate`, `ValidateRefused`, `ValidateWrongProtocol`, `ValidateBadState` |
| `onTimerSecond`, `failHBRI` | `Timeout` |
| SUP of a login, of a connected user | `FirstSup`, `Sup` |
| an operator changes the level (`access.lua`) | `SetLevel` |
| `disconnect` and removal | `Disconnected` |
| another user enters (and is sent all INFs) or goes | `Join`, `Leave` |

`InfLogin`, `Pas`, `Validate`, `ValidateRefused` and `Timeout` contain
`enterNormal`. Four histories are kept: `verified`, the addresses that have been
validated; `skipped`, that a validation was given up without its consequences (a
validation over the wrong protocol strips the validating connection instead of the
user, one that comes before the password only takes the flag away, or the client
has no HBRI support); `unsaid`, the fields the hub has changed without telling
anybody (CT by an operator, SU by a failed validation of a connected user); and
`repeated`, the fields that came from a command that names them twice, with SU when
it lists a feature twice. `SameUser` and `SecondaryVerified` name these
exceptions, because the code does no more; each is left as soon as the next INF
with that field is sent.

`InfsAssumption` only says that a command gives each field a list of texts. An SU may
list features in any order and any number of times, or be no list at all (`Piece`
stands for the letters of a part of another length); only a text of the right
length whose commas are not every fifth character, which is split into
"features" with commas in them, is left out. `removeClientSupport` erases by
`find` and by a length taken from another list: when the feature is not in SU, or
the length is greater than what is left, the library throws out of a `noexcept`
handler, and the program ends (`suText` is "thrown", after which nothing is
modelled). `FLAG_OK_IP`, which no script of the repository sets, is left out.
`MaxTokens` bounds the validations asked for at a time.

`AdcCommand` has no state. A text is a sequence of characters; `Scan` is one step
of parse's loop, `Scanned` the loop, `Heading` the SIDs and features a type has in
front of its parameters. `RoundTrip` says that a command, once written, is parsed as
what it said, `ReadAgain` that whatever parse accepts is written and parsed again as
it is. Both are proved (`SocketProofs`), and evaluated for the texts of `MCEntity`
when the run `entity` starts. Three exceptions come from the code. An empty last
parameter is lost (`WithoutEmptyEnd`). A command that would end in nothing, or in an
empty feature list, is accepted, but refused when it is written again
(`Rewritable`). And SIDs and features are unescaped when they are read and not
escaped when they are written, so a SID spelled with an escape is
accepted and then written as something else (`Plain`; `EscapedSid` in `MCEntity`
shows one).

### Access and Aio

An account is one Lua table, reached from `users.cids` and `users.nicks`; `id`
is its identity, and `Put` changes it wherever it is seen. Logins reach the
script as `Login` (INF in IDENTIFY), `LoginNoCid` (INF before the SUP, with the
nick of an account), `Rename` (any later INF), `Pas` and `Disconnect`. A client
without a CID has the null CID; which of the CIDs that is the model leaves open.
`+mypass` and `+regnick` are `MyPass` and `RegNick`; `Reload` is the start of a
new copy of the script, `Crash` and `Restart` the end and the start of the
program. Levels are numbers, a password is one of two versions, a salt is there
or not, times are left out.

A save is a loop of writes inside one handler. Nothing else runs meanwhile, but
the program may die: so `step` takes it through `SaveBackup`, `SaveBackupDone`,
`SaveWrite`, `SaveDone` and `SaveReturns`, and a file is absent, empty, torn or
whole. Any write may fail (`failed`), which `write_file` does not notice unless
the file cannot be opened.

`AccountStore` is what all this is for: a set of accounts, and the set that a
start would find. A handler writes an account, so that no other stays under its
nick or its CID, or removes those that a nick and a CID name; the set that would be
found changes in one step, at the end of a write (`Commit`); a start has it
(`Start`). Nothing is promised once a write has failed (`Fail`). `StoreSpec` in
`Access` instantiates it with `accounts` the accounts reached by either index,
`stored` those of the file that would be loaded, the backup if the file is
damaged, and `Phase` for the steps of a save: `SaveBackup` and its end,
the repair of a file, every login and every crash inside a write are stutters or
leave both sets alone.

## Properties and runs

All runs: `tlc -workers 2 -config <cfg> <module>`. Deadlock is checked in
`scripts`, `script_reload` and `access`. It is not in the others, where every
client, socket or change is used once and the system comes to rest when they
are used up, or, in `entity` and `su_cut`, an exception may end the program.

| Run | Configuration | Shows |
|---|---|---|
| `hub_safety` | 2 connections (IPv4, IPv6), a bot, 2 CIDs, 2 nicks, a token, INFs without a CID | `TypeOK`; `EntityList`: the list is exactly the users; `NickIndex`; `Roster`: everybody knows exactly the users; `DirectorySpec`: refinement |
| `hub_hbri` | 2 connections (one IPv6), 2 CIDs, 2 nicks, 2 tokens, revalidation, empty nicks | `CidIndex`, `LoginsWatched`, `TokensValid`; `GhostStaysOut`: no step lists a removed entity |
| `hub_liveness` | 2 connections, 1 nick, 1 CID, 1 SID, 2 tokens, shared SIDs, second tokens, revalidation and supports dropped | `LoginEnds`, `DisconnectEnds` |
| `socket` | buffers of 1 or 2 bytes, limit 2, writes of 2 bytes, 5 bytes in all | `Stream`, `ShutdownDrained`, `OverflowExact`; `DisconnectCompletes`: the owner is told and the socket closed |
| `client_data` | one byte beside LF, limit 3, buffers up to 4 bytes, data requests up to 2, 9 bytes in all | `NothingLost`: delivered, kept and remaining bytes are the stream; `Framed`: raw data is exactly what was asked for, a line ends at every other LF and nowhere else; `CommandBound`; `QuietAfterDisconnect` |
| `scripts` | 2 scripts with a timer each, one of them a guard, 3 engines, 2 queued ticks | `CursorValid`; `LoadOrder`: loaded and posted scripts are the configured list; `TimersExact`: one wait per timer of the living engine; `CrashExplained`: only work queued for a deleted engine crashes; `ReloadCompletes`: a reload replaces the engine there was, and an engine gets all its scripts unless another reload or the shutdown is asked for; `TimerTicks` |
| `bloom` | 3 files, TTHs of two keys of 3 bits, 4 changes | `NoLostFile`: no search is stopped for a file shared since the announcement the hub knows; `Settled`: at rest the hub has the filter of the share; `OneRequest`: the bytes in flight are those of the one request made; `FilterArrives` |
| `entity` | a user over IPv4, an observer, 2 tokens, 9 INFs and 4 TCPs with fields named twice and any kind of SU, sent before the SUP, in the login, again before the password, and afterwards | `SameUser`: everybody is shown the user alike and searches are routed by what is shown; `SecondaryVerified`: no address of the second protocol before its validation, but for what a command names twice |
| `access` | 2 connections, 2 CIDs, 2 nicks, 2 levels, 4 tables, 3 changes of accounts, logins with and without a CID | `IndexesAgree`; `Persisted`: what the next start will find, wherever the program dies; `PasOwnsAccount`; `StoreSpec`: refinement |
| `ghost_relisted` | 3 connections, 1 CID, 1 token, no nicks, with `DropHbri` | violates `GhostStaysOut` |
| `su_cut` | as `entity` | violates `FiltersAreSU` |
| `script_reload` | as `scripts` | violates `JobsExecuted` |

Why these bounds. Takeover needs two connections with one CID; a second CID
lets it not happen, and the validating connection may log in itself. That a third
carries the validation of the first while the second takes over needs three, as in
`ghost_relisted`; the theorems have no such bound. HBRI needs one connection of
each protocol; two tokens are needed for a user that is revalidated twice, or for
two clients at a time, and by liveness for a login that has two. Two nicks
and a bot give the collisions of nicks. SIDs are as many as entities, so a SID
is reused after a deletion; liveness has one, which logins share. A socket needs two buffers in the queue, one split
by a completion, a limit that one more buffer exceeds, and a timeout that has
passed and one that has not; 5 bytes give three buffers with one split.
In the receive path 9 bytes in buffers of up to 4 give a line over three
buffers, one longer than the limit that came in parts, and raw data that ends
inside, at the end of and beyond a buffer.

For scripts, three engines allow a reload whose loads meet another reload, and
the state after it; two scripts give an order of loads and two timers of one
engine; two queued ticks of one timer, a callback that waits behind the next.
`MaxEngines` only stops users from asking for reloads (`Asks`).

For the bloom filter, the three TTHs share keys, so filters of different shares
overlap and have different sizes; four changes give an announcement while the
filter of an earlier one is asked for, on its way, or half received, with the
share changed again in between. Files are sent in pieces of any length.

For `Entity`, one observer joins and leaves at any moment, so it is one who was
there before a change or one who came after it; what one is shown does not depend
on the others. Two tokens let a validation end while another is waited for. The
INFs give the second address as absent, unspecified, claimed, empty or hidden behind
an unspecified one, the own address right, absent or followed by another one, and SU with the
second protocol or without, in either order, with a feature twice, given twice and
as no list; the TCPs give an address that is absent (filled in), wrong, or followed by
another one, with an SU of their own or none. SUP has the least number of features or
the usual one, with which the cut of SU falls in different places, or throws. The logins
are symmetric in the protocols, so `First` is IPv4.

For accounts, two CIDs and nicks give every way in which an account found by
one key collides with one found by the other; four tables are as many accounts
as the indexes can hold, and three changes reach them: two registrations and a
takeover. Crashes are not bounded. `MaxChanges` is a guard of the three
actions that change accounts.

Symmetry is used in the safety runs of the hub, over SIDs, CIDs, tokens and the
IPv4 connections, which are treated alike (the one IPv6 connection is not
permuted), and in `access`, over connections, CIDs and nicks. The liveness runs
use none.

Fairness. `FairSpec` of ClientManager: a queued job runs (`io_service::run`
takes posted handlers in order), and the one-second timer comes round until a
login that stays in the list has expired. No client, script or peer is assumed
to do anything: that a handshake ends, an INF arrives or a peer reads is not
needed. `FairSpec` of ManagedSocket: the Reporter job runs, time passes, the
Disconnector timer fires. ScriptManager: the handler at the head of the queue
runs (strong fairness: messages are emitted between handlers, and the
io_service, being first in first out, lets no flood of them keep a posted
handler back for ever), an emission goes on to its next slot, armed timers
expire. BloomManager: the hub handles what has arrived, and the client answers
what it is asked; a client that does not answer keeps the hub without a filter,
which only costs searches.

The conclusion `fault` in the hub's liveness properties is the undefined behaviour
described above, mostly the deleted client that a token still leads to; `crashed` in those of the scripts is the deleted
engine: after them nothing is promised.

## Findings

1. *A removed client comes back* (`ghost_relisted`). `verifySUP` updates the
   supports before it refuses a SUP; a client in HBRI that sends `SUP RMHBRI`
   keeps its token, because `removeLogins` only looks for tokens of clients
   with the support (`ClientManager.cpp:885`). After a login with the same CID
   has removed it as a ghost, the timer or the validating connection lists it
   again.
2. *SU is cut to pieces* (`su_cut`). When a feature is removed from the end of
   SU, the comma before it should go too; but the string is cut to the length
   of another list, the supports of SUP (`Entity.cpp:186`). A user that lists
   both protocols and whose second one is not validated is shown to
   everybody with one or two letters for SU, while searches are still routed by
   the whole list in `filters`. Where the length is too great (a short SU and many
   supports, or no supports at all, whose number less one is the greatest size), or a
   feature listed twice has been cut off with another, `erase` throws instead and
   ends the program (`Entity.cpp:184-186`).
3. *Two reloads at once* (`script_reload`). A reload posts one job per script.
   A second reload that was already queued deletes the engine these jobs refer
   to, and they run all the same.

Three more come from INFs that the code lets through and that the passing runs
either exclude by a named constant or except by a named history:

* *A second token.* A registered user that is being validated may send another
  INF; `access.lua` has it verified and asks for the password, although the client
  is in HBRI (`access.lua:873-909`; `enterVerify` only asserts). After the password
  it is validated again and has two tokens, of which `removeLogins` takes one
  (`ClientManager.cpp:891`). A login with the same CID then removes the client, and
  its other token lists it again. With `SecondToken` TRUE `hub_hbri` violates
  `TokensValid`; with that and `DropHbri` FALSE, two connections, two tokens and a
  nick, `ghost_relisted` violates `GhostStaysOut` too (12 states).
* *An INF before the SUP.* In PROTOCOL it goes the same way, so a registered user can
  enter with its password without having sent a SUP, hence without
  BASE and TIGR, and without a CID. The password then moves its account to the null
  CID (`access.lua:949`).
* *A field named twice.* `verifyIp` looks at and removes the first I6 of an INF;
  `updateFields` and everybody who is sent the INF take the last. An INF with
  `I6::` and a second I6 shows an address that nobody has validated
  (`AdcCommand.cpp:278-303`, `Entity.cpp:86-97`). `SecondaryVerified` fails without
  the exception `repeated`.

Divergences seen while modelling for which there is no run: an empty NI passes
`verifyINF`, which leaves the index alone and erases the field
(`ClientManager.cpp:332-339`), so the nick leads to a user who has none
(`NickIndex` fails with `ClearNick`); `makeSID` looks among the users only, so two
logins may get one SID (`EntityList` fails without `FreshSid`); a
connected user cannot take back its secondary address, because `validateIP`
deletes an empty I6 like any other; what `failHBRI` strips from a
connected user, and a level set by an operator, are told to nobody before the
next INF; the assertion in `enterNormal` (`ClientManager.cpp:849`)
excludes STATE_HBRI, from which HBRI logins enter; the overflow stamp is renewed
by every write over the limit (`ManagedSocket.cpp:67`), though
`ManagedSocket.h:127` calls it the start; data read between `disconnect()` and the Reporter job is
still handed to the owner (`ManagedSocket.cpp:219`), against `ManagedSocket.h:50`.

Hazards the models contain but no property forbids, since the code promises
nothing there, are listed in `PROJECT.json` with the reason: a write that fails
silently lets the next save copy a torn file over the backup; a client that
drops BLO0 keeps its last filter; a revalidated user that is deleted leaves its
token behind; an "unloading" hook that fails keeps the ones behind it from
cancelling their timers; plugin data of connections that are not users survives
the Lua state it came from.

## Proofs

`ClientManagerProofs`, checked by TLAPS, for every value of the constants:

* `Invariant`: `WellBehaved /\ Spec => []IInv`, and from it `TypeCorrect`,
  `EntityListExact`, `CidIndexExact`, `NoLoginForgotten`, `TokensAreValid`,
  `GhostsHaveJobs`;
* `GhostsStayOut`: the action property `GhostStaysOut`.

Assumptions: `ConstantsAssumption` (clients, bots and identifiers are distinct
kinds of values, and `None` is none of them nor an identity), and `WellBehaved`, that is `FreshSid`, not `DropHbri`
and not `SecondToken`. Without the last the theorems would be false of the code, as
the finding above says: a removal takes one token, so it must be that a login
has no more. `Revalidate` and `ClearNick` are free, and INFs come in every state. Neither finiteness of the sets nor the
number of nicks or tokens is used.

Why an inductive invariant is needed. `EntityList` alone is not inductive: to
insert a newcomer one must know that its SID is not in the list, hence that
live objects have distinct SIDs (`SidsDistinct`) and that blank objects left
nothing behind (`Blank`). That a token's client can be listed without bringing
a ghost back needs `TokensValid`; for this a takeover must find the
token of whom it removes, which needs HBRI support in state HBRI, and must leave none
behind, which needs that a login has one at most, also one that was sent back
to VERIFY with it. Such a client keeps its token as a ghost if its support is gone,
but a ghost receives nothing (`GhostsLeave`), so it never enters HBRI again. `CidIndex`
needs that a client that can send its first INF has no CID yet (`FirstCid`),
which in turn needs that removed objects receive nothing (`GhostsLeave`).

The argument: `Init` implies `IInv`; there is one lemma per action, with a step
for each part the action disturbs; effects shared by actions (entering NORMAL
with and without a removal, leaving by deletion) are lemmas of their own. The
closing step is PTL.

`DirectoryProofs` adds that `ClearNick` is false, and proves `NickIndexExact`
(`NickIndex`) and `ImplementsDirectory` (`DirectorySpec`). To `IInv` it adds
`NickIndex` and `NamesKnown`: a client has no nick before its first INF, and an object
that is not live has none; without it the first INF could overwrite a nick that the
index still holds. Users then have distinct identities, because three exact indexes
lead back to them (`UsersDistinct`); what an action does is said entity by
entity (`Same`: unchanged for the directory), and one lemma for each kind of
directory step (`ArriveDir`, `LeaveDir`, `TakeOverDir`, `RenameDir`, `QuietDir`)
turns that into the abstract step. `ClearNick` cannot be dropped: an INF
with an empty NI leaves the entry of the nick behind.

It also assumes, instead, that `Revalidate` is false, and proves
`RosterExact` (`Roster`). The strengthening is `OnlyLogins`: a token of a live
client is one of a client in HBRI or VERIFY, so a validation that ends announces
only who enters. `RosterRelist` is the core: QUIs first, INFs after, added to what was
known, are the new list, because SIDs are distinct.

`ClientDataProofs`, for streams, buffers, limits and requests of any size
(`BoundsAssumption`: LF is not another byte, the bounds are numbers):
`TypeCorrect`, `StreamKept` (`NothingLost`), `StreamFramed` (`Framed`),
`CommandsBounded` (`CommandBound`), from `Invariant`, and `Quiet`. The invariant
adds two facts: `WindowsClosed`, no command has asked for more than has come and
is awaited, without which a new line could be taken for old raw data; and
`WholeLines`, the log never ends inside a line, without which two lines could
together pass the limit. Lemmas on sequences come first: cutting and joining,
what logging appends, that the first LF exists (by well-foundedness) and that
the line it ends has no other.

`ScriptManagerProofs`, for any list of scripts and any number of engines and
queued ticks (`ConfigAssumption`: no script is listed twice, and none has the
name of a slot of ScriptManager's own): `Invariant`,
`TypeCorrect`, `EmissionSafe` (`CursorValid`), `OnlyStaleWorkCrashes`
(`CrashExplained`). That a crash has the one cause needs to be strengthened to
what handlers may count on: as long as no engine went with work in the queue,
every queued handler that will use its engine has it alive, and an expired wait
has its callback (`NoDangling`); for a wait that expires one must know that
outstanding waits belong to callbacks of the living engine (`TimersOwned`). The
lemmas before are about the elements of a queue after appending, dropping and
concatenating.

The same module proves `TimersKept` (`TimersExact`) over the same invariant. That
a timer has one wait in flight is kept by the handler that re-arms it only if
the expired wait was queued once; that arming it in a load does not double it
needs that the script was not loaded before and is posted once (`LoadsOnce`),
and that no expired wait of the engine is queued without a callback
(`WaitsKnown`); a new engine starts with neither because nothing is queued for
an engine that has not been made (`NoFuture`).

`LoadsInOrder` (`LoadOrder`) is about a queue that is appended to and
consumed. Its invariant (`LInv`) says that what is loaded is how the configured list begins
(`IsPrefix`), that exactly the loads behind that are queued for the living engine
(`Rest`), and that their places in the queue are in the list's order (`InOrder`).
The lemmas say what keeps those two: another handler that joins the queue
(`OrderAppend`), the head that leaves (`OrderTail`), the loads of a new engine behind a
queue that holds none for it. A stop only makes the claim void. That a script is loaded
once needs `ConfigAssumption`; that a new engine finds nothing posted for it needs
`NoFuture` of the invariant before.

`SocketProofs` proves `ShutdownIsDrained` (`ShutdownDrained`) for buffers,
limits, timeouts and streams of any size (`TimesAssumption`). The invariant
`SInv` says that a queue without an outstanding write is empty while the owner
can call, and that a socket that is shut down is disconnecting, has no write
outstanding and nothing queued. Nothing about what the buffers hold is needed.

The same module proves `TypeCorrect`, `StreamExact` (`Stream`) and
`OverflowIsExact` (`OverflowExact`), which are about what the buffers hold, for
queues of any length. The three together are their own invariant (`StreamInv`); the
work is in the lemmas about the concatenation of the queued buffers.
`FlattenSeq` is defined by a recursive function, so they need induction, which is
done by the least number for which a statement fails (`Least`, from the
well-founded order of the numbers): `FlatList`, `FlatAppend` (a buffer that joins the
queue), `FlatConcat` (two queues one behind the other). `DropFacts` then says that
completeWrite's loop takes exactly the first k bytes from the queue, whether they
end at the end of a buffer or inside one, and `BatchFacts` that what is handed to
the network is the head of the queue; the actions follow.

The same lemmas on lists serve what a connection carries. `WrittenIsRead`: for any set of
characters that has those that mean something to the parser (`Marks`), any
command over them that is `WellFormed` and `Rewritable` is parsed, from the line that
toString writes, as what it said. `ReadIsKept`: for any line over such characters,
what parse accepts is well formed, and written and read again as it is, if its SIDs
and features are `Plain`. The loop of parse is a recursive function; `ScanConcat` says
that it reads one text behind another from where that one left it, so the proof
goes by pieces: an escaped character is read as that character (`ScanIs`,
`EscapedIs`), an escaped text as the text (`Spells`, `EscapeSpells`), a list of
words as the list (`ScanJoined`), each by the least length for which it fails;
`KeptWords` and `FormatReads` put them together to the line.

`AccessProofs`, for any connections, keys, tables, levels and any number of
changes (`AccessAssumption`): `Invariant`, `TypeCorrect`, `OneRegistry`
(`IndexesAgree`), `CrashSafety` (`Persisted`), `PasOwns` (`PasOwnsAccount`),
`ImplementsStore` (`StoreSpec`). No set is
assumed finite, and `AllowReg` and `AllowNickChange` are free. Three facts strengthen the
properties. Tables are unique (`UniqueIds`): otherwise a change of one account
would be seen in another. What is on the disk can be indexed (`DiskConsistent`):
otherwise a load could not restore what was saved. And `Backed` says for each
step of a save or a repair which of the two files must be good: from
the backup to the end of the write, the backup is the last save; while the file
is being written it is not loaded; between handlers a file that does not load
has no backup that does. The lemmas are one per index operation
(`UnregisterGood`, `PutFree`, `PutSame`, `IndexGood`, `UpdateGood`), then one
per action.

That `Access` implements `AccountStore` needs more than that the indexes agree
afterwards: which accounts they reach, exactly. `UnregisterExact` says that
unregister_user's two loops, nick by nick and CID by CID, leave those that neither key
names; `PutExact` that an account put into both indexes replaces its own earlier
version and those under its keys and touches no other, provided the indexes
agree afterwards; `PutAfterUnregister` is +regnick, which unregisters first, and
`UpdateWrites` the login that changes the nick or the CID of an account. That a step of
a save or a repair changes what is stored at the end of the write and nowhere
else follows from `Backed` (`SaveStepStore`, `LoadsStore`). There is one lemma per action,
and `StepStore` puts them together.

`EntityProofs`, for any observers and any INFs and TCPs that give fields lists of
texts (`InfsAssumption`), repeated fields, odd SUs and INFs in the wrong
state included, and any number of validations at a time: `Invariant`, `TypeCorrect`,
`AddressesVerified` (`SecondaryVerified`), `ShownAlike` (`SameUser`). What observers
are shown comes from INFs and from the cache, and the cache from the fields; so `EInv`
says of all three that the second address in them has been validated, or that it
stands in a field that was repeated (`UserOK`), and that who lists the second protocol is
waiting for the validation, has had one, or was let off (`Reason`). That a failed
validation can take the protocol back needs that a feature is in the filters once,
unless it was repeated (`Single`). `Shaped` says that the filters are what SU lists,
unless it was cut: erasing a feature from both lists keeps that (`ErasedFacts`,
`RemoveFacts`), since whatever is left with a comma at its end is cut or thrown.
`InfFacts` puts together what a verified INF leaves of the user; `Keeps` and `Enters`
are what a step owes the invariant, by what it disturbs, and there is one lemma per
action. A first SUP and an INF before it are steps like the others.

`ShownAlike` has an invariant of its own, `SInv`: before the login is over nothing is
cached; from then on the cached INF (`CacheOK`) and what everybody shows (`Agrees`) are
the fields, but for those that were changed in silence. That searches are routed by
what is shown (`Routed`) follows from `Shaped`.

`BloomProofs`, for any files, widths of keys, units and bytes and any number of
changes: `Invariant`, `TypeCorrect`, `NeverLost` (`NoLostFile`),
`SettledFilter` (`Settled`), `OneAtATime` (`OneRequest`). Assumed are
`SizesAssumption` (the sizes are positive, a key is no longer than a TTH, a unit is
whole bytes), `FilesAssumption` (a file has a TTH) and `PowersAssumption` (powers
of two are positive; TLAPS knows no exponentiation). The invariant follows the
one request through its phases: it is on its way (`Asked`), answered
(`Sent`), coming in (`Arriving`) or in use (`FilterOf`). From the answer on
there is a share F whose filter it is, and all that was announced before the
answer, as far as it is still shared, is in F: that is why the hub's dropping
the filter before it asks matters. `Latest` says that F is the present share
or an announcement that will make the hub ask again is still behind it. The
rest is arithmetic: a filter that was sent as bytes is read back as it was
(`ResetBytes`), its cells lie inside it (`CellsType`), and its size is a number of whole
bytes (`BitsWanted`).

Only model-checked: liveness, which TLAPS cannot prove here. Every invariant and every
action property of a passing run is proved.

## Plan

Done: `ClientManager` with `UserDirectory`, `ManagedSocket`, `ClientData`,
`ScriptManager` with the timed jobs of `SocketManager`, `HashBloom` and
`BloomManager`, `Access` with `Aio` and `AccountStore`, `AdcCommand` and `Entity`;
their runs; the proofs above.

Left, in this order:

1. `ManagedSocket` composed with its owner: deleted once, no call to a deleted
   owner.
2. `Bans`: expiry and lookup of `access.bans.lua`, over `Aio`.

## Not modelled, and why

`Core`, `LogManager`, `AppPaths`, `File`, the daemon's signal and service code
are operating-system calls in a fixed order. The pools recycle memory on one
thread. `lua/` is vendored, `swig/` generated, `boost/` and `openssl/` only
build scripts: together they are more than half of the lines of the repository,
and the models cover the rest selectively. The XML reader, text conversion and
Tiger are pure functions that the protocol uses as black boxes. The ban, guard
and operator scripts are site policy, a veto or a kick for the hub. Of
`access.lua` the settings, statistics, redirects, user commands and the texts of
replies are left out. Of `Entity` the plugin data and the cached SUP, of
`AdcCommand` the priority and the numeric form of SIDs are left out. A script that
fails while it is loaded leaves the slots it has connected before its error, and an SF
that is negative asks for a filter of a huge size (`BloomManager.cpp:118-126`): neither is
modelled. Allocation failure and exceptions thrown by the socket library
inside `noexcept` handlers end the process and are outside the models; they are
listed among the hazards.

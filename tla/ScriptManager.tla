--------------------------- MODULE ScriptManager ---------------------------
(***************************************************************************)
(* Scripts, timed jobs and the "+reload" command.  ScriptManager keeps a    *)
(* LuaEngine, the engine its loaded scripts; loading is posted to the io    *)
(* service of SocketManager, one job per script, and so is a reload asked   *)
(* by a command.  A script registers slots with the hub's signals and timed *)
(* jobs with SocketManager; it cancels the timers in its "unloading" hooks  *)
(* and its slots go when the Lua state is closed.                           *)
(*                                                                          *)
(* The io service runs one handler at a time: `queue' holds the handlers    *)
(* that are ready.  A handler may refer to an engine or to a timer's        *)
(* callback that is gone by the time it runs; the C++ program is then in    *)
(* undefined behaviour, here `crashed', after which nothing is said.        *)
(***************************************************************************)
EXTENDS Integers, Sequences, FiniteSets, SequencesExt

CONSTANTS
    Config,     \* the scripts Script.xml lists, in order (one engine, no repetition)
    Timed,      \* those that register a periodic timed job
    Guards,     \* those that may veto a command by getCommandSignal
    MaxEngines, \* bound: engines created in a run
    MaxTicks    \* bound: runs of one timed job that may wait in the queue

ASSUME ConfigAssumption ==
    /\ Config \in Seq(ToSet(Config)) /\ IsInjective(Config)
    /\ {"reload", "stats"} \cap ToSet(Config) = {}     \* ScriptManager's own slots
    /\ Timed \subseteq ToSet(Config) /\ IsFiniteSet(Timed)
    /\ MaxEngines \in Nat \ {0}

VARIABLES
    queue,      \* handlers the io service will run, in order
    made,       \* engines created so far; the last one may be alive
    engine,     \* the engine alive, 0 for none
    scripts,    \* LuaEngine::scripts of the engine alive
    waiting,    \* timers whose async_wait is outstanding
    callbacks,  \* timers whose heap Callback is alive
    slots,      \* the slots of ClientManager::signalReceive, in order
    cursor,     \* the slot Signal::operator() saved as next, NoSlot outside an emission
    message,    \* the message being emitted
    stopped,    \* io.stop has been called
    crashed,    \* a handler used an engine or a callback already deleted
    stale       \* history: an engine was deleted with work for it in the queue

vars == <<queue, made, engine, scripts, waiting, callbacks, slots, cursor,
          message, stopped, crashed, stale>>

Script  == ToSet(Config)
Timer   == (1 .. MaxEngines) \X Timed       \* a timer: the engine and the script that own it
OwnSlots == <<<<0, "reload">>, <<0, "stats">>>>  \* ScriptManager's: "+reload", "+stats"
Slot    == ToSet(OwnSlots) \cup ((1 .. MaxEngines) \X Script)
NoSlot  == <<0, "none">>
Message == [text : {"+reload", "other"}, op : BOOLEAN]
NoMessage == [text |-> "", op |-> FALSE]

Wait(t, ok) == [kind |-> "wait", engine |-> t[1], script |-> t[2], ok |-> ok]
Job(t)      == [kind |-> "job",  engine |-> t[1], script |-> t[2]]
Load(e, s)  == [kind |-> "load", engine |-> e, script |-> s]
ReloadJob   == [kind |-> "reload"]
StopJob     == [kind |-> "shutdown"]
TimerOf(h)  == <<h.engine, h.script>>

Handler == [kind : {"wait"}, engine : 1 .. MaxEngines, script : Timed, ok : BOOLEAN]
           \cup [kind : {"job"}, engine : 1 .. MaxEngines, script : Timed]
           \cup [kind : {"load"}, engine : 1 .. MaxEngines, script : Script]
           \cup {ReloadJob, StopJob}

Queued(h)     == h \in ToSet(queue)
Has(kind)     == \E h \in ToSet(queue) : h.kind = kind
Loads(e)      == [i \in 1 .. Len(Config) |-> Load(e, Config[i])]
Connected(e)  == {s \in Script : <<e, s>> \in ToSet(slots)}

\* Ready work that will use its engine or a callback; work that will use engine e.
Uses(h)         == h.kind \in {"load", "job"} \/ (h.kind = "wait" /\ h.ok)
DependsOn(h, e) == Uses(h) /\ h.engine = e

Running == ~stopped /\ ~crashed
\* Handlers run one after the other, none during an emission.
\* Fault: a posted handler runs at once, in the emission that posted it.
AtOnce  == Running
Idle    == Running /\ cursor = NoSlot

----------------------------------------------------------------------------
(* Signal: an emission calls the slots in order; the iterator moves on       *)
(* before the slot is called, so a slot may go while it runs, but not the    *)
(* one that comes after it.                                                  *)

NextSlot(s) ==
    LET i == CHOOSE j \in DOMAIN slots : slots[j] = s
    IN  IF i = Len(slots) THEN NoSlot ELSE slots[i + 1]

\* A user's message reaches ClientManager::onReceive, which emits signalReceive.
Receive(m) ==
    /\ Idle
    /\ slots # <<>>
    /\ cursor' = slots[1]
    /\ message' = m
    /\ UNCHANGED <<queue, made, engine, scripts, waiting, callbacks, slots,
                   stopped, crashed, stale>>

\* The command's own signal: a guard script lets only an operator reload.
HandleCommand(m) == m.op \/ Connected(engine) \cap Guards = {}

\* PluginManager::attention: the work is posted, never done on the spot.
Attention(job) == queue' = Append(queue, job)

\* ScriptManager::onReload
OnReload ==
    /\ Attention(ReloadJob)
    /\ UNCHANGED <<made, engine, scripts, waiting, callbacks, slots, stale>>

\* CommandDispatch of "+reload"; any other slot leaves this state alone.
Dispatch(s) == s = <<0, "reload">> /\ message.text = "+reload" /\ HandleCommand(message)

\* The slot under the cursor is called; one that is gone cannot be.
Emit ==
    /\ Running /\ cursor # NoSlot
    /\ cursor \in ToSet(slots)
    /\ cursor' = NextSlot(cursor)
    /\ message' = IF NextSlot(cursor) = NoSlot THEN NoMessage ELSE message
    /\ IF Dispatch(cursor)
       THEN OnReload
       ELSE UNCHANGED <<queue, made, engine, scripts, waiting, callbacks, slots, stale>>
    /\ UNCHANGED <<stopped, crashed>>

----------------------------------------------------------------------------
(* SocketManager's timed jobs.                                               *)

\* Time passes: the outstanding wait of a timer completes.
Expire(t) ==
    /\ Running
    /\ t \in waiting
    /\ Len(SelectSeq(queue, LAMBDA h : h = Job(t))) < MaxTicks
    /\ queue' = Append(queue, Wait(t, TRUE))
    /\ waiting' = waiting \ {t}
    /\ UNCHANGED <<made, engine, scripts, callbacks, slots, cursor, message,
                   stopped, crashed, stale>>

\* Faults: an aborted wait is re-armed too; no wait is.
HandleWaitAborted ==
    /\ Idle /\ queue # <<>>
    /\ LET h == Head(queue) IN
       /\ h.kind = "wait"
       /\ waiting' = waiting \cup {TimerOf(h)}
       /\ queue' = IF h.ok THEN Append(Tail(queue), Job(TimerOf(h))) ELSE Tail(queue)
       /\ crashed' = (h.ok /\ TimerOf(h) \notin callbacks)
    /\ UNCHANGED <<made, engine, scripts, callbacks, slots, cursor, message, stopped, stale>>
HandleWaitOnce ==
    /\ Idle /\ queue # <<>>
    /\ LET h == Head(queue) IN
       /\ h.kind = "wait"
       /\ queue' = IF h.ok THEN Append(Tail(queue), Job(TimerOf(h))) ELSE Tail(queue)
       /\ crashed' = (h.ok /\ TimerOf(h) \notin callbacks)
    /\ UNCHANGED <<made, engine, scripts, waiting, callbacks, slots, cursor, message, stopped, stale>>

\* handleWait: re-arm, then post a copy of the callback; an aborted wait does neither.
HandleWait ==
    /\ Idle /\ queue # <<>>
    /\ LET h == Head(queue) IN
       /\ h.kind = "wait"
       /\ waiting' = IF h.ok THEN waiting \cup {TimerOf(h)} ELSE waiting
       /\ queue' = IF h.ok THEN Append(Tail(queue), Job(TimerOf(h))) ELSE Tail(queue)
       /\ crashed' = (h.ok /\ TimerOf(h) \notin callbacks)
    /\ UNCHANGED <<made, engine, scripts, callbacks, slots, cursor, message, stopped, stale>>

\* A posted copy runs the script's function in its engine's Lua state.
RunJob ==
    /\ Idle /\ queue # <<>> /\ Head(queue).kind = "job"
    /\ queue' = Tail(queue)
    /\ crashed' = (Head(queue).engine # engine)
    /\ UNCHANGED <<made, engine, scripts, waiting, callbacks, slots, cursor,
                   message, stopped, stale>>

----------------------------------------------------------------------------
(* ScriptManager and LuaEngine.                                              *)

\* cancelTimer on each timer of the engine: an outstanding wait completes as
\* aborted (in any order: it does nothing), one that has expired is not recalled.
Mine   == {t \in waiting : t[1] = engine}
Aborts == SetToSeq({Wait(t, FALSE) : t \in Mine})

\* Faults: the list of scripts is kept for the next engine; no hook cancels a timer.
ClearEnginesKeepScripts ==
    /\ scripts' = scripts
    /\ callbacks' = {t \in callbacks : t[1] # engine}
    /\ waiting' = waiting \ Mine
    /\ stale' = (stale \/ \E h \in ToSet(queue) : DependsOn(h, engine))
ClearEnginesNoHooks ==
    /\ scripts' = <<>>
    /\ callbacks' = {t \in callbacks : t[1] # engine}
    /\ waiting' = waiting
    /\ stale' = (stale \/ \E h \in ToSet(queue) : DependsOn(h, engine))

\* ~LuaEngine: the hooks cancel the timers; lua_close drops the slots, which
\* leaves ScriptManager's own.
ClearEngines ==
    /\ scripts' = <<>>
    /\ callbacks' = {t \in callbacks : t[1] # engine}
    /\ waiting' = waiting \ Mine
    /\ stale' = (stale \/ \E h \in ToSet(queue) : DependsOn(h, engine))

\* Faults: the new engine is not counted; its scripts are not posted.
ReloadUncounted ==
    /\ Idle /\ queue # <<>> /\ Head(queue) = ReloadJob
    /\ ClearEngines
    /\ slots' = OwnSlots
    /\ engine' = made + 1
    /\ queue' = Tail(queue) \o Aborts \o Loads(made + 1)
    /\ UNCHANGED <<made, cursor, message, stopped, crashed>>
ReloadLoadsNothing ==
    /\ Idle /\ queue # <<>> /\ Head(queue) = ReloadJob
    /\ ClearEngines
    /\ slots' = OwnSlots
    /\ engine' = made + 1 /\ made' = made + 1
    /\ queue' = Tail(queue) \o Aborts
    /\ UNCHANGED <<cursor, message, stopped, crashed>>

\* ScriptManager::load: a new engine and one posted job per script, or no
\* engine at all when Script.xml cannot be read.  No "loading" hook exists yet
\* to refuse a script: hooks come with the scripts the jobs will load.
Reload ==
    /\ Idle /\ queue # <<>> /\ Head(queue) = ReloadJob
    /\ ClearEngines
    /\ slots' = OwnSlots
    /\ \/ /\ made < MaxEngines        \* never false: Asks leaves room for it
          /\ engine' = made + 1
          /\ made' = made + 1
          /\ queue' = Tail(queue) \o Aborts \o Loads(made + 1)
       \/ /\ engine' = 0
          /\ made' = made
          /\ queue' = Tail(queue) \o Aborts
    /\ UNCHANGED <<cursor, message, stopped, crashed>>

\* loadScript_: the script runs and registers what it needs, or fails with an
\* error; it joins the engine's list in both cases.  Here it fails before it has
\* registered anything; slots a script has connected before its error stay.
RunLoad(works) ==
    /\ Idle /\ queue # <<>> /\ Head(queue).kind = "load"
    /\ LET h == Head(queue)
           t == TimerOf(h)
           mine == IF works /\ h.script \in Timed THEN {t} ELSE {}
       IN  IF h.engine # engine
           THEN crashed' = TRUE /\ UNCHANGED <<scripts, waiting, callbacks, slots>>
           ELSE /\ scripts' = Append(scripts, h.script)
                /\ waiting' = waiting \cup mine
                /\ callbacks' = callbacks \cup mine
                /\ slots' = IF works THEN Append(slots, t) ELSE slots
                /\ crashed' = FALSE
    /\ queue' = Tail(queue)
    /\ UNCHANGED <<made, engine, cursor, message, stopped, stale>>

----------------------------------------------------------------------------
(* Core: shutdown is posted from another thread; it stops the io service and *)
(* drops the plugins; the handlers left are destroyed with the io service.   *)

Shutdown ==
    /\ Running
    /\ ~Has("shutdown")
    /\ queue' = Append(queue, StopJob)
    /\ UNCHANGED <<made, engine, scripts, waiting, callbacks, slots, cursor,
                   message, stopped, crashed, stale>>

DoShutdown ==
    /\ Idle /\ queue # <<>> /\ Head(queue) = StopJob
    /\ stopped' = TRUE
    /\ ClearEngines
    /\ engine' = 0
    /\ slots' = <<>>
    /\ queue' = Tail(queue) \o Aborts
    /\ UNCHANGED <<made, cursor, message, crashed>>

\* ~Core: a copied Lua function gives its registry entry back to a closed state.
Destroy ==
    /\ stopped /\ ~crashed /\ queue # <<>>
    /\ crashed' = Has("job")
    /\ queue' = <<>>
    /\ UNCHANGED <<made, engine, scripts, waiting, callbacks, slots, cursor,
                   message, stopped, stale>>

\* The program has ended, one way or the other.
Ended == ((stopped /\ queue = <<>>) \/ crashed) /\ UNCHANGED vars

----------------------------------------------------------------------------

\* PluginManager::load before the io service runs: the slots of ScriptManager,
\* the first engine and its load jobs.
Init ==
    /\ queue = Loads(1)
    /\ made = 1 /\ engine = 1
    /\ scripts = <<>>
    /\ waiting = {} /\ callbacks = {}
    /\ slots = OwnSlots
    /\ cursor = NoSlot
    /\ message = NoMessage
    /\ stopped = FALSE /\ crashed = FALSE /\ stale = FALSE

\* Bound: a reload is asked for only while another engine may be made.
Asks(m) == m.text = "+reload" =>
              made + Len(SelectSeq(queue, LAMBDA h : h = ReloadJob)) < MaxEngines

RunHandler == HandleWait \/ RunJob \/ Reload \/ RunLoad(TRUE) \/ RunLoad(FALSE) \/ DoShutdown

Next ==
    \/ \E m \in Message : Asks(m) /\ Receive(m)
    \/ Emit
    \/ \E t \in Timer : Expire(t)
    \/ RunHandler
    \/ Shutdown
    \/ Destroy
    \/ Ended

\* The io service is first in, first out, so no flood of messages keeps a queued
\* handler from its turn for ever; an emission ends; time passes.
Fairness ==
    /\ SF_vars(RunHandler)
    /\ WF_vars(Emit)
    /\ \A t \in Timer : WF_vars(Expire(t))

Spec == Init /\ [][Next]_vars /\ Fairness

----------------------------------------------------------------------------
(* Properties.                                                               *)

\* Type invariant.
TypeOK ==
    /\ queue \in Seq(Handler)
    /\ made \in 1 .. MaxEngines
    /\ engine \in {0, made}
    /\ scripts \in Seq(Script)
    /\ waiting \subseteq Timer /\ callbacks \subseteq Timer
    /\ slots \in Seq(Slot)
    /\ cursor \in Slot \cup {NoSlot}
    /\ message \in Message \cup {NoMessage}
    /\ {stopped, crashed, stale} \subseteq BOOLEAN

\* The iterator an emission saved before calling a slot is still in the list when
\* the call returns, whatever the slot asked for (Signal::operator(), and
\* attention, which leaves the reload and the loads to a handler of their own).
CursorValid == cursor # NoSlot => cursor \in ToSet(slots)

\* While an engine is alive, what it has loaded is how the configured list begins,
\* and exactly the rest is posted for it, each script once and in the list's order:
\* no script is lost, loaded twice or reordered, however many reloads and ticks come
\* between the posted loads (attention and loadScript_).
LoadOrder ==
    engine # 0 /\ ~crashed =>
        /\ IsPrefix(scripts, Config)
        /\ \A i \in DOMAIN Config : Queued(Load(engine, Config[i])) <=> i > Len(scripts)
        /\ \A i, j \in DOMAIN Config, k, l \in DOMAIN queue :
              queue[k] = Load(engine, Config[i]) /\ queue[l] = Load(engine, Config[j])
                  => (k < l <=> i < j)

\* Exactly one element of q is h.
Once(q, h) == \E i \in DOMAIN q : q[i] = h /\ \A j \in DOMAIN q : q[j] = h => j = i

\* The callbacks alive are those of the timers the engine's working scripts
\* registered, and each of these timers has exactly one wait in flight: either
\* outstanding or completed and queued once.  A timer is neither lost nor doubled by
\* reloads, and none is left armed for an engine that has gone (handleWait and
\* cancelTimer through the "unloading" hooks).
TimersExact ==
    ~crashed =>
      /\ callbacks = {<<engine, s>> : s \in Timed \cap Connected(engine)}
      /\ waiting \subseteq callbacks
      /\ \A t \in callbacks : IF t \in waiting THEN ~Queued(Wait(t, TRUE))
                                               ELSE Once(queue, Wait(t, TRUE))

\* Undefined behaviour is reached only when an engine was deleted while load jobs,
\* expired waits or copied callbacks for it were queued: no other order of
\* commands, ticks, loads and shutdown uses a deleted engine or callback.
CrashExplained == crashed => stale

\* A reload replaces the engine that is there when it is asked for, and an engine
\* gets all its scripts loaded once no other reload is queued: what is asked for
\* later, a reload or the shutdown, does not overtake its loads (onReload, load,
\* attention).  Unread configurations apart, only queued work for an engine that
\* was deleted (`stale') and a shutdown or reload queued before come between.
ReloadCompletes ==
    \A e \in 1 .. MaxEngines :
        /\ Has("reload") /\ engine = e ~> engine # e \/ ~Running
        /\ engine = e /\ ~stale /\ ~Has("reload") /\ ~Has("shutdown")
               ~> engine = e /\ scripts = Config

\* A timer that is armed keeps ticking until its engine goes.
TimerTicks ==
    \A t \in Timer :
        t \in callbacks ~> (Queued(Job(t)) \/ t \notin callbacks \/ stopped \/ crashed)

\* "Your job will be executed once, when time permits" (PluginManager.h): a load
\* job posted by attention finds, at its turn, the engine that posted it.
JobsExecuted ==
    Running /\ queue # <<>> /\ Head(queue).kind = "load" => Head(queue).engine = engine
============================================================================

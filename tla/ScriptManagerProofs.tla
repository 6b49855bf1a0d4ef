------------------------ MODULE ScriptManagerProofs ------------------------
(***************************************************************************)
(* For every configuration and number of engines: an emission's iterator    *)
(* stays valid, undefined behaviour is reached only when an engine went     *)
(* with work for it in the queue, a timer has one wait under way, and the   *)
(* configured scripts are loaded in the list's order.                       *)
(***************************************************************************)
EXTENDS ScriptManager, FiniteSetTheorems, TLAPS

\* What a queued handler may count on: its engine is the one alive, and an
\* expired wait finds its callback.
Served(h) == Uses(h) => /\ h.engine = engine
                        /\ h.kind = "wait" => TimerOf(h) \in callbacks

\* Nothing dangles as long as no engine went with work in the queue.
NoDangling == ~stale => \A h \in ToSet(queue) : Served(h)

\* Timers belong to the engine alive and have their callback.
TimersOwned == ~crashed => /\ waiting \subseteq callbacks
                           /\ \A t \in callbacks : t[1] = engine

IInv == TypeOK /\ CursorValid /\ CrashExplained /\ NoDangling /\ TimersOwned

\* Nothing is alive once the io service has stopped.
Stopped == stopped => engine = 0

----------------------------------------------------------------------------
(* The elements of sequences.                                                *)

\* Appending adds one element.
LEMMA ToSetAppend ==
    ASSUME NEW S, NEW s \in Seq(S), NEW e
    PROVE  ToSet(Append(s, e)) = ToSet(s) \cup {e}
<1>1. DOMAIN s = 1 .. Len(s) /\ DOMAIN Append(s, e) = 1 .. Len(s) + 1 /\ Len(s) \in Nat
    OBVIOUS
<1>2. /\ \A i \in 1 .. Len(s) : Append(s, e)[i] = s[i]
      /\ Append(s, e)[Len(s) + 1] = e
    OBVIOUS
<1>3. \A i : i \in 1 .. Len(s) + 1 <=> (i \in 1 .. Len(s) \/ i = Len(s) + 1)
    BY <1>1
<1> QED
    BY <1>1, <1>2, <1>3 DEF ToSet

\* Dropping the first adds none.
LEMMA ToSetTail ==
    ASSUME NEW S, NEW s \in Seq(S), s # <<>>
    PROVE  Tail(s) \in Seq(S) /\ ToSet(Tail(s)) \subseteq ToSet(s)
BY DEF ToSet

\* The first is one of them.
LEMMA HeadInSet ==
    ASSUME NEW S, NEW s \in Seq(S), s # <<>>
    PROVE  Head(s) \in ToSet(s) /\ Head(s) \in S /\ s[1] \in ToSet(s)
BY DEF ToSet

\* Concatenation has the elements of both.
LEMMA ToSetConcat ==
    ASSUME NEW S, NEW s \in Seq(S), NEW t \in Seq(S)
    PROVE  s \o t \in Seq(S) /\ ToSet(s \o t) \subseteq ToSet(s) \cup ToSet(t)
BY DEF ToSet

\* A finite set can be listed.
LEMMA ListSet ==
    ASSUME NEW S, IsFiniteSet(S)
    PROVE  SetToSeq(S) \in Seq(S) /\ ToSet(SetToSeq(S)) \subseteq S
<1>1. Cardinality(S) \in Nat /\ \E f : f \in Bijection(1 .. Cardinality(S), S)
    BY FS_CardinalityType DEF ExistsBijection
<1>2. PICK f : f \in Bijection(1 .. Cardinality(S), S)
    BY <1>1
<1>3. f \in [1 .. Cardinality(S) -> S] /\ IsInjective(f)
    BY <1>2 DEF Bijection, Injection, IsInjective
<1>4. SetToSeq(S) \in [1 .. Cardinality(S) -> S]
    BY <1>3 DEF SetToSeq
<1> QED
    BY <1>1, <1>4 DEF ToSet
----------------------------------------------------------------------------
(* Types.                                                                    *)

\* The handlers that are posted are handlers.
LEMMA HandlersTyped ==
    /\ \A t \in Timer, ok \in BOOLEAN : Wait(t, ok) \in Handler /\ TimerOf(Wait(t, ok)) = t
    /\ \A t \in Timer : Job(t) \in Handler
    /\ \A e \in 1 .. MaxEngines, s \in Script : Load(e, s) \in Handler
    /\ ReloadJob \in Handler /\ StopJob \in Handler
BY DEF Timer, Wait, Job, Load, Handler, ReloadJob, StopJob, TimerOf

\* Kinds are told apart.
LEMMA Kinds ==
    ASSUME NEW h \in Handler
    PROVE  /\ h.kind = "wait" => TimerOf(h) \in Timer /\ h.ok \in BOOLEAN
           /\ h.kind = "job" => TimerOf(h) \in Timer
           /\ h.kind = "load" => h.engine \in 1 .. MaxEngines /\ h.script \in Script
           /\ h.kind \in {"wait", "job", "load", "reload", "shutdown"}
BY DEF Handler, TimerOf, Timer, ReloadJob, StopJob

\* ScriptManager's own slots.
LEMMA OwnTyped == OwnSlots \in Seq(Slot) /\ ToSet(OwnSlots) \subseteq Slot
<1>1. OwnSlots[1] = <<0, "reload">> /\ OwnSlots[2] = <<0, "stats">> /\ DOMAIN OwnSlots = 1 .. 2
    BY DEF OwnSlots
<1>2. ToSet(OwnSlots) \subseteq Slot
    BY DEF Slot
<1>3. <<0, "reload">> \in Slot /\ <<0, "stats">> \in Slot
    BY <1>1, <1>2 DEF ToSet
<1>4. OwnSlots \in Seq(Slot)
    BY <1>3 DEF OwnSlots
<1> QED
    BY <1>2, <1>4

\* The load jobs of a new engine.
LEMMA LoadsTyped ==
    ASSUME NEW e \in 1 .. MaxEngines
    PROVE  /\ Loads(e) \in Seq(Handler)
           /\ \A h \in ToSet(Loads(e)) : h.kind = "load" /\ h.engine = e
<1>1. Config \in Seq(Script) /\ \A i \in 1 .. Len(Config) : Config[i] \in Script
    BY ConfigAssumption DEF Script
<1>2. \A i \in 1 .. Len(Config) : Load(e, Config[i]) \in Handler
    BY <1>1, HandlersTyped
<1>3. Loads(e) \in Seq(Handler) /\ DOMAIN Loads(e) = 1 .. Len(Config)
    BY <1>1, <1>2 DEF Loads
<1> QED
    BY <1>3 DEF Loads, Load, ToSet

\* The aborted waits: none of them uses its engine.
LEMMA AbortsTyped ==
    ASSUME waiting \subseteq Timer
    PROVE  /\ Aborts \in Seq(Handler)
           /\ \A h \in ToSet(Aborts) : h \in Handler /\ ~Uses(h)
<1> DEFINE W == {Wait(t, FALSE) : t \in Mine}
<1>1. W \subseteq Handler /\ \A h \in W : ~Uses(h)
  <2>1. \A t \in Mine : t \in Timer
    BY DEF Mine
  <2>2. \A t \in Mine : Wait(t, FALSE) \in Handler
    BY <2>1, HandlersTyped
  <2>3. \A t \in Mine : ~Uses(Wait(t, FALSE))
    BY DEF Uses, Wait
  <2> QED
    BY <2>2, <2>3
<1>2. IsFiniteSet(Timer)
  <2>1. IsFiniteSet(1 .. MaxEngines)
    BY ConfigAssumption, FS_Interval
  <2> QED
    BY <2>1, ConfigAssumption, FS_Product DEF Timer
<1>3. IsFiniteSet(Mine)
    BY <1>2, FS_Subset DEF Mine
<1>4. IsFiniteSet(W)
  <2>1. [t \in Mine |-> Wait(t, FALSE)] \in Surjection(Mine, W)
    BY DEF Surjection
  <2> QED
    BY <1>3, <2>1, FS_Surjection
<1>5. Aborts \in Seq(W) /\ ToSet(Aborts) \subseteq W
    BY <1>4, ListSet DEF Aborts
<1>6. Aborts \in Seq(Handler)
  <2> HIDE DEF W
  <2>1. Aborts \in [1 .. Len(Aborts) -> W] /\ Len(Aborts) \in Nat
    BY <1>5
  <2>2. Aborts \in [1 .. Len(Aborts) -> Handler]
    BY <1>1, <2>1
  <2> QED
    BY <2>1, <2>2
<1> QED
    BY <1>1, <1>5, <1>6

\* The slot after one that is in the list.
LEMMA NextSlotTyped ==
    ASSUME slots \in Seq(Slot), cursor \in ToSet(slots)
    PROVE  NextSlot(cursor) = NoSlot \/ (NextSlot(cursor) \in ToSet(slots) /\ NextSlot(cursor) \in Slot)
<1> DEFINE i == CHOOSE j \in DOMAIN slots : slots[j] = cursor
<1>1. i \in DOMAIN slots
    BY DEF ToSet
<1>2. i \in 1 .. Len(slots) /\ Len(slots) \in Nat /\ DOMAIN slots = 1 .. Len(slots)
    BY <1>1
<1>3. CASE i = Len(slots)
    BY <1>3 DEF NextSlot
<1>4. CASE i # Len(slots)
  <2>1. i + 1 \in DOMAIN slots /\ slots[i + 1] \in Slot
    BY <1>2, <1>4
  <2>2. NextSlot(cursor) = slots[i + 1]
    BY <1>4 DEF NextSlot
  <2> QED
    BY <2>1, <2>2 DEF ToSet
<1> QED
    BY <1>3, <1>4
----------------------------------------------------------------------------
(* The inductive invariant: CrashExplained alone is not inductive, a crash    *)
(* being one step away from a handler that dangles; NoDangling and            *)
(* TimersOwned say when one does.                                             *)

\* A handler served before is served after a step that keeps engine and callbacks.
LEMMA ServedKept ==
    ASSUME NEW h, Served(h), engine' = engine, callbacks \subseteq callbacks'
    PROVE  Served(h)'
BY DEF Served, Uses, TimerOf

\* It holds initially.
LEMMA InitInv == Init => IInv
<1> SUFFICES ASSUME Init PROVE IInv
    OBVIOUS
<1>1. 1 \in 1 .. MaxEngines
    BY ConfigAssumption
<1>2. TypeOK
  <2>1. Loads(1) \in Seq(Handler) /\ OwnSlots \in Seq(Slot)
    BY <1>1, LoadsTyped, OwnTyped
  <2>2. <<>> \in Seq(Script)
    OBVIOUS
  <2> QED
    BY <1>1, <2>1, <2>2 DEF Init, TypeOK
<1>3. NoDangling
    BY <1>1, LoadsTyped DEF Init, NoDangling, Served
<1> QED
    BY <1>2, <1>3 DEF Init, IInv, CursorValid, CrashExplained, TimersOwned

\* A message arrives.
LEMMA ReceiveStep ==
    ASSUME IInv, NEW m \in Message, Receive(m)
    PROVE  IInv'
<1>1. slots[1] \in ToSet(slots) /\ slots[1] \in Slot
    BY HeadInSet DEF IInv, TypeOK, Receive
<1>2. TypeOK'
    BY <1>1 DEF IInv, TypeOK, Receive
<1>3. NoDangling' /\ TimersOwned'
    BY ServedKept DEF IInv, NoDangling, TimersOwned, Receive
<1> QED
    BY <1>1, <1>2, <1>3 DEF IInv, CursorValid, CrashExplained, Receive

\* A slot is called; "+reload" only posts.
LEMMA EmitStep ==
    ASSUME IInv, Emit
    PROVE  IInv'
<1>1. queue \in Seq(Handler) /\ slots \in Seq(Slot) /\ cursor \in ToSet(slots)
    BY DEF IInv, TypeOK, Emit
<1>2. cursor' = NoSlot \/ (cursor' \in ToSet(slots) /\ cursor' \in Slot)
    BY <1>1, NextSlotTyped DEF Emit
<1>3. queue' = queue \/ queue' = Append(queue, ReloadJob)
    BY DEF Emit, OnReload, Attention
<1>4. UNCHANGED <<made, engine, scripts, waiting, callbacks, slots, stopped, crashed, stale>>
    BY DEF Emit, OnReload
<1>5. message' \in Message \cup {NoMessage}
    BY DEF Emit, IInv, TypeOK
<1>6. queue' \in Seq(Handler)
    BY <1>1, <1>3, HandlersTyped
<1>7. TypeOK'
    BY <1>2, <1>4, <1>5, <1>6 DEF IInv, TypeOK
<1>8. \A h \in ToSet(queue') : h \in ToSet(queue) \/ h = ReloadJob
  <2>1. ReloadJob \in Handler /\ ToSet(Append(queue, ReloadJob)) = ToSet(queue) \cup {ReloadJob}
    BY <1>1, HandlersTyped, ToSetAppend
  <2> QED
    BY <1>3, <2>1
<1>9. NoDangling'
    BY <1>4, <1>8, ServedKept DEF IInv, NoDangling, Served, Uses, ReloadJob
<1>10. CursorValid' /\ CrashExplained' /\ TimersOwned'
    BY <1>2, <1>4 DEF IInv, CursorValid, CrashExplained, TimersOwned
<1> QED
    BY <1>7, <1>9, <1>10 DEF IInv

\* A wait completes.
LEMMA ExpireStep ==
    ASSUME IInv, NEW t \in Timer, Expire(t)
    PROVE  IInv'
<1>1. queue \in Seq(Handler) /\ queue' = Append(queue, Wait(t, TRUE))
    BY DEF IInv, TypeOK, Expire
<1>2. Wait(t, TRUE) \in Handler /\ TimerOf(Wait(t, TRUE)) = t
    BY HandlersTyped
<1>3. TypeOK'
  <2>1. queue' \in Seq(Handler)
    <3>1. PICK w : w = Wait(t, TRUE)
      OBVIOUS
    <3>2. w \in Handler
      BY <1>2, <3>1
    <3>3. Append(queue, w) \in Seq(Handler)
      BY <1>1, <3>2
    <3> QED
      BY <1>1, <3>1, <3>3
  <2> QED
    BY <2>1 DEF IInv, TypeOK, Expire
<1>4. t \in callbacks /\ t[1] = engine
    BY DEF IInv, TimersOwned, Expire, Running
<1>5. Served(Wait(t, TRUE))'
    BY <1>2, <1>4 DEF Served, Wait, Expire
<1>6. NoDangling'
  <2>1. ToSet(queue') = ToSet(queue) \cup {Wait(t, TRUE)}
    BY <1>1, ToSetAppend
  <2>2. \A h \in ToSet(queue) : Served(h) => Served(h)'
    BY ServedKept DEF Expire
  <2> QED
    BY <1>5, <2>1, <2>2 DEF IInv, NoDangling, Expire
<1>7. CursorValid' /\ CrashExplained' /\ TimersOwned'
    BY DEF IInv, CursorValid, CrashExplained, TimersOwned, Expire
<1> QED
    BY <1>3, <1>6, <1>7 DEF IInv

\* A completed wait is handled.
LEMMA HandleWaitStep ==
    ASSUME IInv, HandleWait
    PROVE  IInv'
<1>0. PICK h : h = Head(queue)
    OBVIOUS
<1>1. queue \in Seq(Handler) /\ queue # <<>> /\ h.kind = "wait"
    BY <1>0 DEF IInv, TypeOK, HandleWait
<1>2. h \in ToSet(queue) /\ h \in Handler
    BY <1>0, <1>1, HeadInSet
<1>3. TimerOf(h) \in Timer /\ h.ok \in BOOLEAN
    BY <1>1, <1>2, Kinds
<1>4. Tail(queue) \in Seq(Handler) /\ ToSet(Tail(queue)) \subseteq ToSet(queue)
    BY <1>1, ToSetTail
<1>5. CASE ~h.ok
  <2>1. queue' = Tail(queue) /\ waiting' = waiting /\ crashed' = FALSE
    BY <1>0, <1>5 DEF HandleWait
  <2>2. TypeOK'
    BY <1>4, <2>1 DEF IInv, TypeOK, HandleWait
  <2>3. NoDangling'
    BY <1>4, <2>1, ServedKept DEF IInv, NoDangling, HandleWait
  <2> QED
    BY <2>1, <2>2, <2>3 DEF IInv, CursorValid, CrashExplained, TimersOwned, HandleWait, Idle, Running
<1>6. CASE h.ok
  <2>1. queue' = Append(Tail(queue), Job(TimerOf(h))) /\ waiting' = waiting \cup {TimerOf(h)}
        /\ crashed' = (TimerOf(h) \notin callbacks)
    BY <1>0, <1>6 DEF HandleWait
  <2>2. Job(TimerOf(h)) \in Handler
    BY <1>3, HandlersTyped
  <2>3. TypeOK'
    BY <1>3, <1>4, <2>1, <2>2 DEF IInv, TypeOK, HandleWait
  <2>4. ~stale => Served(h)
    BY <1>2 DEF IInv, NoDangling
  <2>5. ~stale => h.engine = engine /\ TimerOf(h) \in callbacks
    BY <1>1, <1>6, <2>4 DEF Served, Uses
  <2>6. ~stale => Served(Job(TimerOf(h)))'
    <3>1. Job(TimerOf(h)).kind = "job" /\ Job(TimerOf(h)).engine = h.engine
      BY DEF Job, TimerOf
    <3> QED
      BY <2>5, <3>1 DEF Served, HandleWait
  <2>7. ToSet(queue') = ToSet(Tail(queue)) \cup {Job(TimerOf(h))}
    BY <1>4, <2>1, ToSetAppend
  <2>8. NoDangling'
    <3>1. \A g \in ToSet(queue) : Served(g) => Served(g)'
      BY ServedKept DEF HandleWait
    <3> QED
      BY <1>4, <2>6, <2>7, <3>1 DEF IInv, NoDangling, HandleWait
  <2>9. CrashExplained'
    BY <2>1, <2>5 DEF CrashExplained, HandleWait
  <2>10. CursorValid' /\ TimersOwned'
    BY <2>1, <2>5 DEF IInv, CursorValid, TimersOwned, HandleWait, Idle, Running
  <2> QED
    BY <2>3, <2>8, <2>9, <2>10 DEF IInv
<1> QED
    BY <1>3, <1>5, <1>6
\* A copied callback runs.
LEMMA RunJobStep ==
    ASSUME IInv, RunJob
    PROVE  IInv'
<1>0. PICK h : h = Head(queue)
    OBVIOUS
<1>1. queue \in Seq(Handler) /\ queue # <<>> /\ h.kind = "job"
    BY <1>0 DEF IInv, TypeOK, RunJob
<1>2. h \in ToSet(queue)
    BY <1>0, <1>1, HeadInSet
<1>3. queue' \in Seq(Handler) /\ ToSet(queue') \subseteq ToSet(queue)
    BY <1>1, ToSetTail DEF RunJob
<1>4. crashed' => stale'
    BY <1>0, <1>1, <1>2 DEF IInv, NoDangling, Served, Uses, RunJob
<1>5. TypeOK'
    BY <1>3 DEF IInv, TypeOK, RunJob
<1>6. NoDangling'
  <2>1. \A g \in ToSet(queue) : Served(g) => Served(g)'
    BY ServedKept DEF RunJob
  <2> QED
    BY <1>3, <2>1 DEF IInv, NoDangling, RunJob
<1>7. CursorValid' /\ TimersOwned'
    BY DEF IInv, CursorValid, TimersOwned, RunJob, Idle, Running
<1> QED
    BY <1>4, <1>5, <1>6, <1>7 DEF IInv, CrashExplained

\* What deleting the engine leaves: no timer, and `stale' if work for it was queued.
LEMMA Cleared ==
    ASSUME IInv, ~crashed, ClearEngines
    PROVE  /\ callbacks' = {} /\ waiting' = {}
           /\ ~stale' => ~stale /\ \A h \in ToSet(queue) : ~Uses(h)
<1>1. \A t \in callbacks : t[1] = engine
    BY DEF IInv, TimersOwned
<1>2. callbacks' = {} /\ waiting' = {}
    BY <1>1 DEF IInv, TimersOwned, ClearEngines, Mine
<1>3. ASSUME ~stale', NEW h \in ToSet(queue), Uses(h) PROVE FALSE
  <2>1. ~stale /\ ~DependsOn(h, engine)
    BY <1>3 DEF ClearEngines
  <2>2. h.engine = engine
    BY <1>3, <2>1 DEF IInv, NoDangling, Served
  <2> QED
    BY <1>3, <2>1, <2>2 DEF DependsOn
<1> QED
    BY <1>2, <1>3 DEF ClearEngines

\* A reload: what is queued afterwards are handlers that use no engine and the
\* load jobs of the new one.
LEMMA ReloadStep ==
    ASSUME IInv, Reload
    PROVE  IInv'
<1>1. queue \in Seq(Handler) /\ queue # <<>> /\ waiting \subseteq Timer /\ ~crashed
    BY DEF IInv, TypeOK, Reload, Idle, Running
<1>2. Tail(queue) \in Seq(Handler) /\ ToSet(Tail(queue)) \subseteq ToSet(queue)
    BY <1>1, ToSetTail
<1>3. Aborts \in Seq(Handler) /\ \A h \in ToSet(Aborts) : ~Uses(h)
    BY <1>1, AbortsTyped
<1>4. PICK rest : rest = Tail(queue) \o Aborts
    OBVIOUS
<1>5. rest \in Seq(Handler) /\ ToSet(rest) \subseteq ToSet(queue) \cup ToSet(Aborts)
    BY <1>2, <1>3, <1>4, ToSetConcat
<1>6. /\ callbacks' = {} /\ waiting' = {}
      /\ ~stale' => ~stale /\ \A h \in ToSet(queue) : ~Uses(h)
    BY <1>1, Cleared DEF Reload
<1>7. ~stale' => \A h \in ToSet(rest) : ~Uses(h)
    BY <1>3, <1>5, <1>6
<1>8. made \in 1 .. MaxEngines /\ MaxEngines \in Nat
    BY ConfigAssumption DEF IInv, TypeOK
<1>9. /\ scripts' = <<>> /\ slots' = OwnSlots /\ cursor' = NoSlot /\ stale' \in BOOLEAN
      /\ message' = message /\ stopped' = stopped /\ crashed' = crashed
    BY DEF Reload, ClearEngines, Idle, IInv, TypeOK
<1>10. queue' \in Seq(Handler) /\ made' \in 1 .. MaxEngines /\ engine' \in {0, made'} /\ NoDangling'
  <2>1. CASE engine' = 0 /\ made' = made /\ queue' = rest
    <3>1. ~stale' => \A h \in ToSet(queue') : Served(h)'
      BY <1>7, <2>1 DEF Served, Uses
    <3> QED
      BY <1>5, <1>8, <2>1, <3>1 DEF NoDangling
  <2>2. CASE made < MaxEngines /\ engine' = made + 1 /\ made' = made + 1 /\ queue' = rest \o Loads(made + 1)
    <3>1. made + 1 \in 1 .. MaxEngines
      BY <1>8, <2>2
    <3>2. Loads(made + 1) \in Seq(Handler) /\ \A h \in ToSet(Loads(made + 1)) : h.kind = "load" /\ h.engine = made + 1
      BY <3>1, LoadsTyped
    <3>3. queue' \in Seq(Handler) /\ ToSet(queue') \subseteq ToSet(rest) \cup ToSet(Loads(made + 1))
      BY <1>5, <2>2, <3>2, ToSetConcat
    <3>4. \A h \in ToSet(Loads(made + 1)) : Served(h)'
      BY <2>2, <3>2 DEF Served
    <3>5. ~stale' => \A h \in ToSet(rest) : Served(h)'
      BY <1>7 DEF Served, Uses
    <3> QED
      BY <2>2, <3>1, <3>3, <3>4, <3>5 DEF NoDangling
  <2> QED
    BY <1>4, <2>1, <2>2 DEF Reload
<1>11. TypeOK'
  <2>1. OwnSlots \in Seq(Slot) /\ <<>> \in Seq(Script)
    BY OwnTyped
  <2> QED
    BY <1>6, <1>9, <1>10, <2>1 DEF IInv, TypeOK
<1> QED
    BY <1>1, <1>6, <1>9, <1>10, <1>11 DEF IInv, CursorValid, CrashExplained, TimersOwned
\* A posted load: the script joins the engine that posted it.
LEMMA RunLoadStep ==
    ASSUME IInv, NEW works \in BOOLEAN, RunLoad(works)
    PROVE  IInv'
<1>0. PICK h : h = Head(queue)
    OBVIOUS
<1>1. queue \in Seq(Handler) /\ queue # <<>> /\ h.kind = "load" /\ ~crashed /\ cursor' = NoSlot
    BY <1>0 DEF IInv, TypeOK, RunLoad, Idle, Running
<1>2. h \in ToSet(queue) /\ h.engine \in 1 .. MaxEngines /\ h.script \in Script
    BY <1>0, <1>1, HeadInSet, Kinds
<1>3. queue' \in Seq(Handler) /\ ToSet(queue') \subseteq ToSet(queue)
    BY <1>1, ToSetTail DEF RunLoad
<1>4. UNCHANGED <<made, engine, cursor, message, stopped, stale>>
    BY DEF RunLoad
<1>5. CASE h.engine # engine
  <2>1. crashed' = TRUE /\ UNCHANGED <<scripts, waiting, callbacks, slots>>
    BY <1>0, <1>5 DEF RunLoad
  <2>2. stale
    BY <1>1, <1>2, <1>5 DEF IInv, NoDangling, Served, Uses
  <2> QED
    BY <1>1, <1>3, <1>4, <2>1, <2>2 DEF IInv, TypeOK, CursorValid, CrashExplained, NoDangling, TimersOwned
<1>6. CASE h.engine = engine
  <2>1. PICK mine : mine = IF works /\ h.script \in Timed THEN {TimerOf(h)} ELSE {}
    OBVIOUS
  <2>2. /\ scripts' = Append(scripts, h.script)
        /\ waiting' = waiting \cup mine /\ callbacks' = callbacks \cup mine
        /\ slots' = IF works THEN Append(slots, TimerOf(h)) ELSE slots
        /\ crashed' = FALSE
    BY <1>0, <1>6, <2>1 DEF RunLoad
  <2>3. mine \subseteq Timer /\ \A t \in mine : t[1] = engine
    BY <1>2, <1>6, <2>1 DEF Timer, TimerOf
  <2>4. TimerOf(h) \in Slot
    BY <1>2 DEF Slot, TimerOf
  <2>5. slots' \in Seq(Slot)
    BY <2>2, <2>4 DEF IInv, TypeOK
  <2>6. TypeOK'
    <3>1. scripts' \in Seq(Script)
      BY <1>2, <2>2 DEF IInv, TypeOK
    <3>2. waiting' \subseteq Timer /\ callbacks' \subseteq Timer
      BY <2>2, <2>3 DEF IInv, TypeOK
    <3> QED
      BY <1>3, <1>4, <2>2, <2>5, <3>1, <3>2 DEF IInv, TypeOK
  <2>7. NoDangling'
    <3>1. \A g \in ToSet(queue) : Served(g) => Served(g)'
      BY <1>4, <2>2, ServedKept
    <3> QED
      BY <1>3, <1>4, <3>1 DEF IInv, NoDangling
  <2>8. TimersOwned'
    BY <1>1, <1>4, <2>2, <2>3 DEF IInv, TimersOwned
  <2> QED
    BY <1>1, <2>2, <2>6, <2>7, <2>8 DEF IInv, CursorValid, CrashExplained
<1> QED
    BY <1>5, <1>6

\* Shutdown is posted.
LEMMA ShutdownStep ==
    ASSUME IInv, Shutdown
    PROVE  IInv'
<1>1. queue \in Seq(Handler) /\ queue' = Append(queue, StopJob) /\ StopJob \in Handler
    BY HandlersTyped DEF IInv, TypeOK, Shutdown
<1>2. queue' \in Seq(Handler) /\ ToSet(queue') = ToSet(queue) \cup {StopJob}
    BY <1>1, ToSetAppend
<1>3. \A g \in ToSet(queue) : Served(g) => Served(g)'
    BY ServedKept DEF Shutdown
<1>4. Served(StopJob)'
    BY DEF Served, Uses, StopJob
<1>5. NoDangling'
    BY <1>2, <1>3, <1>4 DEF IInv, NoDangling, Shutdown
<1> QED
    BY <1>2, <1>5 DEF IInv, TypeOK, CursorValid, CrashExplained, TimersOwned, Shutdown

\* The io service stops and the scripts go.
LEMMA DoShutdownStep ==
    ASSUME IInv, DoShutdown
    PROVE  IInv'
<1>1. queue \in Seq(Handler) /\ queue # <<>> /\ waiting \subseteq Timer /\ ~crashed
    BY DEF IInv, TypeOK, DoShutdown, Idle, Running
<1>2. Tail(queue) \in Seq(Handler) /\ ToSet(Tail(queue)) \subseteq ToSet(queue)
    BY <1>1, ToSetTail
<1>3. Aborts \in Seq(Handler) /\ \A h \in ToSet(Aborts) : ~Uses(h)
    BY <1>1, AbortsTyped
<1>4. queue' \in Seq(Handler) /\ ToSet(queue') \subseteq ToSet(queue) \cup ToSet(Aborts)
    BY <1>2, <1>3, ToSetConcat DEF DoShutdown
<1>5. /\ callbacks' = {} /\ waiting' = {}
      /\ ~stale' => ~stale /\ \A h \in ToSet(queue) : ~Uses(h)
    BY <1>1, Cleared DEF DoShutdown
<1>6. NoDangling'
    BY <1>3, <1>4, <1>5 DEF NoDangling, Served, Uses
<1>7. TypeOK'
  <2>1. <<>> \in Seq(Script) /\ <<>> \in Seq(Slot)
    OBVIOUS
  <2> QED
    BY <1>4, <1>5, <2>1 DEF IInv, TypeOK, DoShutdown, ClearEngines
<1> QED
    BY <1>1, <1>5, <1>6, <1>7 DEF IInv, CursorValid, CrashExplained, TimersOwned, DoShutdown, Idle

\* The queue goes with the io service: a copy left in it used an engine that is gone.
LEMMA DestroyStep ==
    ASSUME IInv, Stopped, Destroy
    PROVE  IInv' /\ Stopped'
<1>1. Has("job") => stale
  <2>1. SUFFICES ASSUME ~stale, NEW h \in ToSet(queue), h.kind = "job" PROVE FALSE
    BY DEF Has
  <2>2. h.engine = 0
    BY <2>1 DEF IInv, NoDangling, Served, Uses, Stopped, Destroy
  <2>3. h \in Handler
    BY <2>1 DEF IInv, TypeOK, ToSet
  <2>4. TimerOf(h) \in Timer
    BY <2>1, <2>3, Kinds
  <2>5. h.engine \in 1 .. MaxEngines
    BY <2>4 DEF Timer, TimerOf
  <2> QED
    BY <2>2, <2>5
<1>2. ToSet(<<>>) = {} /\ <<>> \in Seq(Handler)
    BY DEF ToSet
<1> QED
  <2>1. TypeOK'
    <3>1. crashed' \in BOOLEAN
      BY DEF Has, Destroy
    <3> QED
      BY <1>2, <3>1 DEF IInv, TypeOK, Destroy
  <2>2. NoDangling' /\ CursorValid' /\ Stopped'
    BY <1>2 DEF IInv, CursorValid, NoDangling, Stopped, Destroy
  <2>3. CrashExplained' /\ TimersOwned'
    BY <1>1 DEF IInv, CrashExplained, TimersOwned, Destroy
  <2> QED
    BY <2>1, <2>2, <2>3 DEF IInv
\* No action of a stopped program, and no other, wakes an engine.
LEMMA StoppedStep == IInv /\ Stopped /\ [Next]_vars => Stopped'
BY DEF Stopped, Next, vars, Receive, Emit, OnReload, Expire, RunHandler, HandleWait, RunJob,
       Reload, RunLoad, Shutdown, DoShutdown, Destroy, Ended, Idle, Running

\* Every step keeps it.
LEMMA StepInv == IInv /\ Stopped /\ [Next]_vars => IInv'
<1> SUFFICES ASSUME IInv, Stopped, [Next]_vars PROVE IInv'
    OBVIOUS
<1>1. CASE \E m \in Message : Asks(m) /\ Receive(m)
    BY <1>1, ReceiveStep
<1>2. CASE Emit
    BY <1>2, EmitStep
<1>3. CASE \E t \in Timer : Expire(t)
    BY <1>3, ExpireStep
<1>4. CASE RunHandler
    BY <1>4, HandleWaitStep, RunJobStep, ReloadStep, RunLoadStep, DoShutdownStep DEF RunHandler
<1>5. CASE Shutdown
    BY <1>5, ShutdownStep
<1>6. CASE Destroy
    BY <1>6, DestroyStep
<1>7. CASE Ended \/ UNCHANGED vars
  <2>1. \A g : Served(g) => Served(g)'
    BY <1>7, ServedKept DEF Ended, vars
  <2> QED
    BY <1>7, <2>1 DEF IInv, TypeOK, CursorValid, CrashExplained, NoDangling, TimersOwned, Ended, vars
<1> QED
    BY <1>1, <1>2, <1>3, <1>4, <1>5, <1>6, <1>7 DEF Next

\* The invariant holds throughout.
THEOREM Invariant == Spec => [](IInv /\ Stopped)
<1>1. Init => IInv /\ Stopped
    BY InitInv DEF Init, Stopped
<1> QED
    BY <1>1, StepInv, StoppedStep, PTL DEF Spec

\* Every variable keeps its type.
THEOREM TypeCorrect == Spec => []TypeOK
<1>1. IInv => TypeOK
    BY DEF IInv
<1> QED
    BY <1>1, Invariant, PTL

\* An emission never loses its place: no slot it saved as next goes before it is
\* called, however many engines are replaced and whatever they registered.
THEOREM EmissionSafe == Spec => []CursorValid
<1>1. IInv => CursorValid
    BY DEF IInv
<1> QED
    BY <1>1, Invariant, PTL

\* A handler uses a deleted engine or callback only after an engine was deleted
\* with work for it in the queue.
THEOREM OnlyStaleWorkCrashes == Spec => []CrashExplained
<1>1. IInv => CrashExplained
    BY DEF IInv
<1> QED
    BY <1>1, Invariant, PTL

----------------------------------------------------------------------------
(* The timers: TimersExact with what each handler relies on.                *)

\* An expired wait of the engine alive has a callback; a posted load of it is
\* posted once, for a script that has not been loaded.
WaitsKnown ==
    \A h \in ToSet(queue) :
        h.kind = "wait" /\ h.ok /\ h.engine = engine => TimerOf(h) \in callbacks
LoadsOnce ==
    \A h \in ToSet(queue) :
        h.kind = "load" /\ h.engine = engine =>
            h.script \notin Connected(engine) /\ Once(queue, h)

\* No work is queued for an engine that has not been made.
NoFuture == \A h \in ToSet(queue) : Uses(h) => h.engine <= made

TInv == TimersExact /\ NoFuture /\ (~crashed => WaitsKnown /\ LoadsOnce)

\* Once, when another element is appended, or it itself to a queue without it.
LEMMA OnceAppend ==
    ASSUME NEW S, NEW q \in Seq(S), NEW h, NEW x
    PROVE  /\ h # x /\ Once(q, h) => Once(Append(q, x), h)
           /\ h \notin ToSet(q) => Once(Append(q, h), h)
<1>1. DOMAIN q = 1 .. Len(q) /\ Len(q) \in Nat
    OBVIOUS
<1>2. ASSUME NEW y
      PROVE  /\ DOMAIN Append(q, y) = 1 .. Len(q) + 1
             /\ \A i \in 1 .. Len(q) : Append(q, y)[i] = q[i]
             /\ Append(q, y)[Len(q) + 1] = y
    OBVIOUS
<1>3. \A i : i \in 1 .. Len(q) + 1 <=> (i \in 1 .. Len(q) \/ i = Len(q) + 1)
    BY <1>1
<1>4. ASSUME h # x, Once(q, h)
      PROVE  Once(Append(q, x), h)
  <2>1. PICK i \in 1 .. Len(q) : q[i] = h /\ \A j \in 1 .. Len(q) : q[j] = h => j = i
    BY <1>1, <1>4 DEF Once
  <2> QED
    BY <1>2, <1>3, <1>4, <2>1 DEF Once
<1>5. ASSUME h \notin ToSet(q)
      PROVE  Once(Append(q, h), h)
  <2>1. \A i \in 1 .. Len(q) : q[i] # h
    BY <1>1, <1>5 DEF ToSet
  <2> QED
    BY <1>1, <1>2, <1>3, <2>1 DEF Once
<1> QED
    BY <1>4, <1>5

\* Once, when the first element leaves: it itself has gone, others stay.
LEMMA OnceTail ==
    ASSUME NEW S, NEW q \in Seq(S), q # <<>>, NEW h, Once(q, h)
    PROVE  /\ Head(q) = h => h \notin ToSet(Tail(q))
           /\ Head(q) # h => Once(Tail(q), h)
<1>1. /\ DOMAIN q = 1 .. Len(q) /\ Len(q) \in Nat \ {0} /\ Head(q) = q[1]
      /\ DOMAIN Tail(q) = 1 .. Len(q) - 1
      /\ \A i \in 1 .. Len(q) - 1 : Tail(q)[i] = q[i + 1]
    OBVIOUS
<1>2. PICK i \in 1 .. Len(q) : q[i] = h /\ \A j \in 1 .. Len(q) : q[j] = h => j = i
    BY <1>1 DEF Once
<1>3. ASSUME Head(q) = h
      PROVE  h \notin ToSet(Tail(q))
  <2>1. i = 1
    BY <1>1, <1>2, <1>3
  <2>2. \A j \in 1 .. Len(q) - 1 : Tail(q)[j] # h
    BY <1>1, <1>2, <2>1
  <2> QED
    BY <1>1, <2>2 DEF ToSet
<1>4. ASSUME Head(q) # h
      PROVE  Once(Tail(q), h)
  <2>1. i - 1 \in 1 .. Len(q) - 1 /\ Tail(q)[i - 1] = h
    BY <1>1, <1>2, <1>4
  <2>2. \A j \in 1 .. Len(q) - 1 : Tail(q)[j] = h => j = i - 1
    BY <1>1, <1>2
  <2> QED
    BY <1>1, <2>1, <2>2 DEF Once
<1> QED
    BY <1>3, <1>4

\* What is not the first stays.
LEMMA RestInTail ==
    ASSUME NEW S, NEW q \in Seq(S), q # <<>>, NEW h \in ToSet(q), h # Head(q)
    PROVE  h \in ToSet(Tail(q))
<1>1. /\ DOMAIN q = 1 .. Len(q) /\ Len(q) \in Nat \ {0} /\ Head(q) = q[1]
      /\ DOMAIN Tail(q) = 1 .. Len(q) - 1
      /\ \A i \in 1 .. Len(q) - 1 : Tail(q)[i] = q[i + 1]
    OBVIOUS
<1>2. PICK i \in 1 .. Len(q) : q[i] = h
    BY <1>1 DEF ToSet
<1>3. i - 1 \in 1 .. Len(q) - 1 /\ Tail(q)[i - 1] = h
    BY <1>1, <1>2
<1> QED
    BY <1>1, <1>3 DEF ToSet

\* Once, behind a queue without it.
LEMMA OnceConcat ==
    ASSUME NEW S, NEW p \in Seq(S), NEW q \in Seq(S), NEW h, h \notin ToSet(p), Once(q, h)
    PROVE  Once(p \o q, h)
<1>1. /\ DOMAIN p = 1 .. Len(p) /\ DOMAIN q = 1 .. Len(q) /\ Len(p) \in Nat /\ Len(q) \in Nat
      /\ DOMAIN (p \o q) = 1 .. Len(p) + Len(q)
      /\ \A i \in 1 .. Len(p) + Len(q) :
            (p \o q)[i] = IF i <= Len(p) THEN p[i] ELSE q[i - Len(p)]
    OBVIOUS
<1>2. \A i \in 1 .. Len(p) : p[i] # h
    BY <1>1 DEF ToSet
<1>3. PICK i \in 1 .. Len(q) : q[i] = h /\ \A j \in 1 .. Len(q) : q[j] = h => j = i
    BY <1>1 DEF Once
<1>4. Len(p) + i \in 1 .. Len(p) + Len(q) /\ (p \o q)[Len(p) + i] = h
    BY <1>1, <1>3
<1>5. ASSUME NEW j \in 1 .. Len(p) + Len(q), (p \o q)[j] = h
      PROVE  j = Len(p) + i
  <2>1. j > Len(p)
    BY <1>1, <1>2, <1>5
  <2>2. j - Len(p) \in 1 .. Len(q) /\ q[j - Len(p)] = h
    BY <1>1, <1>5, <2>1
  <2>3. j - Len(p) = i
    BY <1>3, <2>2
  <2>4. j \in Int /\ i \in Int /\ Len(p) \in Int
    BY <1>1, <1>5
  <2> QED
    BY <2>3, <2>4
<1> QED
    BY <1>1, <1>4, <1>5 DEF Once

\* The loads of an engine are posted once each.
LEMMA LoadsOnceEach ==
    ASSUME NEW e \in 1 .. MaxEngines, NEW h \in ToSet(Loads(e))
    PROVE  Once(Loads(e), h)
<1>1. DOMAIN Config = 1 .. Len(Config) /\ IsInjective(Config)
    BY ConfigAssumption
<1>2. \A i \in 1 .. Len(Config) : Loads(e)[i] = Load(e, Config[i])
    BY DEF Loads
<1>3. DOMAIN Loads(e) = 1 .. Len(Config)
    BY DEF Loads
<1>4. PICK i \in 1 .. Len(Config) : Loads(e)[i] = h
    BY <1>3 DEF ToSet
<1>5. ASSUME NEW j \in 1 .. Len(Config), Loads(e)[j] = h
      PROVE  j = i
  <2>1. Load(e, Config[j]).script = Load(e, Config[i]).script
    BY <1>2, <1>4, <1>5
  <2>2. Config[j] = Config[i]
    BY <2>1 DEF Load
  <2> QED
    BY <1>1, <2>2 DEF IsInjective
<1> QED
    BY <1>3, <1>4, <1>5 DEF Once

\* An expired wait is made of its timer.
LEMMA WaitOfTimer ==
    ASSUME NEW h \in Handler, h.kind = "wait", h.ok
    PROVE  h = Wait(TimerOf(h), TRUE)
<1>1. h \in [kind : {"wait"}, engine : 1 .. MaxEngines, script : Timed, ok : BOOLEAN]
    BY DEF Handler, ReloadJob, StopJob
<1>2. h = [kind |-> "wait", engine |-> h.engine, script |-> h.script, ok |-> h.ok]
    BY <1>1
<1> QED
    BY <1>1, <1>2 DEF Wait, TimerOf

\* A posted load is made of its engine and script.
LEMMA LoadForm ==
    ASSUME queue \in Seq(Handler), NEW h \in ToSet(queue), h.kind = "load"
    PROVE  h = Load(h.engine, h.script)
<1>1. h \in Handler
    BY DEF ToSet
<1>2. h \in [kind : {"load"}, engine : 1 .. MaxEngines, script : Script]
    BY <1>1 DEF Handler, ReloadJob, StopJob
<1>3. h = [kind |-> "load", engine |-> h.engine, script |-> h.script]
    BY <1>2
<1> QED
    BY <1>3 DEF Load

\* A job that uses no engine is posted, or nothing.
LEMMA TimersQuiet ==
    ASSUME IInv, TInv,
           UNCHANGED <<made, engine, waiting, callbacks, slots, crashed>>,
           queue' = queue \/ \E x \in {ReloadJob, StopJob} : queue' = Append(queue, x)
    PROVE  TInv'
<1>1. CASE queue' = queue
    BY <1>1 DEF TInv, TimersExact, NoFuture, WaitsKnown, LoadsOnce, Connected, Queued
<1>2. ASSUME NEW x \in {ReloadJob, StopJob}, queue' = Append(queue, x)
      PROVE  TInv'
  <2>1. queue \in Seq(Handler) /\ x.kind \in {"reload", "shutdown"}
    BY DEF IInv, TypeOK, ReloadJob, StopJob
  <2>2. ToSet(queue') = ToSet(queue) \cup {x}
    BY <1>2, <2>1, ToSetAppend
  <2>3. \A h : h.kind \in {"wait", "load"} => /\ h \in ToSet(queue') <=> h \in ToSet(queue)
                                              /\ Once(queue, h) => Once(queue', h)
    BY <1>2, <2>1, <2>2, OnceAppend
  <2>4. ASSUME NEW t \in callbacks, ~crashed
        PROVE  IF t \in waiting THEN Wait(t, TRUE) \notin ToSet(queue')
                                ELSE Once(queue', Wait(t, TRUE))
    <3>1. PICK w : w = Wait(t, TRUE)
      OBVIOUS
    <3>2. w.kind = "wait"
      BY <3>1 DEF Wait
    <3>3. IF t \in waiting THEN w \notin ToSet(queue) ELSE Once(queue, w)
      BY <2>4, <3>1 DEF TInv, TimersExact, Queued
    <3>4. (w \in ToSet(queue') <=> w \in ToSet(queue)) /\ (Once(queue, w) => Once(queue', w))
      BY <2>3, <3>2
    <3> QED
      BY <3>1, <3>3, <3>4
  <2>5. TimersExact'
    BY <2>4 DEF TInv, TimersExact, Connected, Queued, Wait
  <2>6. NoFuture'
    BY <2>1, <2>2 DEF TInv, NoFuture, Uses
  <2>7. ~crashed' => WaitsKnown' /\ LoadsOnce'
    BY <2>1, <2>2, <2>3 DEF TInv, WaitsKnown, LoadsOnce, Connected
  <2> QED
    BY <2>5, <2>6, <2>7 DEF TInv
<1> QED
    BY <1>1, <1>2

\* A wait that completes moves from `waiting' to the queue.
LEMMA TimersExpire ==
    ASSUME IInv, TInv, NEW t \in Timer, Expire(t)
    PROVE  TInv'
<1>1. /\ queue \in Seq(Handler) /\ ~crashed /\ t \in waiting /\ t \in callbacks
      /\ ~Queued(Wait(t, TRUE))
    BY DEF IInv, TypeOK, TInv, TimersExact, Expire, Running
<1>2. /\ UNCHANGED <<made, engine, callbacks, slots, crashed>> /\ waiting' = waiting \ {t}
      /\ queue' = Append(queue, Wait(t, TRUE))
    BY DEF Expire
<1>3. PICK w : w = Wait(t, TRUE)
    OBVIOUS
<1>4. w.kind = "wait" /\ TimerOf(w) = t /\ w.engine = t[1] /\ w.ok
    BY <1>3, HandlersTyped DEF Wait
<1>5. ToSet(queue') = ToSet(queue) \cup {w} /\ Once(queue', w)
    BY <1>1, <1>2, <1>3, ToSetAppend, OnceAppend DEF Queued
<1>6. \A h : h # w => /\ h \in ToSet(queue') <=> h \in ToSet(queue)
                      /\ Once(queue, h) => Once(queue', h)
    BY <1>1, <1>2, <1>3, <1>5, OnceAppend
<1>7. \A u \in callbacks : u # t => Wait(u, TRUE) # w
    BY <1>3, HandlersTyped DEF IInv, TypeOK
<1>8. TimersExact'
  <2>1. ASSUME NEW u \in callbacks
        PROVE  IF u \in waiting' THEN Wait(u, TRUE) \notin ToSet(queue')
                                 ELSE Once(queue', Wait(u, TRUE))
    <3>1. CASE u = t
      BY <1>2, <1>3, <1>5, <3>1
    <3>2. CASE u # t
      <4>1. PICK v : v = Wait(u, TRUE)
        OBVIOUS
      <4>2. v # w /\ (u \in waiting' <=> u \in waiting)
        BY <1>2, <1>7, <3>2, <4>1
      <4>3. IF u \in waiting THEN v \notin ToSet(queue) ELSE Once(queue, v)
        BY <1>1, <4>1 DEF TInv, TimersExact, Queued
      <4> QED
        BY <1>6, <4>1, <4>2, <4>3
    <3> QED
      BY <3>1, <3>2
  <2>2. /\ callbacks = {<<engine, s>> : s \in Timed \cap Connected(engine)}
        /\ waiting' \subseteq callbacks
    BY <1>1, <1>2 DEF TInv, TimersExact
  <2> QED
    BY <1>2, <2>1, <2>2 DEF TimersExact, Connected, Queued, Wait
<1>9. t[1] = engine
    BY <1>1 DEF IInv, TimersOwned
<1>10. engine <= made
    BY ConfigAssumption DEF IInv, TypeOK
<1>11. NoFuture'
    BY <1>2, <1>4, <1>5, <1>9, <1>10 DEF TInv, NoFuture, Uses
<1>12. WaitsKnown' /\ LoadsOnce'
    BY <1>1, <1>2, <1>4, <1>5, <1>6 DEF TInv, WaitsKnown, LoadsOnce, Connected, TimerOf
<1> QED
    BY <1>8, <1>11, <1>12 DEF TInv

\* A handler leaves the queue that is no expired wait with a callback.
LEMMA TimersDrop ==
    ASSUME IInv, TInv, ~crashed, queue # <<>>, queue' = Tail(queue),
           Head(queue).kind # "wait" \/ ~Head(queue).ok,
           UNCHANGED <<made, engine, waiting, callbacks, slots>>
    PROVE  TInv'
<1>1. queue \in Seq(Handler) /\ ToSet(queue') \subseteq ToSet(queue)
    BY ToSetTail DEF IInv, TypeOK
<1>2. \A t : Wait(t, TRUE) # Head(queue)
    BY DEF Wait
<1>3. \A h \in ToSet(queue) : h # Head(queue) => h \in ToSet(queue')
    BY <1>1, RestInTail
<1>4. \A h : Once(queue, h) /\ h # Head(queue) => Once(queue', h)
    BY <1>1, OnceTail
<1>5. TimersExact'
    BY <1>1, <1>2, <1>4 DEF TInv, TimersExact, Connected, Queued
<1>6. NoFuture' /\ WaitsKnown'
    BY <1>1 DEF TInv, NoFuture, WaitsKnown, Uses, TimerOf
<1>7. LoadsOnce'
  <2>1. ASSUME NEW h \in ToSet(queue'), h.kind = "load", h.engine = engine
        PROVE  h.script \notin Connected(engine) /\ Once(queue', h)
    <3>1. h.script \notin Connected(engine) /\ Once(queue, h)
      BY <1>1, <2>1 DEF TInv, LoadsOnce
    <3>2. h # Head(queue)
      BY <1>1, <2>1, <3>1, OnceTail
    <3> QED
      BY <1>4, <3>1, <3>2
  <2> QED
    BY <2>1 DEF LoadsOnce, Connected
<1> QED
    BY <1>5, <1>6, <1>7 DEF TInv

\* A wait is re-armed as it leaves the queue; without a callback the program ends.
LEMMA TimersHandleWait ==
    ASSUME IInv, TInv, HandleWait
    PROVE  TInv'
<1>0. PICK h : h = Head(queue)
    OBVIOUS
<1>1. queue \in Seq(Handler) /\ queue # <<>> /\ h.kind = "wait" /\ ~crashed
    BY <1>0 DEF IInv, TypeOK, HandleWait, Idle, Running
<1>2. h \in ToSet(queue) /\ h \in Handler /\ TimerOf(h) \in Timer /\ h.ok \in BOOLEAN
    BY <1>0, <1>1, HeadInSet, Kinds
<1>3. UNCHANGED <<made, engine, callbacks, slots>>
    BY DEF HandleWait
<1>4. CASE ~h.ok
  <2>1. queue' = Tail(queue) /\ waiting' = waiting
    BY <1>0, <1>4 DEF HandleWait
  <2> QED
    BY <1>0, <1>1, <1>3, <1>4, <2>1, TimersDrop
<1>5. CASE h.ok
  <2>0. PICK t \in Timer : t = TimerOf(h)
    BY <1>2
  <2>1. PICK x : x = Job(t)
    OBVIOUS
  <2>2. /\ queue' = Append(Tail(queue), x) /\ waiting' = waiting \cup {t}
        /\ crashed' = (t \notin callbacks)
    BY <1>0, <1>5, <2>0, <2>1 DEF HandleWait
  <2>3. h = Wait(t, TRUE) /\ x.kind = "job" /\ x.engine = h.engine /\ x \in Handler
    BY <1>1, <1>2, <1>5, <2>0, <2>1, WaitOfTimer, HandlersTyped DEF Job, TimerOf
  <2>4. Tail(queue) \in Seq(Handler) /\ ToSet(Tail(queue)) \subseteq ToSet(queue)
    BY <1>1, ToSetTail
  <2>5. ToSet(queue') = ToSet(Tail(queue)) \cup {x}
    BY <2>2, <2>4, ToSetAppend
  <2>6. NoFuture'
    BY <1>1, <1>2, <1>3, <1>5, <2>3, <2>4, <2>5 DEF TInv, NoFuture, Uses
  <2>7. CASE t \notin callbacks
    BY <2>2, <2>6, <2>7 DEF TInv, TimersExact
  <2>8. CASE t \in callbacks
    <3>1. t \notin waiting /\ Once(queue, h)
      BY <1>1, <1>2, <2>3, <2>8 DEF TInv, TimersExact, Queued
    <3>2. h \notin ToSet(queue')
      BY <1>0, <1>1, <2>3, <2>5, <3>1, OnceTail
    <3>3. ASSUME NEW g, g # h, g.kind # "job"
          PROVE  /\ g \in ToSet(queue') <=> g \in ToSet(queue)
                 /\ Once(queue, g) => Once(queue', g)
      <4>1. g \in ToSet(queue') <=> g \in ToSet(queue)
        BY <1>0, <1>1, <2>3, <2>4, <2>5, <3>3, RestInTail
      <4>2. ASSUME Once(queue, g) PROVE Once(queue', g)
        <5>1. Once(Tail(queue), g)
          BY <1>0, <1>1, <3>3, <4>2, OnceTail
        <5> QED
          BY <2>2, <2>3, <2>4, <3>3, <5>1, OnceAppend
      <4> QED
        BY <4>1, <4>2
    <3>4. ASSUME NEW u \in callbacks
          PROVE  IF u \in waiting' THEN Wait(u, TRUE) \notin ToSet(queue')
                                   ELSE Once(queue', Wait(u, TRUE))
      <4>1. CASE u = t
        BY <2>2, <2>3, <3>2, <4>1
      <4>2. CASE u # t
        <5>1. PICK v : v = Wait(u, TRUE)
          OBVIOUS
        <5>2. v # h /\ v.kind = "wait" /\ (u \in waiting' <=> u \in waiting)
          BY <2>2, <2>3, <4>2, <5>1, HandlersTyped DEF IInv, TypeOK, Wait
        <5>3. IF u \in waiting THEN v \notin ToSet(queue) ELSE Once(queue, v)
          BY <1>1, <5>1 DEF TInv, TimersExact, Queued
        <5>4. (v \in ToSet(queue') <=> v \in ToSet(queue)) /\ (Once(queue, v) => Once(queue', v))
          BY <3>3, <5>2
        <5> QED
          BY <5>1, <5>2, <5>3, <5>4
      <4> QED
        BY <4>1, <4>2
    <3>5. /\ callbacks = {<<engine, s>> : s \in Timed \cap Connected(engine)}
          /\ waiting' \subseteq callbacks
      BY <1>1, <2>2, <2>8 DEF TInv, TimersExact
    <3>6. TimersExact'
      BY <1>3, <3>4, <3>5 DEF TimersExact, Connected, Queued, Wait
    <3>7. WaitsKnown'
      BY <1>1, <1>3, <2>3, <2>4, <2>5 DEF TInv, WaitsKnown, TimerOf
    <3>8. LoadsOnce'
      <4>1. ASSUME NEW g \in ToSet(queue'), g.kind = "load", g.engine = engine
            PROVE  g.script \notin Connected(engine) /\ Once(queue', g)
        <5>1. g # h /\ g.kind # "job"
          BY <1>1, <4>1
        <5>2. g \in ToSet(queue)
          BY <3>3, <4>1, <5>1
        <5>3. g.script \notin Connected(engine) /\ Once(queue, g)
          BY <1>1, <4>1, <5>2 DEF TInv, LoadsOnce
        <5> QED
          BY <3>3, <5>1, <5>3
      <4> QED
        BY <1>3, <4>1 DEF LoadsOnce, Connected
    <3> QED
      BY <2>6, <3>6, <3>7, <3>8 DEF TInv
  <2> QED
    BY <2>7, <2>8
<1> QED
    BY <1>2, <1>4, <1>5

\* A copied callback leaves the queue.
LEMMA TimersRunJob ==
    ASSUME IInv, TInv, RunJob
    PROVE  TInv'
<1>1. /\ ~crashed /\ queue # <<>> /\ queue' = Tail(queue) /\ Head(queue).kind = "job"
      /\ UNCHANGED <<made, engine, waiting, callbacks, slots>>
    BY DEF RunJob, Idle, Running
<1> QED
    BY <1>1, TimersDrop

\* A script is loaded, and with it, if it works, its timer armed.
LEMMA TimersRunLoad ==
    ASSUME IInv, TInv, NEW works \in BOOLEAN, RunLoad(works)
    PROVE  TInv'
<1>0. PICK h : h = Head(queue)
    OBVIOUS
<1>1. /\ queue \in Seq(Handler) /\ queue # <<>> /\ h.kind = "load" /\ ~crashed
      /\ queue' = Tail(queue) /\ UNCHANGED <<made, engine>>
    BY <1>0 DEF IInv, TypeOK, RunLoad, Idle, Running
<1>2. h \in ToSet(queue) /\ h.engine \in 1 .. MaxEngines /\ h.script \in Script
    BY <1>0, <1>1, HeadInSet, Kinds
<1>3. CASE h.engine # engine
  <2>1. UNCHANGED <<waiting, callbacks, slots>>
    BY <1>0, <1>3 DEF RunLoad
  <2> QED
    BY <1>0, <1>1, <2>1, TimersDrop
<1>4. CASE h.engine = engine
  <2>0. PICK t : t = TimerOf(h)
    OBVIOUS
  <2>1. PICK mine : mine = IF works /\ h.script \in Timed THEN {t} ELSE {}
    OBVIOUS
  <2>2. /\ waiting' = waiting \cup mine /\ callbacks' = callbacks \cup mine
        /\ slots' = IF works THEN Append(slots, t) ELSE slots
    BY <1>0, <1>4, <2>0, <2>1 DEF RunLoad
  <2>3. t = <<engine, h.script>> /\ t \in Slot /\ slots \in Seq(Slot)
    BY <1>2, <1>4, <2>0 DEF TimerOf, Slot, IInv, TypeOK
  <2>4. Connected(engine)' = Connected(engine) \cup (IF works THEN {h.script} ELSE {})
    <3>1. works => ToSet(slots') = ToSet(slots) \cup {t}
      BY <2>2, <2>3, ToSetAppend
    <3>2. \A s : <<engine, s>> = t <=> s = h.script
      BY <2>3
    <3> QED
      BY <1>1, <1>2, <2>2, <3>1, <3>2 DEF Connected
  <2>5. h.script \notin Connected(engine) /\ Once(queue, h)
    BY <1>1, <1>2, <1>4 DEF TInv, LoadsOnce
  <2>6. ToSet(queue') \subseteq ToSet(queue) /\ h \notin ToSet(queue')
    BY <1>0, <1>1, <2>5, ToSetTail, OnceTail
  <2>7. \A g \in ToSet(queue) : g # h => g \in ToSet(queue')
    BY <1>0, <1>1, RestInTail
  <2>8. \A g : Once(queue, g) /\ g # h => Once(queue', g)
    BY <1>0, <1>1, OnceTail
  <2>9. \A u : Wait(u, TRUE) # h
    BY <1>1 DEF Wait
  <2>10. t \notin callbacks
    BY <1>1, <2>3, <2>5 DEF TInv, TimersExact
  <2>11. callbacks' = {<<engine, s>> : s \in Timed \cap Connected(engine)'}
    <3>1. callbacks = {<<engine, s>> : s \in Timed \cap Connected(engine)}
      BY <1>1 DEF TInv, TimersExact
    <3> QED
      BY <2>1, <2>2, <2>3, <2>4, <3>1
  <2>12. ASSUME NEW u \in callbacks'
         PROVE  IF u \in waiting' THEN Wait(u, TRUE) \notin ToSet(queue')
                                  ELSE Once(queue', Wait(u, TRUE))
    <3>1. CASE u \in mine
      <4>1. u = t /\ t \in waiting' /\ t \in Timer
        BY <1>2, <1>4, <2>0, <2>1, <2>2, <3>1 DEF Timer, TimerOf
      <4>2. PICK v : v = Wait(t, TRUE)
        OBVIOUS
      <4>3. v.kind = "wait" /\ v.ok /\ v.engine = engine /\ TimerOf(v) = t
        BY <2>3, <4>1, <4>2, HandlersTyped DEF Wait
      <4>4. v \notin ToSet(queue)
        BY <1>1, <2>10, <4>3 DEF TInv, WaitsKnown
      <4> QED
        BY <2>6, <4>1, <4>2, <4>4
    <3>2. CASE u \notin mine
      <4>1. PICK v : v = Wait(u, TRUE)
        OBVIOUS
      <4>2. u \in callbacks /\ (u \in waiting' <=> u \in waiting) /\ v # h
        BY <2>2, <2>9, <3>2, <4>1
      <4>3. IF u \in waiting THEN v \notin ToSet(queue) ELSE Once(queue, v)
        BY <1>1, <4>1, <4>2 DEF TInv, TimersExact, Queued
      <4> QED
        BY <2>6, <2>8, <4>1, <4>2, <4>3
    <3> QED
      BY <3>1, <3>2
  <2>13. waiting' \subseteq callbacks'
    BY <1>1, <2>2 DEF TInv, TimersExact
  <2>14. TimersExact'
    BY <1>1, <2>11, <2>12, <2>13 DEF TimersExact, Queued, Wait
  <2>15. NoFuture'
    BY <1>1, <2>6 DEF TInv, NoFuture, Uses
  <2>16. WaitsKnown'
    BY <1>1, <2>2, <2>6 DEF TInv, WaitsKnown, TimerOf
  <2>17. LoadsOnce'
    <3>1. ASSUME NEW g \in ToSet(queue'), g.kind = "load", g.engine = engine
          PROVE  g.script \notin Connected(engine)' /\ Once(queue', g)
      <4>1. g \in ToSet(queue) /\ g # h
        BY <2>6, <3>1
      <4>2. g.script \notin Connected(engine) /\ Once(queue, g)
        BY <1>1, <3>1, <4>1 DEF TInv, LoadsOnce
      <4>3. g = Load(g.engine, g.script) /\ h = Load(h.engine, h.script)
        BY <1>1, <1>2, <3>1, <4>1, LoadForm
      <4>4. g.script # h.script
        BY <1>4, <3>1, <4>1, <4>3
      <4> QED
        BY <2>4, <2>8, <4>1, <4>2, <4>4
    <3> QED
      BY <1>1, <3>1 DEF LoadsOnce
  <2> QED
    BY <2>14, <2>15, <2>16, <2>17 DEF TInv
<1> QED
    BY <1>3, <1>4

\* ScriptManager's own slots are no script's.
LEMMA NoneConnected ==
    ASSUME NEW e, NEW s \in Script
    PROVE  <<e, s>> \notin ToSet(OwnSlots) /\ <<e, s>> \notin ToSet(<<>>)
<1>1. OwnSlots[1] = <<0, "reload">> /\ OwnSlots[2] = <<0, "stats">> /\ DOMAIN OwnSlots = 1 .. 2
    BY DEF OwnSlots
<1>2. s # "reload" /\ s # "stats"
    BY ConfigAssumption DEF Script
<1> QED
    BY <1>1, <1>2 DEF ToSet

\* What is left of the queue once an engine has gone: nothing of a later one.
LEMMA TimersRest ==
    ASSUME IInv, TInv, ~crashed, queue # <<>>, ClearEngines
    PROVE  /\ Tail(queue) \o Aborts \in Seq(Handler)
           /\ \A h \in ToSet(Tail(queue) \o Aborts) : Uses(h) => h.engine \in 1 .. made
           /\ callbacks' = {} /\ waiting' = {}
<1>1. queue \in Seq(Handler) /\ waiting \subseteq Timer /\ made \in 1 .. MaxEngines
    BY DEF IInv, TypeOK
<1>2. Tail(queue) \in Seq(Handler) /\ ToSet(Tail(queue)) \subseteq ToSet(queue)
    BY <1>1, ToSetTail
<1>3. Aborts \in Seq(Handler) /\ \A h \in ToSet(Aborts) : ~Uses(h)
    BY <1>1, AbortsTyped
<1>4. /\ Tail(queue) \o Aborts \in Seq(Handler)
      /\ ToSet(Tail(queue) \o Aborts) \subseteq ToSet(queue) \cup ToSet(Aborts)
    BY <1>2, <1>3, ToSetConcat
<1>5. ASSUME NEW h \in ToSet(queue), Uses(h)
      PROVE  h.engine \in 1 .. made
  <2>1. h \in Handler
    BY <1>1 DEF ToSet
  <2>2. h.kind \in {"wait", "job", "load"}
    BY <1>5 DEF Uses
  <2>3. h.engine \in 1 .. MaxEngines
    BY <2>1, <2>2, Kinds DEF Timer, TimerOf
  <2>4. h.engine <= made
    BY <1>5 DEF TInv, NoFuture
  <2> QED
    BY <1>1, <2>3, <2>4, ConfigAssumption
<1>6. callbacks' = {} /\ waiting' = {}
    BY Cleared
<1> QED
    BY <1>3, <1>4, <1>5, <1>6

\* An engine goes and none comes.
LEMMA TimersGone ==
    ASSUME IInv, TInv, ~crashed, queue # <<>>, ClearEngines,
           engine' = 0, made' = made, slots' \in {OwnSlots, <<>>},
           queue' = Tail(queue) \o Aborts
    PROVE  TInv'
<1>1. /\ \A h \in ToSet(queue') : Uses(h) => h.engine \in 1 .. made
      /\ callbacks' = {} /\ waiting' = {}
    BY TimersRest
<1>2. Connected(engine)' = {}
    BY NoneConnected DEF Connected
<1>3. made \in Nat
    BY ConfigAssumption DEF IInv, TypeOK
<1>4. TimersExact'
    BY <1>1, <1>2 DEF TimersExact
<1>5. NoFuture'
    BY <1>1, <1>3 DEF NoFuture, Uses
<1>6. \A h \in ToSet(queue') : Uses(h) => h.engine # 0
    BY <1>1, <1>3
<1>7. WaitsKnown' /\ LoadsOnce'
    BY <1>6 DEF WaitsKnown, LoadsOnce, Uses
<1> QED
    BY <1>4, <1>5, <1>7 DEF TInv

\* An engine goes, the next comes and its loads are posted.
LEMMA TimersNew ==
    ASSUME IInv, TInv, ~crashed, queue # <<>>, ClearEngines, made < MaxEngines,
           engine' = made + 1, made' = made + 1, slots' = OwnSlots,
           queue' = (Tail(queue) \o Aborts) \o Loads(made + 1)
    PROVE  TInv'
<1>1. PICK e, rest : e = made + 1 /\ rest = Tail(queue) \o Aborts
    OBVIOUS
<1>2. /\ rest \in Seq(Handler) /\ \A h \in ToSet(rest) : Uses(h) => h.engine \in 1 .. made
      /\ callbacks' = {} /\ waiting' = {}
    BY <1>1, TimersRest
<1>3. made \in Nat /\ e \in 1 .. MaxEngines
    BY <1>1, ConfigAssumption DEF IInv, TypeOK
<1>4. Loads(e) \in Seq(Handler) /\ \A h \in ToSet(Loads(e)) : h.kind = "load" /\ h.engine = e
    BY <1>3, LoadsTyped
<1>5. ToSet(queue') \subseteq ToSet(rest) \cup ToSet(Loads(e))
    BY <1>1, <1>2, <1>4, ToSetConcat
<1>6. \A h \in ToSet(rest) : Uses(h) => h.engine # e /\ h.engine <= e
    BY <1>1, <1>2, <1>3
<1>7. Connected(engine)' = {}
    BY NoneConnected DEF Connected
<1>8. TimersExact'
    BY <1>2, <1>7 DEF TimersExact
<1>9. NoFuture'
    BY <1>1, <1>3, <1>4, <1>5, <1>6 DEF NoFuture, Uses
<1>10. WaitsKnown'
    BY <1>1, <1>4, <1>5, <1>6 DEF WaitsKnown, Uses
<1>11. LoadsOnce'
  <2>1. ASSUME NEW h \in ToSet(queue'), h.kind = "load", h.engine = e
        PROVE  Once(queue', h)
    <3>1. h \notin ToSet(rest)
      BY <1>6, <2>1 DEF Uses
    <3>2. Once(Loads(e), h)
      BY <1>3, <1>5, <2>1, <3>1, LoadsOnceEach
    <3>3. queue' = rest \o Loads(e)
      BY <1>1
    <3> QED
      BY <1>2, <1>4, <3>1, <3>2, <3>3, OnceConcat
  <2> QED
    BY <1>1, <1>7, <2>1 DEF LoadsOnce
<1> QED
    BY <1>8, <1>9, <1>10, <1>11 DEF TInv

\* A reload, with or without a next engine.
LEMMA TimersReload ==
    ASSUME IInv, TInv, Reload
    PROVE  TInv'
<1>1. ~crashed /\ queue # <<>> /\ ClearEngines /\ slots' = OwnSlots
    BY DEF Reload, Idle, Running
<1>2. CASE /\ made < MaxEngines /\ engine' = made + 1 /\ made' = made + 1
           /\ queue' = Tail(queue) \o Aborts \o Loads(made + 1)
    BY <1>1, <1>2, TimersNew
<1>3. CASE engine' = 0 /\ made' = made /\ queue' = Tail(queue) \o Aborts
    BY <1>1, <1>3, TimersGone
<1> QED
    BY <1>2, <1>3 DEF Reload

\* The last engine goes.
LEMMA TimersDoShutdown ==
    ASSUME IInv, TInv, DoShutdown
    PROVE  TInv'
<1>1. /\ ~crashed /\ queue # <<>> /\ ClearEngines /\ engine' = 0 /\ made' = made
      /\ slots' = <<>> /\ queue' = Tail(queue) \o Aborts
    BY DEF DoShutdown, Idle, Running
<1> QED
    BY <1>1, TimersGone

\* The queue goes; no timer is alive by then.
LEMMA TimersDestroy ==
    ASSUME IInv, Stopped, TInv, Destroy
    PROVE  TInv'
<1>1. engine = 0 /\ ~crashed /\ queue' = <<>> /\ UNCHANGED <<made, engine, waiting, callbacks, slots>>
    BY DEF Destroy, Stopped
<1>2. callbacks = {} /\ waiting = {}
  <2>1. \A t \in callbacks : t[1] = 0 /\ t \in Timer
    BY <1>1 DEF IInv, TypeOK, TimersOwned
  <2>2. \A t \in Timer : t[1] # 0
    BY DEF Timer
  <2>3. callbacks = {}
    BY <2>1, <2>2
  <2> QED
    BY <1>1, <2>3 DEF IInv, TimersOwned
<1>3. TimersExact'
    BY <1>1, <1>2 DEF TInv, TimersExact, Connected
<1>4. ToSet(queue') = {}
    BY <1>1 DEF ToSet
<1> QED
    BY <1>3, <1>4 DEF TInv, NoFuture, WaitsKnown, LoadsOnce

\* Every step keeps it.
LEMMA TimersStep == IInv /\ Stopped /\ TInv /\ [Next]_vars => TInv'
<1> SUFFICES ASSUME IInv, Stopped, TInv, [Next]_vars PROVE TInv'
    OBVIOUS
<1>1. CASE \E m \in Message : Asks(m) /\ Receive(m)
    BY <1>1, TimersQuiet DEF Receive
<1>2. CASE Emit
    BY <1>2, TimersQuiet DEF Emit, OnReload, Attention
<1>3. CASE \E t \in Timer : Expire(t)
    BY <1>3, TimersExpire
<1>4. CASE RunHandler
    BY <1>4, TimersHandleWait, TimersRunJob, TimersReload, TimersRunLoad, TimersDoShutdown
       DEF RunHandler
<1>5. CASE Shutdown
    BY <1>5, TimersQuiet DEF Shutdown
<1>6. CASE Destroy
    BY <1>6, TimersDestroy
<1>7. CASE Ended \/ UNCHANGED vars
    BY <1>7, TimersQuiet DEF Ended, vars
<1> QED
    BY <1>1, <1>2, <1>3, <1>4, <1>5, <1>6, <1>7 DEF Next

\* It holds initially.
LEMMA TimersInit == Init => TInv
<1> SUFFICES ASSUME Init PROVE TInv
    OBVIOUS
<1>1. 1 \in 1 .. MaxEngines
    BY ConfigAssumption
<1>2. \A h \in ToSet(queue) : h.kind = "load" /\ h.engine = 1 /\ Once(queue, h)
    BY <1>1, LoadsTyped, LoadsOnceEach DEF Init
<1>3. Connected(engine) = {}
    BY NoneConnected DEF Init, Connected
<1> QED
    BY <1>2, <1>3 DEF Init, TInv, TimersExact, NoFuture, WaitsKnown, LoadsOnce

\* The timers alive are those of the scripts loaded in the engine alive, and each
\* has exactly one wait in flight, whatever is loaded, cancelled and reloaded.
THEOREM TimersKept == Spec => []TimersExact
<1>1. Init => TInv
    BY TimersInit
<1>2. TInv => TimersExact
    BY DEF TInv
<1> QED
    BY <1>1, <1>2, TimersStep, Invariant, PTL DEF Spec

----------------------------------------------------------------------------
(* The order of loading: what is loaded and what is posted divide the       *)
(* configured list in two.                                                   *)

\* Of the configured scripts, q posts those after the nth for engine e ...
Rest(q, e, n) == \A i \in 1 .. Len(Config) : Load(e, Config[i]) \in ToSet(q) <=> i > n
\* ... in the list's order.
InOrder(q, e) ==
    \A i, j \in 1 .. Len(Config), k, l \in DOMAIN q :
        q[k] = Load(e, Config[i]) /\ q[l] = Load(e, Config[j]) => (k < l <=> i < j)

LInv == engine # 0 /\ ~crashed =>
            /\ IsPrefix(scripts, Config)
            /\ Rest(queue, engine, Len(scripts))
            /\ InOrder(queue, engine)

\* The loads of a list without repetition are told apart.
LEMMA LoadsApart ==
    /\ Config \in Seq(Script) /\ Len(Config) \in Nat /\ DOMAIN Config = 1 .. Len(Config)
    /\ \A e : \A i, j \in 1 .. Len(Config) : Load(e, Config[i]) = Load(e, Config[j]) => i = j
    /\ \A e, s : Load(e, s).kind = "load" /\ Load(e, s).engine = e /\ Load(e, s).script = s
<1>1. Config \in Seq(Script) /\ IsInjective(Config)
    BY ConfigAssumption DEF Script
<1>2. \A e, s : Load(e, s).kind = "load" /\ Load(e, s).engine = e /\ Load(e, s).script = s
    BY DEF Load
<1>3. ASSUME NEW e, NEW i \in 1 .. Len(Config), NEW j \in 1 .. Len(Config),
             Load(e, Config[i]) = Load(e, Config[j])
      PROVE  i = j
  <2>1. Config[i] = Config[j]
    BY <1>2, <1>3
  <2> QED
    BY <1>1, <2>1 DEF IsInjective
<1> QED
    BY <1>1, <1>2, <1>3

\* Another handler joins the queue.
LEMMA OrderAppend ==
    ASSUME NEW q \in Seq(Handler), NEW e, NEW n, NEW x, x.kind # "load",
           Rest(q, e, n), InOrder(q, e)
    PROVE  Rest(Append(q, x), e, n) /\ InOrder(Append(q, x), e)
<1>1. \A i \in 1 .. Len(Config) : Load(e, Config[i]) # x
    BY LoadsApart
<1>2. /\ DOMAIN q = 1 .. Len(q) /\ Len(q) \in Nat /\ DOMAIN Append(q, x) = 1 .. Len(q) + 1
      /\ Append(q, x)[Len(q) + 1] = x
      /\ \A k \in 1 .. Len(q) : Append(q, x)[k] = q[k]
    OBVIOUS
<1>3. Rest(Append(q, x), e, n)
    BY <1>1, ToSetAppend DEF Rest
<1>4. ASSUME NEW i \in 1 .. Len(Config), NEW k \in DOMAIN Append(q, x),
             Append(q, x)[k] = Load(e, Config[i])
      PROVE  k \in DOMAIN q /\ q[k] = Load(e, Config[i])
  <2>1. k # Len(q) + 1
    BY <1>1, <1>2, <1>4
  <2>2. k \in 1 .. Len(q)
    BY <1>2, <2>1
  <2> QED
    BY <1>2, <1>4, <2>2
<1> QED
    BY <1>3, <1>4 DEF InOrder

\* The first handler leaves: the order of the others stays.
LEMMA OrderTail ==
    ASSUME NEW q \in Seq(Handler), q # <<>>, NEW e, InOrder(q, e)
    PROVE  InOrder(Tail(q), e)
<1>1. /\ DOMAIN q = 1 .. Len(q) /\ Len(q) \in Nat \ {0}
      /\ DOMAIN Tail(q) = 1 .. Len(q) - 1
      /\ \A k \in 1 .. Len(q) - 1 : k + 1 \in 1 .. Len(q) /\ Tail(q)[k] = q[k + 1]
    OBVIOUS
<1>2. ASSUME NEW i \in 1 .. Len(Config), NEW j \in 1 .. Len(Config),
             NEW k \in 1 .. Len(q) - 1, NEW l \in 1 .. Len(q) - 1,
             Tail(q)[k] = Load(e, Config[i]), Tail(q)[l] = Load(e, Config[j])
      PROVE  k < l <=> i < j
  <2>1. q[k + 1] = Load(e, Config[i]) /\ q[l + 1] = Load(e, Config[j])
    BY <1>1, <1>2
  <2>2. k + 1 < l + 1 <=> i < j
    BY <1>1, <2>1 DEF InOrder
  <2>3. k \in Int /\ l \in Int
    BY <1>1
  <2> QED
    BY <2>2, <2>3
<1> QED
    BY <1>1, <1>2 DEF InOrder

\* The one that leaves is no load of the engine: what is posted stays.
LEMMA RestTail ==
    ASSUME NEW q \in Seq(Handler), q # <<>>, NEW e, NEW n, Rest(q, e, n),
           Head(q).kind # "load" \/ Head(q).engine # e
    PROVE  Rest(Tail(q), e, n)
<1>1. \A i \in 1 .. Len(Config) : Load(e, Config[i]) # Head(q)
    BY LoadsApart
<1> QED
    BY <1>1, ToSetTail, RestInTail DEF Rest

\* The one that leaves is a load of the engine: it was the next of the list.
LEMMA RestLoad ==
    ASSUME NEW q \in Seq(Handler), q # <<>>, NEW e, NEW n \in Nat, NEW s \in Script,
           Head(q) = Load(e, s), Rest(q, e, n), InOrder(q, e)
    PROVE  /\ n + 1 \in 1 .. Len(Config) /\ s = Config[n + 1]
           /\ Rest(Tail(q), e, n + 1)
<1>0. Len(Config) \in Nat /\ DOMAIN Config = 1 .. Len(Config)
    BY LoadsApart
<1>1. /\ DOMAIN q = 1 .. Len(q) /\ Len(q) \in Nat \ {0} /\ Head(q) = q[1]
      /\ DOMAIN Tail(q) = 1 .. Len(q) - 1
      /\ \A k \in 1 .. Len(q) - 1 : k + 1 \in 1 .. Len(q) /\ Tail(q)[k] = q[k + 1]
    OBVIOUS
<1>2. PICK i \in 1 .. Len(Config) : Config[i] = s
    BY <1>0 DEF Script, ToSet
<1>3. Load(e, Config[i]) \in ToSet(q)
    BY <1>2, HeadInSet
<1>4. i > n
    BY <1>3 DEF Rest
<1>5. i = n + 1
  <2>1. SUFFICES ASSUME i # n + 1 PROVE FALSE
    OBVIOUS
  <2>2. n + 1 \in 1 .. Len(Config) /\ n + 1 < i
    BY <1>0, <1>4, <2>1
  <2>3. Load(e, Config[n + 1]) \in ToSet(q)
    BY <2>2 DEF Rest
  <2>4. PICK l \in DOMAIN q : q[l] = Load(e, Config[n + 1])
    BY <2>3 DEF ToSet
  <2>5. l < 1 <=> n + 1 < i
    BY <1>1, <1>2, <2>2, <2>4 DEF InOrder
  <2> QED
    BY <1>1, <2>2, <2>5
<1>6. ASSUME NEW j \in 1 .. Len(Config)
      PROVE  Load(e, Config[j]) \in ToSet(Tail(q)) <=> j > n + 1
  <2>1. CASE j = i
    <3>1. ASSUME NEW k \in 1 .. Len(q) - 1, Tail(q)[k] = Load(e, Config[i]) PROVE FALSE
      <4>1. q[k + 1] = Load(e, Config[i]) /\ q[1] = Load(e, Config[i]) /\ 1 \in DOMAIN q
        BY <1>1, <1>2, <3>1
      <4>2. 1 < k + 1 <=> i < i
        BY <1>1, <4>1 DEF InOrder
      <4> QED
        BY <1>1, <4>2
    <3>2. Load(e, Config[i]) \notin ToSet(Tail(q))
      BY <1>1, <3>1 DEF ToSet
    <3> QED
      BY <1>5, <2>1, <3>2
  <2>2. CASE j # i
    <3>1. Load(e, Config[j]) # Head(q)
      BY <1>2, <2>2, LoadsApart
    <3>2. Load(e, Config[j]) \in ToSet(Tail(q)) <=> Load(e, Config[j]) \in ToSet(q)
      BY <3>1, ToSetTail, RestInTail
    <3>3. Load(e, Config[j]) \in ToSet(q) <=> j > n
      BY DEF Rest
    <3> QED
      BY <1>5, <2>2, <3>2, <3>3
  <2> QED
    BY <2>1, <2>2
<1> QED
    BY <1>2, <1>5, <1>6 DEF Rest

\* The parts of a concatenation.
LEMMA ConcatParts ==
    ASSUME NEW S, NEW p \in Seq(S), NEW q \in Seq(S)
    PROVE  /\ DOMAIN p = 1 .. Len(p) /\ Len(p) \in Nat /\ Len(q) \in Nat
           /\ DOMAIN (p \o q) = 1 .. Len(p) + Len(q)
           /\ \A k \in 1 .. Len(p) + Len(q) :
                 (p \o q)[k] = IF k <= Len(p) THEN p[k] ELSE q[k - Len(p)]
OBVIOUS

\* The loads of a new engine, behind what is left of the queue.
LEMMA OrderNew ==
    ASSUME NEW rest \in Seq(Handler), NEW e \in 1 .. MaxEngines,
           \A h \in ToSet(rest) : h.kind = "load" => h.engine # e
    PROVE  Rest(rest \o Loads(e), e, 0) /\ InOrder(rest \o Loads(e), e)
<1>0. Len(Config) \in Nat
    BY LoadsApart
<1>1. PICK new : new = Loads(e)
    OBVIOUS
<1>2. /\ new \in Seq(Handler) /\ Len(new) = Len(Config) /\ DOMAIN new = 1 .. Len(Config)
      /\ \A i \in 1 .. Len(Config) : new[i] = Load(e, Config[i])
    BY <1>0, <1>1, LoadsTyped DEF Loads
<1>3. PICK q : q = rest \o new
    OBVIOUS
<1>4. /\ DOMAIN rest = 1 .. Len(rest) /\ Len(rest) \in Nat
      /\ DOMAIN q = 1 .. Len(rest) + Len(new)
      /\ \A k \in 1 .. Len(rest) : q[k] = rest[k]
      /\ \A k \in 1 .. Len(new) : q[Len(rest) + k] = new[k]
  <2>1. /\ DOMAIN rest = 1 .. Len(rest) /\ Len(rest) \in Nat /\ Len(new) \in Nat
        /\ DOMAIN q = 1 .. Len(rest) + Len(new)
        /\ \A k \in 1 .. Len(rest) + Len(new) :
              q[k] = IF k <= Len(rest) THEN rest[k] ELSE new[k - Len(rest)]
    <3>1. new \in Seq(Handler)
      BY <1>2
    <3> QED
      BY <1>3, <3>1, ConcatParts, Zenon
  <2>2. \A k \in 1 .. Len(rest) : q[k] = rest[k]
    BY <2>1
  <2>3. ASSUME NEW k \in 1 .. Len(new) PROVE q[Len(rest) + k] = new[k]
    <3>1. Len(rest) + k \in 1 .. Len(rest) + Len(new) /\ ~(Len(rest) + k <= Len(rest))
          /\ (Len(rest) + k) - Len(rest) = k
      BY <2>1
    <3> QED
      BY <2>1, <3>1
  <2> QED
    BY <2>1, <2>2, <2>3
<1>5. \A i \in 1 .. Len(Config), k \in 1 .. Len(rest) : rest[k] # Load(e, Config[i])
  <2>1. \A k \in 1 .. Len(rest) : rest[k] \in ToSet(rest)
    BY <1>4 DEF ToSet
  <2> QED
    BY <2>1, LoadsApart
<1>6. ASSUME NEW i \in 1 .. Len(Config), NEW k \in DOMAIN q, q[k] = Load(e, Config[i])
      PROVE  k = Len(rest) + i
  <2>1. k \notin 1 .. Len(rest)
    BY <1>4, <1>5, <1>6
  <2>2. k - Len(rest) \in 1 .. Len(Config) /\ k = Len(rest) + (k - Len(rest))
    BY <1>0, <1>2, <1>4, <2>1
  <2>3. q[k] = new[k - Len(rest)]
    BY <1>2, <1>4, <2>2
  <2>4. Load(e, Config[k - Len(rest)]) = Load(e, Config[i])
    BY <1>2, <1>6, <2>2, <2>3
  <2>5. k - Len(rest) = i
    BY <2>2, <2>4, LoadsApart
  <2> QED
    BY <2>2, <2>5
<1>7. InOrder(q, e)
  <2>1. ASSUME NEW i \in 1 .. Len(Config), NEW j \in 1 .. Len(Config),
               NEW k \in DOMAIN q, NEW l \in DOMAIN q,
               q[k] = Load(e, Config[i]), q[l] = Load(e, Config[j])
        PROVE  k < l <=> i < j
    <3>1. k = Len(rest) + i /\ l = Len(rest) + j
      BY <1>6, <2>1
    <3> QED
      BY <1>0, <1>4, <3>1
  <2> QED
    BY <2>1 DEF InOrder
<1>8. ASSUME NEW i \in 1 .. Len(Config)
      PROVE  Load(e, Config[i]) \in ToSet(q) /\ i > 0
  <2>1. Len(rest) + i \in DOMAIN q /\ q[Len(rest) + i] = Load(e, Config[i])
    BY <1>0, <1>2, <1>4
  <2> QED
    BY <2>1 DEF ToSet
<1>9. Rest(q, e, 0)
    BY <1>8 DEF Rest
<1> QED
    BY <1>1, <1>3, <1>7, <1>9

\* The list loaded so far grows by the next of the configured ones.
LEMMA PrefixGrows ==
    ASSUME NEW s \in Seq(Script), IsPrefix(s, Config), Len(s) + 1 \in 1 .. Len(Config)
    PROVE  IsPrefix(Append(s, Config[Len(s) + 1]), Config)
<1>1. Config \in Seq(Script) /\ Len(s) \in Nat
    BY LoadsApart
<1>2. \A i \in 1 .. Len(s) : s[i] = Config[i]
  <2>1. SubSeq(s, 1, Len(s)) = SubSeq(Config, 1, Len(s))
    BY DEF IsPrefix
  <2>2. \A i \in 1 .. Len(s) : SubSeq(s, 1, Len(s))[i] = s[i] /\ SubSeq(Config, 1, Len(s))[i] = Config[i]
    BY <1>1
  <2> QED
    BY <2>1, <2>2
<1>3. PICK t : t = Append(s, Config[Len(s) + 1])
    OBVIOUS
<1>4. /\ t \in Seq(Script) /\ Len(t) = Len(s) + 1
      /\ \A i \in 1 .. Len(s) + 1 : t[i] = Config[i]
    BY <1>1, <1>2, <1>3
<1>5. SubSeq(t, 1, Len(t)) = SubSeq(Config, 1, Len(t))
    BY <1>1, <1>4
<1> QED
    BY <1>1, <1>3, <1>4, <1>5 DEF IsPrefix

\* A step that leaves the engine and what it has loaded, and posts no load.
LEMMA LoadsQuiet ==
    ASSUME IInv, LInv, UNCHANGED <<engine, scripts>>, crashed => crashed',
           queue' = queue \/ \E x : x.kind # "load" /\ queue' = Append(queue, x)
    PROVE  LInv'
<1>1. queue \in Seq(Handler)
    BY DEF IInv, TypeOK
<1>2. CASE queue' = queue
    BY <1>2 DEF LInv
<1>3. ASSUME NEW x, x.kind # "load", queue' = Append(queue, x)
      PROVE  LInv'
    BY <1>1, <1>3, OrderAppend DEF LInv
<1> QED
    BY <1>2, <1>3

\* The first handler leaves, and it is no load of the engine alive.
LEMMA LoadsDrop ==
    ASSUME IInv, LInv, ~crashed, queue # <<>>, UNCHANGED <<engine, scripts>>,
           Head(queue).kind # "load" \/ Head(queue).engine # engine,
           queue' = Tail(queue) \/ \E x : x.kind # "load" /\ queue' = Append(Tail(queue), x)
    PROVE  LInv'
<1>1. queue \in Seq(Handler) /\ Tail(queue) \in Seq(Handler)
    BY ToSetTail DEF IInv, TypeOK
<1>2. engine # 0 => Rest(Tail(queue), engine, Len(scripts)) /\ InOrder(Tail(queue), engine)
    BY <1>1, RestTail, OrderTail DEF LInv
<1>3. CASE queue' = Tail(queue)
    BY <1>2, <1>3 DEF LInv
<1>4. ASSUME NEW x, x.kind # "load", queue' = Append(Tail(queue), x)
      PROVE  LInv'
    BY <1>1, <1>2, <1>4, OrderAppend DEF LInv
<1> QED
    BY <1>3, <1>4

\* A load: the next of the list, loaded or not.
LEMMA LoadsRunLoad ==
    ASSUME IInv, LInv, NEW works \in BOOLEAN, RunLoad(works)
    PROVE  LInv'
<1>0. PICK h : h = Head(queue)
    OBVIOUS
<1>1. /\ queue \in Seq(Handler) /\ queue # <<>> /\ h.kind = "load" /\ ~crashed
      /\ queue' = Tail(queue) /\ engine' = engine /\ scripts \in Seq(Script)
    BY <1>0 DEF IInv, TypeOK, RunLoad, Idle, Running
<1>2. h \in ToSet(queue) /\ h.script \in Script
    BY <1>0, <1>1, HeadInSet, Kinds
<1>3. CASE h.engine # engine
  <2>1. crashed'
    BY <1>0, <1>3 DEF RunLoad
  <2> QED
    BY <2>1 DEF LInv
<1>4. CASE h.engine = engine
  <2>1. scripts' = Append(scripts, h.script) /\ Len(scripts') = Len(scripts) + 1 /\ Len(scripts) \in Nat
    BY <1>0, <1>1, <1>2, <1>4 DEF RunLoad
  <2>2. h = Load(engine, h.script)
    BY <1>1, <1>2, <1>4, LoadForm
  <2>3. ASSUME engine # 0
        PROVE  /\ IsPrefix(scripts', Config)
               /\ Rest(queue', engine, Len(scripts'))
               /\ InOrder(queue', engine)
    <3>1. /\ IsPrefix(scripts, Config) /\ Rest(queue, engine, Len(scripts))
          /\ InOrder(queue, engine)
      BY <1>1, <2>3 DEF LInv
    <3>2. /\ Len(scripts) + 1 \in 1 .. Len(Config) /\ h.script = Config[Len(scripts) + 1]
          /\ Rest(Tail(queue), engine, Len(scripts) + 1)
      BY <1>0, <1>1, <1>2, <2>1, <2>2, <3>1, RestLoad
    <3>3. IsPrefix(scripts', Config)
      BY <1>1, <2>1, <3>1, <3>2, PrefixGrows
    <3>4. InOrder(queue', engine)
      BY <1>1, <3>1, OrderTail
    <3> QED
      BY <1>1, <2>1, <3>2, <3>3, <3>4
  <2> QED
    BY <1>1, <2>3 DEF LInv
<1> QED
    BY <1>3, <1>4

\* Nothing is loaded in a new engine, and all of the list is posted for it.
LEMMA LoadsReload ==
    ASSUME IInv, TInv, Reload
    PROVE  LInv'
<1>1. ~crashed /\ queue # <<>> /\ ClearEngines /\ scripts' = <<>>
    BY DEF Reload, Idle, Running, ClearEngines
<1>2. CASE /\ made < MaxEngines /\ engine' = made + 1
           /\ queue' = (Tail(queue) \o Aborts) \o Loads(made + 1)
  <2>1. PICK e, rest : e = made + 1 /\ rest = Tail(queue) \o Aborts
    OBVIOUS
  <2>2. rest \in Seq(Handler) /\ \A h \in ToSet(rest) : Uses(h) => h.engine \in 1 .. made
    BY <1>1, <2>1, TimersRest
  <2>3. made \in Nat /\ e \in 1 .. MaxEngines
    BY <1>2, <2>1, ConfigAssumption DEF IInv, TypeOK
  <2>4. \A h \in ToSet(rest) : h.kind = "load" => h.engine # e
    BY <2>1, <2>2, <2>3 DEF Uses
  <2>5. Rest(queue', e, 0) /\ InOrder(queue', e)
    BY <1>2, <2>1, <2>2, <2>3, <2>4, OrderNew
  <2>6. IsPrefix(<<>>, Config) /\ Len(<<>>) = 0
    BY LoadsApart DEF IsPrefix
  <2> QED
    BY <1>1, <1>2, <2>1, <2>5, <2>6 DEF LInv
<1>3. CASE engine' = 0
    BY <1>3 DEF LInv
<1> QED
    BY <1>2, <1>3 DEF Reload

\* It holds initially.
LEMMA LoadsInit == Init => LInv
<1> SUFFICES ASSUME Init PROVE LInv
    OBVIOUS
<1>1. 1 \in 1 .. MaxEngines /\ <<>> \in Seq(Handler) /\ ToSet(<<>>) = {}
    BY ConfigAssumption DEF ToSet
<1>2. Rest(<<>> \o Loads(1), 1, 0) /\ InOrder(<<>> \o Loads(1), 1)
    BY <1>1, OrderNew
<1>3. <<>> \o Loads(1) = Loads(1)
    BY <1>1, LoadsTyped
<1>4. IsPrefix(<<>>, Config) /\ Len(<<>>) = 0
    BY LoadsApart DEF IsPrefix
<1> QED
    BY <1>2, <1>3, <1>4 DEF Init, LInv

\* Every step keeps it.
LEMMA LoadsStep == IInv /\ Stopped /\ TInv /\ LInv /\ [Next]_vars => LInv'
<1> SUFFICES ASSUME IInv, Stopped, TInv, LInv, [Next]_vars PROVE LInv'
    OBVIOUS
<1>0. /\ \A t, ok : Wait(t, ok).kind # "load"
      /\ \A t : Job(t).kind # "load"
      /\ ReloadJob.kind # "load" /\ StopJob.kind # "load"
    BY DEF Wait, Job, ReloadJob, StopJob
<1>1. CASE \E m \in Message : Asks(m) /\ Receive(m)
    BY <1>1, LoadsQuiet DEF Receive
<1>2. CASE Emit
  <2>1. UNCHANGED <<engine, scripts, crashed>>
    BY <1>2 DEF Emit, OnReload
  <2>2. queue' = queue \/ queue' = Append(queue, ReloadJob)
    BY <1>2 DEF Emit, OnReload, Attention
  <2> QED
    BY <1>0, <2>1, <2>2, LoadsQuiet
<1>3. CASE \E t \in Timer : Expire(t)
  <2>1. PICK t, w : w = Wait(t, TRUE) /\ queue' = Append(queue, w)
    BY <1>3 DEF Expire
  <2>2. UNCHANGED <<engine, scripts, crashed>> /\ w.kind # "load"
    BY <1>0, <1>3, <2>1 DEF Expire
  <2> QED
    BY <2>1, <2>2, LoadsQuiet
<1>4. CASE HandleWait
  <2>1. /\ ~crashed /\ queue # <<>> /\ Head(queue).kind = "wait" /\ UNCHANGED <<engine, scripts>>
        /\ queue' = Tail(queue) \/ \E t : queue' = Append(Tail(queue), Job(t))
    BY <1>4 DEF HandleWait, Idle, Running
  <2> QED
    BY <1>0, <2>1, LoadsDrop
<1>5. CASE RunJob
    BY <1>5, LoadsDrop DEF RunJob, Idle, Running
<1>6. CASE Reload
    BY <1>6, LoadsReload
<1>7. CASE RunLoad(TRUE) \/ RunLoad(FALSE)
    BY <1>7, LoadsRunLoad
<1>8. CASE DoShutdown
    BY <1>8 DEF DoShutdown, LInv
<1>9. CASE Shutdown
    BY <1>0, <1>9, LoadsQuiet DEF Shutdown
<1>10. CASE Destroy
    BY <1>10 DEF Destroy, Stopped, LInv
<1>11. CASE Ended \/ UNCHANGED vars
    BY <1>11, LoadsQuiet DEF Ended, vars
<1> QED
    BY <1>1, <1>2, <1>3, <1>4, <1>5, <1>6, <1>7, <1>8, <1>9, <1>10, <1>11 DEF Next, RunHandler

\* What an engine has loaded is how the configured list begins, and exactly the
\* rest is posted for it in the list's order, whatever ticks, reloads and failing
\* scripts come between the posted loads.
THEOREM LoadsInOrder == Spec => []LoadOrder
<1>1. Init => TInv /\ LInv
    BY TimersInit, LoadsInit
<1>2. LInv => LoadOrder
    BY LoadsApart DEF LInv, LoadOrder, Rest, InOrder, Queued
<1> QED
    BY <1>1, <1>2, TimersStep, LoadsStep, Invariant, PTL DEF Spec
====

---------------------------- MODULE EngineProofs ----------------------------
(***************************************************************************)
(* Proofs about JobEvents: whatever the number of tasks, heartbeat         *)
(* goroutines, failed appends and broken connections, a job has one        *)
(* heartbeat and a stream that sleeps will be woken.  And about            *)
(* ConfigStore: whatever fails or stops, and however often, the engine     *)
(* can read its settings and has those of the file.  And about             *)
(* IdentityEnvelope: whatever is altered on its way, an envelope that is   *)
(* accepted tells the identity that was built.                             *)
(***************************************************************************)
EXTENDS JobEvents, ConfigStore, IdentityEnvelope, FiniteSetTheorems, TLAPS

Kinds == {"status", "running", "finished", "end", "note"}

\* Where an emitter may be while it appends, and what it appends.
EmitInv ==
  /\ mine \in [Emitters -> [kind : Kinds, task : 0 .. Tasks]]
  /\ wpc = NoteAt + 1 => phase[Runner] = "ready"

\* The state holds the cancel function of every goroutine that is not done,
\* and of one at most.
BeatInv ==
  /\ live \subseteq armed
  /\ \A g, h \in armed : g = h

\* The stream has subscribed before it counts, and from then on every append is
\* counted, or its emitter has still to notify, or the buffer is full.
WakeInv ==
  /\ spc \in {"count", "check", "wait"} => subscribed
  /\ spc \in {"check", "wait"} /\ ~token /\ row # "gone" =>
       Len(log) <= streamed \/ \E e \in Emitters : phase[e] # "ready"
  /\ spc = "wait" /\ ~token /\ row = "terminal" => wpc <= EndAt \/ faults > 0

-----------------------------------------------------------------------------
\* The events of the runner are events.
LEMMA EventTyped ==
  ASSUME NEW i \in 1 .. NoteAt
  PROVE  Event(i) \in [kind : Kinds, task : 0 .. Tasks]
<1>1. CASE i < RowAt
  <2>1. (i + 1) \div 2 \in 0 .. Tasks
    BY <1>1, EventsAssumption DEF RowAt
  <2> QED BY <1>1, <2>1 DEF Event, Kinds
<1>2. CASE ~(i < RowAt)
  BY <1>2, EventsAssumption DEF Event, Kinds
<1> QED BY <1>1, <1>2

\* An emitter's step keeps the variables of the emitters well typed.
LEMMA EmitStep ==
  ASSUME EventsTypeOK, EmitInv, [EventsNext]_eventVars
  PROVE  EmitInv'
<1> USE EventsAssumption DEF EmitInv, Emitters
<1>1. CASE RunnerInsert
  <2>1. wpc \in 1 .. NoteAt
    BY <1>1 DEF RunnerInsert, EventsTypeOK
  <2>2. Event(wpc) \in [kind : Kinds, task : 0 .. Tasks]
    BY <2>1, EventTyped
  <2> QED BY <1>1, <2>1, <2>2 DEF RunnerInsert, Insert, NoteAt, EndAt, RowAt
<1>2. CASE RunnerInsertFails \/ RunnerTerminal \/ RunnerTerminalFails
  BY <1>2 DEF RunnerInsertFails, RunnerTerminal, RunnerTerminalFails, EventsTypeOK, NoteAt, EndAt, RowAt
<1>3. ASSUME NEW e \in Emitters, Update(e) \/ StartHeartbeat(e)
      PROVE  EmitInv'
  BY <1>3 DEF Update, StartHeartbeat, EventsTypeOK
<1>4. ASSUME NEW e \in Emitters, Notify(e)
      PROVE  EmitInv'
  <2>1. Event(1) \in [kind : Kinds, task : 0 .. Tasks]
    BY EventTyped DEF NoteAt, EndAt, RowAt
  <2> QED BY <1>4, <2>1 DEF Notify, EventsTypeOK, NoteAt, EndAt, RowAt
<1>5. ASSUME NEW g \in Beaters, Tick(g)
      PROVE  EmitInv'
  <2>1. CASE mine' = mine
    BY <1>5, <2>1 DEF Tick
  <2>2. CASE task \notin {0, Absent} /\ mine' = [mine EXCEPT ![g] = [kind |-> "running", task |-> task]]
    BY <1>5, <2>2 DEF Tick, EventsTypeOK, Absent, Kinds
  <2> QED BY <1>5, <2>1, <2>2 DEF Tick
<1>6. ASSUME NEW g \in Beaters, Beat(g)
      PROVE  EmitInv'
  <2>1. CASE row = "gone"
    BY <1>6, <2>1 DEF Beat
  <2>2. CASE row # "gone"
    <3>1. mine' \in [Emitters -> [kind : Kinds, task : 0 .. Tasks]]
      BY <1>6, <2>2 DEF Beat, Insert
    <3>2. wpc' = wpc /\ phase'[Runner] = phase[Runner]
      BY <1>6, <2>2 DEF Beat, Insert, EventsTypeOK
    <3> QED BY <3>1, <3>2 DEF NoteAt, EndAt, RowAt
  <2> QED BY <2>1, <2>2
<1>7. CASE StreamStep \/ ClientStep \/ Drop \/ Delete \/ UNCHANGED eventVars
  BY <1>7 DEF StreamStep, StreamRow, StreamList, StreamSubscribe, StreamCount, StreamCheck, StreamWake,
              ClientStep, ClientRead, ClientReconnect, ClientNotFound, Drop, Delete, emitting, eventVars
<1> QED BY <1>1, <1>2, <1>3, <1>4, <1>5, <1>6, <1>7 DEF EventsNext, RunnerStep, EmitterStep

\* Every step keeps the variables well typed.
LEMMA TypeStep ==
  ASSUME EventsTypeOK, EmitInv, [EventsNext]_eventVars
  PROVE  EventsTypeOK'
<1> USE EventsAssumption DEF EventsTypeOK, Emitters
<1>1. ASSUME NEW e \in Emitters, NEW event \in [kind : Kinds, task : 0 .. Tasks], Insert(e, event)
      PROVE  /\ log' \in Seq(Kinds)
             /\ phase' \in [Emitters -> {"ready", "update", "start", "notify"}]
  BY <1>1 DEF Insert, Kinds
<1>2. CASE RunnerInsert
  <2>1. Event(wpc) \in [kind : Kinds, task : 0 .. Tasks]
    BY <1>2, EventTyped DEF RunnerInsert
  <2>2. /\ log' \in Seq(Kinds)
        /\ phase' \in [Emitters -> {"ready", "update", "start", "notify"}]
    BY <1>1, <1>2, <2>1 DEF RunnerInsert
  <2> QED BY <1>2, <2>2 DEF RunnerInsert, heart, bus, stream, clientVars, bounds, Kinds
<1>3. CASE RunnerInsertFails \/ RunnerTerminal \/ RunnerTerminalFails
  BY <1>3 DEF RunnerInsertFails, RunnerTerminal, RunnerTerminalFails, NoteAt, EndAt, RowAt, heart, bus, stream, clientVars, bounds
<1>4. ASSUME NEW e \in Emitters, Update(e)
      PROVE  EventsTypeOK'
  <2>1. mine[e].task \in 0 .. Tasks
    BY DEF EmitInv
  <2>2. CASE mine[e].kind = "running"
    <3>1. task' \in 0 .. Absent
      BY <1>4, <2>1, <2>2 DEF Update, Absent
    <3>2. live' \subseteq Beaters /\ armed' \subseteq Beaters
          /\ phase' \in [Emitters -> {"ready", "update", "start", "notify"}]
      BY <1>4, <2>2 DEF Update
    <3> QED BY <1>4, <3>1, <3>2 DEF Update, bus, stream, clientVars, bounds
  <2>3. CASE mine[e].kind = "end" \/ (mine[e].kind = "finished" /\ task = mine[e].task)
    <3>1. task' \in 0 .. Absent
      BY <1>4, <2>3 DEF Update, Absent
    <3>2. live' \subseteq Beaters /\ armed' \subseteq Beaters
          /\ phase' \in [Emitters -> {"ready", "update", "start", "notify"}]
      BY <1>4, <2>3 DEF Update
    <3> QED BY <1>4, <3>1, <3>2 DEF Update, bus, stream, clientVars, bounds
  <2>4. CASE /\ mine[e].kind # "running"
             /\ ~(mine[e].kind = "end" \/ (mine[e].kind = "finished" /\ task = mine[e].task))
    BY <1>4, <2>4 DEF Update, bus, stream, clientVars, bounds
  <2> QED BY <2>2, <2>3, <2>4
<1>5. ASSUME NEW e \in Emitters, StartHeartbeat(e)
      PROVE  EventsTypeOK'
  BY <1>5 DEF StartHeartbeat, bus, stream, clientVars, bounds
<1>6. ASSUME NEW e \in Emitters, Notify(e)
      PROVE  EventsTypeOK'
  <2>1. wpc' \in 1 .. NoteAt + 1
    BY <1>6 DEF Notify, EmitInv, NoteAt, EndAt, RowAt
  <2> QED BY <1>6, <2>1 DEF Notify, stream, clientVars, bounds
<1>7. ASSUME NEW g \in Beaters, Tick(g)
      PROVE  EventsTypeOK'
  BY <1>7 DEF Tick, bus, stream, clientVars
<1>8. ASSUME NEW g \in Beaters, Beat(g)
      PROVE  EventsTypeOK'
  <2>1. CASE row = "gone"
    BY <1>8, <2>1 DEF Beat, bus, stream, clientVars, bounds
  <2>2. CASE row # "gone"
    <3>1. mine[g] \in [kind : Kinds, task : 0 .. Tasks]
      BY DEF EmitInv
    <3>2. /\ log' \in Seq(Kinds)
          /\ phase' \in [Emitters -> {"ready", "update", "start", "notify"}]
      BY <1>1, <1>8, <2>2, <3>1 DEF Beat
    <3> QED BY <1>8, <2>2, <3>2 DEF Beat, bus, stream, clientVars, bounds, Kinds
  <2> QED BY <2>1, <2>2
<1>9. CASE StreamStep
  <2>1. Stored \in Nat
    BY DEF Stored
  <2> QED BY <1>9, <2>1 DEF StreamStep, StreamRow, StreamList, StreamSubscribe, StreamCount, StreamCheck,
                StreamWake, emitting, heart, bus, clientVars, bounds
<1>10. CASE ClientStep
  BY <1>10 DEF ClientStep, ClientRead, ClientReconnect, ClientNotFound, emitting, heart, bus, stream,
               clientVars, bounds
<1>11. CASE Drop \/ Delete
  <2>1. CASE Drop
    <3>1. /\ broken' \in Nat /\ spc' = "row" /\ streamed' = 0
          /\ UNCHANGED <<row, log, wpc, phase, task, beat, live, armed, finished, client, seen, beats, faults>>
      BY <2>1 DEF Drop, emitting, heart, clientVars
    <3>2. subscribed' \in BOOLEAN /\ token' \in BOOLEAN
      BY <2>1 DEF Drop
    <3> QED BY <3>1, <3>2
  <2>2. CASE Delete
    <3>1. /\ row' = "gone"
          /\ UNCHANGED <<log, wpc, phase, mine, task, beat, live, armed, subscribed, token, spc, streamed,
                         finished, client, seen, beats, faults, broken>>
      BY <2>2 DEF Delete, emitting, heart, bus, stream, clientVars, bounds
    <3> QED BY <3>1
  <2> QED BY <1>11, <2>1, <2>2
<1>12. CASE UNCHANGED eventVars
  BY <1>12 DEF eventVars
<1> QED BY <1>2, <1>3, <1>4, <1>5, <1>6, <1>7, <1>8, <1>9, <1>10, <1>11, <1>12 DEF EventsNext, RunnerStep, EmitterStep

\* The variables of the log, the emitters, the bus and the watcher have their
\* types, for any number of tasks and goroutines.
THEOREM EventsTyped == Spec => [](EventsTypeOK /\ EmitInv)
<1>1. EventsInit => EventsTypeOK /\ EmitInv
  <2>1. Event(1) \in [kind : Kinds, task : 0 .. Tasks]
    BY EventTyped, EventsAssumption DEF NoteAt, EndAt, RowAt
  <2>2. EventsInit => EmitInv
    BY <2>1, EventsAssumption DEF EventsInit, EmitInv, Emitters, NoteAt, EndAt, RowAt
  <2>3. EventsInit => EventsTypeOK
    <3> SUFFICES ASSUME EventsInit PROVE EventsTypeOK
      OBVIOUS
    <3>1. wpc \in 1 .. NoteAt + 1 /\ task \in 0 .. Absent
      BY EventsAssumption DEF EventsInit, NoteAt, EndAt, RowAt, Absent
    <3>2. /\ phase \in [Emitters -> {"ready", "update", "start", "notify"}]
          /\ beat \in [Beaters -> {"off", "wait", "emit"}]
      BY DEF EventsInit
    <3>3. log \in Seq({"status", "running", "finished", "end", "note"})
      BY DEF EventsInit
    <3> QED BY <3>1, <3>2, <3>3 DEF EventsInit, EventsTypeOK
  <2> QED BY <2>2, <2>3
<1>2. EventsTypeOK /\ EmitInv /\ [EventsNext]_eventVars => (EventsTypeOK /\ EmitInv)'
  BY EmitStep, TypeStep
<1> QED BY <1>1, <1>2, PTL DEF Spec

-----------------------------------------------------------------------------
\* updateHeartbeat and startHeartbeat keep the cancel function of the only
\* goroutine that is not done.
LEMMA BeatStep ==
  ASSUME BeatInv, [EventsNext]_eventVars
  PROVE  BeatInv'
<1> USE DEF BeatInv
<1>1. ASSUME NEW e, EmitterStep(e)
      PROVE  BeatInv'
  BY <1>1 DEF EmitterStep, Update, StartHeartbeat, Notify
<1>2. CASE RunnerInsert \/ RunnerInsertFails \/ RunnerTerminal \/ RunnerTerminalFails
  BY <1>2 DEF RunnerInsert, RunnerInsertFails, RunnerTerminal, RunnerTerminalFails, heart
<1>3. ASSUME NEW g \in Beaters, Tick(g) \/ Beat(g)
      PROVE  BeatInv'
  BY <1>3 DEF Tick, Beat
<1>4. CASE StreamStep \/ ClientStep \/ Drop \/ Delete \/ UNCHANGED eventVars
  BY <1>4 DEF StreamStep, StreamRow, StreamList, StreamSubscribe, StreamCount, StreamCheck, StreamWake,
              ClientStep, ClientRead, ClientReconnect, ClientNotFound, Drop, Delete, heart, eventVars
<1> QED BY <1>1, <1>2, <1>3, <1>4 DEF EventsNext, RunnerStep

\* At most one heartbeat goroutine of a job goes on, however many were started
\* and whichever of them are still between two steps.
THEOREM HeartbeatUnique == Spec => []OneHeartbeat
<1>1. EventsInit => BeatInv
  BY DEF EventsInit, BeatInv
<1>2. BeatInv /\ [EventsNext]_eventVars => BeatInv'
  BY BeatStep
<1>3. BeatInv => OneHeartbeat
  BY DEF BeatInv, OneHeartbeat
<1> QED BY <1>1, <1>2, <1>3, PTL DEF Spec

-----------------------------------------------------------------------------
\* No step of an emitter, the stream or the client takes the stream past an
\* append it was not told of.
LEMMA WakeStep ==
  ASSUME EventsTypeOK, WakeInv, [EventsNext]_eventVars
  PROVE  WakeInv'
<1> USE EventsAssumption DEF WakeInv, EventsTypeOK, Emitters
<1>1. ASSUME NEW e \in Emitters, NEW event, Insert(e, event),
             UNCHANGED <<row, wpc, bus, stream, faults>>
      PROVE  WakeInv'
  <2>1. phase'[e] = "update"
    BY <1>1 DEF Insert
  <2> QED BY <1>1, <2>1 DEF bus, stream
<1>2. CASE RunnerInsert
  BY <1>1, <1>2 DEF RunnerInsert, bounds
<1>3. CASE RunnerInsertFails
  BY <1>3 DEF RunnerInsertFails, RowAt, EndAt, bus, stream
<1>4. CASE RunnerTerminal \/ RunnerTerminalFails
  BY <1>4 DEF RunnerTerminal, RunnerTerminalFails, NoteAt, EndAt, RowAt, bus, stream
<1>5. ASSUME NEW e \in Emitters, Update(e) \/ StartHeartbeat(e)
      PROVE  WakeInv'
  <2>1. phase'[e] # "ready"
    BY <1>5 DEF Update, StartHeartbeat
  <2>2. UNCHANGED <<row, log, wpc, subscribed, token, spc, streamed, faults>>
    BY <1>5 DEF Update, StartHeartbeat, bus, stream, bounds
  <2> QED BY <2>1, <2>2
<1>6. ASSUME NEW e \in Emitters, Notify(e)
      PROVE  WakeInv'
  BY <1>6 DEF Notify, stream, bounds
<1>7. ASSUME NEW g \in Beaters, Tick(g)
      PROVE  WakeInv'
  BY <1>7 DEF Tick, bus, stream
<1>8. ASSUME NEW g \in Beaters, Beat(g)
      PROVE  WakeInv'
  <2>1. CASE row = "gone"
    BY <1>8, <2>1 DEF Beat, bus, stream, bounds
  <2>2. CASE row # "gone"
    BY <1>1, <1>8, <2>2 DEF Beat, bounds
  <2> QED BY <2>1, <2>2
<1>9. CASE StreamStep
  BY <1>9 DEF StreamStep, StreamRow, StreamList, StreamSubscribe, StreamCount, StreamCheck, StreamWake,
              Stored, emitting, bus, bounds
<1>10. CASE ClientStep \/ Drop \/ Delete \/ UNCHANGED eventVars
  BY <1>10 DEF ClientStep, ClientRead, ClientReconnect, ClientNotFound, Drop, Delete, emitting, bus,
               stream, bounds, eventVars
<1> QED BY <1>2, <1>3, <1>4, <1>5, <1>6, <1>7, <1>8, <1>9, <1>10 DEF EventsNext, RunnerStep, EmitterStep

\* A stream that sleeps has sent everything, or somebody is about to wake it,
\* for any number of emitters: WaitForEvent subscribes before it counts.
THEOREM WakeupsArrive == Spec => []NoLostWakeup
<1>1. EventsInit => WakeInv
  BY DEF EventsInit, WakeInv
<1>2. EventsTypeOK /\ WakeInv /\ [EventsNext]_eventVars => WakeInv'
  BY WakeStep
<1>3. WakeInv => NoLostWakeup
  BY DEF WakeInv, NoLostWakeup
<1> QED BY <1>1, <1>2, <1>3, EventsTyped, PTL DEF Spec

-----------------------------------------------------------------------------
(* ConfigStore.                                                            *)

\* What an override holds: a mark, nothing, or null.
Overrides == [Leaves -> Marks \cup {NoMark, Null}]

\* The low watermark is below the high one, unless one of them is null.
InOrder(o) ==
  LET e == Effective(o)
  IN  e["highWatermark"] # Null /\ e["lowWatermark"] # Null =>
        e["lowWatermark"] < e["highWatermark"]

\* Every content there may be of the file, before and after a power failure, is
\* whole: only a synced temporary file takes its place.
WholeInv ==
  /\ {cfDisk, cfSynced, cfMem, cfNext} \subseteq Overrides
  /\ cfDurable /\ (cfPc = "rename" => cfTempDurable)

\* Memory and file differ only between the rename and the answer, and where the
\* rename was followed by a failure.
AgreeInv ==
  /\ ~cfUp => cfPc = "idle"
  /\ cfPc = "dir" => cfDisk = cfNext
  /\ cfUp /\ ~cfStray /\ cfPc # "dir" => cfMem = cfDisk

\* As long as every change is a checked Set of one watermark, whatever the engine may come to
\* have in memory is in order: also what waits, and what a failure brings back.
OrderInv == ~cfUnchecked => \A o \in {cfDisk, cfSynced, cfMem, cfNext} : InOrder(o)

ConfigInv == WholeInv /\ AgreeInv /\ OrderInv

\* Nothing overridden: the defaults are in order.
LEMMA DefaultsInOrder == NoOverrides \in Overrides /\ InOrder(NoOverrides)
BY ConfigConstants DEF NoOverrides, Overrides, InOrder, Effective, NoMark, Null, Leaves

\* A file that is not JSON is no set of overrides (encodings of the model).
LEMMA TornIsNoOverride == Torn \notin Overrides
<1>1. "lowWatermark" \in Leaves /\ Torn["lowWatermark"] = -3
  BY DEF Torn, Leaves
<1>2. -3 \notin Marks \cup {NoMark, Null}
  BY ConfigConstants DEF NoMark, Null
<1>3. QED BY <1>1, <1>2 DEF Overrides

\* Settings hold what they should at first.
LEMMA ConfigInvInit == ConfigInit => ConfigInv
BY DefaultsInOrder DEF ConfigInit, ConfigInv, WholeInv, AgreeInv, OrderInv

\* The constraint that Set checks is the order of the watermarks.
LEMMA ConstraintOrders ==
  ASSUME NEW x \in Leaves, NEW o \in Overrides, validateCacheConstraints(x, o)
  PROVE  InOrder(o)
BY DEF validateCacheConstraints, InOrder

\* Set of one watermark keeps the invariant.
LEMMA SetMarkKeeps ==
  ASSUME ConfigInv, NEW x \in Leaves, NEW v \in Marks \cup {Null}, SetMark(x, v)
  PROVE  ConfigInv'
<1> DEFINE o == [cfMem EXCEPT ![x] = v]
<1>1. /\ cfNext' = o /\ cfPc' = "temp" /\ cfUp /\ cfPc = "idle"
      /\ UNCHANGED <<cfDisk, cfDurable, cfTempDurable, cfSynced, cfMem, cfUp, cfStray, cfUnchecked>>
      /\ validateCacheConstraints(x, o)
  BY DEF SetMark, BeginChange, cfFiles, cfRest
<1>2. o \in Overrides
  BY DEF ConfigInv, WholeInv, Overrides
<1> HIDE DEF o
<1>3. InOrder(o)
  BY <1>1, <1>2, ConstraintOrders
<1>4. WholeInv'
  BY <1>1, <1>2 DEF ConfigInv, WholeInv
<1>5. AgreeInv'
  BY <1>1 DEF ConfigInv, AgreeInv
<1>6. OrderInv'
  BY <1>1, <1>3 DEF ConfigInv, OrderInv, InOrder, Effective
<1>7. QED BY <1>4, <1>5, <1>6 DEF ConfigInv

\* A Set of both, one under another spelling and a Remove check nothing: they keep what does not depend on
\* the order.
LEMMA UncheckedKeeps ==
  ASSUME ConfigInv, NEW o \in Overrides, cfUp, cfPc = "idle", BeginChange(o), cfUnchecked',
         UNCHANGED <<cfFiles, cfMem, cfUp, cfStops, cfStray>>
  PROVE  ConfigInv'
<1>1. /\ cfNext' = o /\ cfPc' = "temp"
      /\ UNCHANGED <<cfDisk, cfDurable, cfTempDurable, cfSynced, cfMem, cfUp, cfStray>>
  BY DEF BeginChange, cfFiles
<1>2. WholeInv' /\ AgreeInv' /\ OrderInv'
  BY <1>1 DEF ConfigInv, WholeInv, AgreeInv, OrderInv
<1>3. QED BY <1>2 DEF ConfigInv

\* The temporary file is written, synced, and takes the file's place.
LEMMA FileKeeps ==
  ASSUME ConfigInv, WriteTemp \/ SyncTemp \/ RenameTemp
  PROVE  ConfigInv'
<1>1. CASE WriteTemp
  BY <1>1 DEF WriteTemp, cfRest, ConfigInv, WholeInv, AgreeInv, OrderInv, InOrder, Effective
<1>2. CASE SyncTemp
  BY <1>2 DEF SyncTemp, cfRest, ConfigInv, WholeInv, AgreeInv, OrderInv, InOrder, Effective
<1>3. CASE RenameTemp
  BY <1>3 DEF RenameTemp, cfRest, ConfigInv, WholeInv, AgreeInv, OrderInv, InOrder, Effective
<1>4. QED BY <1>1, <1>2, <1>3

\* The change is adopted, or given up.
LEMMA EndKeeps ==
  ASSUME ConfigInv, AdoptConfig \/ WriteFails
  PROVE  ConfigInv'
<1>1. CASE AdoptConfig
  BY <1>1, DefaultsInOrder DEF AdoptConfig, cfRest, ConfigInv, WholeInv, AgreeInv, OrderInv, InOrder, Effective
<1>2. CASE WriteFails
  <2>1. /\ cfPc # "idle" /\ (cfStray' <=> cfStray \/ cfPc = "dir") /\ cfTempDurable' = TRUE
        /\ cfNext' = NoOverrides /\ cfPc' = "idle"
        /\ UNCHANGED <<cfDisk, cfDurable, cfSynced, cfMem, cfUp, cfUnchecked>>
    BY <1>2 DEF WriteFails
  <2>2. WholeInv'
    BY <2>1, DefaultsInOrder DEF ConfigInv, WholeInv
  <2>3. AgreeInv'
    BY <2>1 DEF ConfigInv, AgreeInv
  <2>4. OrderInv'
    BY <2>1, DefaultsInOrder DEF ConfigInv, OrderInv
  <2>5. QED BY <2>2, <2>3, <2>4 DEF ConfigInv
<1>3. QED BY <1>1, <1>2

\* The machine stops and the engine starts again.
LEMMA RestartKeeps ==
  ASSUME ConfigInv, PowerFailure \/ loadOverrides
  PROVE  ConfigInv'
<1>1. CASE PowerFailure
  <2>1. /\ cfDisk' \in {cfSynced, cfDisk} /\ cfSynced' = cfDisk' /\ cfDurable' = TRUE
        /\ cfNext' = NoOverrides /\ cfPc' = "idle" /\ ~cfUp' /\ UNCHANGED <<cfMem, cfUnchecked>>
    BY <1>1 DEF PowerFailure, ConfigInv, WholeInv
  <2>2. WholeInv' /\ AgreeInv'
    BY <2>1, DefaultsInOrder DEF ConfigInv, WholeInv, AgreeInv
  <2>3. OrderInv'
    BY <2>1, DefaultsInOrder DEF ConfigInv, OrderInv
  <2>4. QED BY <2>2, <2>3 DEF ConfigInv
<1>2. CASE loadOverrides
  BY <1>2 DEF loadOverrides, cfFiles, ConfigInv, WholeInv, AgreeInv, OrderInv, InOrder, Effective
<1>3. QED BY <1>1, <1>2

\* Every step keeps the invariant of the settings.
LEMMA ConfigStep == ConfigInv /\ [ConfigNext]_configVars => ConfigInv'
<1> SUFFICES ASSUME ConfigInv, [ConfigNext]_configVars PROVE ConfigInv'
  OBVIOUS
<1>1. ASSUME NEW x \in Leaves, NEW v \in Marks \cup {Null}, SetMark(x, v) PROVE ConfigInv'
  BY <1>1, SetMarkKeeps
<1>2. ASSUME NEW h \in Marks, NEW l \in Marks, SetCapacity(h, l) PROVE ConfigInv'
  <2> DEFINE o == [cfMem EXCEPT !["highWatermark"] = h, !["lowWatermark"] = l]
  <2>1. o \in Overrides
    BY DEF ConfigInv, WholeInv, Overrides
  <2>2. /\ cfUp /\ cfPc = "idle" /\ BeginChange(o) /\ cfUnchecked'
        /\ UNCHANGED <<cfFiles, cfMem, cfUp, cfStops, cfStray>>
    BY <1>2 DEF SetCapacity
  <2> HIDE DEF o
  <2>3. QED BY <2>1, <2>2, UncheckedKeeps
<1>3. ASSUME NEW x \in Leaves, RemoveMark(x) PROVE ConfigInv'
  <2> DEFINE o == [cfMem EXCEPT ![x] = NoMark]
  <2>1. o \in Overrides
    BY DEF ConfigInv, WholeInv, Overrides
  <2>2. /\ cfUp /\ cfPc = "idle" /\ BeginChange(o) /\ cfUnchecked'
        /\ UNCHANGED <<cfFiles, cfMem, cfUp, cfStops, cfStray>>
    BY <1>3 DEF RemoveMark
  <2> HIDE DEF o
  <2>3. QED BY <2>1, <2>2, UncheckedKeeps
<1>4. ASSUME NEW x \in Leaves, NEW v \in Marks \cup {Null}, SetMarkRespelled(x, v) PROVE ConfigInv'
  <2> DEFINE o == [cfMem EXCEPT ![x] = v]
  <2>1. o \in Overrides
    BY DEF ConfigInv, WholeInv, Overrides
  <2>2. /\ cfUp /\ cfPc = "idle" /\ BeginChange(o) /\ cfUnchecked'
        /\ UNCHANGED <<cfFiles, cfMem, cfUp, cfStops, cfStray>>
    BY <1>4 DEF SetMarkRespelled
  <2> HIDE DEF o
  <2>3. QED BY <2>1, <2>2, UncheckedKeeps
<1>5. CASE UNCHANGED configVars
  BY <1>5 DEF configVars, ConfigInv, WholeInv, AgreeInv, OrderInv, InOrder, Effective
<1>6. QED BY <1>1, <1>2, <1>3, <1>4, <1>5, FileKeeps, EndKeeps, RestartKeeps DEF ConfigNext

\* The settings survive every failure and stop: the file can be read; memory and
\* file agree whenever no change is under way, unless one failed after the rename;
\* and the watermarks stay in order as long as each was set under its own path, with
\* no Remove, Set of the whole object or other spelling among the changes; for any
\* marks and defaults in order and any number of stops (atomicWriteFile,
\* loadOverrides, validateCacheConstraintsForPath).
THEOREM ConfigIsSafe == ConfigSpec => []ConfigSafe
<1>1. ConfigInv => ConfigSafe
  <2> SUFFICES ASSUME ConfigInv PROVE ConfigSafe
    OBVIOUS
  <2>1. cfDisk # Torn
    BY TornIsNoOverride DEF ConfigInv, WholeInv
  <2>2. cfUp /\ cfPc = "idle" /\ ~cfStray => cfMem = cfDisk
    BY DEF ConfigInv, AgreeInv
  <2>3. ~cfUnchecked => InOrder(cfMem)
    BY DEF ConfigInv, OrderInv
  <2>4. QED BY <2>1, <2>2, <2>3 DEF ConfigSafe, InOrder
<1> QED BY <1>1, ConfigInvInit, ConfigStep, PTL DEF ConfigSpec
-----------------------------------------------------------------------------
(* IdentityEnvelope.  Fields in the order of their names: ascending, no    *)
(* other field, and none left out.                                         *)
Sorts(q, n, S) ==
  /\ n \in Nat /\ q \in [1..n -> S]
  /\ \A i, j \in 1..n : i < j => ByName(q[i], q[j])
  /\ \A f \in S : \E i \in 1..n : q[i] = f

\* Fields whose names are names, none of them twice.
NamedApart(S) ==
  /\ \A f \in S : f.name \in FieldNames
  /\ \A f, g \in S : f.name = g.name => f = g

\* A name has one rank.
LEMMA RankIs ==
  ASSUME NEW n \in FieldNames
  PROVE  Rank(n) \in 1..5 /\ NameOrder[Rank(n)] = n
<1>1. DOMAIN NameOrder = 1..5
  BY DEF NameOrder
<1>2. \E i \in 1..5 : NameOrder[i] = n
  <2>1. /\ NameOrder[1] = "extension.input.0" /\ NameOrder[2] = "extension.input.1"
        /\ NameOrder[3] = "locator" /\ NameOrder[4] = "plan" /\ NameOrder[5] = "token"
    BY DEF NameOrder
  <2>2. 1 \in 1..5 /\ 2 \in 1..5 /\ 3 \in 1..5 /\ 4 \in 1..5 /\ 5 \in 1..5
    OBVIOUS
  <2> HIDE DEF NameOrder
  <2>3. n \in {"extension.input.0", "extension.input.1", "locator", "plan", "token"}
    BY DEF FieldNames
  <2>4. QED BY <2>1, <2>2, <2>3
<1>3. QED BY <1>1, <1>2 DEF Rank

\* Different fields have different ranks.
LEMMA RanksApart ==
  ASSUME NEW S, NamedApart(S), NEW f \in S, NEW g \in S
  PROVE  /\ Rank(f.name) \in 1..5 /\ Rank(g.name) \in 1..5
         /\ Rank(f.name) = Rank(g.name) => f = g
BY RankIs DEF NamedApart

\* The fields up to a rank can be put in order, one rank after another.
LEMMA SortsOneMore ==
  ASSUME NEW S, NamedApart(S), NEW k \in 0..4,
         \E n, q : Sorts(q, n, {f \in S : Rank(f.name) <= k})
  PROVE  \E n, q : Sorts(q, n, {f \in S : Rank(f.name) <= k + 1})
<1> DEFINE A == {f \in S : Rank(f.name) <= k}
           B == {f \in S : Rank(f.name) <= k + 1}
<1>1. PICK n, q : Sorts(q, n, A)
  OBVIOUS
<1>2. CASE \A f \in S : Rank(f.name) # k + 1
  <2>1. \A f \in S : Rank(f.name) \in Nat
    BY RanksApart
  <2>2. A = B
    BY <1>2, <2>1
  <2>3. QED BY <1>1, <2>2
<1>3. ASSUME NEW x \in S, Rank(x.name) = k + 1 PROVE \E m, r : Sorts(r, m, B)
  <2>1. B = A \cup {x} /\ \A f \in A : ByName(f, x)
    <3>1. \A f \in S : Rank(f.name) \in Nat /\ (Rank(f.name) = k + 1 => f = x)
      BY <1>3, RanksApart
    <3>2. ByName(x, x) <=> FALSE
      BY <3>1 DEF ByName
    <3>3. QED BY <1>3, <3>1 DEF ByName
  <2> HIDE DEF A, B
  <2> DEFINE r == [i \in 1..(n + 1) |-> IF i = n + 1 THEN x ELSE q[i]]
  <2>2. n \in Nat /\ r \in [1..(n + 1) -> B]
    BY <1>1, <2>1 DEF Sorts
  <2>3. ASSUME NEW i \in 1..(n + 1), NEW j \in 1..(n + 1), i < j PROVE ByName(r[i], r[j])
    BY <1>1, <2>1, <2>2, <2>3 DEF Sorts
  <2>4. ASSUME NEW f \in B PROVE \E i \in 1..(n + 1) : r[i] = f
    <3>1. CASE f = x
      BY <2>2, <3>1
    <3>2. CASE f \in A
      <4>1. PICK i \in 1..n : q[i] = f
        BY <1>1, <3>2 DEF Sorts
      <4>2. i \in 1..(n + 1) /\ r[i] = f
        BY <2>2, <4>1
      <4>3. QED BY <4>2
    <3>3. QED BY <2>1, <3>1, <3>2
  <2>5. Sorts(r, n + 1, B)
    <3> HIDE DEF r
    <3>1. QED BY <2>2, <2>3, <2>4 DEF Sorts
  <2>6. QED BY <2>5
<1>4. QED BY <1>2, <1>3

\* Fields can be put in order.
LEMMA SortExists ==
  ASSUME NEW S, NamedApart(S)
  PROVE  \E n, q : Sorts(q, n, S)
<1> DEFINE P(k) == \E n, q : Sorts(q, n, {f \in S : Rank(f.name) <= k})
<1>1. P(0)
  <2>1. \A f \in S : Rank(f.name) \in 1..5
    BY RanksApart
  <2>2. {f \in S : Rank(f.name) <= 0} = {}
    BY <2>1
  <2>3. Sorts(<<>>, 0, {})
    BY DEF Sorts
  <2>4. QED BY <2>2, <2>3
<1>2. \A k \in 0..4 : P(k) => P(k + 1)
  BY SortsOneMore
<1>3. P(5)
  <2> HIDE DEF P
  <2>1. P(0 + 1)
    BY <1>1, <1>2
  <2>2. P(1 + 1)
    BY <1>2, <2>1
  <2>3. P(2 + 1)
    BY <1>2, <2>2
  <2>4. P(3 + 1)
    BY <1>2, <2>3
  <2>5. P(4 + 1)
    BY <1>2, <2>4
  <2>6. QED BY <2>5
<1>4. {f \in S : Rank(f.name) <= 5} = S
  BY RanksApart
<1>5. QED BY <1>3, <1>4

\* A sequence in order names each field once.
LEMMA SortCounts ==
  ASSUME NEW S, NamedApart(S), NEW n, NEW q, Sorts(q, n, S)
  PROVE  IsFiniteSet(S) /\ Cardinality(S) = n
<1>1. \A i, j \in 1..n : i # j => q[i] # q[j]
  <2>1. SUFFICES ASSUME NEW i \in 1..n, NEW j \in 1..n, i < j PROVE q[i] # q[j]
    <3>1. n \in Nat
      BY DEF Sorts
    <3>2. ASSUME NEW i \in 1..n, NEW j \in 1..n, i # j PROVE q[i] # q[j]
      <4>1. i < j \/ j < i
        BY <3>1, <3>2
      <4>2. QED BY <4>1, <2>1
    <3>3. QED BY <3>2
  <2>2. q[i] \in S /\ q[j] \in S /\ ByName(q[i], q[j])
    BY <2>1 DEF Sorts
  <2>3. Rank(q[i].name) < Rank(q[j].name) /\ Rank(q[i].name) \in Nat
    BY <2>2, RanksApart DEF ByName
  <2>4. QED BY <2>3
<1>2. q \in Bijection(1..n, S)
  BY <1>1 DEF Sorts, Bijection, Injection, Surjection, IsInjective
<1>3. n \in Nat /\ ExistsBijection(1..n, S)
  BY <1>2 DEF Sorts, ExistsBijection
<1>4. QED BY <1>3, FS_CountingElements, FS_NatBijection

\* A set of naturals that is not empty has a least element.
LEMMA LeastNat ==
  ASSUME NEW T, T \subseteq Nat, T # {}
  PROVE  \E x \in T : \A y \in T : x <= y
<1> DEFINE R == OpToRel(<, Nat)
<1>1. IsWellFoundedOn(R, Nat)
  BY NatLessThanWellFounded
<1>2. PICK x \in T : \A y \in T : ~(<<y, x>> \in R)
  <2> HIDE DEF R
  <2>1. QED BY <1>1, WFMin
<1>3. ASSUME NEW y \in T PROVE x <= y
  <2>1. <<y, x>> \notin R
    BY <1>2
  <2>2. ~(y < x)
    BY <2>1 DEF OpToRel
  <2>3. QED BY <2>2
<1>4. QED BY <1>3

\* There is one way to put fields in order.
LEMMA SortUnique ==
  ASSUME NEW S, NamedApart(S), NEW n, NEW q, NEW m, NEW p, Sorts(q, n, S), Sorts(p, m, S)
  PROVE  n = m /\ q = p
<1>1. n = m /\ n \in Nat
  <2>1. n = Cardinality(S)
    BY SortCounts
  <2>2. m = Cardinality(S)
    BY SortCounts
  <2>3. QED BY <2>1, <2>2 DEF Sorts
<1>2. /\ q \in [1..n -> S] /\ p \in [1..n -> S]
      /\ \A i, j \in 1..n : i < j => ByName(q[i], q[j]) /\ ByName(p[i], p[j])
      /\ \A f \in S : (\E i \in 1..n : q[i] = f) /\ (\E i \in 1..n : p[i] = f)
  BY <1>1 DEF Sorts
<1>3. \A f, g \in S : ByName(f, g) => f # g /\ ~ByName(g, f)
  <2>1. ASSUME NEW f \in S, NEW g \in S, ByName(f, g) PROVE f # g /\ ~ByName(g, f)
    <3>1. Rank(f.name) \in Nat /\ Rank(g.name) \in Nat
      BY RanksApart
    <3>2. QED BY <2>1, <3>1 DEF ByName
  <2>2. QED BY <2>1
<1> DEFINE bad == {i \in Nat : i \in 1..n /\ q[i] # p[i]}
<1>4. bad = {}
  <2>1. SUFFICES ASSUME bad # {} PROVE FALSE
    OBVIOUS
  <2>2. PICK k \in bad : \A y \in bad : k <= y
    <3>1. bad \subseteq Nat
      OBVIOUS
    <3> HIDE DEF bad
    <3>2. QED BY <2>1, <3>1, LeastNat
  <2>3. k \in 1..n /\ q[k] # p[k]
    BY <2>2
  <2>4. \A i \in 1..n : i < k => q[i] = p[i]
    BY <1>1, <2>2, <2>3
  <2> HIDE DEF bad
  <2>5. PICK j \in 1..n : p[j] = q[k]
    BY <1>2, <2>3
  <2>6. PICK i \in 1..n : q[i] = p[k]
    BY <1>2, <2>3
  <2>7. j # k /\ i # k /\ i \in Nat /\ j \in Nat /\ k \in Nat
    BY <1>1, <2>3, <2>5, <2>6
  <2>8. ~(j < k)
    <3>1. SUFFICES ASSUME j < k PROVE FALSE
      OBVIOUS
    <3>2. q[j] = q[k] /\ ByName(q[j], q[k]) /\ q[k] \in S
      BY <1>2, <2>3, <2>4, <2>5, <3>1
    <3>3. QED BY <1>3, <3>2
  <2>9. ~(i < k)
    <3>1. SUFFICES ASSUME i < k PROVE FALSE
      OBVIOUS
    <3>2. p[i] = p[k] /\ ByName(p[i], p[k]) /\ p[k] \in S
      BY <1>2, <2>3, <2>4, <2>6, <3>1
    <3>3. QED BY <1>3, <3>2
  <2>10. ByName(p[k], q[k]) /\ ByName(q[k], p[k])
    <3>1. k < j /\ k < i
      BY <2>7, <2>8, <2>9
    <3>2. QED BY <1>2, <2>3, <2>5, <2>6, <3>1
  <2>11. q[k] \in S /\ p[k] \in S
    BY <1>2, <2>3
  <2>12. QED BY <1>3, <2>10, <2>11
<1>5. \A i \in 1..n : q[i] = p[i]
  BY <1>1, <1>4
<1> HIDE DEF bad
<1>6. q = p
  <2>1. q = [i \in 1..n |-> q[i]] /\ p = [i \in 1..n |-> p[i]]
    BY <1>2
  <2>2. QED BY <1>5, <2>1
<1>7. QED BY <1>1, <1>6

\* What ByFieldName returns.
LEMMA ByFieldNameSorts ==
  ASSUME NEW S, NamedApart(S)
  PROVE  Sorts(ByFieldName(S), Cardinality(S), S)
<1>1. PICK n, q : Sorts(q, n, S)
  BY SortExists
<1>2. n = Cardinality(S) /\ IsFiniteSet(S) /\ n \in Nat
  BY <1>1, SortCounts DEF Sorts
<1> DEFINE Ascends(s) == \A i, j \in DOMAIN s : i < j => ByName(s[i], s[j])
           s == CHOOSE x \in [1..n -> S] : Ascends(x)
<1>3. q \in [1..n -> S] /\ Ascends(q)
  BY <1>1 DEF Sorts
<1>4. s \in [1..n -> S] /\ Ascends(s)
  <2> HIDE DEF Ascends
  <2>1. QED BY <1>3
<1>5. ByFieldName(S) = s
  BY <1>2 DEF ByFieldName
<1> HIDE DEF s
<1>6. \A i, j \in 1..n : i < j => ByName(s[i], s[j])
  BY <1>4
<1>7. \A i, j \in 1..n : i # j => s[i] # s[j]
  <2>1. ASSUME NEW i \in 1..n, NEW j \in 1..n, i < j PROVE s[i] # s[j]
    <3>1. s[i] \in S /\ s[j] \in S /\ ByName(s[i], s[j])
      BY <1>4, <1>6, <2>1
    <3>2. Rank(s[i].name) \in Nat
      BY <3>1, RanksApart
    <3>3. QED BY <3>1, <3>2 DEF ByName
  <2>2. ASSUME NEW i \in 1..n, NEW j \in 1..n, i # j PROVE s[i] # s[j]
    <3>1. i < j \/ j < i
      BY <1>2, <2>2
    <3>2. QED BY <2>1, <3>1
  <2>3. QED BY <2>2
<1>8. \A f \in S : \E i \in 1..n : s[i] = f
  <2>1. s \in Injection(1..n, S)
    BY <1>4, <1>7 DEF Injection, IsInjective
  <2>2. IsFiniteSet(1..n) /\ Cardinality(1..n) = n
    BY <1>2, FS_Interval
  <2>3. s \in Surjection(1..n, S)
    BY <1>2, <2>1, <2>2, FS_Injection
  <2>4. QED BY <2>3 DEF Surjection
<1>9. QED BY <1>2, <1>4, <1>5, <1>6, <1>8 DEF Sorts
-----------------------------------------------------------------------------
\* A field of an identity, made from its payload, and a field on the wire.
Commitments == [name : FieldNames, kind : FieldKinds, payload : FieldValues]
FieldRecords == [name : FieldNames, kind : FieldKinds, value : FieldValues,
                 commitment : Commitments, disclosure : Disclosures]
MadeFields == {f \in FieldRecords :
                 f.commitment = [name |-> f.name, kind |-> f.kind, payload |-> f.value]}
WireFields == [name : FieldNames, kind : FieldKinds, value : FieldValues, token : FieldValues,
               commitment : Commitments, disclosure : Disclosures]
SchemaFields == [name : FieldNames, role : {"semantic", "operational"}, kind : FieldKinds,
                 required : BOOLEAN, disclosure : Disclosures]

SemanticNames == {d.name : d \in {x \in ToSet(idSchema) : x.role = "semantic"}}
RequiredNames == {d.name : d \in {x \in ToSet(idSchema) : x.role = "semantic" /\ x.required}}
BoundNames == {NameOrder[i] : i \in DOMAIN declared}
BuiltNames == {f.name : f \in idBuilder.fields}

\* A builder, before and after a call.
Builders == [fields : SUBSET MadeFields, extensions : BOOLEAN, sealed : BOOLEAN, calls : Nat]

\* The schema and the declaration are those an author may write.
AuthorInv ==
  /\ idSchema \in Seq(SchemaFields) /\ declared \in Seq(STRING)
  /\ \A d \in ToSet(idSchema) : d.name \notin ReservedNames

\* What the builder has is made from payloads, under names of the schema, and,
\* once they are bound, under one for each extension.
BuilderInv ==
  /\ idBuilder \in Builders
  /\ NamedApart(idBuilder.fields)
  /\ BuiltNames \subseteq SemanticNames \cup BoundNames
  /\ idBuilder.extensions => BoundNames \subseteq BuiltNames

\* The identity is what the builder had when it was sealed.
BuiltInv ==
  /\ idBuilder.sealed <=> identity # NoIdentity
  /\ identity # NoIdentity =>
       /\ identity.kind \in FingerprintKinds
       /\ identity.fields = ByFieldName(idBuilder.fields)
       /\ RequiredNames \cup BoundNames \subseteq BuiltNames

\* Whatever is altered on the way, the digest is that of the identity.
WireInv ==
  sent # NoWire =>
    /\ identity # NoIdentity
    /\ sent.digest = canonicalFingerprint(Domain(identity.kind), identity.provider, identity.fields)
    /\ sent.fields \in Seq(WireFields)

\* Field by field, what was accepted commits to what the identity has.
SameFields(r, s, id) ==
  /\ DOMAIN r = DOMAIN id /\ DOMAIN s = DOMAIN id
  /\ \A i \in DOMAIN id : /\ r[i] \in MadeFields /\ id[i] \in MadeFields
                          /\ r[i].commitment = id[i].commitment
                          /\ r[i].disclosure = s[i].disclosure
ReadInv ==
  received # NoIdentity =>
    /\ identity # NoIdentity /\ sent # NoWire
    /\ received.kind = identity.kind /\ received.provider = identity.provider
    /\ SameFields(received.fields, sent.fields, identity.fields)

\* What is shown is the explanation of what was accepted.
ShownInv ==
  shown # <<>> =>
    /\ received # NoIdentity
    /\ shown = [i \in DOMAIN received.fields |-> explain(received.fields[i], FALSE)]

EnvelopeInv == AuthorInv /\ BuilderInv /\ BuiltInv /\ WireInv /\ ReadInv /\ ShownInv

\* A commitment tells the field, but for who may see it.
LEMMA CommitmentTells ==
  ASSUME NEW f \in MadeFields, NEW g \in MadeFields, f.commitment = g.commitment
  PROVE  f.name = g.name /\ f.kind = g.kind /\ f.value = g.value
<1>1. /\ f.commitment = [name |-> f.name, kind |-> f.kind, payload |-> f.value]
      /\ g.commitment = [name |-> g.name, kind |-> g.kind, payload |-> g.value]
  BY DEF MadeFields
<1> DEFINE a == [name |-> f.name, kind |-> f.kind, payload |-> f.value]
           b == [name |-> g.name, kind |-> g.kind, payload |-> g.value]
<1>2. /\ a.name = f.name /\ a.kind = f.kind /\ a.payload = f.value
      /\ b.name = g.name /\ b.kind = g.kind /\ b.payload = g.value
  OBVIOUS
<1>3. a = b
  BY <1>1
<1> HIDE DEF a, b
<1>4. QED BY <1>2, <1>3

\* Fields that each come before the next are in order.
LEMMA NextMeansOrder ==
  ASSUME NEW S, \A f \in S : f.name \in FieldNames, NEW n \in Nat, NEW r \in [1..n -> S],
         \A i \in 2..n : ByName(r[i - 1], r[i])
  PROVE  \A i, j \in 1..n : i < j => ByName(r[i], r[j])
<1>1. \A i \in 1..n : Rank(r[i].name) \in Nat
  <2>1. ASSUME NEW i \in 1..n PROVE Rank(r[i].name) \in Nat
    <3>1. r[i].name \in FieldNames
      OBVIOUS
    <3>2. QED BY <3>1, RankIs
  <2>2. QED BY <2>1
<1> DEFINE bad == {j \in Nat : j \in 1..n /\ \E i \in 1..n : i < j /\ ~ByName(r[i], r[j])}
<1>2. bad = {}
  <2>1. SUFFICES ASSUME bad # {} PROVE FALSE
    OBVIOUS
  <2>2. PICK j \in bad : \A y \in bad : j <= y
    <3>1. bad \subseteq Nat
      OBVIOUS
    <3> HIDE DEF bad
    <3>2. QED BY <2>1, <3>1, LeastNat
  <2>3. PICK i \in 1..n : i < j /\ ~ByName(r[i], r[j])
    BY <2>2
  <2>4. j \in 1..n /\ j \in 2..n /\ j - 1 \in 1..n
    BY <2>2, <2>3
  <2>5. j - 1 \notin bad
    BY <2>2, <2>4
  <2> HIDE DEF bad
  <2>6. i # j - 1 /\ i < j - 1 /\ ByName(r[j - 1], r[j])
    <3>1. ByName(r[j - 1], r[j])
      BY <2>4
    <3>2. i # j - 1
      BY <2>3, <3>1
    <3>3. i \in Nat /\ j \in Nat
      BY <2>4
    <3>4. QED BY <2>3, <3>1, <3>2, <3>3
  <2>7. ByName(r[i], r[j - 1])
    BY <2>3, <2>4, <2>5, <2>6 DEF bad
  <2>8. QED BY <1>1, <2>3, <2>4, <2>6, <2>7 DEF ByName
<1>3. ASSUME NEW i \in 1..n, NEW j \in 1..n, i < j PROVE ByName(r[i], r[j])
  <2>1. j \in Nat /\ j \notin bad
    BY <1>2
  <2>2. QED BY <1>3, <2>1
<1>4. QED BY <1>3

\* Fields in order are all of a set, and no two of them have one name.
LEMMA OrderSorts ==
  ASSUME NEW S, \A f \in S : f.name \in FieldNames, NEW n \in Nat, NEW r \in [1..n -> S],
         \A i, j \in 1..n : i < j => ByName(r[i], r[j])
  PROVE  NamedApart(ToSet(r)) /\ Sorts(r, n, ToSet(r))
<1>1. ToSet(r) = {r[i] : i \in 1..n}
  BY DEF ToSet
<1>2. \A i \in 1..n : Rank(r[i].name) \in Nat /\ r[i].name \in FieldNames
  <2>1. ASSUME NEW i \in 1..n PROVE Rank(r[i].name) \in Nat /\ r[i].name \in FieldNames
    <3>1. r[i].name \in FieldNames
      OBVIOUS
    <3>2. QED BY <3>1, RankIs
  <2>2. QED BY <2>1
<1>3. ASSUME NEW i \in 1..n, NEW j \in 1..n, r[i].name = r[j].name PROVE i = j
  <2>1. ~(i < j) /\ ~(j < i)
    BY <1>2, <1>3 DEF ByName
  <2>2. QED BY <2>1
<1>4. NamedApart(ToSet(r))
  <2>1. ASSUME NEW f \in ToSet(r), NEW g \in ToSet(r)
        PROVE  f.name \in FieldNames /\ (f.name = g.name => f = g)
    <3>1. PICK i \in 1..n : f = r[i]
      BY <1>1
    <3>2. PICK j \in 1..n : g = r[j]
      BY <1>1
    <3>3. QED BY <1>2, <1>3, <3>1, <3>2
  <2>2. QED BY <2>1 DEF NamedApart
<1>5. r \in [1..n -> ToSet(r)] /\ \A f \in ToSet(r) : \E i \in 1..n : r[i] = f
  <2>1. \A i \in 1..n : r[i] \in ToSet(r)
    BY <1>1
  <2>2. r = [i \in 1..n |-> r[i]]
    OBVIOUS
  <2>3. r \in [1..n -> ToSet(r)]
    BY <2>1, <2>2
  <2>4. QED BY <1>1, <2>3
<1>6. QED BY <1>4, <1>5 DEF Sorts

\* What goes into the digest of fields in order.
LEMMA DigestOfSorted ==
  ASSUME NEW S, NamedApart(S), NEW n, NEW q, Sorts(q, n, S)
  PROVE  /\ ToSet(q) = S /\ ByFieldName(ToSet(q)) = q
         /\ canonicalTypedFieldSet(q) =
              [i \in 1..n |-> [name |-> q[i].name, kind |-> q[i].kind, commitment |-> q[i].commitment]]
<1>1. q \in [1..n -> S] /\ \A f \in S : \E i \in 1..n : q[i] = f
  BY DEF Sorts
<1>2. ToSet(q) = S
  BY <1>1 DEF ToSet
<1>3. ByFieldName(S) = q
  BY ByFieldNameSorts, SortUnique
<1>4. DOMAIN q = 1..n
  BY <1>1
<1>5. QED BY <1>2, <1>3, <1>4 DEF canonicalTypedFieldSet

\* One digest, one list of commitments.
LEMMA DigestTells ==
  ASSUME NEW S, NamedApart(S), NEW n, NEW q, Sorts(q, n, S),
         NEW T, NamedApart(T), NEW m, NEW p, Sorts(p, m, T),
         canonicalTypedFieldSet(q) = canonicalTypedFieldSet(p)
  PROVE  n = m /\ \A i \in 1..n : q[i].commitment = p[i].commitment
<1> DEFINE Row(f) == [name |-> f.name, kind |-> f.kind, commitment |-> f.commitment]
           a == [i \in 1..n |-> Row(q[i])]
           b == [i \in 1..m |-> Row(p[i])]
<1>1. canonicalTypedFieldSet(q) = a
  BY DigestOfSorted
<1>2. canonicalTypedFieldSet(p) = b
  BY DigestOfSorted
<1>3. a = b
  BY <1>1, <1>2
<1>4. n \in Nat /\ m \in Nat /\ DOMAIN a = 1..n /\ DOMAIN b = 1..m
  BY DEF Sorts
<1>5. 1..n = 1..m
  BY <1>3, <1>4
<1>6. n = m
  <2>1. n >= m
    <3>1. CASE m = 0
      BY <1>4, <3>1
    <3>2. CASE m # 0
      <4>1. m \in 1..m
        BY <1>4, <3>2
      <4>2. QED BY <1>4, <1>5, <4>1
    <3>3. QED BY <3>1, <3>2
  <2>2. m >= n
    <3>1. CASE n = 0
      BY <1>4, <3>1
    <3>2. CASE n # 0
      <4>1. n \in 1..n
        BY <1>4, <3>2
      <4>2. QED BY <1>4, <1>5, <4>1
    <3>3. QED BY <3>1, <3>2
  <2>3. QED BY <1>4, <2>1, <2>2
<1>7. ASSUME NEW i \in 1..n PROVE q[i].commitment = p[i].commitment
  <2>1. i \in 1..m
    BY <1>6
  <2>2. a[i] = Row(q[i]) /\ b[i] = Row(p[i])
    BY <2>1
  <2> HIDE DEF a, b
  <2>3. Row(q[i]) = Row(p[i])
    BY <1>3, <2>2
  <2>4. QED BY <2>3
<1>8. QED BY <1>6, <1>7
-----------------------------------------------------------------------------
\* A new builder.
LEMMA EnvelopeInvInit == EnvelopeInit => EnvelopeInv
<1> SUFFICES ASSUME EnvelopeInit PROVE EnvelopeInv
  OBVIOUS
<1>1. PICK schema \in {s \in IdentitySchemas : ValidSchema(s)}, inputs \in ExtensionInputs :
        EnvelopeStart(schema, inputs)
  BY DEF EnvelopeInit
<1>2. /\ idSchema = schema /\ declared = inputs
      /\ idBuilder = [fields |-> {}, extensions |-> FALSE, sealed |-> FALSE, calls |-> 0]
      /\ identity = NoIdentity /\ sent = NoWire /\ received = NoIdentity /\ shown = <<>>
  BY <1>1 DEF EnvelopeStart
<1>3. AuthorInv
  <2>1. schema \in Seq(SchemaFields) /\ inputs \in Seq(STRING)
    BY EnvelopeAssumption DEF SchemaFields
  <2>2. ASSUME NEW d \in ToSet(schema) PROVE d.name \notin ReservedNames
    <3>1. PICK i \in DOMAIN schema : d = schema[i]
      BY DEF ToSet
    <3>2. QED BY <3>1 DEF ValidSchema
  <2>3. QED BY <1>2, <2>1, <2>2 DEF AuthorInv
<1>4. BuilderInv
  BY <1>2 DEF BuilderInv, Builders, NamedApart, BuiltNames
<1>5. BuiltInv /\ WireInv /\ ReadInv /\ ShownInv
  BY <1>2 DEF BuiltInv, WireInv, ReadInv, ShownInv
<1>6. QED BY <1>3, <1>4, <1>5 DEF EnvelopeInv

\* Before the builder is sealed there is no identity, and nothing of one.
LEMMA NothingYet ==
  ASSUME EnvelopeInv, ~idBuilder.sealed
  PROVE  identity = NoIdentity /\ sent = NoWire /\ received = NoIdentity /\ shown = <<>>
BY DEF EnvelopeInv, BuiltInv, WireInv, ReadInv, ShownInv

\* A call that leaves the builder open keeps what concerns only the builder.
LEMMA CallKeeps ==
  ASSUME EnvelopeInv, ~idBuilder.sealed, BuilderInv', ~idBuilder'.sealed,
         UNCHANGED <<idSchema, declared, identity, sent, received, shown>>
  PROVE  EnvelopeInv'
<1>1. identity = NoIdentity /\ sent = NoWire /\ received = NoIdentity /\ shown = <<>>
  BY NothingYet
<1>2. AuthorInv'
  BY DEF EnvelopeInv, AuthorInv
<1>3. BuiltInv' /\ WireInv' /\ ReadInv' /\ ShownInv'
  BY <1>1 DEF BuiltInv, WireInv, ReadInv, ShownInv
<1>4. QED BY <1>2, <1>3 DEF EnvelopeInv

\* A call is counted.
LEMMA CalledIs ==
  ASSUME NEW b \in Builders
  PROVE  /\ Called(b) \in Builders /\ Called(b).fields = b.fields
         /\ Called(b).extensions = b.extensions /\ Called(b).sealed = b.sealed
BY DEF Builders, Called

\* A field is added under a semantic name that was free.
LEMMA AddIdentityFieldKeeps ==
  ASSUME EnvelopeInv, NEW n \in FieldNames, NEW k \in FieldKinds, NEW v \in FieldValues,
         AddIdentityField(n, k, v)
  PROVE  EnvelopeInv'
<1>1. /\ ~idBuilder.sealed /\ UNCHANGED <<idSchema, declared, observed, identity, sent, received, shown>>
  BY DEF AddIdentityField, BuilderCall, builderOnly
<1>2. PICK d \in Definitions(n) :
        /\ d.role = "semantic" /\ \A f \in idBuilder.fields : f.name # n
        /\ idBuilder' = [Called(idBuilder) EXCEPT
             !.fields = @ \cup {Disclosed(IdField(n, k, v), d.disclosure)}]
  BY DEF AddIdentityField
<1>3. d \in ToSet(idSchema) /\ d.name = n /\ d.disclosure \in Disclosures
  <2>1. d \in ToSet(idSchema) /\ d.name = n
    BY DEF Definitions
  <2>2. PICK i \in DOMAIN idSchema : d = idSchema[i]
    BY <2>1 DEF ToSet
  <2>3. idSchema[i] \in SchemaFields
    BY DEF EnvelopeInv, AuthorInv
  <2>4. QED BY <2>1, <2>2, <2>3 DEF SchemaFields
<1> DEFINE new == Disclosed(IdField(n, k, v), d.disclosure)
<1>4. new \in MadeFields /\ new.name = n
  <2>1. PICK e \in Disclosures : e = d.disclosure
    BY <1>3
  <2>2. Disclosed(IdField(n, k, v), e) \in MadeFields /\ Disclosed(IdField(n, k, v), e).name = n
    BY <2>1 DEF Disclosed, IdField, MadeFields, FieldRecords, Commitments
  <2>3. QED BY <2>1, <2>2
<1> HIDE DEF new
<1>5. /\ idBuilder' \in Builders
      /\ idBuilder'.fields = idBuilder.fields \cup {new} /\ idBuilder'.sealed = idBuilder.sealed
      /\ idBuilder'.extensions = idBuilder.extensions
  <2>1. idBuilder \in Builders
    BY DEF EnvelopeInv, BuilderInv
  <2>2. PICK b \in Builders : b = Called(idBuilder) /\ b.fields = idBuilder.fields
                              /\ b.extensions = idBuilder.extensions /\ b.sealed = idBuilder.sealed
    BY <2>1, CalledIs
  <2>3. idBuilder' = [b EXCEPT !.fields = @ \cup {new}]
    BY <1>2, <2>2 DEF new
  <2>4. QED BY <1>4, <2>2, <2>3 DEF Builders
<1>6. NamedApart(idBuilder'.fields)
  BY <1>2, <1>4, <1>5 DEF EnvelopeInv, BuilderInv, NamedApart
<1>7. SemanticNames' = SemanticNames /\ BoundNames' = BoundNames /\ BuiltNames' = BuiltNames \cup {n}
  BY <1>1, <1>4, <1>5 DEF SemanticNames, BoundNames, BuiltNames
<1>8. n \in SemanticNames
  BY <1>2, <1>3 DEF SemanticNames
<1>9. BuilderInv'
  BY <1>5, <1>6, <1>7, <1>8 DEF EnvelopeInv, BuilderInv
<1>10. QED BY <1>1, <1>5, <1>9, CallKeeps

\* An observation leaves the fields alone.
LEMMA AddObservationKeeps ==
  ASSUME EnvelopeInv, NEW n, NEW v, AddObservation(n, v)
  PROVE  EnvelopeInv'
<1>1. /\ ~idBuilder.sealed /\ idBuilder' = Called(idBuilder)
      /\ UNCHANGED <<idSchema, declared, identity, sent, received, shown>>
  BY DEF AddObservation, BuilderCall
<1>2. /\ idBuilder' \in Builders
      /\ idBuilder'.fields = idBuilder.fields /\ idBuilder'.sealed = idBuilder.sealed
      /\ idBuilder'.extensions = idBuilder.extensions
  <2>1. idBuilder \in Builders
    BY DEF EnvelopeInv, BuilderInv
  <2>2. QED BY <1>1, <2>1, CalledIs
<1>3. SemanticNames' = SemanticNames /\ BoundNames' = BoundNames /\ BuiltNames' = BuiltNames
  BY <1>1, <1>2 DEF SemanticNames, BoundNames, BuiltNames
<1>4. BuilderInv'
  BY <1>2, <1>3 DEF EnvelopeInv, BuilderInv
<1>5. QED BY <1>1, <1>2, <1>4, CallKeeps

\* Extensions are bound to their places, whatever was there.
LEMMA BindExtensionsKeeps ==
  ASSUME EnvelopeInv, NEW r \in Resolutions, BindExtensions(r)
  PROVE  EnvelopeInv'
<1> DEFINE Field(i) == Disclosed(IdField(NameOrder[i], "text", r[i].fingerprint), "public")
           bound == {Field(i) : i \in DOMAIN r}
           left == {f \in idBuilder.fields : \A g \in bound : g.name # f.name}
<1>1. /\ ~idBuilder.sealed /\ Len(r) = Len(declared)
      /\ idBuilder' = [Called(idBuilder) EXCEPT !.extensions = TRUE, !.fields = left \cup bound]
      /\ UNCHANGED <<idSchema, declared, observed, identity, sent, received, shown>>
  BY DEF BindExtensions, BuilderCall, builderOnly, Called, EnvelopeInv, BuilderInv
<1>2. DOMAIN r \subseteq 1..2 /\ DOMAIN declared = DOMAIN r
      /\ \A i \in DOMAIN r : r[i].fingerprint \in FieldValues
  <2>1. PICK n \in 0..2 : r \in [1..n -> [kind : {"file", "image"}, fingerprint : FieldValues]]
    BY DEF Resolutions
  <2>2. DOMAIN r = 1..n /\ Len(r) = n
    BY <2>1
  <2>3. DOMAIN declared = 1..n
    <3>1. declared \in Seq(STRING) /\ Len(declared) = n
      BY <1>1, <2>2 DEF EnvelopeInv, AuthorInv
    <3>2. QED BY <3>1
  <2>4. \A i \in 1..n : r[i].fingerprint \in FieldValues
    BY <2>1
  <2>5. QED BY <2>2, <2>3, <2>4
<1>3. /\ NameOrder[1] = "extension.input.0" /\ NameOrder[2] = "extension.input.1"
  BY DEF NameOrder
<1>4. ASSUME NEW i \in DOMAIN r PROVE Field(i) \in MadeFields /\ Field(i).name = NameOrder[i]
  <2>1. NameOrder[i] \in FieldNames
    <3>1. i = 1 \/ i = 2
      BY <1>2
    <3>2. QED BY <1>3, <3>1 DEF FieldNames
  <2>2. "text" \in FieldKinds /\ "public" \in Disclosures /\ r[i].fingerprint \in FieldValues
    BY <1>2 DEF FieldKinds, Disclosures
  <2>3. PICK n \in FieldNames, v \in FieldValues : n = NameOrder[i] /\ v = r[i].fingerprint
    BY <2>1, <2>2
  <2>4. /\ Disclosed(IdField(n, "text", v), "public") \in MadeFields
        /\ Disclosed(IdField(n, "text", v), "public").name = n
    BY <2>2, <2>3 DEF Disclosed, IdField, MadeFields, FieldRecords, Commitments
  <2>5. QED BY <2>3, <2>4
<1>5. \A i, j \in DOMAIN r : NameOrder[i] = NameOrder[j] => i = j
  BY <1>2, <1>3
<1> HIDE DEF Field
<1>6. /\ bound \subseteq MadeFields /\ {g.name : g \in bound} = BoundNames
      /\ \A f, g \in bound : f.name = g.name => f = g
  <2>1. bound \subseteq MadeFields
    BY <1>4
  <2>2. ASSUME NEW f \in bound, NEW g \in bound, f.name = g.name PROVE f = g
    <3>1. PICK i \in DOMAIN r : f = Field(i)
      OBVIOUS
    <3>2. PICK j \in DOMAIN r : g = Field(j)
      OBVIOUS
    <3>3. NameOrder[i] = NameOrder[j]
      BY <1>4, <2>2, <3>1, <3>2
    <3>4. QED BY <1>5, <3>1, <3>2, <3>3
  <2>3. {g.name : g \in bound} = {NameOrder[i] : i \in DOMAIN r}
    BY <1>4
  <2>4. BoundNames = {NameOrder[i] : i \in DOMAIN r}
    BY <1>2 DEF BoundNames
  <2>5. QED BY <2>1, <2>2, <2>3, <2>4
<1> HIDE DEF bound
<1>7. /\ idBuilder' \in Builders
      /\ idBuilder'.fields = left \cup bound /\ idBuilder'.sealed = idBuilder.sealed
  <2>1. left \cup bound \subseteq MadeFields
    BY <1>6 DEF EnvelopeInv, BuilderInv, Builders
  <2> HIDE DEF left
  <2>2. idBuilder \in Builders
    BY DEF EnvelopeInv, BuilderInv
  <2>3. PICK b \in Builders : b = Called(idBuilder) /\ b.sealed = idBuilder.sealed
    BY <2>2, CalledIs
  <2>4. idBuilder' = [b EXCEPT !.extensions = TRUE, !.fields = left \cup bound]
    BY <1>1, <2>3
  <2>5. QED BY <2>1, <2>3, <2>4 DEF Builders
<1>8. NamedApart(idBuilder'.fields)
  <2>1. \A f \in left \cup bound : f.name \in FieldNames
    BY <1>6 DEF EnvelopeInv, BuilderInv, Builders, NamedApart, MadeFields, FieldRecords
  <2>2. \A f, g \in left \cup bound : f.name = g.name => f = g
    BY <1>6 DEF EnvelopeInv, BuilderInv, NamedApart
  <2>3. QED BY <1>7, <2>1, <2>2 DEF NamedApart
<1>9. SemanticNames' = SemanticNames /\ BoundNames' = BoundNames
  BY <1>1 DEF SemanticNames, BoundNames
<1>10. BuiltNames' \subseteq BuiltNames \cup BoundNames /\ BoundNames \subseteq BuiltNames'
  BY <1>6, <1>7 DEF BuiltNames
<1>11. BuilderInv'
  BY <1>7, <1>8, <1>9, <1>10 DEF EnvelopeInv, BuilderInv
<1>12. QED BY <1>1, <1>7, <1>11, CallKeeps

\* What is built has what the schema requires and the declaration names.
LEMMA BuildKeeps ==
  ASSUME EnvelopeInv, Build
  PROVE  EnvelopeInv'
<1>1. /\ ~idBuilder.sealed /\ ExtensionsBound /\ idBuilder' = [Called(idBuilder) EXCEPT !.sealed = TRUE]
      /\ \A d \in ToSet(idSchema) : d.role = "semantic" /\ d.required =>
           \E f \in idBuilder.fields : f.name = d.name
      /\ UNCHANGED <<idSchema, declared, observed, sent, received, shown>>
  BY DEF Build, BuilderCall
<1>2. PICK kind \in FingerprintKinds :
        identity' = [kind |-> kind, provider |-> "sqlrs", fields |-> ByFieldName(idBuilder.fields)]
  BY DEF Build
<1>3. sent = NoWire /\ received = NoIdentity /\ shown = <<>>
  BY <1>1, NothingYet
<1>4. /\ idBuilder' \in Builders
      /\ idBuilder'.fields = idBuilder.fields /\ idBuilder'.sealed
      /\ idBuilder'.extensions = idBuilder.extensions
  <2>1. idBuilder \in Builders
    BY DEF EnvelopeInv, BuilderInv
  <2>2. PICK b \in Builders : b = Called(idBuilder) /\ b.fields = idBuilder.fields
                              /\ b.extensions = idBuilder.extensions
    BY <2>1, CalledIs
  <2>3. idBuilder' = [b EXCEPT !.sealed = TRUE]
    BY <1>1, <2>2
  <2>4. QED BY <2>2, <2>3 DEF Builders
<1>5. /\ SemanticNames' = SemanticNames /\ BoundNames' = BoundNames /\ BuiltNames' = BuiltNames
      /\ RequiredNames' = RequiredNames
  BY <1>1, <1>4 DEF SemanticNames, BoundNames, BuiltNames, RequiredNames
<1>6. BuilderInv'
  BY <1>4, <1>5 DEF EnvelopeInv, BuilderInv
<1>7. RequiredNames \subseteq BuiltNames
  BY <1>1 DEF RequiredNames, BuiltNames
<1>8. BoundNames \subseteq BuiltNames
  <2>1. CASE declared = <<>>
    BY <2>1 DEF BoundNames
  <2>2. CASE declared # <<>>
    BY <1>1, <2>2 DEF ExtensionsBound, EnvelopeInv, BuilderInv
  <2>3. QED BY <2>1, <2>2
<1>9. /\ identity'.kind = kind /\ identity'.fields = ByFieldName(idBuilder.fields)
      /\ identity' # NoIdentity
  <2>1. identity'.kind = kind /\ identity'.fields = ByFieldName(idBuilder.fields)
    BY <1>2
  <2>2. kind # "none"
    BY DEF FingerprintKinds
  <2>3. QED BY <2>1, <2>2 DEF NoIdentity
<1>10. BuiltInv'
  BY <1>4, <1>5, <1>7, <1>8, <1>9 DEF BuiltInv
<1>11. AuthorInv' /\ WireInv' /\ ReadInv' /\ ShownInv'
  BY <1>1, <1>3 DEF EnvelopeInv, AuthorInv, WireInv, ReadInv, ShownInv
<1>12. QED BY <1>6, <1>10, <1>11 DEF EnvelopeInv
-----------------------------------------------------------------------------
\* The identity's fields are in order.
LEMMA IdentitySorted ==
  ASSUME EnvelopeInv, identity # NoIdentity
  PROVE  Sorts(identity.fields, Cardinality(idBuilder.fields), idBuilder.fields)
BY ByFieldNameSorts DEF EnvelopeInv, BuilderInv, BuiltInv

\* What goes on the wire for one field.
LEMMA WireTyped ==
  ASSUME NEW f \in MadeFields
  PROVE  fieldToWire(f) \in WireFields
BY DEF fieldToWire, MadeFields, FieldRecords, WireFields

\* The envelope of the identity.
LEMMA EnvelopeIs ==
  ASSUME EnvelopeInv, identity # NoIdentity, NEW e, e = Envelope(identity)
  PROVE  /\ e = [kind |-> e.kind, domain |-> e.domain, provider |-> e.provider, digest |-> e.digest,
                 fields |-> e.fields]
         /\ e.digest = canonicalFingerprint(Domain(identity.kind), identity.provider, identity.fields)
         /\ e.fields \in Seq(WireFields)
<1> DEFINE n == Cardinality(idBuilder.fields)
           wires == [i \in DOMAIN identity.fields |-> fieldToWire(identity.fields[i])]
<1>1. n \in Nat /\ identity.fields \in [1..n -> MadeFields]
  <2>1. Sorts(identity.fields, n, idBuilder.fields) /\ idBuilder.fields \subseteq MadeFields
    BY IdentitySorted DEF EnvelopeInv, BuilderInv, Builders
  <2>2. QED BY <2>1 DEF Sorts
<1>2. wires \in Seq(WireFields)
  <2>1. \A i \in 1..n : fieldToWire(identity.fields[i]) \in WireFields
    BY <1>1, WireTyped
  <2>2. wires = [i \in 1..n |-> fieldToWire(identity.fields[i])]
    BY <1>1
  <2>3. wires \in [1..n -> WireFields]
    BY <2>1, <2>2
  <2>4. QED BY <1>1, <2>3
<1> HIDE DEF wires
<1>3. e = [kind |-> identity.kind, domain |-> Domain(identity.kind), provider |-> identity.provider,
           digest |-> canonicalFingerprint(Domain(identity.kind), identity.provider, identity.fields),
           fields |-> wires]
  BY DEF Envelope, wires
<1>4. QED BY <1>2, <1>3

\* The envelope is sent.
LEMMA MarshalKeeps ==
  ASSUME EnvelopeInv, Marshal
  PROVE  EnvelopeInv'
<1>1. /\ identity # NoIdentity /\ sent = NoWire /\ sent' = Envelope(identity)
      /\ UNCHANGED <<idSchema, declared, idBuilder, observed, identity, received, shown>>
  BY DEF Marshal, EnvelopeInv, BuiltInv
<1>2. AuthorInv' /\ BuilderInv' /\ BuiltInv'
  BY <1>1 DEF EnvelopeInv, AuthorInv, BuilderInv, BuiltInv, SemanticNames, RequiredNames, BoundNames, BuiltNames
<1>3. WireInv'
  BY <1>1, EnvelopeIs DEF WireInv
<1>4. received = NoIdentity /\ shown = <<>>
  BY <1>1 DEF EnvelopeInv, ReadInv, ShownInv
<1>5. ReadInv' /\ ShownInv'
  BY <1>1, <1>4 DEF ReadInv, ShownInv
<1>6. QED BY <1>2, <1>3, <1>5 DEF EnvelopeInv

\* An altered field is a field of the wire, and its list has the same places.
LEMMA AlteredField ==
  ASSUME NEW s \in Seq(WireFields), NEW i \in DOMAIN s, NEW f \in WireFields
  PROVE  [s EXCEPT ![i] = f] \in Seq(WireFields)
<1>1. PICK n \in Nat : n = Len(s) /\ s \in [1..n -> WireFields]
  OBVIOUS
<1>2. [s EXCEPT ![i] = f] \in [1..n -> WireFields]
  BY <1>1
<1>3. QED BY <1>1, <1>2

\* The alterations of a field.
LEMMA AlteredTyped ==
  ASSUME NEW f \in WireFields
  PROVE  /\ \A v \in FieldValues : [f EXCEPT !.value = v] \in WireFields
         /\ \A v \in FieldValues : [f EXCEPT !.token = v] \in WireFields
         /\ \A n \in FieldNames : [f EXCEPT !.name = n] \in WireFields
         /\ \A k \in FieldKinds : [f EXCEPT !.kind = k] \in WireFields
         /\ \A d \in Disclosures : [f EXCEPT !.disclosure = d] \in WireFields
BY DEF WireFields

\* A field less, and the other way round, are lists of fields as well.
LEMMA AlteredList ==
  ASSUME NEW s \in Seq(WireFields), NEW i \in DOMAIN s
  PROVE  RemoveAt(s, i) \in Seq(WireFields) /\ Reverse(s) \in Seq(WireFields)
<1>1. PICK n \in Nat : n = Len(s) /\ s \in [1..n -> WireFields]
  OBVIOUS
<1>2. Reverse(s) \in [1..n -> WireFields]
  BY <1>1 DEF Reverse
<1>3. RemoveAt(s, i) \in Seq(WireFields)
  BY <1>1 DEF RemoveAt
<1>4. QED BY <1>1, <1>2, <1>3
\* Whatever is altered on the way, the digest stays.
LEMMA AlterWireKeeps ==
  ASSUME EnvelopeInv, AlterWire
  PROVE  EnvelopeInv'
<1>1. /\ sent # NoWire /\ received = NoIdentity /\ sent = Envelope(identity)
      /\ UNCHANGED <<idSchema, declared, idBuilder, observed, identity, received, shown>>
  BY DEF AlterWire
<1>2. identity # NoIdentity
  BY <1>1 DEF EnvelopeInv, WireInv
<1> DEFINE s == sent.fields
<1>3. /\ sent = [kind |-> sent.kind, domain |-> sent.domain, provider |-> sent.provider,
                 digest |-> sent.digest, fields |-> s]
      /\ s \in Seq(WireFields)
  BY <1>1, <1>2, EnvelopeIs
<1> DEFINE Kept == sent'.digest = sent.digest /\ sent'.fields \in Seq(WireFields)
<1>4. ASSUME NEW t \in Seq(WireFields), sent' = [sent EXCEPT !.fields = t] PROVE Kept
  BY <1>3, <1>4
<1>5. ASSUME NEW i \in DOMAIN s, NEW f \in WireFields,
             sent' = [sent EXCEPT !.fields = [s EXCEPT ![i] = f]]
      PROVE  Kept
  BY <1>3, <1>4, <1>5, AlteredField
<1>6. \A i \in DOMAIN s : s[i] \in WireFields
  BY <1>3
<1> HIDE DEF Kept
<1>7. Kept
  <2>1. ASSUME NEW k \in FingerprintKinds, sent' = [sent EXCEPT !.kind = k] PROVE Kept
    BY <1>3, <2>1 DEF Kept
  <2>2. ASSUME NEW k \in FingerprintKinds, sent' = [sent EXCEPT !.kind = k, !.domain = Domain(k)] PROVE Kept
    BY <1>3, <2>2 DEF Kept
  <2>3. ASSUME NEW p \in Providers, sent' = [sent EXCEPT !.provider = p] PROVE Kept
    BY <1>3, <2>3 DEF Kept
  <2>4. ASSUME NEW v \in FieldValues, NEW i \in DOMAIN s, sent' = [sent EXCEPT !.fields[i].value = v] PROVE Kept
    <3>1. PICK f \in WireFields : f = [s[i] EXCEPT !.value = v]
      BY <1>6, AlteredTyped
    <3>2. sent' = [sent EXCEPT !.fields = [s EXCEPT ![i] = f]]
      BY <2>4, <3>1
    <3>3. QED BY <1>5, <3>1, <3>2
  <2>5. ASSUME NEW v \in FieldValues, NEW i \in DOMAIN s,
               sent' = [sent EXCEPT !.fields[i].value = v, !.fields[i].token = v]
        PROVE  Kept
    <3>1. PICK g \in WireFields : g = [s[i] EXCEPT !.value = v]
      BY <1>6, AlteredTyped
    <3>2. PICK f \in WireFields : f = [g EXCEPT !.token = v]
      BY <3>1, AlteredTyped
    <3>3. sent' = [sent EXCEPT !.fields = [s EXCEPT ![i] = f]]
      <4>1. f = [s[i] EXCEPT !.value = v, !.token = v]
        BY <3>1, <3>2
      <4>2. sent' = [sent EXCEPT !.fields = [[s EXCEPT ![i] = g] EXCEPT ![i] = [[s EXCEPT ![i] = g][i] EXCEPT !.token = v]]]
        BY <1>3, <2>5, <3>1
      <4>3. [s EXCEPT ![i] = g][i] = g
        BY <1>3
      <4>4. [[s EXCEPT ![i] = g] EXCEPT ![i] = f] = [s EXCEPT ![i] = f]
        BY <1>3
      <4>5. QED BY <3>2, <4>2, <4>3, <4>4
    <3>4. QED BY <1>5, <3>2, <3>3
  <2>6. ASSUME NEW n \in FieldNames, NEW i \in DOMAIN s, sent' = [sent EXCEPT !.fields[i].name = n] PROVE Kept
    <3>1. PICK f \in WireFields : f = [s[i] EXCEPT !.name = n]
      BY <1>6, AlteredTyped
    <3>2. sent' = [sent EXCEPT !.fields = [s EXCEPT ![i] = f]]
      BY <2>6, <3>1
    <3>3. QED BY <1>5, <3>1, <3>2
  <2>7. ASSUME NEW k \in FieldKinds, NEW i \in DOMAIN s, sent' = [sent EXCEPT !.fields[i].kind = k] PROVE Kept
    <3>1. PICK f \in WireFields : f = [s[i] EXCEPT !.kind = k]
      BY <1>6, AlteredTyped
    <3>2. sent' = [sent EXCEPT !.fields = [s EXCEPT ![i] = f]]
      BY <2>7, <3>1
    <3>3. QED BY <1>5, <3>1, <3>2
  <2>8. ASSUME NEW d \in Disclosures, NEW i \in DOMAIN s, sent' = [sent EXCEPT !.fields[i].disclosure = d] PROVE Kept
    <3>1. PICK f \in WireFields : f = [s[i] EXCEPT !.disclosure = d]
      BY <1>6, AlteredTyped
    <3>2. sent' = [sent EXCEPT !.fields = [s EXCEPT ![i] = f]]
      BY <2>8, <3>1
    <3>3. QED BY <1>5, <3>1, <3>2
  <2>9. ASSUME NEW i \in DOMAIN s, sent' = [sent EXCEPT !.fields = RemoveAt(@, i)] PROVE Kept
    BY <1>3, <1>4, <2>9, AlteredList
  <2>10. ASSUME sent' = [sent EXCEPT !.fields = Reverse(@)] PROVE Kept
    <3>1. Reverse(s) \in Seq(WireFields)
      <4>1. PICK n \in Nat : n = Len(s) /\ s \in [1..n -> WireFields]
        BY <1>3
      <4>2. Reverse(s) \in [1..n -> WireFields]
        BY <4>1 DEF Reverse
      <4>3. QED BY <4>1, <4>2
    <3>2. QED BY <1>4, <2>10, <3>1
  <2>11. QED BY <2>1, <2>2, <2>3, <2>4, <2>5, <2>6, <2>7, <2>8, <2>9, <2>10 DEF AlterWire
<1>8. AuthorInv' /\ BuilderInv' /\ BuiltInv'
  BY <1>1 DEF EnvelopeInv, AuthorInv, BuilderInv, BuiltInv, SemanticNames, RequiredNames, BoundNames, BuiltNames
<1>9. WireInv'
  BY <1>1, <1>2, <1>7 DEF EnvelopeInv, WireInv, Kept
<1>10. ReadInv' /\ ShownInv'
  BY <1>1 DEF EnvelopeInv, ReadInv, ShownInv
<1>11. QED BY <1>8, <1>9, <1>10 DEF EnvelopeInv

\* A field is decoded to one made from its payload.
LEMMA DecodedMade ==
  ASSUME NEW w \in WireFields
  PROVE  /\ decodeIdentityField(w) \in MadeFields /\ decodeIdentityField(w).disclosure = w.disclosure
         /\ decodeIdentityField(w).name = w.name
BY DEF decodeIdentityField, Disclosed, IdField, MadeFields, FieldRecords, Commitments, WireFields

\* The domain says which kind of identity it is.
LEMMA DomainTells ==
  ASSUME NEW a \in FingerprintKinds, NEW b \in FingerprintKinds, Domain(a) = Domain(b)
  PROVE  a = b
BY DEF FingerprintKinds, Domain

\* What is accepted has the commitments of the identity, one by one: the
\* digest is recomputed from what was decoded.
LEMMA UnmarshalKeeps ==
  ASSUME EnvelopeInv, Unmarshal
  PROVE  EnvelopeInv'
<1> DEFINE n == Cardinality(idBuilder.fields)
           s == sent.fields
           r == [i \in DOMAIN s |-> decodeIdentityField(s[i])]
           m == Len(s)
<1>1. /\ sent # NoWire /\ received = NoIdentity /\ validateDescriptor(sent)
      /\ \A i \in 2..m : ByName(s[i - 1], s[i])
      /\ canonicalFingerprint(sent.domain, sent.provider, r) = sent.digest
      /\ received' = [kind |-> sent.kind, provider |-> sent.provider, fields |-> r]
      /\ UNCHANGED <<idSchema, declared, idBuilder, observed, identity, sent, shown>>
  BY DEF Unmarshal
<1>2. /\ identity # NoIdentity /\ s \in Seq(WireFields)
      /\ sent.digest = canonicalFingerprint(Domain(identity.kind), identity.provider, identity.fields)
  BY <1>1 DEF EnvelopeInv, WireInv
<1>3. m \in Nat /\ DOMAIN s = 1..m /\ \A i \in 1..m : s[i] \in WireFields
  BY <1>2
<1>4. r \in [1..m -> MadeFields]
      /\ \A i \in 1..m : r[i].name = s[i].name /\ r[i].disclosure = s[i].disclosure
  <2>1. \A i \in 1..m : /\ decodeIdentityField(s[i]) \in MadeFields
                        /\ decodeIdentityField(s[i]).disclosure = s[i].disclosure
                        /\ decodeIdentityField(s[i]).name = s[i].name
    BY <1>3, DecodedMade
  <2>2. QED BY <1>3, <2>1
<1>5. NamedApart(ToSet(r)) /\ Sorts(r, m, ToSet(r))
  <2>1. \A i \in 2..m : ByName(r[i - 1], r[i])
    <3>1. ASSUME NEW i \in 2..m PROVE ByName(r[i - 1], r[i])
      <4>1. i \in 1..m /\ i - 1 \in 1..m
        BY <1>3
      <4>2. r[i].name = s[i].name /\ r[i - 1].name = s[i - 1].name
        BY <1>4, <4>1
      <4>3. QED BY <1>1, <4>2 DEF ByName
    <3>2. QED BY <3>1
  <2>2. \A f \in MadeFields : f.name \in FieldNames
    BY DEF MadeFields, FieldRecords
  <2> HIDE DEF r, m
  <2>3. \A i, j \in 1..m : i < j => ByName(r[i], r[j])
    BY <1>3, <1>4, <2>1, <2>2, NextMeansOrder
  <2>4. QED BY <1>3, <1>4, <2>2, <2>3, OrderSorts
<1>6. Sorts(identity.fields, n, idBuilder.fields) /\ NamedApart(idBuilder.fields)
      /\ idBuilder.fields \subseteq MadeFields
  BY <1>2, IdentitySorted DEF EnvelopeInv, BuilderInv, Builders
<1> HIDE DEF r, m, n
<1>7. /\ sent.domain = Domain(identity.kind) /\ sent.provider = identity.provider
      /\ canonicalTypedFieldSet(r) = canonicalTypedFieldSet(identity.fields)
  BY <1>1, <1>2 DEF canonicalFingerprint
<1>8. m = n /\ \A i \in 1..m : r[i].commitment = identity.fields[i].commitment
  BY <1>5, <1>6, <1>7, DigestTells
<1>9. sent.kind = identity.kind
  <2>1. sent.kind \in FingerprintKinds /\ sent.domain = Domain(sent.kind)
    BY <1>1 DEF validateDescriptor
  <2>2. identity.kind \in FingerprintKinds
    BY <1>2 DEF EnvelopeInv, BuiltInv
  <2>3. QED BY <1>7, <2>1, <2>2, DomainTells
<1>10. SameFields(r, s, identity.fields)
  <2>1. identity.fields \in [1..m -> MadeFields]
    BY <1>6, <1>8 DEF Sorts
  <2>2. DOMAIN r = 1..m /\ DOMAIN identity.fields = 1..m /\ DOMAIN s = 1..m
    BY <1>3, <1>4, <2>1
  <2>3. ASSUME NEW i \in 1..m
        PROVE  /\ r[i] \in MadeFields /\ identity.fields[i] \in MadeFields
               /\ r[i].commitment = identity.fields[i].commitment /\ r[i].disclosure = s[i].disclosure
    BY <1>4, <1>8, <2>1
  <2> HIDE DEF s
  <2>4. QED BY <2>2, <2>3 DEF SameFields
<1>11. ReadInv'
  BY <1>1, <1>2, <1>7, <1>9, <1>10 DEF ReadInv
<1>12. AuthorInv' /\ BuilderInv' /\ BuiltInv' /\ WireInv'
  BY <1>1 DEF EnvelopeInv, AuthorInv, BuilderInv, BuiltInv, WireInv, SemanticNames, RequiredNames,
              BoundNames, BuiltNames
<1>13. shown = <<>>
  BY <1>1 DEF EnvelopeInv, ShownInv
<1>14. ShownInv'
  BY <1>1, <1>13 DEF ShownInv
<1>15. QED BY <1>11, <1>12, <1>14 DEF EnvelopeInv

\* The explanation is given of what was accepted.
LEMMA ExplainKeeps ==
  ASSUME EnvelopeInv, ExplainSafe
  PROVE  EnvelopeInv'
<1>1. /\ received # NoIdentity
      /\ shown' = [i \in DOMAIN received.fields |-> explain(received.fields[i], FALSE)]
      /\ UNCHANGED <<idSchema, declared, idBuilder, observed, identity, sent, received>>
  BY DEF ExplainSafe
<1>2. AuthorInv' /\ BuilderInv' /\ BuiltInv' /\ WireInv' /\ ReadInv'
  BY <1>1 DEF EnvelopeInv, AuthorInv, BuilderInv, BuiltInv, WireInv, ReadInv, SemanticNames,
              RequiredNames, BoundNames, BuiltNames
<1>3. ShownInv'
  BY <1>1 DEF ShownInv
<1>4. QED BY <1>2, <1>3 DEF EnvelopeInv

\* Every step keeps the invariant.
LEMMA EnvelopeStep == EnvelopeInv /\ [EnvelopeNext]_envelopeVars => EnvelopeInv'
<1> SUFFICES ASSUME EnvelopeInv, [EnvelopeNext]_envelopeVars PROVE EnvelopeInv'
  OBVIOUS
<1>1. ASSUME NEW n \in FieldNames, NEW k \in FieldKinds, NEW v \in FieldValues, AddIdentityField(n, k, v)
      PROVE  EnvelopeInv'
  BY <1>1, AddIdentityFieldKeeps
<1>2. ASSUME NEW n \in FieldNames, NEW v \in FieldValues, AddObservation(n, v) PROVE EnvelopeInv'
  BY <1>2, AddObservationKeeps
<1>3. ASSUME NEW r \in Resolutions, BindExtensions(r) PROVE EnvelopeInv'
  BY <1>3, BindExtensionsKeeps
<1>4. CASE UNCHANGED envelopeVars
  BY <1>4 DEF envelopeVars, EnvelopeInv, AuthorInv, BuilderInv, BuiltInv, WireInv, ReadInv, ShownInv,
              SemanticNames, RequiredNames, BoundNames, BuiltNames
<1>5. QED BY <1>1, <1>2, <1>3, <1>4, BuildKeeps, MarshalKeeps, AlterWireKeeps, UnmarshalKeeps, ExplainKeeps
          DEF EnvelopeNext, EnvelopeStops

\* What the reader has been told is what the builder was.
LEMMA EnvelopeInvExact ==
  ASSUME EnvelopeInv
  PROVE  EnvelopeExact
<1> SUFFICES ASSUME received # NoIdentity
             PROVE  /\ received.kind = identity.kind /\ received.provider = identity.provider
                    /\ Told(received.fields) = Told(identity.fields)
  BY DEF EnvelopeExact
<1> DEFINE r == received.fields
           id == identity.fields
           Says(f) == [name |-> f.name, kind |-> f.kind, value |-> f.value]
<1>1. /\ received.kind = identity.kind /\ received.provider = identity.provider
      /\ SameFields(r, sent.fields, id)
  BY DEF EnvelopeInv, ReadInv
<1> HIDE DEF r, id
<1>2. DOMAIN r = DOMAIN id
  BY <1>1 DEF SameFields
<1>3. ASSUME NEW i \in DOMAIN id PROVE Says(r[i]) = Says(id[i])
  <2>1. r[i] \in MadeFields /\ id[i] \in MadeFields /\ r[i].commitment = id[i].commitment
    BY <1>1 DEF SameFields
  <2>2. r[i].name = id[i].name /\ r[i].kind = id[i].kind /\ r[i].value = id[i].value
    BY <2>1, CommitmentTells
  <2>3. QED BY <2>2
<1>4. Told(r) = {Says(r[i]) : i \in DOMAIN r} /\ Told(id) = {Says(id[i]) : i \in DOMAIN id}
  BY DEF Told, ToSet
<1> HIDE DEF Says
<1>5. QED BY <1>1, <1>2, <1>3, <1>4 DEF r, id

\* The identity is whole.
LEMMA EnvelopeInvWhole ==
  ASSUME EnvelopeInv
  PROVE  IdentityWhole
<1> SUFFICES ASSUME identity # NoIdentity PROVE IdentityWhole
  BY DEF IdentityWhole
<1> DEFINE n == Cardinality(idBuilder.fields)
           q == identity.fields
           names == {f.name : f \in ToSet(q)}
<1>1. Sorts(q, n, idBuilder.fields) /\ NamedApart(idBuilder.fields)
  BY IdentitySorted DEF EnvelopeInv, BuilderInv
<1>2. ToSet(q) = idBuilder.fields
  BY <1>1, DigestOfSorted
<1>3. names = BuiltNames
  BY <1>2 DEF BuiltNames
<1>4. n \in Nat /\ Len(q) = n
  BY <1>1 DEF Sorts
<1> DEFINE b == [i \in 1..n |-> q[i].name]
<1>5. b \in Bijection(1..n, names)
  <2>1. \A i \in 1..n : q[i] \in idBuilder.fields
    BY <1>1 DEF Sorts
  <2>2. b \in [1..n -> names]
    BY <1>2, <2>1
  <2>3. ASSUME NEW x \in names PROVE \E i \in 1..n : b[i] = x
    <3>1. PICK f \in idBuilder.fields : f.name = x
      BY <1>2, <2>3
    <3>2. PICK i \in 1..n : q[i] = f
      BY <1>1 DEF Sorts
    <3>3. QED BY <3>1, <3>2
  <2>4. ASSUME NEW i \in 1..n, NEW j \in 1..n, b[i] = b[j] PROVE i = j
    <3>1. q[i] = q[j]
      BY <1>1, <2>1, <2>4 DEF NamedApart
    <3>2. ~(i < j) /\ ~(j < i)
      <4>1. Rank(q[i].name) \in Nat
        BY <1>1, <2>1, RanksApart
      <4>2. ~ByName(q[i], q[j]) /\ ~ByName(q[j], q[i])
        BY <3>1, <4>1 DEF ByName
      <4>3. QED BY <1>1, <4>2 DEF Sorts
    <3>3. QED BY <1>4, <3>2
  <2> HIDE DEF b, names
  <2>5. QED BY <2>2, <2>3, <2>4 DEF Bijection, Injection, Surjection, IsInjective
<1>6. Cardinality(names) = n
  <2> HIDE DEF b, names
  <2>1. ExistsBijection(1..n, names)
    BY <1>5 DEF ExistsBijection
  <2>2. QED BY <1>4, <2>1, FS_CountingElements
<1>7. RequiredNames \cup BoundNames \subseteq names /\ names \subseteq SemanticNames \cup BoundNames
  BY <1>3 DEF EnvelopeInv, BuilderInv, BuiltInv
<1>8. QED BY <1>4, <1>6, <1>7 DEF IdentityWhole, RequiredNames, BoundNames, SemanticNames

\* Nothing secret is shown.
LEMMA EnvelopeInvExplains ==
  ASSUME EnvelopeInv
  PROVE  SafeExplanation
<1> SUFFICES ASSUME NEW i \in DOMAIN shown
             PROVE  LET given == identity.fields[i]
                    IN /\ given.kind = "secret-reference" => shown[i].value = 0
                       /\ given.disclosure = "protected" /\ sent.fields[i].disclosure = "protected" =>
                            shown[i].value = 0
  BY DEF SafeExplanation
<1>1. shown # <<>>
  OBVIOUS
<1>2. /\ shown = [j \in DOMAIN received.fields |-> explain(received.fields[j], FALSE)]
      /\ SameFields(received.fields, sent.fields, identity.fields)
  BY <1>1 DEF EnvelopeInv, ShownInv, ReadInv
<1>3. i \in DOMAIN received.fields /\ shown[i] = explain(received.fields[i], FALSE)
  BY <1>2
<1>4. /\ received.fields[i].kind = identity.fields[i].kind
      /\ received.fields[i].disclosure = sent.fields[i].disclosure
  <2>1. /\ received.fields[i] \in MadeFields /\ identity.fields[i] \in MadeFields
        /\ received.fields[i].commitment = identity.fields[i].commitment
        /\ received.fields[i].disclosure = sent.fields[i].disclosure
    BY <1>2, <1>3 DEF SameFields
  <2>2. QED BY <2>1, CommitmentTells
<1>5. QED BY <1>3, <1>4 DEF explain

\* Canonical identities: whatever schema, extensions, payloads and calls to the
\* builder there are, and whatever is altered in an envelope on its way, what a
\* reader accepts is the identity that was built, that identity has the fields
\* of its schema and of the extensions of its declaration, each once, and its
\* safe explanation shows no secret (canonicalBuilder, FingerprintEnvelope).
THEOREM IdentitiesAreSafe == EnvelopeSpec => []IdentityEnvelopeSafe
<1>1. EnvelopeInv => IdentityEnvelopeSafe
  BY EnvelopeInvExact, EnvelopeInvWhole, EnvelopeInvExplains DEF IdentityEnvelopeSafe
<1> QED BY <1>1, EnvelopeInvInit, EnvelopeStep, PTL DEF EnvelopeSpec
=============================================================================

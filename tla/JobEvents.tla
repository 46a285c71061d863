----------------------------- MODULE JobEvents -----------------------------
(***************************************************************************)
(* The events of one prepare job: appendEvent, the heartbeat goroutines    *)
(* and the event bus (prepare/manager.go), the stream of                   *)
(* httpapi/httpapi.go and the client that watches it                       *)
(* (frontend/cli-go/internal/cli/commands_prepare.go).                     *)
(*                                                                         *)
(* An append to the log, the bookkeeping that follows it and the reads of  *)
(* the stream are steps of their own: they are separate SQL statements and *)
(* critical sections.                                                      *)
(***************************************************************************)
EXTENDS Naturals, Sequences

CONSTANTS Tasks,     \* number of tasks of the job
          Beaters,   \* heartbeat goroutines that may exist at the same time
          Runner,    \* the job's runner
          MaxBeats,  \* bound: heartbeat events in a behaviour
          MaxFaults, \* bound: writes of the runner that fail
          MaxBroken, \* bound: connections that break
          Deletes    \* TRUE: the job may be deleted

ASSUME EventsAssumption ==
  /\ Tasks \in Nat \ {0} /\ Runner \notin Beaters
  /\ MaxBeats \in Nat /\ MaxFaults \in Nat /\ MaxBroken \in Nat
  /\ Deletes \in BOOLEAN

VARIABLES
  row,        \* the job row: "running", "terminal" or "gone"
  log,        \* kinds of the events stored
  wpc,        \* the runner's next event, see Event
  phase,      \* where each emitter is in appendEvent
  mine,       \* the event each emitter is appending (Event(1) between two of them)
  task,       \* heartbeatState.runningTask: 0 if none, Absent without a state
  beat,       \* where each heartbeat goroutine is
  live,       \* goroutines whose context is not done
  armed,      \* the goroutine whose cancel function the state holds, if any
  subscribed, \* the stream's channel is on the event bus
  token,      \* the channel's buffer is full
  spc,        \* where the stream is
  streamed,   \* events sent on this connection
  finished,   \* EventsSince has seen a terminal row
  client,     \* "watching", "done" or "failed"
  seen,       \* the client's resumeIndex
  beats, faults, broken

emitting == <<wpc, phase, mine>>
heart == <<task, beat, live, armed>>
bus == <<subscribed, token>>
stream == <<spc, streamed, finished>>
clientVars == <<client, seen>>
bounds == <<beats, faults, broken>>
eventVars == <<row, log, wpc, phase, mine, task, beat, live, armed, subscribed, token,
          spc, streamed, finished, client, seen, beats, faults, broken>>

Emitters == Beaters \cup {Runner}
Absent == Tasks + 1
RowAt == 2 * Tasks + 1     \* the runner's steps: two events per task, the
EndAt == RowAt + 1         \* terminal row, the terminal status event and the
NoteAt == EndAt + 1        \* result or error event
Event(i) == IF i < RowAt
            THEN [kind |-> IF i % 2 = 1 THEN "running" ELSE "finished", task |-> (i + 1) \div 2]
            ELSE [kind |-> IF i = EndAt THEN "end" ELSE "note", task |-> 0]

EventsTypeOK ==
  /\ row \in {"running", "terminal", "gone"}
  /\ log \in Seq({"status", "running", "finished", "end", "note"})
  /\ wpc \in 1 .. NoteAt + 1
  /\ phase \in [Emitters -> {"ready", "update", "start", "notify"}]
  /\ task \in 0 .. Absent
  /\ beat \in [Beaters -> {"off", "wait", "emit"}]
  /\ live \subseteq Beaters /\ armed \subseteq Beaters
  /\ subscribed \in BOOLEAN /\ token \in BOOLEAN /\ finished \in BOOLEAN
  /\ spc \in {"row", "list", "subscribe", "count", "check", "wait", "closed", "notfound"}
  /\ streamed \in Nat /\ seen \in Nat
  /\ client \in {"watching", "done", "failed"}
  /\ beats \in Nat /\ faults \in Nat /\ broken \in Nat

\* The job has been created and started, each with its status event.
EventsInit ==
  /\ row = "running" /\ log = <<"status", "status">> /\ wpc = 1
  /\ phase = [e \in Emitters |-> "ready"] /\ mine = [e \in Emitters |-> Event(1)]
  /\ task = Absent /\ beat = [g \in Beaters |-> "off"] /\ live = {} /\ armed = {}
  /\ subscribed = FALSE /\ token = FALSE
  /\ spc = "row" /\ streamed = 0 /\ finished = FALSE
  /\ client = "watching" /\ seen = 0
  /\ beats = 0 /\ faults = 0 /\ broken = 0

-----------------------------------------------------------------------------
\* appendEvent, first the INSERT, which the foreign key refuses without the row.
Insert(e, event) ==
  /\ row # "gone"
  /\ log' = Append(log, event.kind)
  /\ mine' = [mine EXCEPT ![e] = event]
  /\ phase' = [phase EXCEPT ![e] = "update"]

\* updateTaskStatus, succeed and failJob emit the runner's events.
RunnerInsert ==
  /\ wpc # RowAt /\ wpc <= NoteAt /\ phase[Runner] = "ready"
  /\ Insert(Runner, Event(wpc))
  /\ UNCHANGED <<row, wpc, heart, bus, stream, clientVars, bounds>>

\* An event of a task that cannot be written fails the job; the terminal events
\* are given up.
RunnerInsertFails ==
  /\ wpc # RowAt /\ wpc <= NoteAt /\ phase[Runner] = "ready"
  /\ \/ row = "gone" /\ UNCHANGED faults
     \/ faults < MaxFaults /\ faults' = faults + 1
  /\ wpc' = IF wpc < RowAt THEN RowAt ELSE NoteAt + 1
  /\ UNCHANGED <<row, log, phase, mine, heart, bus, stream, clientVars, beats, broken>>

\* The terminal status of the row, before its event.
RunnerTerminal ==
  /\ wpc = RowAt /\ phase[Runner] = "ready"
  /\ row' = IF row = "gone" THEN row ELSE "terminal"
  /\ wpc' = EndAt
  /\ UNCHANGED <<log, phase, mine, heart, bus, stream, clientVars, bounds>>

\* The row could not be written: succeed and failJob return without an event, and
\* runJob drops the error.
RunnerTerminalFails ==
  /\ wpc = RowAt /\ phase[Runner] = "ready"
  /\ faults < MaxFaults /\ faults' = faults + 1
  /\ wpc' = NoteAt + 1
  /\ UNCHANGED <<row, log, phase, mine, heart, bus, stream, clientVars, beats, broken>>

\* Mutant: the cancel function is dropped without being called.
UpdateForgets(e) ==
  /\ phase[e] = "update"
  /\ CASE mine[e].kind = "running" ->
            /\ task' = mine[e].task
            /\ phase' = [phase EXCEPT ![e] = IF armed = {} THEN "start" ELSE "notify"]
            /\ UNCHANGED armed
       [] mine[e].kind = "end" \/ (mine[e].kind = "finished" /\ task = mine[e].task) ->
            /\ task' = IF mine[e].kind = "end" THEN Absent ELSE 0
            /\ armed' = {}
            /\ phase' = [phase EXCEPT ![e] = "notify"]
       [] OTHER ->
            /\ phase' = [phase EXCEPT ![e] = "notify"]
            /\ UNCHANGED <<task, armed>>
  /\ UNCHANGED <<row, log, wpc, mine, beat, live, bus, stream, clientVars, bounds>>

\* updateHeartbeat.
Update(e) ==
  /\ phase[e] = "update"
  /\ CASE mine[e].kind = "running" ->
            /\ task' = mine[e].task
            /\ phase' = [phase EXCEPT ![e] = IF armed = {} THEN "start" ELSE "notify"]
            /\ UNCHANGED <<live, armed>>
       [] mine[e].kind = "end" \/ (mine[e].kind = "finished" /\ task = mine[e].task) ->
            /\ task' = IF mine[e].kind = "end" THEN Absent ELSE 0
            /\ live' = live \ armed /\ armed' = {}
            /\ phase' = [phase EXCEPT ![e] = "notify"]
       [] OTHER ->
            /\ phase' = [phase EXCEPT ![e] = "notify"]
            /\ UNCHANGED <<task, live, armed>>
  /\ UNCHANGED <<row, log, wpc, mine, beat, bus, stream, clientVars, bounds>>

\* startHeartbeat, under the lock again.
StartHeartbeat(e) ==
  /\ phase[e] = "start"
  /\ phase' = [phase EXCEPT ![e] = "notify"]
  /\ IF task = Absent \/ armed # {} THEN UNCHANGED <<beat, live, armed>>
     ELSE \E g \in Beaters :
            /\ beat[g] = "off"
            /\ beat' = [beat EXCEPT ![g] = "wait"]
            /\ live' = live \cup {g} /\ armed' = {g}
  /\ UNCHANGED <<row, log, wpc, mine, task, bus, stream, clientVars, bounds>>

\* eventBus.notify; the emitter goes on.
Notify(e) ==
  /\ phase[e] = "notify"
  /\ phase' = [phase EXCEPT ![e] = "ready"]
  /\ mine' = [mine EXCEPT ![e] = Event(1)]
  /\ token' = (token \/ subscribed)
  /\ IF e = Runner THEN wpc' = wpc + 1 /\ UNCHANGED beat
     ELSE beat' = [beat EXCEPT ![e] = "wait"] /\ UNCHANGED wpc
  /\ UNCHANGED <<row, log, task, live, armed, subscribed, stream, clientVars, bounds>>

\* A heartbeat goroutine: a tick copies the last event of the running task; a
\* done context, or nothing to repeat, ends it.
Tick(g) ==
  /\ beat[g] = "wait"
  /\ \/ /\ task \notin {0, Absent} /\ beats < MaxBeats
        /\ beats' = beats + 1
        /\ beat' = [beat EXCEPT ![g] = "emit"]
        /\ mine' = [mine EXCEPT ![g] = [kind |-> "running", task |-> task]]
     \/ /\ g \notin live \/ task \in {0, Absent}
        /\ beat' = [beat EXCEPT ![g] = "off"]
        /\ UNCHANGED <<mine, beats>>
  /\ UNCHANGED <<row, log, wpc, phase, task, live, armed, bus, stream, clientVars, faults, broken>>

\* The copy is appended, after the lock was released; an error is ignored.
Beat(g) ==
  /\ beat[g] = "emit" /\ phase[g] = "ready"
  /\ IF row = "gone"
     THEN beat' = [beat EXCEPT ![g] = "wait"] /\ UNCHANGED <<log, mine, phase>>
     ELSE Insert(g, mine[g]) /\ UNCHANGED beat
  /\ UNCHANGED <<row, wpc, task, live, armed, bus, stream, clientVars, bounds>>

EmitterStep(e) == Update(e) \/ StartHeartbeat(e) \/ Notify(e)
RunnerStep == RunnerInsert \/ RunnerInsertFails \/ RunnerTerminal \/ RunnerTerminalFails \/ EmitterStep(Runner)

-----------------------------------------------------------------------------
Stored == IF row = "gone" THEN 0 ELSE Len(log)

\* EventsSince: the row ...
StreamRow ==
  /\ spc = "row"
  /\ finished' = (row = "terminal")
  /\ spc' = IF row = "gone" THEN "notfound" ELSE "list"
  /\ UNCHANGED <<row, log, emitting, heart, bus, streamed, clientVars, bounds>>

\* ... and the events after the index, which are sent.
StreamList ==
  /\ spc = "list"
  /\ streamed' = IF Stored > streamed THEN Stored ELSE streamed
  /\ spc' = IF finished THEN "closed" ELSE IF Stored > streamed THEN "row" ELSE "subscribe"
  /\ UNCHANGED <<row, log, emitting, heart, bus, finished, clientVars, bounds>>

\* WaitForEvent subscribes ...
StreamSubscribe ==
  /\ spc = "subscribe"
  /\ subscribed' = TRUE /\ token' = FALSE /\ spc' = "count"
  /\ UNCHANGED <<row, log, emitting, heart, streamed, finished, clientVars, bounds>>

\* ... counts ...
StreamCount ==
  /\ spc = "count"
  /\ IF Stored > streamed
     THEN spc' = "row" /\ subscribed' = FALSE /\ token' = FALSE
     ELSE spc' = "check" /\ UNCHANGED bus
  /\ UNCHANGED <<row, log, emitting, heart, streamed, finished, clientVars, bounds>>

\* ... looks at the row ...
StreamCheck ==
  /\ spc = "check"
  /\ spc' = CASE row = "gone" -> "closed" [] row = "terminal" -> "row" [] OTHER -> "wait"
  /\ subscribed' = (row = "running")
  /\ token' = (token /\ row = "running")
  /\ UNCHANGED <<row, log, emitting, heart, streamed, finished, clientVars, bounds>>

\* Mutant: a wake-up clears the buffer after the events were counted.
StreamWakeLate ==
  /\ spc = "wait" /\ token
  /\ spc' = "check" /\ token' = FALSE
  /\ UNCHANGED <<row, log, emitting, heart, subscribed, streamed, finished, clientVars, bounds>>

\* ... and sleeps until it is notified.
StreamWake ==
  /\ spc = "wait" /\ token
  /\ spc' = "count" /\ token' = FALSE
  /\ UNCHANGED <<row, log, emitting, heart, subscribed, streamed, finished, clientVars, bounds>>

StreamStep == StreamRow \/ StreamList \/ StreamSubscribe \/ StreamCount \/ StreamCheck \/ StreamWake

\* waitForPrepareWithOptions: an event not seen before; a status event makes
\* the client ask for the job.
ClientRead ==
  /\ client = "watching" /\ seen < streamed
  /\ seen' = seen + 1
  /\ client' = IF log[seen + 1] \notin {"status", "end"} \/ row = "running" THEN client
               ELSE IF row = "terminal" THEN "done" ELSE "failed"
  /\ UNCHANGED <<row, log, emitting, heart, bus, stream, bounds>>

\* Mutant: the client takes the end of the stream for the end of the job.
ClientReconnectGivesUp ==
  /\ client = "watching" /\ seen >= streamed /\ spc = "closed"
  /\ UNCHANGED eventVars

\* The stream has ended without a verdict: the client connects again, the
\* server sends everything again, and what was seen is skipped.
ClientReconnect ==
  /\ client = "watching" /\ seen >= streamed /\ spc = "closed"
  /\ spc' = "row" /\ streamed' = 0
  /\ UNCHANGED <<row, log, emitting, heart, bus, finished, clientVars, bounds>>

\* 404, or its text in the stream.
ClientNotFound ==
  /\ client = "watching" /\ seen >= streamed /\ spc = "notfound"
  /\ client' = "failed"
  /\ UNCHANGED <<row, log, emitting, heart, bus, stream, seen, bounds>>

\* The connection breaks; the handler's context ends its wait.
Drop ==
  /\ broken < MaxBroken /\ client = "watching"
  /\ broken' = broken + 1
  /\ spc' = "row" /\ streamed' = 0 /\ subscribed' = FALSE /\ token' = FALSE
  /\ UNCHANGED <<row, log, emitting, heart, finished, clientVars, beats, faults>>

\* The job is deleted; nobody is notified.
Delete ==
  /\ Deletes /\ row # "gone"
  /\ row' = "gone"
  /\ UNCHANGED <<log, emitting, heart, bus, stream, clientVars, bounds>>

ClientStep == ClientRead \/ ClientReconnect \/ ClientNotFound

EventsNext ==
  \/ RunnerStep
  \/ \E g \in Beaters : EmitterStep(g) \/ Tick(g) \/ Beat(g)
  \/ StreamStep
  \/ ClientStep
  \/ Drop \/ Delete

\* The runner, the server's handler, the client and an emitter that has begun
\* an append are scheduled.
EventsFairness ==
  /\ WF_eventVars(RunnerStep) /\ WF_eventVars(StreamStep) /\ WF_eventVars(ClientStep)
  /\ \A g \in Beaters : WF_eventVars(EmitterStep(g))

Spec == EventsInit /\ [][EventsNext]_eventVars /\ EventsFairness

-----------------------------------------------------------------------------
\* No wake-up is lost: a stream that sleeps has sent all events, or somebody
\* who has appended one is about to notify it (WaitForEvent subscribes before
\* it counts, appendEvent notifies after the insert); and once the row is
\* terminal the event that will wake it is still to come, unless an event could
\* not be written.
NoLostWakeup ==
  spc = "wait" /\ ~token /\ row # "gone" =>
    /\ subscribed
    /\ Len(log) <= streamed \/ \E e \in Emitters : phase[e] # "ready"
    /\ row = "terminal" => wpc <= EndAt \/ faults > 0

\* At most one heartbeat goroutine repeats events of the job
\* (updateHeartbeat, startHeartbeat).
OneHeartbeat ==
  \A g, h \in live : beat[g] # "off" /\ beat[h] # "off" => g = h

\* A client that watches the job learns its outcome, whatever the order in
\* which the row, its event and the stream's reads happen, and also when the
\* connection breaks (streamPrepareEvents, waitForPrepareWithOptions); unless
\* the job is deleted, or one of its events or its terminal status could not be
\* written.
WatchExited == client # "watching" \/ row = "gone" \/ faults > 0
WatchExits == []<>WatchExited

\* When the job has ended no heartbeat of it is left.
HeartbeatStops == wpc > NoteAt => task = Absent
=============================================================================

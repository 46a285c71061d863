---------------------------- MODULE EngineStart ----------------------------
(***************************************************************************)
(* How CLI processes find or start the local engine, and how engine        *)
(* processes come and go: ConnectOrStart                                   *)
(* (frontend/cli-go/internal/daemon/orchestrator.go) and run of            *)
(* cmd/sqlrs-engine/main.go.                                               *)
(*                                                                         *)
(* They share the discovery file engine.json, the start lock daemon.lock   *)
(* of the CLIs and the store lock of the engines.  Both locks are held by  *)
(* the operating system and vanish with their process.  An engine stands   *)
(* for its instance id, its auth token and its pid.                        *)
(***************************************************************************)
EXTENDS Naturals, FiniteSets

CONSTANTS Clis,        \* CLI processes
          Engines,     \* engine processes
          Ports,       \* ephemeral ports, which are used again
          NoEngine,    \* no engine, no process, no port
          MaxKills,    \* bound: engines killed
          MaxConnects  \* bound: calls of ConnectOrStart

ASSUME EngineStartAssumption ==
  /\ NoEngine \notin Clis \cup Engines \cup Ports
  /\ MaxKills \in Nat /\ MaxConnects \in Nat

VARIABLES
  epc,       \* where each engine is in run
  eport,     \* the port each engine listens on
  storeLock, \* the engine that holds the store lock
  engineJson,\* the engine and port in engine.json, or NoEngine
  cpc,       \* where each CLI is in ConnectOrStart
  place,     \* which of its lookups a CLI is in
  again,     \* the lookup is the second one, after a rejected token
  found,     \* the state a CLI has read
  cached,    \* cachedEngineStates of the process
  must,      \* mustStartDaemon
  late,      \* the startup deadline has passed
  child,     \* the engine a CLI has started
  startLock, \* the CLI that holds daemon.lock
  kills, connects

engineVars == <<epc, eport, storeLock, engineJson>>
cliVars == <<cpc, place, again, found, cached, must, late, child, startLock>>
startVars == <<epc, eport, storeLock, engineJson, cpc, place, again, found, cached,
               must, late, child, startLock, kills, connects>>

States == [id : Engines, port : Ports] \cup {NoEngine}

StartTypeOK ==
  /\ epc \in [Engines -> {"unborn", "listen", "lock", "init", "remove", "rename",
                          "recover", "serve", "closing", "unlock", "dead"}]
  /\ eport \in [Engines -> Ports \cup {NoEngine}]
  /\ storeLock \in Engines \cup {NoEngine} /\ engineJson \in States
  /\ cpc \in [Clis -> {"new", "cached", "cachedauth", "read", "health", "auth",
                       "mount", "lock", "spawn", "poll", "ok", "failed"}]
  /\ place \in [Clis -> {"fast", "recheck", "locked", "wait"}]
  /\ found \in [Clis -> States] /\ cached \in [Clis -> States]
  /\ child \in [Clis -> Engines \cup {NoEngine}]
  /\ startLock \in Clis \cup {NoEngine}
  /\ {again, must, late} \subseteq [Clis -> BOOLEAN]
  /\ kills \in 0 .. MaxKills /\ connects \in 0 .. MaxConnects

\* At the start no engine runs, or one that was started before serves.
StartWith(old, port) ==
  /\ epc = [e \in Engines |-> IF e = old THEN "serve" ELSE "unborn"]
  /\ eport = [e \in Engines |-> IF e = old THEN port ELSE NoEngine]
  /\ storeLock = old
  /\ engineJson = IF old = NoEngine THEN NoEngine ELSE [id |-> old, port |-> port]
  /\ cpc = [c \in Clis |-> "new"] /\ place = [c \in Clis |-> "fast"]
  /\ again = [c \in Clis |-> FALSE] /\ must = [c \in Clis |-> FALSE]
  /\ late = [c \in Clis |-> FALSE]
  /\ found = [c \in Clis |-> NoEngine] /\ cached = [c \in Clis |-> NoEngine]
  /\ child = [c \in Clis |-> NoEngine] /\ startLock = NoEngine
  /\ kills = 0 /\ connects = 0
StartInit == StartWith(NoEngine, NoEngine) \/ StartWith(CHOOSE e \in Engines : TRUE, CHOOSE p \in Ports : TRUE)

-----------------------------------------------------------------------------
\* The engine process.  It listens before it owns the store, and answers only
\* once it serves.
Exit(e) ==
  /\ epc' = [epc EXCEPT ![e] = "dead"]
  /\ eport' = [eport EXCEPT ![e] = NoEngine]
  /\ storeLock' = IF storeLock = e THEN NoEngine ELSE storeLock

Goto(e, label) == epc' = [epc EXCEPT ![e] = label]

Listen(e) ==
  /\ epc[e] = "listen"
  /\ \/ /\ \E p \in Ports \ {eport[x] : x \in Engines} : eport' = [eport EXCEPT ![e] = p]
        /\ Goto(e, "lock") /\ UNCHANGED storeLock
     \/ Exit(e)
  /\ UNCHANGED <<engineJson, cliVars, kills, connects>>

\* managedstore.Lock does not wait.
LockStore(e) ==
  /\ epc[e] = "lock"
  /\ IF storeLock = NoEngine
     THEN storeLock' = e /\ Goto(e, "init") /\ UNCHANGED eport
     ELSE Exit(e)
  /\ UNCHANGED <<engineJson, cliVars, kills, connects>>

\* Configuration, database, secrets and stores are opened.
InitStore(e) ==
  /\ epc[e] = "init"
  /\ \/ Goto(e, "remove") /\ UNCHANGED <<eport, storeLock>>
     \/ Exit(e)
  /\ UNCHANGED <<engineJson, cliVars, kills, connects>>

\* writeEngineState: the old file is removed, then the new one renamed to it.
RemoveOld(e) ==
  /\ epc[e] = "remove"
  /\ \/ engineJson' = NoEngine /\ Goto(e, "rename") /\ UNCHANGED <<eport, storeLock>>
     \/ UNCHANGED engineJson /\ Exit(e)
  /\ UNCHANGED <<cliVars, kills, connects>>

Rename(e) ==
  /\ epc[e] = "rename"
  /\ \/ /\ engineJson' = [id |-> e, port |-> eport[e]]
        /\ Goto(e, "recover") /\ UNCHANGED <<eport, storeLock>>
     \/ UNCHANGED engineJson /\ Exit(e)
  /\ UNCHANGED <<cliVars, kills, connects>>

\* Recovery and the managers; then requests are served.
Recover(e) ==
  /\ epc[e] = "recover"
  /\ Goto(e, "serve") \/ Goto(e, "closing")
  /\ UNCHANGED <<eport, storeLock, engineJson, cliVars, kills, connects>>

\* An idle timeout or a signal: Shutdown closes the listener, Serve and run return.
Shutdown(e) ==
  /\ epc[e] = "serve"
  /\ Goto(e, "closing") /\ eport' = [eport EXCEPT ![e] = NoEngine]
  /\ UNCHANGED <<storeLock, engineJson, cliVars, kills, connects>>

\* Mutant: the locks are released before the file is removed.
RemoveStateUnlocked(e) ==
  /\ epc[e] = "closing"
  /\ IF storeLock = e THEN storeLock' = NoEngine /\ UNCHANGED <<epc, engineJson>>
     ELSE engineJson' = NoEngine /\ Goto(e, "unlock") /\ UNCHANGED storeLock
  /\ UNCHANGED <<eport, cliVars, kills, connects>>

\* removeEngineState, deferred after the locks and thus run before their release;
\* a removal that fails is only logged.
RemoveState(e) ==
  /\ epc[e] = "closing"
  /\ engineJson' \in {NoEngine, engineJson} /\ Goto(e, "unlock")
  /\ UNCHANGED <<eport, storeLock, cliVars, kills, connects>>

Unlock(e) ==
  /\ epc[e] = "unlock" /\ Exit(e)
  /\ UNCHANGED <<engineJson, cliVars, kills, connects>>

Kill(e) ==
  /\ epc[e] \notin {"unborn", "dead"} /\ kills < MaxKills
  /\ kills' = kills + 1 /\ Exit(e)
  /\ UNCHANGED <<engineJson, cliVars, connects>>

EngineStep(e) == \/ Listen(e) \/ LockStore(e) \/ InitStore(e) \/ RemoveOld(e) \/ Rename(e)
                 \/ Recover(e) \/ RemoveState(e) \/ Unlock(e)

-----------------------------------------------------------------------------
\* What a request to the endpoint of a state meets.
Serving(p) == {e \in Engines : epc[e] = "serve" /\ eport[e] = p}

\* Mutant: any engine that answers is taken for the one in the file.
HealthyAnyone(s) == Serving(s.port) # {}

\* checkHealth with the comparison of instance ids.  The check of the pid adds
\* nothing to rely on: it is skipped on Windows, and a pid may be used again.
Healthy(s) == s.id \in Serving(s.port)

Accepted(s) == s.id \in Serving(s.port)
Rejected(s) == Serving(s.port) \ {s.id} # {}

\* ConnectOrStart returns; the start lock is released.
Return(c, result) ==
  /\ cpc' = [cpc EXCEPT ![c] = result]
  /\ startLock' = IF startLock = c THEN NoEngine ELSE startLock
  /\ cached' = IF result = "ok" THEN [cached EXCEPT ![c] = found[c]] ELSE cached
  /\ place' = [place EXCEPT ![c] = "fast"] /\ again' = [again EXCEPT ![c] = FALSE]
  /\ found' = [found EXCEPT ![c] = NoEngine] /\ must' = [must EXCEPT ![c] = FALSE]
  /\ late' = [late EXCEPT ![c] = FALSE] /\ child' = [child EXCEPT ![c] = NoEngine]

Lookup(c, where) ==
  /\ cpc' = [cpc EXCEPT ![c] = "read"] /\ place' = [place EXCEPT ![c] = where]
  /\ again' = [again EXCEPT ![c] = FALSE]
  /\ found' = [found EXCEPT ![c] = NoEngine]

\* Mutant: the wait for the started engine has no deadline.
MissForever(c, rejected) ==
  CASE place[c] = "fast" ->
         /\ cpc' = [cpc EXCEPT ![c] = "mount"]
         /\ UNCHANGED <<place, again, found, cached, must, late, child, startLock>>
    [] place[c] = "recheck" ->
         /\ cpc' = [cpc EXCEPT ![c] = "lock"] /\ must' = [must EXCEPT ![c] = rejected]
         /\ UNCHANGED <<place, again, found, cached, late, child, startLock>>
    [] place[c] = "locked" ->
         /\ cpc' = [cpc EXCEPT ![c] = "spawn"]
         /\ UNCHANGED <<place, again, found, cached, must, late, child, startLock>>
    [] place[c] = "wait" ->
         /\ cpc' = [cpc EXCEPT ![c] = "poll"]
         /\ UNCHANGED <<place, again, found, cached, must, late, child, startLock>>

\* A lookup has found no engine; rejected: there is one that refuses the token.
Miss(c, rejected) ==
  CASE place[c] = "fast" ->
         /\ cpc' = [cpc EXCEPT ![c] = "mount"]
         /\ UNCHANGED <<place, again, found, cached, must, late, child, startLock>>
    [] place[c] = "recheck" ->
         /\ cpc' = [cpc EXCEPT ![c] = "lock"] /\ must' = [must EXCEPT ![c] = rejected]
         /\ UNCHANGED <<place, again, found, cached, late, child, startLock>>
    [] place[c] = "locked" ->
         /\ cpc' = [cpc EXCEPT ![c] = "spawn"]
         /\ UNCHANGED <<place, again, found, cached, must, late, child, startLock>>
    [] place[c] = "wait" ->
         IF late[c] THEN Return(c, "failed")
         ELSE /\ cpc' = [cpc EXCEPT ![c] = "poll"]
              /\ UNCHANGED <<place, again, found, cached, must, late, child, startLock>>

Connect(c) ==
  /\ cpc[c] \in {"new", "ok", "failed"} /\ connects < MaxConnects
  /\ connects' = connects + 1
  /\ IF cached[c] = NoEngine THEN Lookup(c, "fast")
     ELSE /\ cpc' = [cpc EXCEPT ![c] = "cached"]
          /\ found' = [found EXCEPT ![c] = cached[c]]
          /\ UNCHANGED <<place, again>>
  /\ UNCHANGED <<engineVars, cached, must, late, child, startLock, kills>>

\* tryHealthyState on the state the process remembers.
TryCached(c) ==
  /\ \/ /\ cpc[c] = "cached" /\ Healthy(found[c])
        /\ cpc' = [cpc EXCEPT ![c] = "cachedauth"]
        /\ UNCHANGED <<place, again, found, cached, must, late, child, startLock>>
     \/ cpc[c] = "cachedauth" /\ Accepted(found[c]) /\ Return(c, "ok")
     \/ /\ \/ cpc[c] = "cached" /\ ~Healthy(found[c])
           \/ cpc[c] = "cachedauth" /\ ~Accepted(found[c])
        /\ Lookup(c, "fast") /\ UNCHANGED <<cached, must, late, child, startLock>>
  /\ UNCHANGED <<engineVars, kills, connects>>

ReadState(c) ==
  /\ cpc[c] = "read"
  /\ IF engineJson = NoEngine THEN Miss(c, again[c])
     ELSE /\ found' = [found EXCEPT ![c] = engineJson]
          /\ cpc' = [cpc EXCEPT ![c] = "health"]
          /\ UNCHANGED <<place, again, cached, must, late, child, startLock>>
  /\ UNCHANGED <<engineVars, kills, connects>>

CheckHealth(c) ==
  /\ cpc[c] = "health"
  /\ IF ~Healthy(found[c]) THEN Miss(c, again[c])
     ELSE IF place[c] = "wait" THEN Return(c, "ok")
     ELSE /\ cpc' = [cpc EXCEPT ![c] = "auth"]
          /\ UNCHANGED <<place, again, found, cached, must, late, child, startLock>>
  /\ UNCHANGED <<engineVars, kills, connects>>

\* refreshStateOnAuthRejected: a rejected token makes it read the file once more.
CheckAuth(c) ==
  /\ cpc[c] = "auth"
  /\ IF Accepted(found[c]) THEN Return(c, "ok")
     ELSE IF Rejected(found[c]) /\ ~again[c]
     THEN /\ cpc' = [cpc EXCEPT ![c] = "read"] /\ again' = [again EXCEPT ![c] = TRUE]
          /\ UNCHANGED <<place, found, cached, must, late, child, startLock>>
     ELSE Miss(c, TRUE)
  /\ UNCHANGED <<engineVars, kills, connects>>

\* ensureWSLStoreMount: see WslStore.
Mount(c) ==
  /\ cpc[c] = "mount"
  /\ \/ Lookup(c, "recheck") /\ UNCHANGED <<cached, must, late, child, startLock>>
     \/ Return(c, "failed")
  /\ UNCHANGED <<engineVars, kills, connects>>

\* No autostart, or no run directory.
NoStart(c) ==
  /\ cpc[c] = "lock" /\ Return(c, "failed")
  /\ UNCHANGED <<engineVars, kills, connects>>

\* AcquireLock waits for daemon.lock ...
AcquireLock(c) ==
  /\ cpc[c] = "lock" /\ startLock = NoEngine
  /\ startLock' = c
  /\ IF must[c] THEN cpc' = [cpc EXCEPT ![c] = "spawn"] /\ UNCHANGED <<place, again, found>>
     ELSE Lookup(c, "locked")
  /\ UNCHANGED <<engineVars, cached, must, late, child, kills, connects>>

\* ... up to the startup timeout.
LockTimeout(c) ==
  /\ cpc[c] = "lock" /\ startLock # NoEngine /\ Return(c, "failed")
  /\ UNCHANGED <<engineVars, kills, connects>>

\* The engine binary is resolved and started.
Spawn(c) ==
  /\ cpc[c] = "spawn"
  /\ \/ \E e \in Engines :
          /\ epc[e] = "unborn" /\ Goto(e, "listen")
          /\ child' = [child EXCEPT ![c] = e]
          /\ cpc' = [cpc EXCEPT ![c] = "poll"]
          /\ UNCHANGED <<place, again, found, cached, must, late, startLock>>
     \/ Return(c, "failed") /\ UNCHANGED epc
  /\ UNCHANGED <<eport, storeLock, engineJson, kills, connects>>

Poll(c) ==
  /\ cpc[c] = "poll"
  /\ IF epc[child[c]] = "dead" THEN Return(c, "failed")
     ELSE Lookup(c, "wait") /\ UNCHANGED <<cached, must, late, child, startLock>>
  /\ UNCHANGED <<engineVars, kills, connects>>

\* Time passes.
Deadline(c) ==
  /\ child[c] # NoEngine /\ cpc[c] \in {"poll", "read", "health"} /\ ~late[c]
  /\ late' = [late EXCEPT ![c] = TRUE]
  /\ UNCHANGED <<engineVars, cpc, place, again, found, cached, must, child, startLock,
                 kills, connects>>

CliStep(c) == \/ TryCached(c) \/ ReadState(c) \/ CheckHealth(c) \/ CheckAuth(c) \/ Mount(c)
              \/ AcquireLock(c) \/ LockTimeout(c) \/ NoStart(c) \/ Spawn(c) \/ Poll(c)

StartNext == \/ \E c \in Clis : Connect(c) \/ CliStep(c) \/ Deadline(c)
             \/ \E e \in Engines : EngineStep(e) \/ Shutdown(e) \/ Kill(e)

\* The CLIs are scheduled and time passes.  An engine may hang while it starts.
StartFairness ==
  \A c \in Clis : WF_startVars(CliStep(c)) /\ WF_startVars(Deadline(c))

-----------------------------------------------------------------------------
\* engine.json never hides the engine that owns the store: while an engine
\* serves, the file names it, whatever other engines were starting, refused or
\* shutting down meanwhile (writeEngineState, removeEngineState and the order
\* in which run releases the file and the locks).
ServingDiscoverable ==
  \A e \in Engines : epc[e] = "serve" => engineJson = [id |-> e, port |-> eport[e]] /\ storeLock = e

\* A connection that ConnectOrStart returns leads, at that moment, to a serving
\* engine that accepts the returned token, although ports are used again and
\* the file may be stale (loadHealthyStateWithReason, refreshStateOnAuthRejected).
ConnectedIsServed ==
  [][\A c \in Clis : cpc[c] # "ok" /\ cpc'[c] = "ok" => Accepted(cached'[c])]_startVars

\* ConnectOrStart returns, with an engine or an error, whoever else is starting
\* one and whatever becomes of the engines (AcquireLock, the startup deadline).
Returned(c) == cpc[c] \in {"new", "ok", "failed"}
ConnectReturns == \A c \in Clis : []<>Returned(c)
=============================================================================

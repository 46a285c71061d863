----------------------------- MODULE LiveProofs -----------------------------
(***************************************************************************)
(* Proofs about the components with locks, retries and deadlines, for      *)
(* every value of their constants: starting and finding an engine, the     *)
(* watching CLI, the upload of sources, the managed and the unmanaged      *)
(* base, the eviction of cached states and the deletion of trees of        *)
(* states.  They share no state, so every component has an invariant of    *)
(* its own, kept by its own steps, and LiveStep reduces a step of the      *)
(* whole to a step or a stutter of each of them.                           *)
(***************************************************************************)
EXTENDS MCLive, FiniteSetTheorems, WellFoundedInduction, TLAPS

(* A step of the composition is, for every component, one of its steps or  *)
(* leaves its variables alone.                                             *)
LEMMA LiveStep ==
  [Next]_liveVars => /\ [StartNext]_startVars /\ [WatchNext]_watchVars /\ [SyncNext]_syncVars
                     /\ [BaseNext]_baseVars /\ [DirNext]_dirVars
                     /\ [EvictNext]_evictVars /\ [TreeNext]_treeVars
BY DEF Next, liveVars

(* The components start as their own modules say.                          *)
LEMMA LiveInit ==
  Init => /\ StartInit /\ WatchInit /\ SyncInit /\ BaseInit /\ DirInit /\ EvictInit /\ TreeInit
BY DEF Init

-----------------------------------------------------------------------------
(* EngineStart.  From taking the store lock to its release an engine owns  *)
(* the store, and from writing engine.json to closing the file names it.   *)
OwnsStore == {"init", "remove", "rename", "recover", "serve", "closing", "unlock"}

StartInv ==
  /\ epc = [e \in Engines |-> epc[e]] /\ eport = [e \in Engines |-> eport[e]]
  /\ \A e \in Engines : epc[e] \in OwnsStore => storeLock = e
  /\ \A e \in Engines : epc[e] \in {"recover", "serve"} =>
       engineJson = [id |-> e, port |-> eport[e]]

(* An engine that was started before serves from the beginning.            *)
LEMMA StartInvInit == StartInit => StartInv
<1>1. ASSUME NEW old, NEW port, StartWith(old, port) PROVE StartInv
  BY <1>1, EngineStartAssumption DEF StartWith, StartInv, OwnsStore
<1>2. QED BY <1>1 DEF StartInit

(* The steps of an engine, one by one; the CLIs only create engines.       *)
LEMMA StartInvStep == StartInv /\ [StartNext]_startVars => StartInv'
<1> SUFFICES ASSUME StartInv, [StartNext]_startVars PROVE StartInv'
  OBVIOUS
<1> USE DEF StartInv, OwnsStore
<1>1. ASSUME NEW e \in Engines, Listen(e) PROVE StartInv'
  BY <1>1 DEF Listen, Exit, Goto
<1>2. ASSUME NEW e \in Engines, LockStore(e) PROVE StartInv'
  BY <1>2, EngineStartAssumption DEF LockStore, Exit, Goto
<1>3. ASSUME NEW e \in Engines, InitStore(e) PROVE StartInv'
  BY <1>3 DEF InitStore, Exit, Goto
<1>4. ASSUME NEW e \in Engines, RemoveOld(e) PROVE StartInv'
  BY <1>4 DEF RemoveOld, Exit, Goto
<1>5. ASSUME NEW e \in Engines, Rename(e) PROVE StartInv'
  BY <1>5 DEF Rename, Exit, Goto
<1>6. ASSUME NEW e \in Engines, Recover(e) PROVE StartInv'
  BY <1>6 DEF Recover, Goto
<1>7. ASSUME NEW e \in Engines, RemoveState(e) \/ Shutdown(e) PROVE StartInv'
  BY <1>7 DEF RemoveState, Shutdown, Goto
<1>8. ASSUME NEW e \in Engines, Unlock(e) \/ Kill(e) PROVE StartInv'
  BY <1>8 DEF Unlock, Kill, Exit
<1>9. ASSUME NEW c \in Clis, Connect(c) \/ CliStep(c) \/ Deadline(c) PROVE StartInv'
  <2>1. UNCHANGED <<eport, storeLock, engineJson>>
    BY <1>9 DEF Connect, CliStep, Deadline, TryCached, ReadState, CheckHealth, CheckAuth, Mount,
       AcquireLock, LockTimeout, NoStart, Spawn, Poll, engineVars
  <2>2. epc' = epc \/ \E e \in Engines : epc' = [epc EXCEPT ![e] = "listen"]
    BY <1>9 DEF Connect, CliStep, Deadline, TryCached, ReadState, CheckHealth, CheckAuth, Mount,
       AcquireLock, LockTimeout, NoStart, Spawn, Poll, engineVars, Goto
  <2>3. QED BY <2>1, <2>2
<1>10. CASE UNCHANGED startVars
  BY <1>10 DEF startVars
<1>11. QED
  BY <1>1, <1>2, <1>3, <1>4, <1>5, <1>6, <1>7, <1>8, <1>9, <1>10 DEF StartNext, EngineStep

(* While an engine serves, engine.json names it (writeEngineState,         *)
(* removeEngineState and the order in which run releases file and locks),  *)
(* for any number of engines, kills and restarts.                          *)
THEOREM EngineDiscoverable == Spec => []ServingDiscoverable
<1>1. StartInv => ServingDiscoverable
  BY DEF StartInv, ServingDiscoverable, OwnsStore
<1>2. QED BY <1>1, LiveInit, LiveStep, StartInvInit, StartInvStep, PTL DEF Spec

(* Where the CLIs are, and what they remember.                             *)
CliTyped ==
  /\ cpc = [c \in Clis |-> cpc[c]] /\ cached = [c \in Clis |-> cached[c]]
  /\ place \in [Clis -> {"fast", "recheck", "locked", "wait"}]

(* How a step moves a CLI: the others stay, and it comes to "ok" only by   *)
(* remembering a state whose engine has just been found to serve.          *)
CliMoves(c) ==
  /\ CliTyped'
  /\ \A d \in Clis : d # c => cpc'[d] = cpc[d]
  /\ cpc'[c] = "ok" /\ cpc[c] # "ok" => cached'[c] = found[c] /\ Healthy(found[c])

(* A lookup that finds nothing brings nobody to "ok".                      *)
LEMMA MissMoves ==
  ASSUME NEW c \in Clis, NEW r, CliTyped, Miss(c, r)
  PROVE  CliMoves(c)
<1>1. CASE place[c] = "fast"
  BY <1>1 DEF Miss, CliMoves, CliTyped
<1>2. CASE place[c] = "recheck"
  <2>1. cpc' = [cpc EXCEPT ![c] = "lock"] /\ cached' = cached /\ place' = place
    BY <1>2 DEF Miss
  <2>2. QED BY <2>1 DEF CliMoves, CliTyped
<1>3. CASE place[c] = "locked"
  BY <1>3 DEF Miss, CliMoves, CliTyped
<1>4. CASE place[c] = "wait"
  BY <1>4 DEF Miss, CliMoves, CliTyped, Return
<1>5. QED BY <1>1, <1>2, <1>3, <1>4 DEF CliTyped

(* Every step of a CLI, one by one.                                        *)
LEMMA CliStepMoves ==
  ASSUME NEW c \in Clis, CliTyped, Connect(c) \/ CliStep(c) \/ Deadline(c)
  PROVE  CliMoves(c)
<1> USE DEF CliMoves, CliTyped
<1>1. CASE Connect(c)
  BY <1>1 DEF Connect, Lookup
<1>2. CASE TryCached(c)
  BY <1>2 DEF TryCached, Return, Lookup, Accepted, Healthy
<1>3. CASE ReadState(c)
  BY <1>3, MissMoves DEF ReadState
<1>4. CASE CheckHealth(c)
  BY <1>4, MissMoves DEF CheckHealth, Return
<1>5. CASE CheckAuth(c)
  <2>1. Miss(c, TRUE) => CliMoves(c)
    BY MissMoves
  <2>2. \/ Accepted(found[c]) /\ Return(c, "ok")
        \/ cpc' = [cpc EXCEPT ![c] = "read"] /\ cached' = cached /\ place' = place
        \/ Miss(c, TRUE)
    BY <1>5 DEF CheckAuth
  <2>3. QED BY <2>1, <2>2 DEF Return, Accepted, Healthy
<1>6. CASE Mount(c)
  BY <1>6 DEF Mount, Lookup, Return
<1>7. CASE NoStart(c) \/ LockTimeout(c)
  BY <1>7 DEF NoStart, LockTimeout, Return
<1>8. CASE AcquireLock(c)
  <2>1. cached' = cached
    BY <1>8 DEF AcquireLock
  <2>2. CASE must[c]
    BY <1>8, <2>1, <2>2 DEF AcquireLock
  <2>3. CASE ~must[c]
    BY <1>8, <2>1, <2>3 DEF AcquireLock, Lookup
  <2>4. QED BY <2>2, <2>3
<1>9. CASE Spawn(c)
  BY <1>9 DEF Spawn, Return
<1>10. CASE Poll(c)
  BY <1>10 DEF Poll, Return, Lookup
<1>11. CASE Deadline(c)
  BY <1>11 DEF Deadline
<1>12. QED
  BY <1>1, <1>2, <1>3, <1>4, <1>5, <1>6, <1>7, <1>8, <1>9, <1>10, <1>11 DEF CliStep

(* At the start.                                                           *)
LEMMA CliTypedInit == StartInit => CliTyped
BY DEF StartInit, StartWith, CliTyped

(* A step of an engine moves no CLI.                                       *)
LEMMA CliStepServed ==
  CliTyped /\ [StartNext]_startVars =>
    /\ CliTyped'
    /\ \A c \in Clis : cpc[c] # "ok" /\ cpc'[c] = "ok" => Accepted(cached'[c])
<1> SUFFICES ASSUME CliTyped, [StartNext]_startVars
             PROVE  /\ CliTyped'
                    /\ \A c \in Clis : cpc[c] # "ok" /\ cpc'[c] = "ok" => Accepted(cached'[c])
  OBVIOUS
<1>1. ASSUME NEW c \in Clis, CliMoves(c)
      PROVE  /\ CliTyped'
             /\ \A d \in Clis : cpc[d] # "ok" /\ cpc'[d] = "ok" => Accepted(cached'[d])
  <2>1. \A s : Healthy(s) => Accepted(s)
    BY DEF Healthy, Accepted
  <2>2. ASSUME NEW d \in Clis, cpc[d] # "ok", cpc'[d] = "ok" PROVE Accepted(cached'[d])
    BY <1>1, <2>1, <2>2 DEF CliMoves
  <2>3. QED BY <1>1, <2>2 DEF CliMoves
<1>2. ASSUME UNCHANGED <<cpc, cached, place>>
      PROVE  /\ CliTyped'
             /\ \A d \in Clis : cpc[d] # "ok" /\ cpc'[d] = "ok" => Accepted(cached'[d])
  BY <1>2 DEF CliTyped
<1>3. ASSUME NEW e \in Engines, EngineStep(e) \/ Shutdown(e) \/ Kill(e)
      PROVE  UNCHANGED <<cpc, cached, place>>
  BY <1>3 DEF EngineStep, Listen, LockStore, InitStore, RemoveOld, Rename, Recover, RemoveState,
     Unlock, Shutdown, Kill, cliVars
<1>4. CASE \E c \in Clis : Connect(c) \/ CliStep(c) \/ Deadline(c)
  BY <1>1, <1>4, CliStepMoves
<1>5. QED BY <1>2, <1>3, <1>4 DEF StartNext, startVars

(* A connection that ConnectOrStart returns leads to a serving engine that *)
(* accepts its token (loadHealthyStateWithReason, tryHealthyState,         *)
(* refreshStateOnAuthRejected), for any number of CLIs, engines and ports. *)
THEOREM ConnectionIsServed == Spec => ConnectedIsServed
<1>1. CliTyped /\ [StartNext]_startVars =>
        [\A c \in Clis : cpc[c] # "ok" /\ cpc'[c] = "ok" => Accepted(cached'[c])]_startVars
  BY CliStepServed
<1>2. CliTyped /\ [StartNext]_startVars => CliTyped'
  BY CliStepServed
<1>3. QED BY <1>1, <1>2, LiveInit, LiveStep, CliTypedInit, PTL DEF Spec, ConnectedIsServed

-----------------------------------------------------------------------------
(* WatchControl.  What the CLI has shown is 1 .. resume; a stream is read  *)
(* from a point that leaves no gap, so that the next event shown is the    *)
(* one after; only a confirmed stop reaches the request to cancel.         *)
WatchPlaces == {"resolve", "connect", "stream", "ended", "action", "prompt", "confirm", "done"}
WatchOutcomes == {"succeeded", "failed", "error", "killed", "detached"}
WatchRecords ==
  [mode : {"prepare", "plan", "watch"}, id : {"exact", "prefix", "ambiguous"},
   at : WatchPlaces \cup {"cancel"}, resume : Nat, cur : Nat, fired : BOOLEAN,
   shown : Seq(Nat), confirmed : BOOLEAN, outcome : WatchOutcomes \cup {""}]

UpTo(n) == [i \in 1 .. n |-> i]

WatchInv ==
  /\ watch \in WatchRecords
  /\ watch.cur <= watch.resume
  /\ watch.shown = UpTo(watch.resume)
  /\ watch.at = "cancel" => watch.confirmed
  /\ stopped => watch.confirmed
  /\ OutcomeTrue

(* The next event is appended to those shown before it.                    *)
LEMMA ShowNext ==
  ASSUME NEW n \in Nat, NEW s \in Seq(Nat), s = UpTo(n)
  PROVE  Append(s, n + 1) = UpTo(n + 1) /\ Append(s, n + 1) \in Seq(Nat)
BY DEF UpTo

(* Before the first stream nothing is shown, and nobody has confirmed.     *)
LEMMA WatchInvInit == WatchInit => WatchInv
<1> SUFFICES ASSUME WatchInit PROVE WatchInv
  OBVIOUS
<1>1. PICK a \in Attached :
        watch = [mode |-> a.mode, id |-> a.id,
                 at |-> IF a.mode = "watch" THEN "resolve" ELSE "connect",
                 resume |-> 0, cur |-> 0, fired |-> FALSE,
                 shown |-> <<>>, confirmed |-> FALSE, outcome |-> ""]
  BY DEF WatchInit
<1>2. a.mode \in {"prepare", "plan", "watch"} /\ a.id \in {"exact", "prefix", "ambiguous"}
  BY DEF Attached
<1>3. <<>> \in Seq(Nat) /\ <<>> = UpTo(0)
  BY DEF UpTo
<1>4. watch \in WatchRecords
  BY <1>1, <1>2, <1>3 DEF WatchRecords, WatchPlaces, WatchOutcomes
<1>5. watch.shown = <<>> /\ watch.outcome = "" /\ watch.at # "cancel" /\ watch.resume = 0
  BY <1>1
<1>6. ~stopped
  BY DEF WatchInit
<1>7. OutcomeTrue
  BY <1>5 DEF OutcomeTrue
<1>8. watch.shown = UpTo(watch.resume)
  BY <1>3, <1>5
<1>9. watch.cur <= watch.resume
  <2>1. watch.cur = 0 /\ watch.resume = 0
    BY <1>1
  <2>2. QED BY <2>1
<1>10. QED BY <1>4, <1>5, <1>6, <1>7, <1>8, <1>9 DEF WatchInv

(* What the reading of an event does to the counters.                      *)
Counted(w, c, r, s) == [w EXCEPT !.cur = c, !.resume = r, !.shown = s]

(* The parts of the invariant the proofs of the steps ask for.             *)
LEMMA WatchFacts ==
  ASSUME WatchInv
  PROVE  /\ watch.cur \in Nat /\ watch.resume \in Nat /\ watch.shown \in Seq(Nat)
         /\ watch \in WatchRecords
BY DEF WatchInv, WatchRecords

(* The CLI stays, goes on, or returns; it learns the outcome from the job, *)
(* and a step changes nothing else the invariant is about.                 *)
Moved ==
  \/ watch' = watch
  \/ \E l \in WatchPlaces : watch' = [watch EXCEPT !.at = l]
  \/ \E l \in WatchOutcomes :
       /\ watch' = [watch EXCEPT !.at = "done", !.outcome = l]
       /\ l \in {"succeeded", "failed"} => jobStatus = l

(* Such a step keeps the invariant.                                        *)
LEMMA MovedKeeps ==
  ASSUME WatchInv, Moved, jobStatus' = jobStatus, stopped' => stopped \/ watch.confirmed
  PROVE  WatchInv'
BY DEF WatchInv, WatchRecords, WatchPlaces, WatchOutcomes, OutcomeTrue, Moved

(* An event before resume is skipped, the one at resume is shown.          *)
LEMMA ReadEventKeeps == WatchInv /\ ReadEvent => WatchInv'
<1> SUFFICES ASSUME WatchInv, ReadEvent PROVE WatchInv'
  OBVIOUS
<1>1. jobStatus' = jobStatus /\ stopped' = stopped
  BY DEF ReadEvent, jobVars
<1>2. CASE watch.cur < watch.resume
  <2>1. watch' = [watch EXCEPT !.cur = @ + 1]
    BY <1>2 DEF ReadEvent
  <2>2. watch.cur + 1 \in Nat /\ watch.cur + 1 <= watch.resume
    BY <1>2, WatchFacts
  <2>3. watch' = Counted(watch, watch.cur + 1, watch.resume, watch.shown)
    BY <2>1, WatchFacts DEF WatchRecords, Counted
  <2>4. /\ watch' \in WatchRecords /\ watch'.cur = watch.cur + 1 /\ watch'.resume = watch.resume
        /\ watch'.shown = watch.shown /\ watch'.at = watch.at
        /\ watch'.confirmed = watch.confirmed /\ watch'.outcome = watch.outcome
    <3> DEFINE n == watch.cur + 1
    <3> HIDE DEF n
    <3>1. n \in Nat /\ watch' = Counted(watch, n, watch.resume, watch.shown)
      BY <2>2, <2>3 DEF n
    <3>2. /\ watch' \in WatchRecords /\ watch'.cur = n /\ watch'.resume = watch.resume
          /\ watch'.shown = watch.shown /\ watch'.at = watch.at
          /\ watch'.confirmed = watch.confirmed /\ watch'.outcome = watch.outcome
      BY <3>1, WatchFacts DEF Counted, WatchRecords
    <3>3. QED BY <3>2 DEF n
  <2>5. watch'.cur <= watch'.resume
    <3>1. watch'.cur = watch.cur + 1 /\ watch'.resume = watch.resume
      BY <2>4
    <3>2. QED BY <2>2, <3>1
  <2>6. watch'.shown = UpTo(watch'.resume)
    BY <2>4 DEF WatchInv
  <2>7. OutcomeTrue'
    BY <1>1, <2>4 DEF WatchInv, OutcomeTrue
  <2>8. QED BY <1>1, <2>4, <2>5, <2>6, <2>7 DEF WatchInv
<1>3. CASE ~(watch.cur < watch.resume)
  <2> DEFINE w == [watch EXCEPT !.cur = @ + 1, !.resume = watch.cur + 1,
                                !.shown = Append(@, watch.cur + 1)]
  <2>1. watch.cur = watch.resume
    BY <1>3, WatchFacts DEF WatchInv
  <2>2. watch.shown \in Seq(Nat) /\ watch.cur \in Nat
    BY DEF WatchInv, WatchRecords
  <2>3. /\ Append(watch.shown, watch.cur + 1) = UpTo(watch.cur + 1)
        /\ Append(watch.shown, watch.cur + 1) \in Seq(Nat)
    BY <2>1, <2>2, ShowNext DEF WatchInv
  <2>4. \/ watch' = w
        \/ watch' = [w EXCEPT !.at = "done", !.outcome = "error"]
        \/ jobStatus \in {"succeeded", "failed"} /\ watch' = [w EXCEPT !.at = "done", !.outcome = jobStatus]
    BY <1>3 DEF ReadEvent
  <2>5. /\ w \in WatchRecords /\ w.cur <= w.resume /\ w.shown = UpTo(w.resume)
        /\ w.at = watch.at /\ w.confirmed = watch.confirmed /\ w.outcome = watch.outcome
    <3>1. w = Counted(watch, watch.cur + 1, watch.cur + 1, Append(watch.shown, watch.cur + 1))
      BY DEF Counted
    <3>2. watch.cur + 1 \in Nat
      BY <2>2
    <3>3. /\ w \in WatchRecords /\ w.cur = watch.cur + 1 /\ w.resume = watch.cur + 1
          /\ w.shown = Append(watch.shown, watch.cur + 1)
          /\ w.at = watch.at /\ w.confirmed = watch.confirmed /\ w.outcome = watch.outcome
      <4> DEFINE n == watch.cur + 1
                 shown == Append(watch.shown, watch.cur + 1)
      <4> HIDE DEF w, n, shown
      <4>1. n \in Nat /\ shown \in Seq(Nat) /\ w = Counted(watch, n, n, shown)
        BY <2>3, <3>1, <3>2 DEF n, shown
      <4>2. /\ w \in WatchRecords /\ w.cur = n /\ w.resume = n /\ w.shown = shown
            /\ w.at = watch.at /\ w.confirmed = watch.confirmed /\ w.outcome = watch.outcome
        BY <4>1, WatchFacts DEF Counted, WatchRecords
      <4>3. QED BY <4>2 DEF n, shown
    <3>4. w.cur <= w.resume
      <4> HIDE DEF w
      <4>1. w.cur = watch.cur + 1 /\ w.resume = watch.cur + 1
        BY <3>3
      <4>2. QED BY <3>2, <4>1
    <3>5. w.shown = UpTo(w.resume)
      BY <2>3, <3>3
    <3>6. QED BY <3>3, <3>4, <3>5
  <2>6. QED
    <3> HIDE DEF w
    <3>1. CASE watch' = w
      BY <1>1, <2>5, <3>1 DEF WatchInv, OutcomeTrue
    <3>2. ASSUME NEW l \in {"succeeded", "failed", "error"},
                 watch' = [w EXCEPT !.at = "done", !.outcome = l], l # "error" => jobStatus = l
          PROVE  WatchInv'
      <4>1. /\ watch' \in WatchRecords /\ watch'.cur = w.cur /\ watch'.resume = w.resume
            /\ watch'.shown = w.shown /\ watch'.confirmed = w.confirmed
            /\ watch'.at = "done" /\ watch'.outcome = l
        BY <2>5, <3>2 DEF WatchRecords, WatchPlaces, WatchOutcomes
      <4>2. OutcomeTrue'
        BY <1>1, <3>2, <4>1 DEF OutcomeTrue
      <4>3. watch'.cur <= watch'.resume /\ watch'.shown = UpTo(watch'.resume)
        BY <2>5, <4>1
      <4>4. stopped' => watch'.confirmed
        BY <1>1, <2>5, <4>1 DEF WatchInv
      <4>5. QED BY <4>1, <4>2, <4>3, <4>4 DEF WatchInv
    <3>3. QED BY <2>4, <3>1, <3>2
<1>4. QED BY <1>2, <1>3

(* Every action of the job, of the CLI and of the user.                    *)
LEMMA WatchInvStep == WatchInv /\ [WatchNext]_watchVars => WatchInv'
<1> SUFFICES ASSUME WatchInv, [WatchNext]_watchVars PROVE WatchInv'
  OBVIOUS
<1> USE DEF jobVars, watchEnv, WatchTo, ReturnWith, Moved, WatchPlaces, WatchOutcomes
<1>1. CASE JobLogs \/ JobFinishes \/ JobAnnounces \/ JobIsDeleted
  <2>1. /\ watch' = watch /\ stopped' = stopped
        /\ \/ jobStatus' = jobStatus
           \/ jobStatus = "running"
           \/ jobStatus' = "deleted"
    BY <1>1 DEF JobLogs, JobFinishes, JobAnnounces, JobIsDeleted
  <2>2. OutcomeTrue'
    BY <2>1 DEF WatchInv, OutcomeTrue
  <2>3. QED BY <2>1, <2>2 DEF WatchInv
<1>2. CASE resolvePrepareJobByPrefix
  BY <1>2, MovedKeeps DEF resolvePrepareJobByPrefix
<1>3. CASE StreamPrepareEvents
  <2>1. CASE \E from \in {0, watch.resume} :
               watch' = [watch EXCEPT !.at = "stream", !.cur = from, !.fired = FALSE]
    <3>1. PICK from \in {0, watch.resume} :
            watch' = [watch EXCEPT !.at = "stream", !.cur = from, !.fired = FALSE]
      BY <2>1
    <3>2. from \in Nat /\ from <= watch.resume
      BY <3>1, WatchFacts
    <3>3. /\ watch' \in WatchRecords /\ watch'.cur = from /\ watch'.resume = watch.resume
          /\ watch'.shown = watch.shown /\ watch'.confirmed = watch.confirmed
          /\ watch'.at # "cancel" /\ watch'.outcome = watch.outcome
      BY <3>1, <3>2, WatchFacts DEF WatchRecords
    <3>4. stopped' = stopped /\ jobStatus' = jobStatus
      BY <1>3 DEF StreamPrepareEvents
    <3>5. QED BY <3>2, <3>3, <3>4 DEF WatchInv, OutcomeTrue
  <2>2. CASE ReturnWith("error")
    BY <1>3, <2>2, MovedKeeps DEF StreamPrepareEvents
  <2>3. QED BY <1>3, <2>1, <2>2 DEF StreamPrepareEvents
<1>4. CASE ReadEvent
  BY <1>4, ReadEventKeeps
<1>5. CASE StreamEnds \/ AfterStream \/ LingererEnds \/ PromptKey
  BY <1>5, MovedKeeps DEF StreamEnds, AfterStream, LingererEnds, PromptKey
<1>6. CASE CancelStream
  BY <1>6 DEF CancelStream, WatchInv, WatchRecords, OutcomeTrue
<1>7. CASE ControlAction \/ Interrupt
  <2>1. CASE ControlAction
    BY <2>1, MovedKeeps DEF ControlAction
  <2>2. CASE Interrupt
    BY <2>2, MovedKeeps DEF Interrupt, controlsEnabled
  <2>3. QED BY <1>7, <2>1, <2>2
<1>8. CASE confirmPrepareStop
  <2>1. stopped' = stopped /\ jobStatus' = jobStatus
    BY <1>8 DEF confirmPrepareStop
  <2>2. CASE watch' = [watch EXCEPT !.at = "cancel", !.confirmed = TRUE]
    BY <2>1, <2>2 DEF WatchInv, WatchRecords, WatchPlaces, WatchOutcomes, OutcomeTrue
  <2>3. CASE Moved
    BY <2>1, <2>3, MovedKeeps
  <2>4. QED BY <1>8, <2>2, <2>3 DEF confirmPrepareStop
<1>9. CASE CancelPrepareJob
  <2>1. Moved /\ jobStatus' = jobStatus
    BY <1>9 DEF CancelPrepareJob
  <2>2. watch.confirmed
    BY <1>9 DEF CancelPrepareJob, WatchInv
  <2>3. QED BY <2>1, <2>2, MovedKeeps
<1>10. CASE UNCHANGED watchVars
  BY <1>10 DEF watchVars, WatchInv, OutcomeTrue
<1>11. QED
  BY <1>1, <1>2, <1>3, <1>4, <1>5, <1>6, <1>7, <1>8, <1>9, <1>10
     DEF WatchNext, WatchStep, WatchOver

-----------------------------------------------------------------------------
(* RemoteSource.  What is about to be put under a digest was read and      *)
(* compared with that digest, and no step after the reading looks at the   *)
(* disk again; an entry of the manifest is written once.                   *)
SyncInv ==
  /\ DOMAIN rsManifest = Paths /\ rsManifest = [p \in Paths |-> rsManifest[p]]
  /\ DOMAIN rsBlobs = Contents /\ rsBlobs = [c \in Contents |-> rsBlobs[c]]
  /\ rsPc = "put" => rsRead = FirstOf(rsTodo).hash
  /\ SyncTruthful

(* Nothing is in the manifest, and the server has nothing or whole blobs.  *)
LEMMA SyncInvInit == SyncInit => SyncInv
<1> SUFFICES ASSUME SyncInit PROVE SyncInv
  OBVIOUS
<1>1. rsManifest = [p \in Paths |-> 0] /\ rsSent = rsManifest /\ rsPc = "call"
  BY DEF SyncInit
<1>2. rsBlobs \in [Contents -> {0}] \/ rsBlobs = [c \in Contents |-> IF c = 1 THEN 1 ELSE 0]
  BY DEF SyncInit
<1>3. QED BY <1>1, <1>2 DEF SyncInv, SyncTruthful

(* One step per action; the edits of the workspace change only the disk.   *)
LEMMA SyncInvStep == SyncInv /\ [SyncNext]_syncVars => SyncInv'
<1> SUFFICES ASSUME SyncInv, [SyncNext]_syncVars PROVE SyncInv'
  OBVIOUS
<1>1. CASE ExecuteRequest
  <2>1. rsSent' = rsManifest /\ rsManifest' = rsManifest /\ rsBlobs' = rsBlobs /\ rsPc' # "put"
    BY <1>1 DEF ExecuteRequest, GoSync
  <2>2. QED BY <2>1 DEF SyncInv, SyncTruthful
<1>2. CASE AddEntry
  <2> DEFINE e == FirstOf(rsTodo)
  <2> HIDE DEF e
  <2>1. /\ rsBlobs' = rsBlobs /\ rsSent' = rsSent /\ rsPc' # "put"
        /\ \/ rsManifest' = rsManifest
           \/ rsManifest[e.path] = 0 /\ rsManifest' = [rsManifest EXCEPT ![e.path] = rsDisk[e.path]]
    BY <1>2 DEF AddEntry, GoSync, e
  <2>2. DOMAIN rsManifest' = Paths /\ rsManifest' = [p \in Paths |-> rsManifest'[p]]
    BY <2>1 DEF SyncInv
  <2>3. \A p \in Paths : rsSent'[p] \in {0, rsManifest'[p]}
    BY <2>1 DEF SyncInv, SyncTruthful
  <2>4. QED BY <2>1, <2>2, <2>3 DEF SyncInv, SyncTruthful
<1>3. CASE ReadBlob
  <2>1. /\ rsBlobs' = rsBlobs /\ rsSent' = rsSent /\ rsManifest' = rsManifest
        /\ rsPc' = "put" => rsRead' = FirstOf(rsTodo).hash /\ rsTodo' = rsTodo
    BY <1>3 DEF ReadBlob, GoSync
  <2>2. QED BY <2>1 DEF SyncInv, SyncTruthful
<1>4. CASE PutBlob
  <2> DEFINE e == FirstOf(rsTodo)
  <2> HIDE DEF e
  <2>1. /\ rsBlobs' = [rsBlobs EXCEPT ![e.hash] = rsRead] /\ rsPc' # "put"
        /\ rsSent' = rsSent /\ rsManifest' = rsManifest
    BY <1>4 DEF PutBlob, GoSync, e
  <2>2. rsRead = e.hash
    BY <1>4 DEF PutBlob, SyncInv, e
  <2>3. QED BY <2>1, <2>2 DEF SyncInv, SyncTruthful
<1>5. CASE EndRound
  BY <1>5 DEF EndRound, GoSync, SyncInv, SyncTruthful
<1>6. CASE SyncFails \/ EditSource
  BY <1>6 DEF SyncFails, EditSource, GoSync, rsWorld, SyncInv, SyncTruthful
<1>7. CASE DropBlob
  BY <1>7 DEF DropBlob, SyncInv, SyncTruthful
<1>8. CASE UNCHANGED syncVars
  BY <1>8 DEF syncVars, SyncInv, SyncTruthful
<1>9. QED
  BY <1>1, <1>2, <1>3, <1>4, <1>5, <1>6, <1>7, <1>8 DEF SyncNext, SyncStep

-----------------------------------------------------------------------------
(* ManagedBase.  Only the holder of managedMu is between taking it and     *)
(* giving it back, and every place there tells how far the base is.        *)
HoldsMu == {"operation", "bootstrap", "insert", "target", "initdb", "hba", "ready", "use"}

MuInv ==
  /\ mbPc = [j \in BaseJobs |-> mbPc[j]] /\ mbHeld = [j \in BaseJobs |-> mbHeld[j]]
  /\ \A j \in BaseJobs : mbPc[j] \in HoldsMu => mbMu = j

(* The directory belongs to the generation of the journal; one that was    *)
(* initialised has the password of the secret, unless that is lost; none   *)
(* exists before the row, and none but a whole one under a ready entry.    *)
DirFits ==
  /\ mbDir \in [is : {"none", "empty", "initdb", "partial", "whole"}, gen : Nat, pwd : Nat]
  /\ mbOp \in [stage : {"none", "assigned", "ready"}, gen : Nat]
  /\ mbSecret \in Nat /\ mbFresh \in Nat \ {0}
  /\ mbDir.is # "none" => mbRow /\ mbDir.gen = mbOp.gen
  /\ mbDir.is \in {"initdb", "whole"} /\ mbSecret # 0 => mbDir.pwd = mbSecret
  /\ mbOp.stage = "ready" => mbDir.is \in {"none", "whole"}

(* What the holder has reached.                                            *)
Reached(j) ==
  /\ mbPc[j] = "bootstrap" =>
       mbOp.stage \in {"assigned", "ready"} /\ (mbOp.stage = "ready" => mbDir.is = "whole")
  /\ mbPc[j] \in {"insert", "target", "initdb", "hba", "ready"} =>
       mbOp.stage = "assigned" /\ mbSecret # 0
  /\ mbPc[j] \in {"target", "initdb", "hba", "ready", "use"} =>
       mbRow /\ mbSecret # 0 /\ mbHeld[j] = mbSecret
  /\ mbPc[j] = "initdb" => mbDir.is = "empty"
  /\ mbPc[j] = "hba" => mbDir.is = "initdb"
  /\ mbPc[j] \in {"ready", "use"} => mbDir.is = "whole"

BaseInv == MuInv /\ DirFits /\ \A j \in BaseJobs : Reached(j)

(* Nothing is there and nobody is at work.                                 *)
LEMMA BaseInvInit == BaseInit => BaseInv
BY DEF BaseInit, BaseInv, MuInv, DirFits, Reached, HoldsMu, NoDir, NoOp

(* A step of the holder: the others are outside, whatever it changes.      *)
HolderGoes(j) ==
  /\ \E l : mbPc' = [mbPc EXCEPT ![j] = l] /\ (l \in HoldsMu => mbMu' = j)
  /\ mbHeld' = [k \in BaseJobs |-> mbHeld'[k]]

(* Such a step keeps the lock and what every builder has reached.          *)
LEMMA HolderStep ==
  ASSUME BaseInv, NEW j \in BaseJobs, mbPc[j] \in HoldsMu, HolderGoes(j), Reached(j)'
  PROVE  MuInv' /\ \A k \in BaseJobs : Reached(k)'
<1> PICK l : mbPc' = [mbPc EXCEPT ![j] = l] /\ (l \in HoldsMu => mbMu' = j)
  BY DEF HolderGoes
<1> mbHeld' = [k \in BaseJobs |-> mbHeld'[k]]
  BY DEF HolderGoes
<1>1. mbMu = j
  BY DEF BaseInv, MuInv
<1>2. \A k \in BaseJobs : k # j => mbPc'[k] \notin HoldsMu
  BY <1>1 DEF BaseInv, MuInv
<1>3. MuInv'
  BY <1>2 DEF BaseInv, MuInv
<1>4. ASSUME NEW k \in BaseJobs, k # j PROVE Reached(k)'
  BY <1>2, <1>4 DEF Reached, HoldsMu
<1>5. QED BY <1>3, <1>4

(* The actions of the holder, one by one.                                  *)
LEMMA HolderKeeps ==
  ASSUME BaseInv, NEW j \in BaseJobs, mbPc[j] \in HoldsMu, BaseStep(j)
  PROVE  BaseInv'
<1> USE DEF mbDisk, mbBounds, BaseGoto, BaseFail, SecretStored
<1>0. /\ Reached(j) /\ DirFits /\ mbMu = j /\ mbPc = [k \in BaseJobs |-> mbPc[k]]
      /\ mbHeld = [k \in BaseJobs |-> mbHeld[k]]
  BY DEF BaseInv, MuInv
<1>1. CASE BaseOperation(j)
  <2>1. /\ mbHeld' = mbHeld /\ mbDir' = mbDir /\ mbSecret' = mbSecret /\ mbRow' = mbRow
        /\ mbFresh' = mbFresh
        /\ \/ mbPc' = [mbPc EXCEPT ![j] = "failed"] /\ mbOp' = mbOp
           \/ /\ mbPc' = [mbPc EXCEPT ![j] = "bootstrap"] /\ mbOp' = mbOp /\ mbMu' = mbMu
              /\ mbOp.stage = "assigned" \/ (mbOp.stage = "ready" /\ mbDir.is # "none")
           \/ /\ mbPc' = [mbPc EXCEPT ![j] = "bootstrap"] /\ mbMu' = mbMu
              /\ mbDir.is = "none" /\ mbOp' = [stage |-> "assigned", gen |-> mbOp.gen + 1]
    BY <1>1 DEF BaseOperation
  <2>2. DirFits' /\ Reached(j)'
    BY <1>0, <2>1 DEF DirFits, Reached
  <2>3. HolderGoes(j)
    BY <1>0, <2>1 DEF HolderGoes, HoldsMu
  <2>4. QED BY <2>2, <2>3, HolderStep DEF BaseInv
<1>2. CASE ResolveBootstrap(j)
  <2>1. /\ mbDir' = mbDir /\ mbSecret' = mbSecret /\ mbRow' = mbRow /\ mbFresh' = mbFresh
        /\ mbOp' = mbOp /\ mbRow /\ mbPc[j] = "bootstrap"
        /\ \/ mbPc' = [mbPc EXCEPT ![j] = "failed"] /\ mbHeld' = mbHeld
           \/ /\ mbSecret # 0 /\ mbHeld' = [mbHeld EXCEPT ![j] = mbSecret] /\ mbMu' = mbMu
              /\ mbPc' = [mbPc EXCEPT ![j] = IF mbOp.stage = "ready" THEN "use" ELSE "target"]
    BY <1>2 DEF ResolveBootstrap
  <2>2. DirFits' /\ Reached(j)'
    BY <1>0, <2>1 DEF DirFits, Reached
  <2>3. HolderGoes(j)
    BY <1>0, <2>1 DEF HolderGoes, HoldsMu
  <2>4. QED BY <2>2, <2>3, HolderStep DEF BaseInv
<1>3. CASE ReserveBootstrap(j)
  <2>1. /\ mbDir' = mbDir /\ mbRow' = mbRow /\ mbHeld' = mbHeld /\ mbOp' = mbOp /\ ~mbRow
        /\ \/ mbPc' = [mbPc EXCEPT ![j] = "failed"] /\ mbSecret' = mbSecret /\ mbFresh' = mbFresh
           \/ /\ mbOp.stage = "assigned" /\ mbMu' = mbMu
              /\ mbSecret' = IF mbSecret = 0 THEN mbFresh ELSE mbSecret
              /\ mbFresh' = IF mbSecret = 0 THEN mbFresh + 1 ELSE mbFresh
              /\ mbPc' = [mbPc EXCEPT ![j] = "insert"]
    BY <1>3 DEF ReserveBootstrap
  <2>2. mbDir.is = "none"
    BY <1>0, <2>1 DEF DirFits
  <2>3. DirFits' /\ Reached(j)'
    BY <1>0, <2>1, <2>2 DEF DirFits, Reached
  <2>4. HolderGoes(j)
    BY <1>0, <2>1 DEF HolderGoes, HoldsMu
  <2>5. QED BY <2>3, <2>4, HolderStep DEF BaseInv
<1>4. CASE InsertBootstrap(j)
  <2>1. /\ mbDir' = mbDir /\ mbSecret' = mbSecret /\ mbFresh' = mbFresh /\ mbOp' = mbOp
        /\ mbRow' /\ mbMu' = mbMu /\ mbHeld' = [mbHeld EXCEPT ![j] = mbSecret]
        /\ mbPc[j] = "insert" /\ mbPc' = [mbPc EXCEPT ![j] = "target"]
    BY <1>4 DEF InsertBootstrap
  <2>2. DirFits' /\ Reached(j)'
    BY <1>0, <2>1 DEF DirFits, Reached
  <2>3. HolderGoes(j)
    BY <1>0, <2>1 DEF HolderGoes, HoldsMu
  <2>4. QED BY <2>2, <2>3, HolderStep DEF BaseInv
<1>5. CASE EnsureManagedBaseDir(j)
  <2>1. /\ mbSecret' = mbSecret /\ mbFresh' = mbFresh /\ mbOp' = mbOp /\ mbRow' = mbRow
        /\ mbHeld' = mbHeld /\ mbPc[j] = "target"
        /\ \/ mbPc' = [mbPc EXCEPT ![j] = "failed"] /\ mbDir' = mbDir
           \/ /\ mbPc' = [mbPc EXCEPT ![j] = "initdb"] /\ mbMu' = mbMu
              /\ mbDir' = [is |-> "empty", gen |-> mbOp.gen, pwd |-> 0]
    BY <1>5 DEF EnsureManagedBaseDir
  <2>2. DirFits' /\ Reached(j)'
    BY <1>0, <2>1 DEF DirFits, Reached
  <2>3. HolderGoes(j)
    BY <1>0, <2>1 DEF HolderGoes, HoldsMu
  <2>4. QED BY <2>2, <2>3, HolderStep DEF BaseInv
<1>6. CASE InitManagedBase(j)
  <2>1. /\ mbSecret' = mbSecret /\ mbFresh' = mbFresh /\ mbOp' = mbOp /\ mbRow' = mbRow
        /\ mbHeld' = mbHeld /\ mbPc[j] = "initdb"
        /\ \/ mbPc' = [mbPc EXCEPT ![j] = "failed"] /\ mbDir' = mbDir
           \/ /\ mbPc' = [mbPc EXCEPT ![j] = "hba"] /\ mbMu' = mbMu
              /\ mbDir' = [mbDir EXCEPT !.is = "initdb", !.pwd = mbSecret]
    BY <1>6 DEF InitManagedBase
  <2>2. DirFits' /\ Reached(j)'
    BY <1>0, <2>1 DEF DirFits, Reached
  <2>3. HolderGoes(j)
    BY <1>0, <2>1 DEF HolderGoes, HoldsMu
  <2>4. QED BY <2>2, <2>3, HolderStep DEF BaseInv
<1>7. CASE PatchHBA(j)
  <2>1. /\ mbSecret' = mbSecret /\ mbFresh' = mbFresh /\ mbOp' = mbOp /\ mbRow' = mbRow
        /\ mbHeld' = mbHeld /\ mbMu' = mbMu /\ mbPc[j] = "hba"
        /\ mbPc' = [mbPc EXCEPT ![j] = "ready"] /\ mbDir' = [mbDir EXCEPT !.is = "whole"]
    BY <1>7 DEF PatchHBA
  <2>2. DirFits' /\ Reached(j)'
    BY <1>0, <2>1 DEF DirFits, Reached
  <2>3. HolderGoes(j)
    BY <1>0, <2>1 DEF HolderGoes, HoldsMu
  <2>4. QED BY <2>2, <2>3, HolderStep DEF BaseInv
<1>8. CASE BaseReady(j)
  <2>1. /\ mbSecret' = mbSecret /\ mbFresh' = mbFresh /\ mbDir' = mbDir /\ mbRow' = mbRow
        /\ mbHeld' = mbHeld /\ mbPc[j] = "ready"
        /\ \/ mbPc' = [mbPc EXCEPT ![j] = "failed"] /\ mbOp' = mbOp
           \/ /\ mbPc' = [mbPc EXCEPT ![j] = "use"] /\ mbMu' = mbMu
              /\ mbOp' = [mbOp EXCEPT !.stage = "ready"]
    BY <1>8 DEF BaseReady
  <2>2. DirFits' /\ Reached(j)'
    BY <1>0, <2>1 DEF DirFits, Reached
  <2>3. HolderGoes(j)
    BY <1>0, <2>1 DEF HolderGoes, HoldsMu
  <2>4. QED BY <2>2, <2>3, HolderStep DEF BaseInv
<1>9. CASE CloneBase(j)
  <2>1. /\ mbSecret' = mbSecret /\ mbFresh' = mbFresh /\ mbDir' = mbDir /\ mbRow' = mbRow
        /\ mbHeld' = mbHeld /\ mbOp' = mbOp /\ mbPc' = [mbPc EXCEPT ![j] = "done"]
    BY <1>9 DEF CloneBase
  <2>2. DirFits' /\ Reached(j)'
    BY <1>0, <2>1 DEF DirFits, Reached
  <2>3. HolderGoes(j)
    BY <1>0, <2>1 DEF HolderGoes, HoldsMu
  <2>4. QED BY <2>2, <2>3, HolderStep DEF BaseInv
<1>10. CASE EnterBase(j)
  BY <1>10 DEF EnterBase, HoldsMu
<1>11. QED
  BY <1>1, <1>2, <1>3, <1>4, <1>5, <1>6, <1>7, <1>8, <1>9, <1>10 DEF BaseStep

(* The actions around them: a job enters when nobody holds the mutex, a    *)
(* step fails, the engine stops, a directory or a secret is lost.          *)
LEMMA BaseInvStep == BaseInv /\ [BaseNext]_baseVars => BaseInv'
<1> SUFFICES ASSUME BaseInv, [BaseNext]_baseVars PROVE BaseInv'
  OBVIOUS
<1> USE DEF mbDisk, mbBounds, BaseGoto, BaseFail
<1>0. DirFits /\ MuInv /\ \A j \in BaseJobs : Reached(j)
  BY DEF BaseInv
<1>1. ASSUME NEW j \in BaseJobs, EnterBase(j) PROVE BaseInv'
  <2>1. \A k \in BaseJobs : mbPc[k] \notin HoldsMu
    BY <1>0, <1>1, BaseConstants DEF EnterBase, MuInv
  <2>2. /\ mbPc' = [mbPc EXCEPT ![j] = "operation"] /\ mbMu' = j /\ mbHeld' = mbHeld
        /\ UNCHANGED <<mbDir, mbOp, mbRow, mbSecret, mbFresh>>
    BY <1>1 DEF EnterBase
  <2>3. MuInv' /\ DirFits'
    BY <1>0, <2>1, <2>2 DEF MuInv, DirFits
  <2>4. ASSUME NEW k \in BaseJobs PROVE Reached(k)'
    BY <1>0, <2>1, <2>2 DEF MuInv, Reached, HoldsMu
  <2>5. QED BY <2>3, <2>4 DEF BaseInv
<1>2. ASSUME NEW j \in BaseJobs, BaseStep(j), ~EnterBase(j) PROVE BaseInv'
  <2>1. mbPc[j] \in HoldsMu
    BY <1>2 DEF BaseStep, BaseOperation, ResolveBootstrap, ReserveBootstrap, InsertBootstrap,
       EnsureManagedBaseDir, InitManagedBase, PatchHBA, BaseReady, CloneBase, HoldsMu
  <2>2. QED BY <1>2, <2>1, HolderKeeps
<1>3. ASSUME NEW j \in BaseJobs, BaseStepFails(j) PROVE BaseInv'
  <2>1. /\ mbMu = j /\ mbPc' = [mbPc EXCEPT ![j] = "failed"] /\ mbHeld' = mbHeld
        /\ UNCHANGED <<mbOp, mbRow, mbSecret, mbFresh>>
        /\ \/ mbDir' = mbDir
           \/ mbPc[j] = "initdb" /\ mbDir' = [mbDir EXCEPT !.is = "partial"]
    BY <1>3 DEF BaseStepFails
  <2>2. \A k \in BaseJobs : mbPc'[k] \notin HoldsMu
    BY <1>0, <2>1 DEF MuInv, HoldsMu
  <2>3. MuInv'
    BY <1>0, <2>1, <2>2 DEF MuInv
  <2>4. DirFits'
    <3>1. CASE mbDir' = mbDir
      BY <1>0, <2>1, <3>1 DEF DirFits
    <3>2. CASE mbPc[j] = "initdb" /\ mbDir' = [mbDir EXCEPT !.is = "partial"]
      BY <1>0, <2>1, <3>2 DEF DirFits, Reached
    <3>3. QED BY <2>1, <3>1, <3>2
  <2>5. \A k \in BaseJobs : Reached(k)'
    BY <2>2 DEF Reached, HoldsMu
  <2>6. QED BY <2>3, <2>4, <2>5 DEF BaseInv
<1>4. CASE BaseRestart
  <2>1. /\ mbPc' = [j \in BaseJobs |-> "start"] /\ mbHeld' = [j \in BaseJobs |-> 0]
        /\ UNCHANGED <<mbDir, mbOp, mbRow, mbSecret, mbFresh>>
    BY <1>4 DEF BaseRestart
  <2>2. QED BY <1>0, <2>1 DEF BaseInv, MuInv, DirFits, Reached, HoldsMu
<1>5. CASE LoseBase
  <2>1. /\ UNCHANGED <<mbMu, mbPc, mbOp, mbRow, mbFresh, mbHeld>>
        /\ \/ mbDir' = NoDir /\ mbSecret' = mbSecret
           \/ mbSecret' = 0 /\ mbDir' = mbDir
    BY <1>5 DEF LoseBase
  <2>2. \A k \in BaseJobs : mbPc[k] \notin HoldsMu
    BY <1>0, <1>5, BaseConstants DEF LoseBase, MuInv
  <2>3. MuInv' /\ DirFits'
    BY <1>0, <2>1 DEF MuInv, DirFits, NoDir
  <2>4. \A k \in BaseJobs : Reached(k)'
    BY <2>1, <2>2 DEF Reached, HoldsMu
  <2>5. QED BY <2>3, <2>4 DEF BaseInv
<1>6. CASE UNCHANGED baseVars
  BY <1>0, <1>6 DEF baseVars, BaseInv, MuInv, DirFits, Reached
<1>7. QED
  BY <1>1, <1>2, <1>3, <1>4, <1>5, <1>6 DEF BaseNext

(* "Partial/unowned targets fail closed without destructive reset": once   *)
(* its initialisation was given up, an incomplete base is neither          *)
(* completed nor cleaned up (EnsureManagedBaseDir, InitManagedBase).       *)
THEOREM PartialBasesStay == Spec => PartialBaseKept
<1>1. [BaseNext]_baseVars =>
        [/\ mbDir.is \in {"empty", "partial", "initdb"}
         /\ \A j \in BaseJobs : mbPc[j] \notin {"initdb", "hba"}
         => mbDir' \in {mbDir, NoDir}]_baseVars
  <2> SUFFICES ASSUME BaseNext, mbDir.is \in {"empty", "partial", "initdb"},
                      \A j \in BaseJobs : mbPc[j] \notin {"initdb", "hba"}
               PROVE  mbDir' \in {mbDir, NoDir}
    OBVIOUS
  <2>1. ASSUME NEW j \in BaseJobs, BaseStep(j) PROVE mbDir' = mbDir
    BY <2>1 DEF BaseStep, EnterBase, BaseOperation, ResolveBootstrap, ReserveBootstrap,
       InsertBootstrap, EnsureManagedBaseDir, InitManagedBase, PatchHBA, BaseReady, CloneBase, mbDisk
  <2>2. ASSUME NEW j \in BaseJobs, BaseStepFails(j) PROVE mbDir' = mbDir
    BY <2>2 DEF BaseStepFails
  <2>3. BaseRestart \/ UNCHANGED baseVars => mbDir' = mbDir
    BY DEF BaseRestart, mbDisk, baseVars
  <2>4. LoseBase => mbDir' \in {mbDir, NoDir}
    BY DEF LoseBase
  <2>5. QED BY <2>1, <2>2, <2>3, <2>4 DEF BaseNext
<1>2. QED BY <1>1, LiveStep, PTL DEF Spec, PartialBaseKept

-----------------------------------------------------------------------------
(* BaseDir.  Before the marker is written the lock file keeps all but one  *)
(* job outside; afterwards jobs may hold the lock together, because one of *)
(* them has removed it, but none of them finds anything left to do.  Files *)
(* of an unfinished initdb are there only while it runs or after a kill.   *)
Inside == {"inspect", "init", "initdb", "mark", "unlock", "abort"}

LockFileInv ==
  ~bdMarker => \A j \in DirJobs : bdPc[j] \in Inside =>
                 bdLock /\ \A k \in DirJobs : bdPc[k] \in Inside => k = j

DirFilesInv ==
  /\ bdMarker => \A j \in DirJobs : bdPc[j] \notin {"init", "initdb"}
  /\ MarkedBaseWhole
  /\ \A j \in DirJobs : bdPc[j] = "mark" /\ ~bdTorn => bdFiles = "whole"
  /\ ~bdTorn /\ bdFiles = "torn" => \E j \in DirJobs : bdPc[j] = "initdb"

DirInv == bdPc = [j \in DirJobs |-> bdPc[j]] /\ LockFileInv /\ DirFilesInv

(* All jobs are outside, and there is no marker.                           *)
LEMMA DirInvInit == DirInit => DirInv
BY DEF DirInit, DirInv, LockFileInv, DirFilesInv, Inside, MarkedBaseWhole

(* Only one job is inside while there is no marker.                        *)
LEMMA AloneInside ==
  ASSUME DirInv, NEW j \in DirJobs, bdPc[j] \in Inside, ~bdMarker,
         NEW k \in DirJobs, k # j
  PROVE  bdPc[k] \notin Inside
BY DEF DirInv, LockFileInv

(* The files a marked base may have, and what the others do, after a step  *)
(* of one job that is inside and leaves the marker and the lock alone.     *)
LEMMA InsideStep ==
  ASSUME DirInv, NEW j \in DirJobs, bdPc[j] \in Inside, ~bdMarker,
         NEW l, bdPc' = [bdPc EXCEPT ![j] = l],
         UNCHANGED <<bdMarker, bdLock>>, bdTorn => bdTorn',
         l = "mark" /\ ~bdTorn' => bdFiles' = "whole",
         bdFiles' = "torn" /\ ~bdTorn' => l = "initdb"
  PROVE  DirInv'
<1>1. \A k \in DirJobs : k # j => bdPc[k] \notin Inside /\ bdPc'[k] = bdPc[k]
  BY AloneInside DEF DirInv
<1>2. bdPc' = [k \in DirJobs |-> bdPc'[k]] /\ bdPc'[j] = l
  BY DEF DirInv
<1>3. LockFileInv'
  BY <1>1, <1>2 DEF DirInv, LockFileInv
<1>4. DirFilesInv'
  <2>1. ~bdMarker'
    OBVIOUS
  <2>2. ASSUME NEW k \in DirJobs, bdPc'[k] = "mark", ~bdTorn' PROVE bdFiles' = "whole"
    BY <1>1, <1>2, <2>2 DEF Inside
  <2>3. ASSUME ~bdTorn', bdFiles' = "torn" PROVE \E k \in DirJobs : bdPc'[k] = "initdb"
    BY <1>2, <2>3
  <2>4. QED BY <2>1, <2>2, <2>3 DEF DirFilesInv, MarkedBaseWhole
<1>5. QED BY <1>2, <1>3, <1>4 DEF DirInv

(* Every action of a job, of the daemon and of the engine.                 *)
LEMMA DirInvStep == DirInv /\ [DirNext]_dirVars => DirInv'
<1> SUFFICES ASSUME DirInv, [DirNext]_dirVars PROVE DirInv'
  OBVIOUS
<1> USE DEF bdDisk, DirGo
<1>0. bdPc = [j \in DirJobs |-> bdPc[j]] /\ LockFileInv /\ DirFilesInv
  BY DEF DirInv
<1>1. ASSUME NEW j \in DirJobs, initMarkerExists(j) \/ StartFromBase(j) \/ DirCancelled(j)
      PROVE  DirInv'
  <2>1. UNCHANGED <<bdFiles, bdMarker, bdLock, bdTorn>>
    BY <1>1 DEF initMarkerExists, StartFromBase, DirCancelled
  <2>2. /\ bdPc[j] \notin Inside
        /\ \E l \in {"clone", "mkdir", "done", "broken", "failed"} : bdPc' = [bdPc EXCEPT ![j] = l]
    BY <1>1 DEF initMarkerExists, StartFromBase, DirCancelled, Inside
  <2>3. QED BY <1>0, <2>1, <2>2 DEF DirInv, LockFileInv, DirFilesInv, MarkedBaseWhole, Inside
<1>2. ASSUME NEW j \in DirJobs, ensureBaseDir(j) PROVE DirInv'
  <2>1. /\ UNCHANGED <<bdMarker, bdLock, bdTorn>> /\ bdPc[j] = "mkdir"
        /\ bdPc' = [bdPc EXCEPT ![j] = "lock"]
        /\ bdFiles' = bdFiles \/ (bdFiles = "none" /\ bdFiles' = "empty")
    BY <1>2 DEF ensureBaseDir
  <2>2. QED BY <1>0, <2>1 DEF DirInv, LockFileInv, DirFilesInv, MarkedBaseWhole, Inside
<1>3. ASSUME NEW j \in DirJobs, TakeInitLock(j) PROVE DirInv'
  <2>1. /\ UNCHANGED <<bdFiles, bdMarker, bdTorn>> /\ bdPc[j] = "lock"
        /\ \/ ~bdLock /\ bdLock' /\ bdPc' = [bdPc EXCEPT ![j] = "inspect"]
           \/ bdMarker /\ bdPc' = [bdPc EXCEPT ![j] = "clone"]
    BY <1>3 DEF TakeInitLock
  <2>2. LockFileInv'
    BY <1>0, <2>1 DEF LockFileInv, Inside
  <2>3. DirFilesInv'
    BY <1>0, <2>1 DEF DirFilesInv, MarkedBaseWhole
  <2>4. QED BY <1>0, <2>1, <2>2, <2>3 DEF DirInv
<1>4. ASSUME NEW j \in DirJobs, InspectBase(j) PROVE DirInv'
  <2>1. UNCHANGED <<bdMarker, bdLock, bdTorn>> /\ bdPc[j] = "inspect" /\ bdPc[j] \in Inside
    BY <1>4 DEF InspectBase, Inside
  <2>2. CASE bdMarker
    <3>1. bdFiles' = bdFiles /\ bdPc' = [bdPc EXCEPT ![j] = "unlock"]
      BY <1>4, <2>2 DEF InspectBase
    <3>2. QED BY <1>0, <2>1, <2>2, <3>1 DEF DirInv, LockFileInv, DirFilesInv, MarkedBaseWhole
  <2>3. CASE ~bdMarker
    <3>1. ~bdTorn => bdFiles # "torn"
      <4>1. \A k \in DirJobs : bdPc[k] = "initdb" => k = j
        BY <2>1, <2>3, AloneInside DEF Inside
      <4>2. QED BY <1>0, <2>1, <4>1 DEF DirFilesInv
    <3>2. \/ /\ bdFiles \in {"torn", "whole"} /\ bdFiles' = bdFiles
             /\ bdPc' = [bdPc EXCEPT ![j] = "mark"]
          \/ bdFiles' = "empty" /\ bdPc' = [bdPc EXCEPT ![j] = "init"]
          \/ bdFiles' = bdFiles /\ bdPc' = [bdPc EXCEPT ![j] = "abort"]
      BY <1>4, <2>3 DEF InspectBase, hasPGVersion, resetBaseDirContents
    <3>3. QED BY <2>1, <2>3, <3>1, <3>2, InsideStep
  <2>4. QED BY <2>2, <2>3
<1>5. ASSUME NEW j \in DirJobs, bdPc[j] \in {"init", "initdb"}
      PROVE  ~bdMarker /\ bdPc[j] \in Inside
  BY <1>0, <1>5 DEF DirFilesInv, Inside
<1>6. ASSUME NEW j \in DirJobs, StartInitdb(j) \/ FinishInitdb(j) \/ InitBaseFails(j)
      PROVE  DirInv'
  <2>1. /\ UNCHANGED <<bdMarker, bdLock, bdTorn>> /\ bdPc[j] \in {"init", "initdb"}
        /\ \/ bdFiles' = "torn" /\ bdPc' = [bdPc EXCEPT ![j] = "initdb"]
           \/ bdFiles' = "whole" /\ \E l \in {"mark", "abort"} : bdPc' = [bdPc EXCEPT ![j] = l]
           \/ bdFiles' = "empty" /\ bdPc' = [bdPc EXCEPT ![j] = "abort"]
    BY <1>6 DEF StartInitdb, FinishInitdb, InitBaseFails
  <2>2. QED BY <1>5, <2>1, InsideStep
<1>7. ASSUME NEW j \in DirJobs, writeInitMarker(j) PROVE DirInv'
  <2>1. UNCHANGED <<bdFiles, bdLock, bdTorn>> /\ bdPc[j] = "mark" /\ bdPc[j] \in Inside
    BY <1>7 DEF writeInitMarker, Inside
  <2>2. CASE bdMarker'
    <3>1. \E l \in {"unlock", "abort"} : bdPc' = [bdPc EXCEPT ![j] = l]
      BY <1>7 DEF writeInitMarker
    <3>2. LockFileInv'
      BY <2>2 DEF LockFileInv
    <3>3. \A k \in DirJobs : bdPc[k] \notin {"init", "initdb"}
      <4>1. CASE bdMarker
        BY <1>0, <4>1 DEF DirFilesInv
      <4>2. CASE ~bdMarker
        BY <2>1, <4>2, AloneInside DEF Inside
      <4>3. QED BY <4>1, <4>2
    <3>4. DirFilesInv'
      BY <1>0, <2>1, <3>1, <3>3 DEF DirFilesInv, MarkedBaseWhole
    <3>5. QED BY <1>0, <3>1, <3>2, <3>4 DEF DirInv
  <2>3. CASE ~bdMarker'
    <3>1. bdMarker' = bdMarker /\ bdPc' = [bdPc EXCEPT ![j] = "abort"]
      BY <1>7, <2>3 DEF writeInitMarker
    <3>2. LockFileInv'
      BY <1>0, <2>1, <3>1 DEF LockFileInv, Inside
    <3>3. DirFilesInv'
      BY <1>0, <2>1, <3>1 DEF DirFilesInv, MarkedBaseWhole
    <3>4. QED BY <1>0, <3>1, <3>2, <3>3 DEF DirInv
  <2>4. QED BY <2>2, <2>3
<1>8. ASSUME NEW j \in DirJobs, ReleaseInitLock(j) PROVE DirInv'
  <2>1. /\ UNCHANGED <<bdFiles, bdMarker, bdTorn>> /\ bdPc[j] \in {"unlock", "abort"}
        /\ bdPc[j] \in Inside
        /\ \E l \in {"clone", "failed"} : bdPc' = [bdPc EXCEPT ![j] = l]
    BY <1>8 DEF ReleaseInitLock, Inside
  <2>2. LockFileInv'
    <3>1. ASSUME ~bdMarker, NEW k \in DirJobs PROVE bdPc'[k] \notin Inside
      BY <1>0, <2>1, <3>1, AloneInside DEF Inside
    <3>2. QED BY <2>1, <3>1 DEF LockFileInv
  <2>3. DirFilesInv'
    BY <1>0, <2>1 DEF DirFilesInv, MarkedBaseWhole
  <2>4. QED BY <1>0, <2>1, <2>2, <2>3 DEF DirInv
<1>9. ASSUME NEW j \in DirJobs, KillInitdb(j) PROVE DirInv'
  <2>1. /\ UNCHANGED <<bdFiles, bdMarker, bdLock>> /\ bdTorn' /\ bdPc[j] = "initdb"
        /\ \E l \in {"mark", "abort"} : bdPc' = [bdPc EXCEPT ![j] = l]
    BY <1>9 DEF KillInitdb
  <2>2. QED BY <1>5, <2>1, InsideStep
<1>10. CASE StopEngineInBase
  <2>1. /\ UNCHANGED <<bdFiles, bdMarker, bdLock>> /\ bdPc' = [j \in DirJobs |-> "check"]
        /\ bdTorn \/ (\E j \in DirJobs : bdPc[j] = "initdb") => bdTorn'
    BY <1>10 DEF StopEngineInBase
  <2>2. QED BY <1>0, <2>1 DEF DirInv, LockFileInv, DirFilesInv, MarkedBaseWhole, Inside
<1>11. CASE UNCHANGED dirVars
  BY <1>0, <1>11 DEF dirVars, DirInv, LockFileInv, DirFilesInv, MarkedBaseWhole
<1>12. QED
  BY <1>1, <1>2, <1>3, <1>4, <1>6, <1>7, <1>8, <1>9, <1>10, <1>11 DEF DirNext, DirStep

(* A set with no two different elements has at most one.                   *)
LEMMA AtMostOne ==
  ASSUME NEW S, \A x, y \in S : x = y
  PROVE  Cardinality(S) <= 1
<1>1. CASE S = {}
  BY <1>1, FS_EmptySet
<1>2. CASE S # {}
  <2>1. PICK x \in S : S = {x}
    BY <1>2
  <2>2. Cardinality(S) = 1
    BY <2>1, FS_Singleton
  <2>3. QED BY <2>2
<1>3. QED BY <1>1, <1>2

-----------------------------------------------------------------------------
(* What the run calls BasesSafe: a managed base that a job clones is whole *)
(* and has the password of its secret (startManagedRuntime, Bootstrap);    *)
(* one job at a time runs initdb in an unmanaged one, and a marked one is  *)
(* whole unless an initdb was killed (withInitLock, ensureBaseState).  For *)
(* any number of jobs, restarts, kills, lost directories and secrets.      *)
THEOREM BasesAreSafe == Spec => []BasesSafe
<1>1. BaseInv => ClonedBaseFits
  BY DEF BaseInv, DirFits, Reached, ClonedBaseFits
<1>2. DirInv => OneInitdb /\ MarkedBaseWhole
  <2> SUFFICES ASSUME DirInv PROVE OneInitdb /\ MarkedBaseWhole
    OBVIOUS
  <2>1. \A j, k \in DirJobs : bdPc[j] \in {"init", "initdb"} /\ bdPc[k] \in {"init", "initdb"} => j = k
    BY DEF DirInv, DirFilesInv, LockFileInv, Inside
  <2>2. OneInitdb
    BY <2>1, AtMostOne DEF OneInitdb
  <2>3. QED BY <2>2 DEF DirInv, DirFilesInv
<1>3. BaseInv /\ DirInv => BasesSafe
  BY <1>1, <1>2 DEF BasesSafe
<1>4. QED
  BY <1>3, LiveInit, LiveStep, BaseInvInit, BaseInvStep, DirInvInit, DirInvStep, PTL DEF Spec

-----------------------------------------------------------------------------
(* What the run calls ServiceSafe: an engine that serves is in engine.json *)
(* (EngineStart), the watching CLI shows every event once, returns how the *)
(* job ended and stops it only when told to (WatchControl), and an upload  *)
(* never mixes two versions of a file (RemoteSource).                      *)
THEOREM ServicesAreSafe == Spec => []ServiceSafe
<1>1. StartInv => ServingDiscoverable
  BY DEF StartInv, ServingDiscoverable, OwnsStore
<1>2. WatchInv => WatchSafe
  <2>1. ASSUME WatchInv PROVE ShownOnce
    <3>1. watch.shown = UpTo(watch.resume) /\ watch.resume \in Nat
      BY <2>1, WatchFacts DEF WatchInv
    <3>2. Len(watch.shown) = watch.resume
      BY <3>1 DEF UpTo
    <3>3. QED BY <3>1, <3>2 DEF ShownOnce, UpTo
  <2>2. QED BY <2>1 DEF WatchInv, WatchSafe, StopConfirmed
<1>3. SyncInv => SyncTruthful
  BY DEF SyncInv
<1>4. StartInv /\ WatchInv /\ SyncInv => ServiceSafe
  BY <1>1, <1>2, <1>3 DEF ServiceSafe
<1>5. QED
  BY <1>4, LiveInit, LiveStep, StartInvInit, StartInvStep, WatchInvInit, WatchInvStep,
     SyncInvInit, SyncInvStep, PTL DEF Spec

-----------------------------------------------------------------------------
(* Eviction: the figures.                                                  *)

(* Max and Min of two numbers is one of them.                              *)
LEMMA PairMaxMin ==
  ASSUME NEW a \in Int, NEW b \in Int
  PROVE  Max({a, b}) \in {a, b} /\ Min({a, b}) \in {a, b}
<1>1. \E x \in {a, b} : \A y \in {a, b} : x >= y
  OBVIOUS
<1>2. \E x \in {a, b} : \A y \in {a, b} : x <= y
  OBVIOUS
<1>3. QED BY <1>1, <1>2 DEF Max, Min

(* Settings are not valid, or numbers with the low watermark below the     *)
(* high one (loadCapacitySettings).                                        *)
LEMMA SettingsTyped ==
  ASSUME evConfig \in EvictConfigs, EvictSettings.valid
  PROVE  /\ EvictSettings.max \in Int /\ EvictSettings.reserve \in Int
         /\ EvictSettings.high \in Int /\ EvictSettings.low \in Int
         /\ 0 < EvictSettings.low /\ EvictSettings.low < EvictSettings.high
<1> DEFINE c == evConfig
           reserve == IF c.reserve = -1 THEN defaultReserveBytes(EvictTotal) ELSE c.reserve
           fromStore == Positive(Positive(EvictTotal) - reserve)
           max == IF c.max > 0 THEN Min({c.max, fromStore}) ELSE fromStore
           bad == \/ c.max < 0 \/ c.reserve < -1
                  \/ c.high <= 0 \/ c.high > 100
                  \/ c.low <= 0 \/ c.low >= c.high
<1>1. c.max \in Int /\ c.reserve \in Int /\ c.high \in Int /\ c.low \in Int
  BY EvictAssumption
<1>2. \A n \in Int : Positive(n) \in Int
  BY PairMaxMin DEF Positive
<1>3. defaultReserveBytes(EvictTotal) \in Int
  <2>1. EvictTotal \div 10 \in Int /\ MinReserve \in Int
    BY EvictAssumption
  <2>2. QED BY <2>1, PairMaxMin DEF defaultReserveBytes
<1>4. reserve \in Int
  BY <1>1, <1>3
<1>5. fromStore \in Int
  <2>1. Positive(EvictTotal) \in Int
    BY <1>2, EvictAssumption
  <2>2. QED
    <3> HIDE DEF reserve
    <3>1. Positive(EvictTotal) - reserve \in Int
      BY <1>4, <2>1
    <3>2. QED BY <1>2, <3>1
<1>6. max \in Int
  <2> HIDE DEF fromStore
  <2>1. QED BY <1>1, <1>5, PairMaxMin
<1>7. EvictSettings = IF bad THEN NoSettings
                      ELSE [valid |-> TRUE, reserve |-> reserve, high |-> c.high, low |-> c.low, max |-> max]
  BY DEF EvictSettings, loadCapacitySettings
<1>8. ~bad
  BY <1>7 DEF NoSettings
<1>9. EvictSettings = [valid |-> TRUE, reserve |-> reserve, high |-> c.high, low |-> c.low, max |-> max]
  BY <1>7, <1>8
<1>10. QED
  <2> HIDE DEF reserve, max
  <2>1. QED BY <1>1, <1>4, <1>6, <1>8, <1>9

(* What the measurements are.                                              *)
EvictTyped ==
  /\ evConfig \in EvictConfigs /\ evEntry \in EvictEntries
  /\ evRows \subseteq EvictStates /\ evDirs \subseteq EvictStates

(* The figures of the cache are numbers; usage shrinks with a directory.   *)
LEMMA UsageTyped ==
  ASSUME EvictTyped
  PROVE  /\ measureCacheUsage(evDirs) \in Int /\ filesystemFree(evDirs) \in Int
         /\ \A x : measureCacheUsage(evDirs \ {x}) \in Int /\ filesystemFree(evDirs \ {x}) \in Int
         /\ \A x : measureCacheUsage(evDirs \ {x}) <= measureCacheUsage(evDirs)
<1>1. \A dirs \in SUBSET EvictStates :
        bytesOf(evEntry, dirs) \in Nat /\ \A x \in dirs : bytesOf(evEntry, dirs \ {x}) <= bytesOf(evEntry, dirs)
  BY EvictAssumption DEF EvictTyped
<1>2. bytesOf(evEntry, evDirs) \in Nat
  BY <1>1 DEF EvictTyped
<1>3. ASSUME NEW x PROVE bytesOf(evEntry, evDirs \ {x}) \in Nat /\ bytesOf(evEntry, evDirs \ {x}) <= bytesOf(evEntry, evDirs)
  <2>1. CASE x \in evDirs
    BY <1>1, <2>1 DEF EvictTyped
  <2>2. CASE x \notin evDirs
    <3>1. evDirs \ {x} = evDirs
      BY <2>2
    <3>2. QED BY <1>2, <3>1
  <2>3. QED BY <2>1, <2>2
<1>4. EvictTotal \in Int /\ EvictOther \in Int
  BY EvictAssumption
<1>5. measureCacheUsage(evDirs) \in Int /\ filesystemFree(evDirs) \in Int
  BY <1>2, <1>4 DEF measureCacheUsage, filesystemFree
<1>6. ASSUME NEW x
      PROVE  /\ measureCacheUsage(evDirs \ {x}) \in Int /\ filesystemFree(evDirs \ {x}) \in Int
             /\ measureCacheUsage(evDirs \ {x}) <= measureCacheUsage(evDirs)
  <2> DEFINE b == bytesOf(evEntry, evDirs \ {x})
             a == bytesOf(evEntry, evDirs)
  <2>1. a \in Nat /\ b \in Nat /\ b <= a
    BY <1>2, <1>3
  <2>2. /\ measureCacheUsage(evDirs \ {x}) = b /\ filesystemFree(evDirs \ {x}) = EvictTotal - EvictOther - b
        /\ measureCacheUsage(evDirs) = a
    BY DEF measureCacheUsage, filesystemFree
  <2>3. QED
    <3> HIDE DEF a, b
    <3>1. QED BY <1>4, <2>1, <2>2
<1>7. QED BY <1>5, <1>6

(* Without the files of a state the pressure is not higher, and the relief *)
(* not lower.                                                              *)
LEMMA ReliefGrows ==
  ASSUME EvictTyped, EvictSettings.valid, NEW x, evDirs' = evDirs \ {x},
         evConfig' = evConfig, evEntry' = evEntry
  PROVE  (RealRelief => RealRelief') /\ (~RealPressure => ~RealPressure')
<1> DEFINE u == measureCacheUsage(evDirs)
           v == measureCacheUsage(evDirs \ {x})
           h == (EvictSettings.max * EvictSettings.high) \div 100
           l == (EvictSettings.max * EvictSettings.low) \div 100
           r == EvictSettings.reserve
           t == EvictTotal - EvictOther
<1>1. u \in Int /\ v \in Int /\ v <= u
  BY UsageTyped
<1>2. h \in Int /\ l \in Int /\ r \in Int
  BY SettingsTyped DEF EvictTyped
<1>3. t \in Int
  BY EvictAssumption
<1>4. /\ RealRelief <=> (u <= l /\ t - u >= r)
      /\ RealPressure <=> (u > h \/ t - u < r)
      /\ RealRelief' <=> (v <= l /\ t - v >= r)
      /\ RealPressure' <=> (v > h \/ t - v < r)
  BY DEF RealRelief, RealPressure, Relieved, isCapacityPressure, filesystemFree, measureCacheUsage, EvictSettings
<1>5. QED
  <2> HIDE DEF u, v, h, l, r, t
  <2>1. QED BY <1>1, <1>2, <1>3, <1>4

(* What stops a pass is no pressure for the next one.                      *)
LEMMA ReliefIsEnough ==
  ASSUME EvictTyped, EvictSettings.valid, EvictSettings.max > 0, RealRelief
  PROVE  ~RealPressure
<1> DEFINE m == EvictSettings.max
           u == measureCacheUsage(evDirs)
           h == (m * EvictSettings.high) \div 100
           l == (m * EvictSettings.low) \div 100
<1>1. u \in Int /\ h \in Int /\ l \in Int
  BY UsageTyped, SettingsTyped DEF EvictTyped
<1>2. m * EvictSettings.low <= m * EvictSettings.high
  BY SettingsTyped DEF EvictTyped
<1>3. l <= h
  BY <1>2, SettingsTyped DEF EvictTyped
<1>4. u <= l /\ filesystemFree(evDirs) >= EvictSettings.reserve
  BY DEF RealRelief, Relieved
<1>5. filesystemFree(evDirs) \in Int /\ EvictSettings.reserve \in Int
  BY UsageTyped, SettingsTyped DEF EvictTyped
<1>6. RealPressure <=> (u > h \/ filesystemFree(evDirs) < EvictSettings.reserve)
  BY DEF RealPressure, isCapacityPressure
<1>7. QED
  <2> HIDE DEF u, h, l
  <2>1. QED BY <1>1, <1>3, <1>4, <1>5, <1>6

-----------------------------------------------------------------------------
(* Eviction: the passes.                                                   *)

(* Setting two figures of a job.                                           *)
Figures == {"usage", "free", "blocked", "reclaimable"}
SeenTable(s) == DOMAIN s = EvictJobs /\ \A j \in EvictJobs : DOMAIN s[j] = Figures

(* The figures of a job after they are set.                                *)
LEMMA SeenSet ==
  ASSUME NEW s, SeenTable(s), NEW j \in EvictJobs, NEW a, NEW b
  PROVE  /\ SeenTable([s EXCEPT ![j].usage = a, ![j].free = b])
         /\ SeenTable([s EXCEPT ![j].blocked = a, ![j].reclaimable = b])
         /\ [s EXCEPT ![j].usage = a, ![j].free = b][j].usage = a
         /\ [s EXCEPT ![j].usage = a, ![j].free = b][j].free = b
BY DEF SeenTable, Figures

(* The tables have an entry for every job.                                 *)
EvictTables ==
  /\ evPc = [j \in EvictJobs |-> evPc[j]] /\ evResult = [j \in EvictJobs |-> evResult[j]]
  /\ evPlan = [j \in EvictJobs |-> evPlan[j]] /\ evExcess = [j \in EvictJobs |-> evExcess[j]]
  /\ SeenTable(evSeen)

(* A candidate is not exempt and has no child, as long as it is listed.    *)
Candidates == {x \in EvictStates : ~evEntry[x].exempt /\ \A y \in evRows : EvictParent[y] # x}

(* Who has evicted one state too many has stopped, or is about to: it      *)
(* measures what it has freed before it looks at the next candidate.       *)
Enough(j) ==
  /\ evExcess[j] = 1 /\ RealRelief
  /\ EvictSettings.valid /\ EvictSettings.max > 0
  /\ evPc[j] \notin {"lock", "stat", "unlink", "list"}
  /\ evPc[j] = "evict" => Relieved(evSeen[j].usage, evSeen[j].free, EvictSettings)

EvictJobInv(j) ==
  /\ evPlan[j] \subseteq Candidates
  /\ evPc[j] \notin {"measure", "done"} => EvictSettings.valid /\ EvictSettings.max > 0
  /\ evResult[j] = "ok" => EvictSettings.valid /\ ~RealPressure
  /\ evKept = {} => evExcess[j] = 0 \/ Enough(j)

EvictInv == EvictTyped /\ EvictTables /\ EvictionSpares /\ \A j \in EvictJobs : EvictJobInv(j)

(* All states are there, and no pass is at work.                           *)
LEMMA EvictInvInit == EvictInit => EvictInv
<1> SUFFICES ASSUME EvictInit PROVE EvictInv
  OBVIOUS
<1>1. EvictTyped /\ EvictTables
  BY DEF EvictInit, EvictTyped, EvictTables, SeenTable, Figures, NothingSeen
<1>2. EvictionSpares
  BY EvictAssumption DEF EvictInit, EvictionSpares
<1>3. \A j \in EvictJobs : EvictJobInv(j)
  BY DEF EvictInit, EvictJobInv
<1>4. QED BY <1>1, <1>2, <1>3 DEF EvictInv

(* What every step does to the store: rows and directories only go.        *)
Shrinks ==
  /\ evConfig' = evConfig /\ evEntry' = evEntry
  /\ evRows' \subseteq evRows
  /\ \/ evDirs' = evDirs
     \/ EvictSettings.valid /\ \E x : evDirs' = evDirs \ {x}
  /\ evKept \subseteq evKept'

(* Then relief and the absence of pressure stay.                           *)
LEMMA ShrinksRelieves ==
  ASSUME EvictTyped, Shrinks
  PROVE  /\ EvictTyped' /\ EvictSettings' = EvictSettings /\ Candidates \subseteq Candidates'
         /\ (RealRelief => RealRelief') /\ (~RealPressure => ~RealPressure')
<1>1. EvictSettings' = EvictSettings
  BY DEF Shrinks, EvictSettings
<1>2. EvictTyped' /\ Candidates \subseteq Candidates'
  BY DEF Shrinks, EvictTyped, Candidates
<1>3. CASE evDirs' = evDirs
  <2>1. evDirs' = evDirs /\ evEntry' = evEntry /\ evConfig' = evConfig
    BY <1>3 DEF Shrinks
  <2>2. QED
    BY <1>1, <1>2, <2>1 DEF RealRelief, RealPressure, measureCacheUsage, filesystemFree
<1>4. ASSUME NEW x, EvictSettings.valid, evDirs' = evDirs \ {x}
      PROVE  (RealRelief => RealRelief') /\ (~RealPressure => ~RealPressure')
  BY <1>4, ReliefGrows DEF Shrinks
<1>5. QED BY <1>1, <1>2, <1>3, <1>4 DEF Shrinks

(* A job that does not move keeps its part of the invariant.               *)
LEMMA OthersKeep ==
  ASSUME EvictTyped, Shrinks, NEW k, EvictJobInv(k),
         evPc'[k] = evPc[k], evPlan'[k] = evPlan[k], evResult'[k] = evResult[k],
         evExcess'[k] = evExcess[k], evSeen'[k] = evSeen[k]
  PROVE  EvictJobInv(k)'
<1>1. /\ EvictSettings' = EvictSettings /\ Candidates \subseteq Candidates'
      /\ (RealRelief => RealRelief') /\ (~RealPressure => ~RealPressure')
  BY ShrinksRelieves
<1>2. evKept' = {} => evKept = {}
  BY DEF Shrinks
<1>3. Enough(k) => Enough(k)'
  BY <1>1 DEF Enough, Relieved
<1>4. QED BY <1>1, <1>2, <1>3 DEF EvictJobInv

(* What a step of one job does not touch keeps its invariant.              *)
LEMMA OneMoves ==
  ASSUME EvictInv, Shrinks, EvictTables', EvictionSpares', NEW j \in EvictJobs,
         \A k \in EvictJobs \ {j} :
            /\ evPc'[k] = evPc[k] /\ evPlan'[k] = evPlan[k] /\ evResult'[k] = evResult[k]
            /\ evExcess'[k] = evExcess[k] /\ evSeen'[k] = evSeen[k],
         EvictJobInv(j)'
  PROVE  EvictInv'
<1>1. EvictTyped'
  BY ShrinksRelieves DEF EvictInv
<1>2. \A k \in EvictJobs : EvictJobInv(k)'
  <2>1. ASSUME NEW k \in EvictJobs, k # j PROVE EvictJobInv(k)'
    BY <2>1, OthersKeep DEF EvictInv
  <2>2. QED BY <2>1
<1>3. QED BY <1>1, <1>2 DEF EvictInv

(* A step of a job that changes neither rows nor files.                    *)
Quiet(j) ==
  /\ UNCHANGED <<evStore, evKept>>
  /\ \A k \in EvictJobs \ {j} :
        evPc'[k] = evPc[k] /\ evPlan'[k] = evPlan[k] /\ evResult'[k] = evResult[k] /\ evSeen'[k] = evSeen[k]

(* Such a step keeps the invariant if it keeps that of the job.            *)
LEMMA QuietMoves ==
  ASSUME EvictInv, NEW j \in EvictJobs, Quiet(j), EvictTables', EvictJobInv(j)'
  PROVE  EvictInv'
<1>1. Shrinks
  BY DEF Quiet, evStore, Shrinks
<1>2. EvictionSpares'
  BY DEF EvictInv, EvictionSpares, Quiet, evStore
<1>3. QED BY <1>1, <1>2, OneMoves DEF Quiet, evStore

(* The figures of a quiet step are those of before.                        *)
LEMMA QuietFigures ==
  ASSUME NEW j, Quiet(j)
  PROVE  /\ EvictSettings' = EvictSettings /\ Candidates' = Candidates
         /\ RealPressure' <=> RealPressure
         /\ RealRelief' <=> RealRelief
         /\ evExcess' = evExcess /\ evKept' = evKept
BY DEF Quiet, evStore, EvictSettings, Candidates, RealPressure, RealRelief, measureCacheUsage, filesystemFree

(* Returning, with a result that is "ok" only without pressure.            *)
LEMMA ReturnMoves ==
  ASSUME EvictInv, NEW j \in EvictJobs, NEW r, EvictReturns(j, r), UNCHANGED <<evStore, evKept>>,
         r = "ok" => EvictSettings.valid /\ ~RealPressure
  PROVE  EvictInv'
<1>1. Quiet(j)
  BY DEF EvictInv, EvictTables, SeenTable, EvictReturns, Quiet
<1>2. EvictTables'
  BY DEF EvictInv, EvictTables, EvictReturns, evStore, SeenTable, Figures, NothingSeen
<1>3. evPc'[j] = "done" /\ evResult'[j] = r /\ evPlan'[j] = {}
  BY DEF EvictInv, EvictTables, EvictReturns
<1>4. EvictJobInv(j)'
  BY <1>1, <1>3, QuietFigures DEF EvictInv, EvictJobInv, Enough
<1>5. QED BY <1>1, <1>2, <1>4, QuietMoves

(* Going on, with figures, candidates and result as they are: a job with   *)
(* one state too many does not go back to the lock, and does not look at   *)
(* the next candidate before it has measured.                              *)
LEMMA GoMoves ==
  ASSUME EvictInv, NEW j \in EvictJobs, NEW l, EvictGoes(j, l), UNCHANGED <<evStore, evKept, evSeen, evPlan>>,
         evPc[j] \notin {"measure", "done", "evict"}, l # "evict",
         l \in {"lock", "stat", "unlink", "list"} => evPc[j] \in {"lock", "stat", "unlink"}
  PROVE  EvictInv'
<1>1. Quiet(j)
  BY DEF EvictInv, EvictTables, EvictGoes, Quiet
<1>2. EvictTables'
  BY DEF EvictInv, EvictTables, EvictGoes, evStore
<1>3. evPc'[j] = l /\ evResult'[j] = evResult[j] /\ evPlan'[j] = evPlan[j]
  BY DEF EvictInv, EvictTables, EvictGoes
<1>4. EvictJobInv(j)'
  BY <1>1, <1>3, QuietFigures DEF EvictInv, EvictJobInv, Enough
<1>5. QED BY <1>1, <1>2, <1>4, QuietMoves

(* Who measures pressure has evicted nothing too many.                     *)
LEMMA MeasureMoves ==
  ASSUME EvictInv, NEW j \in EvictJobs, EvictMeasure(j)
  PROVE  EvictInv'
<1>1. CASE EvictReturns(j, "unavailable") \/ EvictReturns(j, "too_small")
  BY <1>1, ReturnMoves DEF EvictMeasure
<1>2. CASE EvictSettings.valid /\ ~RealPressure /\ EvictReturns(j, "ok")
  BY <1>2, ReturnMoves DEF EvictMeasure
<1>3. CASE /\ EvictSettings.valid /\ ~(EvictSettings.max <= 0) /\ RealPressure
           /\ EvictGoes(j, "lock") /\ evSeen' = evMeasured(j) /\ UNCHANGED evPlan
  <2>1. UNCHANGED <<evStore, evKept>> /\ EvictSettings.max > 0
    BY <1>3, SettingsTyped DEF EvictMeasure, EvictInv, EvictTyped
  <2>2. Quiet(j)
    BY <1>3, <2>1 DEF EvictInv, EvictTables, EvictGoes, Quiet, SeenTable, evMeasured
  <2>3. EvictTables'
    BY <1>3, <2>1, SeenSet DEF EvictInv, EvictTables, EvictGoes, evStore, evMeasured
  <2>4. evPc'[j] = "lock" /\ evResult'[j] = evResult[j] /\ evPlan'[j] = evPlan[j]
    BY <1>3 DEF EvictInv, EvictTables, EvictGoes
  <2>5. ~Enough(j)
    BY <1>3, ReliefIsEnough DEF Enough, EvictInv
  <2>6. EvictJobInv(j)'
    BY <1>3, <2>1, <2>2, <2>4, <2>5, QuietFigures DEF EvictInv, EvictJobInv
  <2>7. QED BY <2>2, <2>3, <2>6, QuietMoves
<1>4. QED BY <1>1, <1>2, <1>3 DEF EvictMeasure

(* What is listed may be evicted.                                          *)
LEMMA ListMoves ==
  ASSUME EvictInv, NEW j \in EvictJobs, listEvictionCandidates(j)
  PROVE  EvictInv'
<1>1. /\ evPc[j] = "list" /\ EvictGoes(j, "evict") /\ UNCHANGED <<evStore, evKept>>
      /\ evPlan' = [evPlan EXCEPT ![j] = Evictable(evRows)]
  BY DEF listEvictionCandidates
<1>2. \E b, r : evSeen' = [evSeen EXCEPT ![j].blocked = b, ![j].reclaimable = r]
  BY DEF listEvictionCandidates
<1>3. Quiet(j)
  BY <1>1, <1>2 DEF EvictInv, EvictTables, EvictGoes, Quiet, SeenTable
<1>4. EvictTables'
  <2>1. SeenTable(evSeen)
    BY DEF EvictInv, EvictTables
  <2>2. SeenTable(evSeen')
    BY <1>2, <2>1 DEF SeenTable, Figures
  <2>3. QED BY <1>1, <2>2 DEF EvictInv, EvictTables, EvictGoes, evStore
<1>5. evPc'[j] = "evict" /\ evResult'[j] = evResult[j] /\ evPlan'[j] = Evictable(evRows)
  BY <1>1 DEF EvictInv, EvictTables, EvictGoes
<1>6. Evictable(evRows) \subseteq Candidates
  BY DEF Evictable, Candidates, EvictInv, EvictTyped
<1>7. EvictJobInv(j)'
  BY <1>1, <1>3, <1>5, <1>6, QuietFigures DEF EvictInv, EvictJobInv, Enough
<1>8. QED BY <1>3, <1>4, <1>7, QuietMoves

(* The figures of now are below the low watermark when the cache is.       *)
LEMMA RemeasureMoves ==
  ASSUME EvictInv, NEW j \in EvictJobs, RemeasureUsage(j)
  PROVE  EvictInv'
<1>1. /\ evPc[j] = "remeasure" /\ EvictGoes(j, "evict") /\ UNCHANGED <<evStore, evKept, evPlan>>
      /\ evSeen' = evMeasured(j)
  BY DEF RemeasureUsage
<1>2. Quiet(j)
  BY <1>1 DEF EvictInv, EvictTables, EvictGoes, Quiet, SeenTable, evMeasured
<1>3. EvictTables'
  BY <1>1, SeenSet DEF EvictInv, EvictTables, EvictGoes, evStore, evMeasured
<1>4. evPc'[j] = "evict" /\ evResult'[j] = evResult[j] /\ evPlan'[j] = evPlan[j]
  BY <1>1 DEF EvictInv, EvictTables, EvictGoes
<1>5. evSeen'[j].usage = measureCacheUsage(evDirs) /\ evSeen'[j].free = filesystemFree(evDirs)
  <2>1. SeenTable(evSeen)
    BY DEF EvictInv, EvictTables
  <2>2. QED BY <1>1, <2>1 DEF evMeasured, SeenTable, Figures
<1>6. RealRelief => Relieved(evSeen[j].usage, evSeen[j].free, EvictSettings)'
  BY <1>2, <1>5, QuietFigures DEF RealRelief, Relieved
<1>7. Enough(j) => Enough(j)'
  BY <1>2, <1>4, <1>6, QuietFigures DEF Enough
<1>8. EvictJobInv(j)'
  BY <1>1, <1>2, <1>4, <1>7, QuietFigures DEF EvictInv, EvictJobInv
<1>9. QED BY <1>2, <1>3, <1>8, QuietMoves

(* A pass that goes on to the next candidate has not evicted too many; the *)
(* one it takes now may be, if other passes have freed enough meanwhile.   *)
LEMMA EvictMoves ==
  ASSUME EvictInv, NEW j \in EvictJobs, EvictNextCandidate(j)
  PROVE  EvictInv'
<1>1. /\ evPc[j] = "evict" /\ EvictSettings.valid /\ EvictSettings.max > 0 /\ evPlan[j] \subseteq Candidates
      /\ evConfig' = evConfig /\ evEntry' = evEntry /\ evRows' = evRows /\ evSeen' = evSeen /\ evKept' = evKept
  BY DEF EvictNextCandidate, EvictInv, EvictJobInv
<1>2. CASE EvictGoes(j, "release") /\ UNCHANGED <<evDirs, evPlan, evExcess>>
  <2>1. Quiet(j)
    BY <1>1, <1>2 DEF EvictInv, EvictTables, EvictGoes, Quiet, evStore
  <2>2. EvictTables'
    BY <1>1, <1>2 DEF EvictInv, EvictTables, EvictGoes
  <2>3. evPc'[j] = "release" /\ evResult'[j] = evResult[j] /\ evPlan'[j] = evPlan[j]
    BY <1>2 DEF EvictInv, EvictTables, EvictGoes
  <2>4. EvictJobInv(j)'
    BY <1>1, <2>1, <2>3, QuietFigures DEF EvictInv, EvictJobInv, Enough
  <2>5. QED BY <2>1, <2>2, <2>4, QuietMoves
<1>3. ASSUME NEW x \in evPlan[j], ~Relieved(evSeen[j].usage, evSeen[j].free, EvictSettings),
             evPlan' = [evPlan EXCEPT ![j] = @ \ {x}], UNCHANGED <<evDirs, evExcess, evPc, evResult>>
      PROVE  EvictInv'
  <2>1. Quiet(j)
    BY <1>1, <1>3 DEF EvictInv, EvictTables, Quiet, evStore
  <2>2. EvictTables'
    BY <1>1, <1>3 DEF EvictInv, EvictTables
  <2>3. evPc'[j] = "evict" /\ evResult'[j] = evResult[j] /\ evPlan'[j] \subseteq evPlan[j]
    BY <1>1, <1>3 DEF EvictInv, EvictTables
  <2>4. ~Enough(j)
    BY <1>1, <1>3 DEF Enough
  <2>5. EvictJobInv(j)'
    BY <1>1, <2>1, <2>3, <2>4, QuietFigures DEF EvictInv, EvictJobInv
  <2>6. QED BY <2>1, <2>2, <2>5, QuietMoves
<1>4. ASSUME NEW x \in evPlan[j], ~Relieved(evSeen[j].usage, evSeen[j].free, EvictSettings),
             evExcess' = [evExcess EXCEPT ![j] = IF RealRelief /\ x \in evDirs THEN @ + 1 ELSE @],
             evDirs' = evDirs \ {x}, EvictGoes(j, "row"), UNCHANGED evPlan
      PROVE  EvictInv'
  <2>1. Shrinks
    BY <1>1, <1>4 DEF Shrinks
  <2>2. EvictTables'
    BY <1>1, <1>4 DEF EvictInv, EvictTables, EvictGoes
  <2>3. EvictionSpares'
    BY <1>1, <1>4 DEF EvictInv, EvictionSpares, Candidates
  <2>4. /\ evPc'[j] = "row" /\ evResult'[j] = evResult[j] /\ evPlan'[j] = evPlan[j]
        /\ evExcess[j] = 0 => evExcess'[j] = 0 \/ (evExcess'[j] = 1 /\ RealRelief)
    BY <1>4 DEF EvictInv, EvictTables, EvictGoes
  <2>5. ~Enough(j)
    BY <1>1, <1>4 DEF Enough
  <2>6. /\ EvictSettings' = EvictSettings /\ Candidates \subseteq Candidates'
        /\ (RealRelief => RealRelief') /\ (~RealPressure => ~RealPressure')
    BY <2>1, ShrinksRelieves DEF EvictInv
  <2>7. EvictJobInv(j)'
    BY <1>1, <2>4, <2>5, <2>6 DEF EvictInv, EvictJobInv, Enough
  <2>8. QED
    <3>1. \A k \in EvictJobs \ {j} :
            /\ evPc'[k] = evPc[k] /\ evPlan'[k] = evPlan[k] /\ evResult'[k] = evResult[k]
            /\ evExcess'[k] = evExcess[k] /\ evSeen'[k] = evSeen[k]
      BY <1>1, <1>4 DEF EvictInv, EvictTables, EvictGoes
    <3>2. QED BY <2>1, <2>2, <2>3, <2>7, <3>1, OneMoves
<1>5. QED BY <1>1, <1>2, <1>3, <1>4 DEF EvictNextCandidate

(* The row that goes is a candidate: not exempt, and the parent of none.   *)
LEMMA RowMoves ==
  ASSUME EvictInv, NEW j \in EvictJobs, EvictRow(j)
  PROVE  EvictInv'
<1>1. /\ evPc[j] = "row" /\ EvictSettings.valid /\ EvictSettings.max > 0 /\ evPlan[j] \subseteq Candidates
      /\ evConfig' = evConfig /\ evEntry' = evEntry /\ evDirs' = evDirs /\ evSeen' = evSeen /\ evExcess' = evExcess
  BY DEF EvictRow, EvictInv, EvictJobInv
<1>2. PICK x \in evPlan[j] :
        /\ evPlan' = [evPlan EXCEPT ![j] = @ \ {x}]
        /\ \/ evRows' = evRows \ {x} /\ EvictGoes(j, "remeasure") /\ evKept' = evKept
           \/ evKept' = evKept \cup {x} /\ EvictGoes(j, "evict") /\ evRows' = evRows
  BY DEF EvictRow
<1>3. Shrinks
  BY <1>1, <1>2 DEF Shrinks
<1>4. EvictTables'
  BY <1>1, <1>2 DEF EvictInv, EvictTables, EvictGoes
<1>5. EvictionSpares'
  BY <1>1, <1>2 DEF EvictInv, EvictionSpares, Candidates
<1>6. /\ evPc'[j] = "remeasure" \/ (evPc'[j] = "evict" /\ evKept' # {})
      /\ evResult'[j] = evResult[j] /\ evPlan'[j] \subseteq evPlan[j] /\ evExcess'[j] = evExcess[j]
  BY <1>1, <1>2 DEF EvictInv, EvictTables, EvictGoes
<1>7. /\ EvictSettings' = EvictSettings /\ Candidates \subseteq Candidates'
      /\ (RealRelief => RealRelief') /\ (~RealPressure => ~RealPressure')
  BY <1>3, ShrinksRelieves DEF EvictInv
<1>8. EvictJobInv(j)'
  BY <1>1, <1>3, <1>6, <1>7 DEF EvictInv, EvictJobInv, Enough, Shrinks
<1>9. \A k \in EvictJobs \ {j} :
        /\ evPc'[k] = evPc[k] /\ evPlan'[k] = evPlan[k] /\ evResult'[k] = evResult[k]
        /\ evExcess'[k] = evExcess[k] /\ evSeen'[k] = evSeen[k]
  BY <1>1, <1>2 DEF EvictInv, EvictTables, EvictGoes
<1>10. QED BY <1>3, <1>4, <1>5, <1>8, <1>9, OneMoves

(* A restart puts every job back to its start; what was removed stays so.  *)
LEMMA CrashMoves ==
  ASSUME EvictInv, EvictCrash
  PROVE  EvictInv'
<1>1. /\ UNCHANGED <<evStore, evKept>>
      /\ evPc' = [j \in EvictJobs |-> "measure"] /\ evSeen' = [j \in EvictJobs |-> NothingSeen]
      /\ evPlan' = [j \in EvictJobs |-> {}] /\ evResult' = [j \in EvictJobs |-> "none"]
  BY DEF EvictCrash
<1>2. EvictTables'
  BY <1>1 DEF EvictInv, EvictTables, evStore, SeenTable, Figures, NothingSeen
<1>3. EvictTyped' /\ EvictionSpares'
  BY <1>1 DEF EvictInv, EvictTyped, EvictionSpares, evStore
<1>4. /\ EvictSettings' = EvictSettings /\ evExcess' = evExcess /\ evKept' = evKept
      /\ RealRelief' <=> RealRelief
  BY <1>1 DEF evStore, EvictSettings, RealRelief, measureCacheUsage, filesystemFree
<1>5. ASSUME NEW j \in EvictJobs PROVE EvictJobInv(j)'
  <2>1. evPc'[j] = "measure" /\ evPlan'[j] = {} /\ evResult'[j] = "none"
    BY <1>1
  <2>2. Enough(j) => Enough(j)'
    BY <1>4, <2>1 DEF Enough
  <2>3. QED BY <1>4, <2>1, <2>2 DEF EvictInv, EvictJobInv
<1>6. QED BY <1>2, <1>3, <1>5 DEF EvictInv

(* The invariant is inductive, action by action.                           *)
LEMMA EvictInvStep == EvictInv /\ [EvictNext]_evictVars => EvictInv'
<1> SUFFICES ASSUME EvictInv, [EvictNext]_evictVars PROVE EvictInv'
  OBVIOUS
<1> USE DEF EvictInv
<1>1. CASE UNCHANGED <<evStore, evKept, evPc, evSeen, evPlan, evResult>>
  BY <1>1 DEF evStore, EvictTyped, EvictTables, EvictionSpares, EvictJobInv, Candidates, Enough,
              EvictSettings, RealPressure, RealRelief, measureCacheUsage, filesystemFree
<1>2. ASSUME NEW j \in EvictJobs, EvictStep(j) PROVE EvictInv'
  <2> HIDE DEF EvictInv
  <2>1. CASE TakeEvictLock(j)
    BY <2>1, GoMoves DEF TakeEvictLock
  <2>2. CASE StatEvictLock(j)
    BY <2>2, GoMoves DEF StatEvictLock
  <2>3. CASE RemoveStaleEvictLock(j)
    BY <2>3, GoMoves DEF RemoveStaleEvictLock
  <2>4. CASE ReleaseEvictLock(j)
    BY <2>4, GoMoves DEF ReleaseEvictLock
  <2>5. CASE EvictOutcome(j)
    <3>1. EvictSettings.valid
      BY <2>5 DEF EvictOutcome, EvictInv, EvictJobInv
    <3>2. PICK r : EvictReturns(j, r) /\ (r = "ok" => ~RealPressure)
      BY <2>5 DEF EvictOutcome
    <3>3. QED BY <2>5, <3>1, <3>2, ReturnMoves DEF EvictOutcome
  <2>6. QED
    BY <1>2, <2>1, <2>2, <2>3, <2>4, <2>5, MeasureMoves, ListMoves, EvictMoves, RowMoves, RemeasureMoves
       DEF EvictStep
<1>3. ASSUME NEW j \in EvictJobs, EvictFails(j) PROVE EvictInv'
  BY <1>3, ReturnMoves DEF EvictFails
<1>4. CASE EvictLockAges
  BY <1>1, <1>4 DEF EvictLockAges
<1>5. CASE UNCHANGED evictVars
  BY <1>1, <1>5 DEF evictVars, evStore
<1>6. QED BY <1>2, <1>3, <1>4, <1>5, CrashMoves DEF EvictNext

(* The three properties are consequences.                                  *)
LEMMA EvictInvEnough == EvictInv => EvictionMeasured /\ EvictionSpares /\ EvictedToBudget
BY DEF EvictInv, EvictJobInv, Enough, EvictionMeasured, EvictedToBudget

(***************************************************************************)
(* Enforcing the cache budget (prepare/capacity.go), with any number of    *)
(* jobs at work at once, also under a lock judged stale, with failing      *)
(* removals and restarts: only leaves without exemption go, a pass evicts  *)
(* at most one state more than the low watermark asks for unless a row     *)
(* survived its files, and success means that the budget is met.           *)
(***************************************************************************)
THEOREM EvictionIsSafe == Spec => [](EvictionMeasured /\ EvictionSpares /\ EvictedToBudget)
<1>1. Init => EvictInv
  BY LiveInit, EvictInvInit
<1>2. EvictInv /\ [Next]_liveVars => EvictInv'
  BY LiveStep, EvictInvStep
<1>3. QED BY <1>1, <1>2, EvictInvEnough, PTL DEF Spec

-----------------------------------------------------------------------------
(* DeleteTree: plans.                                                      *)

ClosedNodes == {StateNode(s, FALSE) : s \in TreeStates} \cup {InstanceNode(i) : i \in TreeInstances}
Nodes == ClosedNodes \cup {StateNode(s, TRUE) : s \in TreeStates}

(* A set of naturals that is not empty has a least element.                *)
LEMMA NatMin ==
  ASSUME NEW T, T \subseteq Nat, T # {}
  PROVE  \E x \in T : \A y \in T : x <= y
<1> DEFINE R == OpToRel(<, Nat)
<1>1. IsWellFoundedOn(R, Nat)
  BY NatLessThanWellFounded
<1>2. PICK x \in T : \A y \in T : ~(<<y, x>> \in R)
  <2> HIDE DEF R
  <2>1. QED BY <1>1, WFMin
<1>3. ASSUME NEW y \in T PROVE x <= y
  <2>1. <<y, x>> \notin R
    BY <1>2
  <2>2. ~(y < x)
    BY <2>1 DEF OpToRel
  <2>3. QED BY <2>2
<1>4. QED BY <1>3

(* The first open node is one, and there is none when it is 0.             *)
LEMMA FirstOpenIs ==
  ASSUME NEW p \in Seq(Nodes)
  PROVE  \/ FirstOpen(p) = 0 /\ \A k \in 1 .. Len(p) : ~p[k].open
         \/ FirstOpen(p) \in 1 .. Len(p) /\ p[FirstOpen(p)].open
<1> DEFINE I == {i \in 1 .. Len(p) : p[i].open}
<1>1. FirstOpen(p) = IF I # {} THEN Min(I) ELSE 0
  BY DEF FirstOpen, SelectInSeq
<1>2. CASE I = {}
  BY <1>1, <1>2
<1>3. CASE I # {}
  <2>1. \E x \in I : \A y \in I : x <= y
    <3>1. I \subseteq Nat
      OBVIOUS
    <3> HIDE DEF I
    <3>2. QED BY <1>3, <3>1, NatMin
  <2>2. Min(I) \in I
    <3> HIDE DEF I
    <3>1. QED BY <2>1 DEF Min
  <2>3. QED BY <1>1, <1>3, <2>2
<1>4. QED BY <1>2, <1>3

(* The elements of a finite set as a sequence: no other, and none left     *)
(* out.                                                                    *)
LEMMA SetToSeqIs ==
  ASSUME NEW S, IsFiniteSet(S)
  PROVE  SetToSeq(S) \in Seq(S) /\ \A x \in S : \E i \in 1 .. Len(SetToSeq(S)) : SetToSeq(S)[i] = x
<1> DEFINE n == Cardinality(S)
           f == SetToSeq(S)
<1>1. n \in Nat /\ ExistsBijection(1 .. n, S)
  BY FS_CardinalityType
<1>2. \E g \in [1 .. n -> S] : IsInjective(g)
  BY <1>1 DEF ExistsBijection, Bijection, Injection
<1>3. f \in [1 .. n -> S] /\ IsInjective(f)
  BY <1>2 DEF SetToSeq
<1>4. f \in Injection(1 .. n, S)
  BY <1>3 DEF Injection
<1>5. Cardinality(1 .. n) = n
  BY <1>1, FS_Interval
<1>6. f \in Surjection(1 .. n, S)
  <2> HIDE DEF f
  <2>1. Cardinality(1 .. n) = Cardinality(S)
    BY <1>5
  <2>2. QED BY <1>4, <2>1, FS_Injection
<1>7. f \in Seq(S) /\ Len(f) = n
  <2> HIDE DEF f, n
  <2>1. QED BY <1>1, <1>3
<1>8. QED
  <2> HIDE DEF f, n
  <2>1. \A x \in S : \E i \in 1 .. Len(f) : f[i] = x
    BY <1>6, <1>7 DEF Surjection
  <2>2. QED BY <1>7, <2>1 DEF f

(* A node that is listed becomes its instances, its children and itself,   *)
(* in this order.                                                          *)
LEMMA UnfoldedIs ==
  ASSUME NEW s \in TreeStates, dtRow \subseteq TreeStates, dtInst \subseteq TreeInstances
  PROVE  LET u == Unfolded(s)  n == Len(u) IN
         /\ u \in Seq(Nodes) /\ n \in Nat \ {0} /\ u[n] = StateNode(s, FALSE)
         /\ \A i \in 1 .. n - 1 : \A t : u[i] # StateNode(t, FALSE)
         /\ \A c \in Children(s) : \E i \in 1 .. n - 1 : u[i] = StateNode(c, TRUE)
<1> DEFINE I == {InstanceNode(i) : i \in InstancesOf(s)}
           C == {StateNode(c, TRUE) : c \in Children(s)}
           a == SetToSeq(I)
           b == SetToSeq(C)
           u == Unfolded(s)
<1>1. I \subseteq Nodes /\ C \subseteq Nodes /\ StateNode(s, FALSE) \in Nodes
  BY DEF Nodes, ClosedNodes, InstancesOf, Children
<1>2. IsFiniteSet(I)
  <2>1. IsFiniteSet(InstancesOf(s))
    BY TreeAssumption, FS_Subset DEF InstancesOf
  <2>2. [i \in InstancesOf(s) |-> InstanceNode(i)] \in Surjection(InstancesOf(s), I)
    BY DEF Surjection
  <2>3. QED BY <2>1, <2>2, FS_Surjection
<1>3. IsFiniteSet(C)
  <2>1. IsFiniteSet(Children(s))
    BY TreeAssumption, FS_Subset DEF Children
  <2>2. [c \in Children(s) |-> StateNode(c, TRUE)] \in Surjection(Children(s), C)
    BY DEF Surjection
  <2>3. QED BY <2>1, <2>2, FS_Surjection
<1>4. a \in Seq(I) /\ b \in Seq(C) /\ \A x \in C : \E i \in 1 .. Len(b) : b[i] = x
  <2> HIDE DEF I, C
  <2>1. QED BY <1>2, <1>3, SetToSeqIs
<1>5. u = a \o b \o <<StateNode(s, FALSE)>>
  BY DEF Unfolded
<1>6. (\A x \in I : \A t : x # StateNode(t, FALSE)) /\ (\A x \in C : \A t : x # StateNode(t, FALSE))
  BY DEF InstanceNode, StateNode
<1>7. \A c \in Children(s) : StateNode(c, TRUE) \in C
  OBVIOUS
<1> DEFINE z == StateNode(s, FALSE)
<1>8. QED
  <2> HIDE DEF I, C, a, b, u, z
  <2>1. u = a \o b \o <<z>> /\ z \in Nodes
    BY <1>1, <1>5 DEF z
  <2>2. a \in Seq(Nodes) /\ b \in Seq(Nodes)
    BY <1>1, <1>4
  <2>3. u \in Seq(Nodes) /\ Len(u) = Len(a) + Len(b) + 1 /\ u[Len(u)] = z
    BY <2>1, <2>2
  <2>4. /\ \A i \in 1 .. Len(a) : u[i] = a[i] /\ a[i] \in I
        /\ \A i \in Len(a) + 1 .. Len(a) + Len(b) : u[i] = b[i - Len(a)] /\ b[i - Len(a)] \in C
    <3>1. Len(a) \in Nat /\ Len(b) \in Nat /\ Len(a \o b) = Len(a) + Len(b)
      BY <2>2
    <3>2. \A i \in 1 .. Len(a) + Len(b) : u[i] = (a \o b)[i]
      BY <2>1, <2>2, <3>1
    <3>3. \A i \in 1 .. Len(a) : (a \o b)[i] = a[i] /\ a[i] \in I
      BY <1>4, <2>2, <3>1
    <3>4. \A i \in Len(a) + 1 .. Len(a) + Len(b) : (a \o b)[i] = b[i - Len(a)] /\ b[i - Len(a)] \in C
      BY <1>4, <2>2, <3>1
    <3>5. QED BY <3>1, <3>2, <3>3, <3>4
  <2>5. \A i \in 1 .. Len(u) - 1 : u[i] \in I \cup C
    <3>1. ASSUME NEW i \in 1 .. Len(u) - 1 PROVE u[i] \in I \cup C
      <4>1. Len(a) \in Nat /\ Len(b) \in Nat
        BY <2>2
      <4>2. i \in 1 .. Len(a) \/ i \in Len(a) + 1 .. Len(a) + Len(b)
        BY <2>3, <4>1
      <4>3. QED BY <2>4, <4>2
    <3>2. QED BY <3>1
  <2>6. \A x \in C : \E i \in 1 .. Len(u) - 1 : u[i] = x
    <3>1. ASSUME NEW x \in C PROVE \E i \in 1 .. Len(u) - 1 : u[i] = x
      <4>1. PICK i \in 1 .. Len(b) : b[i] = x
        BY <1>4
      <4>2. Len(a) + i \in Len(a) + 1 .. Len(a) + Len(b) /\ Len(a) + i - Len(a) = i /\ Len(a) + i \in 1 .. Len(u) - 1
        BY <2>2, <2>3
      <4>3. QED BY <2>4, <4>1, <4>2
    <3>2. QED BY <3>1
  <2>7. Len(u) \in Nat \ {0}
    <3>1. Len(a) \in Nat /\ Len(b) \in Nat
      BY <2>2
    <3>2. QED BY <2>3, <3>1
  <2>8. \A i \in 1 .. Len(u) - 1 : \A t : u[i] # StateNode(t, FALSE)
    BY <1>6, <2>5
  <2>9. \A c \in Children(s) : \E i \in 1 .. Len(u) - 1 : u[i] = StateNode(c, TRUE)
    BY <1>7, <2>6
  <2>10. u[Len(u)] = StateNode(s, FALSE)
    BY <2>3 DEF z
  <2>11. QED BY <2>3, <2>7, <2>8, <2>9, <2>10 DEF u

(* The children of a state whose children are listed stand before it, as   *)
(* far as they have a row and were not published later.                    *)
NodesOf(c) == {StateNode(c, TRUE), StateNode(c, FALSE)}
Covered(plan, rows) ==
  \A k \in 1 .. Len(plan) : \A c \in rows :
     plan[k] = StateNode(TreeParent[c], FALSE) =>
        \E m \in 1 .. k - 1 : plan[m] \in NodesOf(c)

(* The first node may go once it stands for no row.                        *)
LEMMA TailCovered ==
  ASSUME NEW p \in Seq(Nodes), p # <<>>, NEW R, NEW S, S \subseteq R, Covered(p, R),
         \A c \in S : p[1] \notin NodesOf(c)
  PROVE  Covered(Tail(p), S)
<1> DEFINE t == Tail(p)
<1>1. /\ t \in Seq(Nodes) /\ Len(t) = Len(p) - 1 /\ Len(p) \in Nat
      /\ \A k \in 1 .. Len(t) : t[k] = p[k + 1]
  OBVIOUS
<1> HIDE DEF t
<1> SUFFICES ASSUME NEW k \in 1 .. Len(t), NEW c \in S, t[k] = StateNode(TreeParent[c], FALSE)
             PROVE  \E m \in 1 .. k - 1 : t[m] \in NodesOf(c)
  BY DEF Covered, t
<1>2. k + 1 \in 1 .. Len(p) /\ p[k + 1] = StateNode(TreeParent[c], FALSE)
  <2>1. k + 1 \in 1 .. Len(p)
    BY <1>1
  <2>2. t[k] = p[k + 1]
    BY <1>1
  <2>3. QED BY <2>1, <2>2
<1>3. PICK m \in 1 .. k + 1 - 1 : p[m] \in NodesOf(c)
  <2> DEFINE h == k + 1
  <2>1. c \in R /\ h \in 1 .. Len(p) /\ p[h] = StateNode(TreeParent[c], FALSE)
    BY <1>2
  <2> HIDE DEF h
  <2>2. \E m \in 1 .. h - 1 : p[m] \in NodesOf(c)
    BY <2>1 DEF Covered
  <2>3. QED BY <2>2 DEF h
<1>4. m # 1
  BY <1>3
<1>5. m - 1 \in 1 .. k - 1 /\ m - 1 \in 1 .. Len(t) /\ m - 1 + 1 = m
  BY <1>1, <1>3, <1>4
<1>6. t[m - 1] \in NodesOf(c)
  BY <1>1, <1>3, <1>5
<1>7. QED BY <1>5, <1>6

(* A plan with one node replaced by several.                               *)
Spliced(p, k, u) == SubSeq(p, 1, k - 1) \o u \o SubSeq(p, k + 1, Len(p))

(* What is where in such a plan.                                           *)
LEMMA SplicedIs ==
  ASSUME NEW p \in Seq(Nodes), NEW k \in 1 .. Len(p), NEW u \in Seq(Nodes), Len(u) > 0
  PROVE  LET q == Spliced(p, k, u)  n == Len(u) IN
         /\ q \in Seq(Nodes) /\ Len(q) = Len(p) + n - 1
         /\ \A i \in 1 .. k - 1 : q[i] = p[i]
         /\ \A i \in 1 .. n : q[k - 1 + i] = u[i]
         /\ \A i \in k + 1 .. Len(p) : q[i + n - 1] = p[i]
<1> DEFINE a == SubSeq(p, 1, k - 1)
           b == SubSeq(p, k + 1, Len(p))
           q == Spliced(p, k, u)
<1>1. /\ Len(p) \in Nat /\ Len(u) \in Nat
      /\ a \in Seq(Nodes) /\ Len(a) = k - 1 /\ \A i \in 1 .. k - 1 : a[i] = p[i]
  OBVIOUS
<1>2. b \in Seq(Nodes) /\ Len(b) = Len(p) - k /\ \A i \in 1 .. Len(p) - k : b[i] = p[k + i]
  OBVIOUS
<1>3. q = a \o u \o b
  BY DEF Spliced
<1>4. QED
  <2> HIDE DEF a, b, q
  <2> DEFINE v == a \o u
  <2>10. v \in Seq(Nodes) /\ Len(v) = Len(a) + Len(u)
    <3>1. a \in Seq(Nodes) /\ u \in Seq(Nodes)
      BY <1>1
    <3>2. QED BY <3>1
  <2>11. q = v \o b
    BY <1>3
  <2>12. q \in Seq(Nodes) /\ Len(q) = Len(v) + Len(b)
    <3> HIDE DEF v
    <3>1. b \in Seq(Nodes) /\ v \in Seq(Nodes) /\ q = v \o b
      BY <1>2, <2>10, <2>11
    <3>2. QED BY <3>1
  <2>1. q \in Seq(Nodes) /\ Len(q) = Len(p) + Len(u) - 1
    <3> HIDE DEF v
    <3>1. k \in Int /\ Len(a) = k - 1 /\ Len(b) = Len(p) - k /\ Len(u) \in Int /\ Len(p) \in Int
      BY <1>1, <1>2
    <3>2. QED BY <2>10, <2>12, <3>1
  <2>2. \A i \in 1 .. k - 1 : q[i] = p[i]
    BY <1>1, <1>2, <1>3
  <2>3. \A i \in 1 .. Len(u) : q[k - 1 + i] = u[i]
    BY <1>1, <1>2, <1>3
  <2>4. ASSUME NEW i \in k + 1 .. Len(p) PROVE q[i + Len(u) - 1] = p[i]
    <3>1. i - k \in 1 .. Len(p) - k /\ k + (i - k) = i
      BY <1>1
    <3>2. b[i - k] = p[i]
      BY <1>2, <3>1
    <3>3. Len(a \o u) = k - 1 + Len(u) /\ a \o u \in Seq(Nodes)
      BY <1>1, <2>10
    <3>4. q[Len(a \o u) + (i - k)] = b[i - k]
      BY <1>2, <1>3, <3>1, <3>3
    <3>5. Len(a \o u) + (i - k) = i + Len(u) - 1
      BY <1>1, <3>3
    <3>6. QED BY <3>2, <3>4, <3>5
  <2>5. QED BY <2>1, <2>2, <2>3, <2>4 DEF q

(* A state behind its children, all of them.                               *)
Unfolds(u, s, R) ==
  /\ u[Len(u)] = StateNode(s, FALSE)
  /\ \A i \in 1 .. Len(u) - 1 : \A t : u[i] # StateNode(t, FALSE)
  /\ \A c \in R : TreeParent[c] = s => \E i \in 1 .. Len(u) - 1 : u[i] = StateNode(c, TRUE)

(* Listing a state keeps what is covered and covers the state.             *)
LEMMA ListCovered ==
  ASSUME NEW p \in Seq(Nodes), NEW R, Covered(p, R), NEW k \in 1 .. Len(p), NEW s, p[k] = StateNode(s, TRUE),
         NEW u \in Seq(Nodes), Len(u) > 0, Unfolds(u, s, R)
  PROVE  Covered(Spliced(p, k, u), R)
<1> DEFINE q == Spliced(p, k, u)
           n == Len(u)
<1>1. /\ q \in Seq(Nodes) /\ Len(q) = Len(p) + n - 1
      /\ \A i \in 1 .. k - 1 : q[i] = p[i]
      /\ \A i \in 1 .. n : q[k - 1 + i] = u[i]
      /\ \A i \in k + 1 .. Len(p) : q[i + n - 1] = p[i]
  BY SplicedIs
<1>2. n \in Nat \ {0} /\ Len(p) \in Nat /\ k \in Int
  OBVIOUS
<1> HIDE DEF q, n
<1> SUFFICES ASSUME NEW j \in 1 .. Len(q), NEW c \in R, q[j] = StateNode(TreeParent[c], FALSE)
             PROVE  \E m \in 1 .. j - 1 : q[m] \in NodesOf(c)
  BY DEF Covered, q
<1>4. CASE j \in 1 .. k - 1
  <2>1. p[j] = StateNode(TreeParent[c], FALSE) /\ j \in 1 .. Len(p)
    <3>1. j \in 1 .. Len(p)
      BY <1>2, <1>4
    <3>2. q[j] = p[j]
      BY <1>1, <1>4
    <3>3. QED BY <3>1, <3>2
  <2>2. PICK m \in 1 .. j - 1 : p[m] \in NodesOf(c)
    BY <2>1 DEF Covered
  <2>3. m \in 1 .. k - 1
    BY <1>2, <1>4
  <2>4. QED BY <1>1, <2>2, <2>3
<1>5. CASE j \in k .. k + n - 1
  <2>1. j - k + 1 \in 1 .. n /\ k - 1 + (j - k + 1) = j
    BY <1>2, <1>5
  <2>2. u[j - k + 1] = StateNode(TreeParent[c], FALSE)
    <3>1. q[k - 1 + (j - k + 1)] = u[j - k + 1]
      BY <1>1, <2>1
    <3>2. QED BY <2>1, <3>1
  <2>3. j - k + 1 = n
    <3>1. j - k + 1 \notin 1 .. n - 1
      BY <2>2 DEF n, Unfolds
    <3>2. QED BY <1>2, <1>5, <2>1, <3>1
  <2>4. TreeParent[c] = s
    <3>1. StateNode(TreeParent[c], FALSE) = StateNode(s, FALSE)
      BY <2>2, <2>3 DEF n, Unfolds
    <3>2. QED BY <3>1 DEF StateNode
  <2>5. PICK i \in 1 .. n - 1 : u[i] = StateNode(c, TRUE)
    BY <2>4 DEF n, Unfolds
  <2>6. k - 1 + i \in 1 .. j - 1 /\ i \in 1 .. n
    BY <1>2, <1>5, <2>3
  <2>7. q[k - 1 + i] = StateNode(c, TRUE)
    BY <1>1, <2>5, <2>6
  <2>8. QED BY <2>6, <2>7 DEF NodesOf
<1>6. CASE j \in k + n .. Len(q)
  <2> DEFINE h == j - n + 1
  <2>1. h \in k + 1 .. Len(p) /\ h + n - 1 = j /\ h \in 1 .. Len(p)
    BY <1>1, <1>2, <1>6
  <2>2. p[h] = StateNode(TreeParent[c], FALSE)
    <3> HIDE DEF h
    <3>1. q[h + n - 1] = p[h]
      BY <1>1, <2>1
    <3>2. QED BY <2>1, <3>1
  <2>3. PICK m \in 1 .. h - 1 : p[m] \in NodesOf(c)
    BY <2>1, <2>2 DEF Covered
  <2>4. CASE m < k
    <3>1. m \in 1 .. k - 1 /\ m \in 1 .. j - 1
      BY <1>2, <1>6, <2>4
    <3>2. QED BY <1>1, <2>3, <3>1
  <2>5. CASE m = k
    <3>1. c = s
      <4>1. StateNode(s, TRUE) \in NodesOf(c)
        BY <2>3, <2>5
      <4>2. QED BY <4>1 DEF NodesOf, StateNode
    <3>2. k - 1 + n \in 1 .. j - 1 /\ n \in 1 .. n
      BY <1>2, <1>6
    <3>3. q[k - 1 + n] = StateNode(c, FALSE)
      BY <1>1, <3>1, <3>2 DEF n, Unfolds
    <3>4. QED BY <3>2, <3>3 DEF NodesOf
  <2>6. CASE m > k
    <3>1. m \in k + 1 .. Len(p) /\ m + n - 1 \in 1 .. j - 1
      BY <1>2, <1>6, <2>1, <2>6
    <3>2. q[m + n - 1] \in NodesOf(c)
      BY <1>1, <2>3, <3>1
    <3>3. QED BY <3>1, <3>2
  <2>7. QED BY <1>2, <2>1, <2>4, <2>5, <2>6
<1>7. QED BY <1>1, <1>2, <1>4, <1>5, <1>6

-----------------------------------------------------------------------------
(* DeleteTree: requests.                                                   *)

ReqFields == {"pc", "plan", "recurse", "force", "blocked"}
TreeTyped ==
  /\ dtRow \subseteq TreeStates /\ dtInst \subseteq TreeInstances
  /\ DOMAIN dtStage = TreeInstances /\ DOMAIN dtSeen = Deleters /\ DOMAIN dtReq = Deleters
  /\ \A d \in Deleters : DOMAIN dtReq[d] = ReqFields
  /\ \A d \in Deleters : dtSeen[d] \subseteq TreeInstances
  /\ DOMAIN dtILock = TreeInstances
  /\ \A i \in TreeInstances : dtILock[i] = {} \/ \E d \in Deleters : dtILock[i] = {d}

Retiring == {"stop", "rmdir", "rmrow", "retire"}
Removing == Retiring \cup {"delete", "staterow"}

(* The plan: its states are all listed once it is judged, and then each    *)
(* stands behind its children.                                             *)
PlanInv(d) ==
  /\ dtReq[d].plan \in Seq(Nodes)
  /\ dtReq[d].pc # "list" => \A k \in 1 .. Len(dtReq[d].plan) : dtReq[d].plan[k] \in ClosedNodes
  /\ \/ dtReq[d].pc = "check" /\ Len(dtReq[d].plan) = 1
     \/ dtReq[d].pc = "judge" /\ dtReq[d].blocked
     \/ dtReq[d].pc # "check" /\ Covered(dtReq[d].plan, dtRow \ dtLate)

(* What has been removed of the node at the head of the plan.              *)
HeadInv(d) ==
  /\ dtReq[d].pc \in Retiring =>
       dtReq[d].plan # <<>> /\ Head1(d).kind = "instance" /\ dtStage[Head1(d).id] # "none"
  /\ dtReq[d].pc = "rmdir" => Head1(d).id \notin dtUp
  /\ dtReq[d].pc = "rmrow" => Head1(d).id \notin dtUp \cup dtDirs
  /\ dtReq[d].pc = "staterow" =>
       dtReq[d].plan # <<>> /\ Head1(d).kind = "state" /\ Head1(d).id \notin dtFiles \ dtLate

(* A connection that was seen blocks a request without force; only a       *)
(* request that removes an instance has its lock.                          *)
SeenInv(d) ==
  /\ dtReq[d].pc = "check" => dtSeen[d] = {}
  /\ dtReq[d].pc \in {"list", "judge"} /\ dtSeen[d] # {} /\ ~dtReq[d].force => dtReq[d].blocked
  /\ dtReq[d].pc \in Removing /\ ~dtReq[d].force => dtSeen[d] = {}
  /\ \A i \in TreeInstances : d \in dtILock[i] => dtReq[d].pc \in Retiring /\ Head1(d).id = i

ReqInv(d) == PlanInv(d) /\ HeadInv(d) /\ SeenInv(d)
TreeInv == TreeTyped /\ NothingUnlisted /\ OrphansAreLate /\ \A d \in Deleters : ReqInv(d)

(* Nothing is asked for yet.                                               *)
LEMMA TreeInvInit == TreeInit => TreeInv
<1> SUFFICES ASSUME TreeInit PROVE TreeInv
  OBVIOUS
<1>1. TreeTyped
  BY DEF TreeInit, TreeTyped, NoRequest, ReqFields
<1>2. NothingUnlisted /\ OrphansAreLate
  BY TreeAssumption DEF TreeInit, NothingUnlisted, OrphansAreLate
<1>3. ASSUME NEW d \in Deleters PROVE ReqInv(d)
  <2>1. dtReq[d].pc = "idle" /\ dtReq[d].plan = <<>> /\ \A i \in TreeInstances : dtILock[i] = {}
    BY DEF TreeInit, NoRequest
  <2>2. PlanInv(d)
    BY <2>1 DEF PlanInv, Covered
  <2>3. HeadInv(d) /\ SeenInv(d)
    BY <2>1 DEF HeadInv, SeenInv, Removing, Retiring
  <2>4. QED BY <2>2, <2>3 DEF ReqInv
<1>4. QED BY <1>1, <1>2, <1>3 DEF TreeInv

(* What every step leaves true for the requests it is not about: a state   *)
(* that a request has listed appears only as a late one, and no container  *)
(* or directory comes back to an instance that was there.                  *)
Mild ==
  /\ dtLate \subseteq dtLate'
  /\ \A s \in (dtRow' \ dtRow) \cup (dtFiles' \ dtFiles) : Listed(s) => s \in dtLate'
  /\ \A i \in (dtUp' \ dtUp) \cup (dtDirs' \ dtDirs) : dtStage[i] = "none"
  /\ \A i \in TreeInstances : dtStage[i] # "none" => dtStage'[i] # "none"

(* What a request may rely on in a node.                                   *)
LEMMA NodeIs ==
  ASSUME NEW n \in ClosedNodes
  PROVE  /\ n.kind = "state" => n.id \in TreeStates /\ n = StateNode(n.id, FALSE)
         /\ n.kind = "instance" => n.id \in TreeInstances /\ \A c : n \notin NodesOf(c)
         /\ n.kind \in {"state", "instance"}
BY DEF ClosedNodes, StateNode, InstanceNode, NodesOf

(* The node a request works on is one of its plan.                         *)
LEMMA HeadIs ==
  ASSUME NEW d \in Deleters, PlanInv(d), dtReq[d].pc # "list", dtReq[d].plan # <<>>
  PROVE  Head1(d) \in ClosedNodes /\ 1 \in 1 .. Len(dtReq[d].plan)
<1> DEFINE p == dtReq[d].plan
<1>1. p \in Seq(Nodes) /\ p # <<>>
  BY DEF PlanInv
<1>2. 1 \in 1 .. Len(p)
  <2> HIDE DEF p
  <2>1. QED BY <1>1
<1>3. QED BY <1>2 DEF PlanInv, Head1

(* The nodes of a plan as a set.                                           *)
LEMMA InToSet ==
  ASSUME NEW q \in Seq(Nodes), NEW k \in 1 .. Len(q)
  PROVE  q[k] \in ToSet(q)
BY DEF ToSet

(* A request that a step is not about keeps its invariant.                 *)
LEMMA OthersStay ==
  ASSUME TreeTyped, Mild, NEW d \in Deleters, ReqInv(d),
         dtReq'[d] = dtReq[d], dtSeen'[d] = dtSeen[d],
         \A i \in TreeInstances : d \in dtILock'[i] => d \in dtILock[i]
  PROVE  ReqInv(d)'
<1> DEFINE p == dtReq[d].plan
<1>1. dtReq'[d].pc # "check" /\ Covered(p, dtRow \ dtLate) => Covered(p, dtRow' \ dtLate')
  <2> SUFFICES ASSUME dtReq[d].pc # "check", Covered(p, dtRow \ dtLate),
                      NEW k \in 1 .. Len(p), NEW c \in dtRow' \ dtLate', p[k] = StateNode(TreeParent[c], FALSE)
               PROVE  c \in dtRow \ dtLate
    BY DEF Covered
  <2>1. p[k] \in ToSet(p)
    <3>1. p \in Seq(Nodes)
      BY DEF PlanInv, ReqInv
    <3>2. QED BY <3>1, InToSet
  <2>2. Listed(c)
    BY <2>1 DEF Listed
  <2>3. QED BY <2>2 DEF Mild
<1>2. PlanInv(d)'
  BY <1>1 DEF ReqInv, PlanInv
<1>3. Head1(d)' = Head1(d)
  BY DEF Head1
<1>4. HeadInv(d)'
  <2>1. ASSUME dtReq[d].pc \in Retiring PROVE Head1(d).id \in TreeInstances
    <3>1. dtReq[d].pc # "list" /\ dtReq[d].plan # <<>> /\ Head1(d).kind = "instance"
      BY <2>1 DEF ReqInv, HeadInv, Retiring
    <3>2. Head1(d) \in ClosedNodes
      BY <3>1, HeadIs DEF ReqInv
    <3>3. QED BY <3>1, <3>2, NodeIs
  <2>2. ASSUME dtReq[d].pc = "staterow" PROVE Listed(Head1(d).id)
    <3>1. dtReq[d].pc # "list" /\ dtReq[d].plan # <<>> /\ Head1(d).kind = "state"
      BY <2>2 DEF ReqInv, HeadInv
    <3>2. Head1(d) \in ClosedNodes /\ 1 \in 1 .. Len(p)
      BY <3>1, HeadIs DEF ReqInv
    <3>3. Head1(d) = StateNode(Head1(d).id, FALSE)
      BY <3>1, <3>2, NodeIs
    <3>4. Head1(d) \in ToSet(p)
      BY <3>2 DEF Head1, ToSet
    <3>5. QED BY <2>2, <3>3, <3>4 DEF Listed
  <2>3. dtReq[d].pc \in Retiring => dtStage'[Head1(d).id] # "none"
    BY <2>1 DEF ReqInv, HeadInv, Mild
  <2>4. dtReq[d].pc = "rmdir" => Head1(d).id \notin dtUp'
    BY DEF ReqInv, HeadInv, Mild, Retiring
  <2>5. dtReq[d].pc = "rmrow" => Head1(d).id \notin dtUp' \cup dtDirs'
    BY DEF ReqInv, HeadInv, Mild, Retiring
  <2>6. dtReq[d].pc = "staterow" => Head1(d).id \notin dtFiles' \ dtLate'
    BY <2>2 DEF ReqInv, HeadInv, Mild
  <2>7. QED BY <1>3, <2>3, <2>4, <2>5, <2>6 DEF ReqInv, HeadInv
<1>5. SeenInv(d)'
  BY <1>3 DEF ReqInv, SeenInv
<1>6. QED BY <1>2, <1>4, <1>5 DEF ReqInv

(* What a step does to the requests.                                       *)
OthersSame(d) == \A e \in Deleters \ {d} : dtReq'[e] = dtReq[e] /\ dtSeen'[e] = dtSeen[e]
ReqTable == DOMAIN dtReq = Deleters /\ \A d \in Deleters : DOMAIN dtReq[d] = ReqFields

(* The request goes on to a label.                                         *)
LEMMA GoReqIs ==
  ASSUME TreeTyped, NEW d \in Deleters, NEW l, GoReq(d, l)
  PROVE  /\ ReqTable' /\ \A e \in Deleters \ {d} : dtReq'[e] = dtReq[e]
         /\ dtReq'[d].pc = l /\ dtReq'[d].plan = dtReq[d].plan
         /\ dtReq'[d].force = dtReq[d].force /\ dtReq'[d].blocked = dtReq[d].blocked
         /\ Head1(d)' = Head1(d)
BY DEF TreeTyped, GoReq, ReqTable, ReqFields, Head1

(* The request ends.                                                       *)
LEMMA EndReqIs ==
  ASSUME TreeTyped, NEW d \in Deleters, NEW l, EndReq(d, l)
  PROVE  /\ ReqTable' /\ \A e \in Deleters \ {d} : dtReq'[e] = dtReq[e]
         /\ dtReq'[d].pc = l /\ dtReq'[d].plan = <<>>
BY DEF TreeTyped, EndReq, ReqTable, ReqFields, NoRequest

(* The request is done with the head of its plan.                          *)
LEMMA DropIs ==
  ASSUME TreeTyped, NEW d \in Deleters, DropNode(d)
  PROVE  /\ ReqTable' /\ \A e \in Deleters \ {d} : dtReq'[e] = dtReq[e]
         /\ dtReq'[d].pc = "delete" /\ dtReq'[d].plan = Tail(dtReq[d].plan)
         /\ dtReq'[d].force = dtReq[d].force
BY DEF TreeTyped, DropNode, ReqTable, ReqFields

(* The whole invariant, from what the step does to the request it is about.*)
LEMMA OneDeletes ==
  ASSUME TreeInv, Mild, TreeTyped', NothingUnlisted', OrphansAreLate',
         NEW d \in Deleters, OthersSame(d), ReqInv(d)',
         \A e \in Deleters \ {d} : \A i \in TreeInstances : e \in dtILock'[i] => e \in dtILock[i]
  PROVE  TreeInv'
<1>1. ASSUME NEW e \in Deleters, e # d PROVE ReqInv(e)'
  BY <1>1, OthersStay DEF TreeInv, OthersSame
<1>2. QED BY <1>1 DEF TreeInv

(* The same for a step that changes nothing but the request.               *)
LEMMA OneThinks ==
  ASSUME TreeInv, NEW d \in Deleters, UNCHANGED <<dtStates, dtInstances, dtILock, dtConn, dtAside, dtLate>>,
         ReqTable', DOMAIN dtSeen' = Deleters, dtSeen'[d] \subseteq TreeInstances, OthersSame(d), ReqInv(d)'
  PROVE  TreeInv'
<1>1. Mild
  BY DEF Mild, dtStates, dtInstances
<1>2. TreeTyped'
  BY DEF TreeInv, TreeTyped, ReqTable, OthersSame, dtStates, dtInstances
<1>3. NothingUnlisted' /\ OrphansAreLate'
  BY DEF TreeInv, NothingUnlisted, OrphansAreLate, dtStates, dtInstances
<1>4. QED BY <1>1, <1>2, <1>3, OneDeletes

(* A request that ends is about nothing any more.                          *)
LEMMA EndedInv ==
  ASSUME NEW d \in Deleters, dtReq'[d].pc \in {"ended", "error"}, dtReq'[d].plan = <<>>,
         \A i \in TreeInstances : d \notin dtILock'[i]
  PROVE  ReqInv(d)'
<1>1. PlanInv(d)'
  BY DEF PlanInv, Covered
<1>2. HeadInv(d)' /\ SeenInv(d)'
  BY DEF HeadInv, SeenInv, Removing, Retiring
<1>3. QED BY <1>1, <1>2 DEF ReqInv

(* Ending without a lock.                                                  *)
LEMMA EndMoves ==
  ASSUME TreeInv, NEW d \in Deleters, NEW l \in {"ended", "error"}, EndReq(d, l),
         dtReq[d].pc \notin Retiring, UNCHANGED <<dtStates, dtInstances, dtILock, dtRest>>
  PROVE  TreeInv'
<1>1. /\ ReqTable' /\ \A e \in Deleters \ {d} : dtReq'[e] = dtReq[e]
      /\ dtReq'[d].pc = l /\ dtReq'[d].plan = <<>>
  BY EndReqIs DEF TreeInv
<1>2. dtILock' = dtILock /\ \A i \in TreeInstances : d \notin dtILock[i]
  BY DEF TreeInv, ReqInv, SeenInv
<1>3. \A i \in TreeInstances : d \notin dtILock'[i]
  BY <1>2
<1>4. ReqInv(d)'
  BY <1>1, <1>3, EndedInv
<1>5. QED BY <1>1, <1>4, OneThinks DEF dtRest, OthersSame, TreeInv, TreeTyped

(* One node whose children are not listed needs none before it.            *)
LEMMA SingleCovered ==
  ASSUME NEW n, NEW R, \A c : n # StateNode(c, FALSE)
  PROVE  Covered(<<n>>, R)
<1>1. ASSUME NEW k \in 1 .. Len(<<n>>) PROVE <<n>>[k] = n
  <2>1. k = 1
    OBVIOUS
  <2>2. QED BY <2>1
<1>2. QED BY <1>1 DEF Covered

(* AskDelete: the first node stands alone; an instance with connections    *)
(* blocks the request unless it is forced.                                 *)
LEMMA AskMoves ==
  ASSUME TreeInv, NEW d \in Deleters, AskDelete(d)
  PROVE  TreeInv'
<1>1. /\ UNCHANGED <<dtStates, dtInstances, dtILock, dtConn, dtAside, dtLate>>
      /\ dtReq[d].pc \in {"idle", "ended", "error"}
  BY DEF AskDelete
<1>2. \A i \in TreeInstances : d \notin dtILock'[i]
  BY <1>1 DEF TreeInv, ReqInv, SeenInv, Retiring
<1>3. DOMAIN dtSeen' = Deleters /\ \A e \in Deleters \ {d} : dtSeen'[e] = dtSeen[e]
  BY DEF AskDelete, TreeInv, TreeTyped
<1>4. dtSeen'[d] = dtConn \cap {n.id : n \in {m \in ToSet(dtReq'[d].plan) : m.kind = "instance"}}
  BY DEF AskDelete, TreeInv, TreeTyped
<1>5. ASSUME NEW r, SetReq(d, r), DOMAIN r = ReqFields
      PROVE  ReqTable' /\ dtReq'[d] = r /\ \A e \in Deleters \ {d} : dtReq'[e] = dtReq[e]
  BY <1>5 DEF SetReq, TreeInv, TreeTyped, ReqTable
<1>6. ASSUME NEW rec \in BOOLEAN, NEW f \in BOOLEAN, NEW s \in dtRow,
             SetReq(d, [NoRequest EXCEPT !.pc = IF rec THEN "list" ELSE "check", !.plan = <<StateNode(s, rec)>>,
                                         !.recurse = rec, !.force = f])
      PROVE  TreeInv'
  <2> DEFINE r == [NoRequest EXCEPT !.pc = IF rec THEN "list" ELSE "check", !.plan = <<StateNode(s, rec)>>,
                                    !.recurse = rec, !.force = f]
             n == StateNode(s, rec)
  <2>1. /\ DOMAIN r = ReqFields /\ r.plan = <<n>>
        /\ r.pc = IF rec THEN "list" ELSE "check"
    BY DEF NoRequest, ReqFields
  <2>2. ReqTable' /\ dtReq'[d] = r /\ \A e \in Deleters \ {d} : dtReq'[e] = dtReq[e]
    <3> HIDE DEF r
    <3>1. SetReq(d, r)
      BY <1>6 DEF r
    <3>2. QED BY <1>5, <2>1, <3>1
  <2>3. n \in Nodes /\ (~rec => n \in ClosedNodes) /\ (rec => \A c : n # StateNode(c, FALSE)) /\ n.kind = "state"
    <3>1. s \in TreeStates
      BY DEF TreeInv, TreeTyped
    <3>2. CASE rec = TRUE
      BY <3>1, <3>2 DEF Nodes, StateNode
    <3>3. CASE rec = FALSE
      BY <3>1, <3>3 DEF Nodes, ClosedNodes, StateNode
    <3>4. QED BY <3>2, <3>3
  <2> HIDE DEF n, r
  <2>4. /\ dtReq'[d].plan = <<n>> /\ Len(<<n>>) = 1 /\ <<n>>[1] = n
        /\ \/ rec /\ dtReq'[d].pc = "list"
           \/ ~rec /\ dtReq'[d].pc = "check"
    BY <2>1, <2>2
  <2>5. dtSeen'[d] = {}
    <3>1. ToSet(<<n>>) = {n}
      BY DEF ToSet
    <3>2. QED BY <1>4, <2>3, <2>4, <3>1
  <2>6. PlanInv(d)'
    <3>1. rec => Covered(<<n>>, dtRow' \ dtLate')
      BY <2>3, SingleCovered
    <3>2. QED BY <2>3, <2>4, <3>1 DEF PlanInv
  <2>7. HeadInv(d)' /\ SeenInv(d)'
    BY <1>2, <2>4, <2>5 DEF HeadInv, SeenInv, Removing, Retiring
  <2>8. ReqInv(d)' /\ OthersSame(d)
    BY <1>3, <2>2, <2>6, <2>7 DEF ReqInv, OthersSame
  <2>9. QED BY <1>1, <1>3, <2>2, <2>5, <2>8, OneThinks
<1>7. ASSUME NEW f \in BOOLEAN, NEW i \in dtInst,
             SetReq(d, [NoRequest EXCEPT !.pc = "judge", !.plan = <<InstanceNode(i)>>, !.force = f,
                                         !.blocked = i \in dtConn /\ ~f])
      PROVE  TreeInv'
  <2> DEFINE b == i \in dtConn /\ ~f
             r == [NoRequest EXCEPT !.pc = "judge", !.plan = <<InstanceNode(i)>>, !.force = f, !.blocked = b]
             n == InstanceNode(i)
  <2>1. DOMAIN r = ReqFields /\ r.plan = <<n>> /\ r.pc = "judge" /\ r.force = f /\ r.blocked = b
    <3> HIDE DEF b
    <3>1. QED BY DEF NoRequest, ReqFields
  <2>2. ReqTable' /\ dtReq'[d] = r /\ \A e \in Deleters \ {d} : dtReq'[e] = dtReq[e]
    <3>1. SetReq(d, r)
      BY <1>7
    <3> HIDE DEF r
    <3>2. QED BY <1>5, <2>1, <3>1
  <2>3. n \in ClosedNodes /\ n \in Nodes /\ n.id = i /\ \A c : n # StateNode(c, FALSE)
    BY DEF TreeInv, TreeTyped, Nodes, ClosedNodes, InstanceNode, StateNode
  <2>4. b => i \in dtConn /\ ~f
    OBVIOUS
  <2>5. i \in dtConn /\ ~f => b
    OBVIOUS
  <2> HIDE DEF n, r, b
  <2>6. /\ dtReq'[d].plan = <<n>> /\ Len(<<n>>) = 1 /\ <<n>>[1] = n /\ dtReq'[d].pc = "judge"
        /\ dtReq'[d].force = f /\ dtReq'[d].blocked = b
    BY <2>1, <2>2
  <2>7. (dtSeen'[d] # {} => i \in dtConn) /\ dtSeen'[d] \subseteq {i}
    <3>1. ToSet(<<n>>) = {n}
      BY DEF ToSet
    <3>2. QED BY <1>4, <2>3, <2>6, <3>1
  <2>8. PlanInv(d)'
    <3>1. Covered(<<n>>, dtRow' \ dtLate')
      BY <2>3, SingleCovered
    <3>2. QED BY <2>3, <2>6, <3>1 DEF PlanInv
  <2>9. dtSeen'[d] # {} /\ ~dtReq'[d].force => dtReq'[d].blocked
    BY <2>5, <2>6, <2>7
  <2>10. HeadInv(d)' /\ SeenInv(d)'
    BY <1>2, <2>6, <2>9 DEF HeadInv, SeenInv, Removing, Retiring
  <2>11. ReqInv(d)' /\ OthersSame(d)
    BY <1>3, <2>2, <2>8, <2>10 DEF ReqInv, OthersSame
  <2>12. QED BY <1>1, <1>3, <2>2, <2>7, <2>11, OneThinks DEF TreeInv, TreeTyped
<1>8. QED
  <2>1. PICK rec \in BOOLEAN, f \in BOOLEAN :
          \/ \E s \in dtRow :
              SetReq(d, [NoRequest EXCEPT !.pc = IF rec THEN "list" ELSE "check", !.plan = <<StateNode(s, rec)>>,
                                  !.recurse = rec, !.force = f])
          \/ \E i \in dtInst :
              SetReq(d, [NoRequest EXCEPT !.pc = "judge", !.plan = <<InstanceNode(i)>>, !.force = f,
                                  !.blocked = i \in dtConn /\ ~f])
    BY DEF AskDelete
  <2>2. QED BY <1>6, <1>7, <2>1

(* CheckDescendants: a state without children needs none before it.        *)
LEMMA CheckMoves ==
  ASSUME TreeInv, NEW d \in Deleters, CheckDescendants(d)
  PROVE  TreeInv'
<1> DEFINE s == Head1(d).id
           b == InstancesOf(s) \cup Children(s) # {}
           p == dtReq[d].plan
<1>1. /\ UNCHANGED <<dtStates, dtInstances, dtILock, dtRest>>
      /\ dtReq[d].pc = "check" /\ p # <<>>
      /\ dtReq' = [dtReq EXCEPT ![d] = [dtReq[d] EXCEPT !.pc = "judge", !.blocked = b]]
  BY DEF CheckDescendants, ReqAt, SetReq
<1>2. b \/ Children(s) = {}
  OBVIOUS
<1>3. /\ ReqTable' /\ \A e \in Deleters \ {d} : dtReq'[e] = dtReq[e]
      /\ dtReq'[d].pc = "judge" /\ dtReq'[d].plan = p /\ dtReq'[d].blocked = b
  <2> HIDE DEF b
  <2>1. QED BY <1>1 DEF TreeInv, TreeTyped, ReqTable, ReqFields
<1> HIDE DEF b
<1>4. /\ p \in Seq(Nodes) /\ Len(p) = 1 /\ (\A k \in 1 .. Len(p) : p[k] \in ClosedNodes) /\ dtSeen[d] = {}
      /\ \A i \in TreeInstances : d \notin dtILock[i]
  BY <1>1 DEF TreeInv, ReqInv, PlanInv, SeenInv, Retiring
<1>5. dtRow' = dtRow /\ dtLate' = dtLate /\ dtSeen' = dtSeen /\ dtILock' = dtILock
  BY <1>1 DEF dtStates, dtRest
<1>6. PlanInv(d)'
  <2>1. Children(s) = {} => Covered(p, dtRow \ dtLate)
    <3> SUFFICES ASSUME Children(s) = {}, NEW k \in 1 .. Len(p), NEW c \in dtRow \ dtLate,
                        p[k] = StateNode(TreeParent[c], FALSE)
                 PROVE  FALSE
      BY DEF Covered
    <3>1. k = 1
      BY <1>4
    <3>2. s = TreeParent[c]
      BY <3>1 DEF Head1, StateNode
    <3>3. QED BY <3>2 DEF Children
  <2>2. b => dtReq'[d].blocked
    BY <1>3
  <2> HIDE DEF p
  <2>3. QED BY <1>2, <1>3, <1>4, <1>5, <2>1, <2>2 DEF PlanInv
<1>7. HeadInv(d)' /\ SeenInv(d)'
  BY <1>3, <1>4, <1>5 DEF HeadInv, SeenInv, Removing, Retiring
<1>8. ReqInv(d)' /\ OthersSame(d)
  BY <1>3, <1>5, <1>6, <1>7 DEF ReqInv, OthersSame
<1>9. QED BY <1>1, <1>3, <1>5, <1>8, OneThinks DEF dtRest, TreeInv, TreeTyped

(* Judge: what is blocked is not removed.                                  *)
LEMMA JudgeMoves ==
  ASSUME TreeInv, NEW d \in Deleters, Judge(d)
  PROVE  TreeInv'
<1>1. CASE EndReq(d, "ended")
  BY <1>1, EndMoves DEF Judge, Retiring
<1>2. CASE ~dtReq[d].blocked /\ GoReq(d, "delete")
  <2>1. /\ UNCHANGED <<dtStates, dtInstances, dtILock, dtRest>> /\ dtReq[d].pc = "judge"
    BY DEF Judge
  <2>2. /\ ReqTable' /\ \A e \in Deleters \ {d} : dtReq'[e] = dtReq[e]
        /\ dtReq'[d].pc = "delete" /\ dtReq'[d].plan = dtReq[d].plan /\ dtReq'[d].force = dtReq[d].force
    BY <1>2, GoReqIs DEF TreeInv
  <2>3. dtRow' = dtRow /\ dtLate' = dtLate /\ dtSeen' = dtSeen /\ dtILock' = dtILock
    BY <2>1 DEF dtStates, dtRest
  <2>4. PlanInv(d)'
    BY <1>2, <2>1, <2>2, <2>3 DEF TreeInv, ReqInv, PlanInv
  <2>5. ~dtReq[d].force => dtSeen[d] = {}
    BY <1>2, <2>1 DEF TreeInv, ReqInv, SeenInv
  <2>6. \A i \in TreeInstances : d \notin dtILock[i]
    BY <2>1 DEF TreeInv, ReqInv, SeenInv, Retiring
  <2>7. HeadInv(d)' /\ SeenInv(d)'
    BY <2>2, <2>3, <2>5, <2>6 DEF HeadInv, SeenInv, Removing, Retiring
  <2>8. ReqInv(d)' /\ OthersSame(d)
    BY <2>2, <2>3, <2>4, <2>7 DEF ReqInv, OthersSame
  <2>9. QED BY <2>1, <2>2, <2>3, <2>8, OneThinks DEF dtRest, TreeInv, TreeTyped
<1>3. QED BY <1>1, <1>2 DEF Judge

(* ListNode: a listed state stands behind its instances and its children,  *)
(* and a connection of one of them blocks the request.                     *)
LEMMA ListNodeMoves ==
  ASSUME TreeInv, NEW d \in Deleters, ListNode(d)
  PROVE  TreeInv'
<1> DEFINE p == dtReq[d].plan
           k == FirstOpen(p)
           s == p[k].id
           seen == InstancesOf(s) \cap dtConn
           b == dtReq[d].blocked \/ (seen # {} /\ ~dtReq[d].force)
           q == Spliced(p, k, Unfolded(s))
<1>1. /\ UNCHANGED <<dtStates, dtInstances, dtILock, dtConn, dtAside, dtAsked, dtLate>> /\ dtReq[d].pc = "list"
  BY DEF ListNode
<1>2. /\ p \in Seq(Nodes) /\ Covered(p, dtRow \ dtLate)
      /\ \A i \in TreeInstances : d \notin dtILock[i]
      /\ dtSeen[d] # {} /\ ~dtReq[d].force => dtReq[d].blocked
  BY <1>1 DEF TreeInv, ReqInv, PlanInv, SeenInv, Retiring
<1>3. dtRow' = dtRow /\ dtLate' = dtLate /\ dtILock' = dtILock
  BY <1>1 DEF dtStates
<1>4. CASE k = 0 /\ GoReq(d, "judge") /\ UNCHANGED dtSeen
  <2>1. /\ ReqTable' /\ \A e \in Deleters \ {d} : dtReq'[e] = dtReq[e]
        /\ dtReq'[d].pc = "judge" /\ dtReq'[d].plan = p /\ dtReq'[d].force = dtReq[d].force
        /\ dtReq'[d].blocked = dtReq[d].blocked
    BY <1>4, GoReqIs DEF TreeInv
  <2>2. \A j \in 1 .. Len(p) : p[j] \in ClosedNodes
    <3>1. \A j \in 1 .. Len(p) : ~p[j].open /\ p[j] \in Nodes
      <4>1. \A j \in 1 .. Len(p) : ~p[j].open
        BY <1>2, <1>4, FirstOpenIs
      <4>2. QED BY <1>2, <4>1
    <3>2. \A n \in Nodes : n \in ClosedNodes \/ n.open
      BY DEF Nodes, StateNode
    <3>3. QED BY <3>1, <3>2
  <2>3. PlanInv(d)'
    BY <1>2, <1>3, <2>1, <2>2 DEF PlanInv
  <2>4. HeadInv(d)' /\ SeenInv(d)'
    BY <1>2, <1>3, <1>4, <2>1 DEF HeadInv, SeenInv, Removing, Retiring
  <2>5. ReqInv(d)' /\ OthersSame(d)
    BY <1>4, <2>1, <2>3, <2>4 DEF ReqInv, OthersSame
  <2>6. QED BY <1>1, <1>4, <2>1, <2>5, OneThinks DEF TreeInv, TreeTyped
<1>5. CASE EndReq(d, "error") /\ UNCHANGED dtSeen
  BY <1>1, <1>5, EndMoves DEF dtRest, Retiring
<1>6. CASE /\ k # 0 /\ s \in dtRow
           /\ SetReq(d, [dtReq[d] EXCEPT !.plan = q, !.blocked = b])
           /\ dtSeen' = [dtSeen EXCEPT ![d] = @ \cup seen]
  <2>1. b \/ (~dtReq[d].blocked /\ (seen = {} \/ dtReq[d].force))
    OBVIOUS
  <2>2. /\ ReqTable' /\ \A e \in Deleters \ {d} : dtReq'[e] = dtReq[e]
        /\ dtReq'[d].pc = "list" /\ dtReq'[d].plan = q /\ dtReq'[d].force = dtReq[d].force
        /\ dtReq'[d].blocked = b
    <3> HIDE DEF b, q
    <3>1. QED BY <1>1, <1>6 DEF SetReq, TreeInv, TreeTyped, ReqTable, ReqFields
  <2>3. dtSeen'[d] = dtSeen[d] \cup seen /\ DOMAIN dtSeen' = Deleters /\ \A e \in Deleters \ {d} : dtSeen'[e] = dtSeen[e]
    BY <1>6 DEF TreeInv, TreeTyped
  <2>4. dtSeen'[d] # {} /\ ~dtReq'[d].force => dtReq'[d].blocked
    <3> HIDE DEF seen
    <3>1. CASE b
      <4> HIDE DEF b
      <4>1. QED BY <2>2, <3>1
    <3>2. CASE ~dtReq[d].blocked /\ (seen = {} \/ dtReq[d].force)
      BY <1>2, <2>2, <2>3, <3>2
    <3>3. QED BY <2>1, <3>1, <3>2
  <2>5. k \in 1 .. Len(p) /\ p[k].open
    BY <1>2, <1>6, FirstOpenIs
  <2>6. p[k] = StateNode(s, TRUE) /\ s \in TreeStates
    <3>1. p[k] \in Nodes
      BY <1>2, <2>5
    <3>2. \A n \in Nodes : n.open => n = StateNode(n.id, TRUE) /\ n.id \in TreeStates
      BY DEF Nodes, ClosedNodes, StateNode, InstanceNode
    <3>3. QED BY <2>5, <3>1, <3>2
  <2>7. PlanInv(d)'
    <3> DEFINE u == Unfolded(s)
    <3>1. /\ u \in Seq(Nodes) /\ Len(u) \in Nat \ {0} /\ u[Len(u)] = StateNode(s, FALSE)
          /\ \A i \in 1 .. Len(u) - 1 : \A t : u[i] # StateNode(t, FALSE)
          /\ \A c \in Children(s) : \E i \in 1 .. Len(u) - 1 : u[i] = StateNode(c, TRUE)
      BY <2>6, UnfoldedIs DEF TreeInv, TreeTyped
    <3>2. \A c \in dtRow \ dtLate : TreeParent[c] = s => \E i \in 1 .. Len(u) - 1 : u[i] = StateNode(c, TRUE)
      BY <3>1 DEF Children
    <3>3. q \in Seq(Nodes) /\ Covered(q, dtRow \ dtLate)
      <4> HIDE DEF p, k, s, u
      <4>1. Len(u) > 0
        BY <3>1
      <4>2. Spliced(p, k, u) \in Seq(Nodes)
        BY <1>2, <2>5, <3>1, <4>1, SplicedIs
      <4>3. Covered(Spliced(p, k, u), dtRow \ dtLate)
        <5> DEFINE R == dtRow \ dtLate
        <5>1. Covered(p, R) /\ Unfolds(u, s, R)
          BY <1>2, <3>1, <3>2 DEF Unfolds
        <5>2. p \in Seq(Nodes) /\ k \in 1 .. Len(p) /\ p[k] = StateNode(s, TRUE) /\ u \in Seq(Nodes)
          BY <1>2, <2>5, <2>6, <3>1
        <5> HIDE DEF R
        <5>4. Covered(Spliced(p, k, u), R)
          BY <4>1, <5>1, <5>2, ListCovered
        <5>5. QED BY <5>4 DEF R
      <4>4. QED BY <4>2, <4>3 DEF u
    <3> HIDE DEF q
    <3>4. QED BY <1>3, <2>2, <3>3 DEF PlanInv
  <2>11. dtSeen'[d] \subseteq TreeInstances
    BY <2>3 DEF TreeInv, TreeTyped, InstancesOf
  <2> HIDE DEF b, q, seen
  <2>8. HeadInv(d)' /\ SeenInv(d)'
    BY <1>2, <1>3, <2>2, <2>4 DEF HeadInv, SeenInv, Removing, Retiring
  <2>9. ReqInv(d)' /\ OthersSame(d)
    BY <2>2, <2>3, <2>7, <2>8 DEF ReqInv, OthersSame
  <2>10. QED BY <1>1, <2>2, <2>3, <2>9, <2>11, OneThinks
<1>7. QED
  BY <1>4, <1>5, <1>6 DEF ListNode, Spliced

(* The plan without its head, once the head stands for no row.             *)
LEMMA DropPlan ==
  ASSUME TreeInv, NEW d \in Deleters, dtReq[d].pc \in Removing, dtReq[d].plan # <<>>,
         dtReq'[d].pc = "delete", dtReq'[d].plan = Tail(dtReq[d].plan), dtLate' = dtLate, dtRow' \subseteq dtRow,
         \A c \in dtRow' \ dtLate : Head1(d) \notin NodesOf(c)
  PROVE  PlanInv(d)'
<1> DEFINE p == dtReq[d].plan
           t == Tail(p)
<1>1. /\ p \in Seq(Nodes) /\ (\A k \in 1 .. Len(p) : p[k] \in ClosedNodes)
      /\ Covered(p, dtRow \ dtLate) /\ p # <<>>
  BY DEF TreeInv, ReqInv, PlanInv, Removing, Retiring
<1>2. /\ t \in Seq(Nodes) /\ Len(t) = Len(p) - 1 /\ Len(p) \in Nat
      /\ \A k \in 1 .. Len(t) : t[k] = p[k + 1]
  <2>1. p \in Seq(Nodes) /\ p # <<>>
    BY <1>1
  <2> HIDE DEF p
  <2>2. QED BY <2>1
<1>3. \A k \in 1 .. Len(t) : t[k] \in ClosedNodes
  <2> HIDE DEF p, t
  <2>1. ASSUME NEW k \in 1 .. Len(t) PROVE t[k] \in ClosedNodes
    <3>1. k + 1 \in 1 .. Len(p)
      BY <1>2
    <3>2. QED BY <1>1, <1>2, <3>1
  <2>2. QED BY <2>1
<1>4. Covered(t, dtRow' \ dtLate)
  <2>1. \A c \in dtRow' \ dtLate : p[1] \notin NodesOf(c)
    BY DEF Head1
  <2> DEFINE R == dtRow \ dtLate
             S == dtRow' \ dtLate
  <2>2. S \subseteq R
    OBVIOUS
  <2>3. Covered(p, R)
    BY <1>1
  <2> HIDE DEF p, R, S
  <2>4. Covered(Tail(p), S)
    BY <1>1, <2>1, <2>2, <2>3, TailCovered DEF S
  <2>5. QED BY <2>4 DEF S
<1> HIDE DEF t
<1>5. dtReq'[d].plan = t
  BY DEF t
<1>6. QED BY <1>2, <1>3, <1>4, <1>5 DEF PlanInv

(* BeginRetire: the lock is free, so the request gets it alone.            *)
LEMMA BeginMoves ==
  ASSUME TreeInv, NEW d \in Deleters, BeginRetire(d)
  PROVE  TreeInv'
<1> DEFINE i == Head1(d).id
<1>1. /\ UNCHANGED <<dtStates, dtInst, dtUp, dtDirs, dtRest>>
      /\ dtReq[d].pc = "delete" /\ dtReq[d].plan # <<>> /\ Head1(d).kind = "instance"
      /\ dtILock[i] = {}
  BY DEF BeginRetire, ReqAt
<1>2. /\ dtRow' = dtRow /\ dtFiles' = dtFiles /\ dtLate' = dtLate /\ dtSeen' = dtSeen
      /\ dtInst' = dtInst /\ dtUp' = dtUp /\ dtDirs' = dtDirs
  BY <1>1 DEF dtStates, dtRest
<1>3. Head1(d) \in ClosedNodes /\ i \in TreeInstances /\ \A c : Head1(d) \notin NodesOf(c)
  <2>1. Head1(d) \in ClosedNodes
    BY <1>1, HeadIs DEF TreeInv, ReqInv
  <2>2. QED BY <1>1, <2>1, NodeIs
<1>4. /\ \A j \in TreeInstances : d \notin dtILock[j]
      /\ ~dtReq[d].force => dtSeen[d] = {}
  BY <1>1 DEF TreeInv, ReqInv, SeenInv, Retiring, Removing
<1>5. CASE DropNode(d) /\ UNCHANGED <<dtStage, dtILock>>
  <2>1. /\ ReqTable' /\ \A e \in Deleters \ {d} : dtReq'[e] = dtReq[e]
        /\ dtReq'[d].pc = "delete" /\ dtReq'[d].plan = Tail(dtReq[d].plan)
        /\ dtReq'[d].force = dtReq[d].force
    BY <1>5, DropIs DEF TreeInv
  <2>2. PlanInv(d)'
    BY <1>1, <1>2, <1>3, <2>1, DropPlan DEF Removing
  <2>3. HeadInv(d)' /\ SeenInv(d)'
    BY <1>2, <1>4, <1>5, <2>1 DEF HeadInv, SeenInv, Removing, Retiring
  <2>4. ReqInv(d)' /\ OthersSame(d)
    BY <1>2, <2>1, <2>2, <2>3 DEF ReqInv, OthersSame
  <2>5. QED BY <1>1, <1>2, <1>5, <2>1, <2>4, OneThinks DEF dtRest, dtInstances, TreeInv, TreeTyped
<1>6. CASE /\ dtStage' = [dtStage EXCEPT ![i] = "retiring"]
           /\ dtILock' = [dtILock EXCEPT ![i] = {d}] /\ GoReq(d, "stop")
  <2>1. /\ ReqTable' /\ \A e \in Deleters \ {d} : dtReq'[e] = dtReq[e]
        /\ dtReq'[d].pc = "stop" /\ dtReq'[d].plan = dtReq[d].plan
        /\ dtReq'[d].force = dtReq[d].force /\ Head1(d)' = Head1(d)
    BY <1>6, GoReqIs DEF TreeInv
  <2>2. /\ DOMAIN dtStage' = TreeInstances /\ dtStage'[i] = "retiring"
        /\ \A j \in TreeInstances : j # i => dtStage'[j] = dtStage[j]
        /\ DOMAIN dtILock' = TreeInstances /\ dtILock'[i] = {d}
        /\ \A j \in TreeInstances : j # i => dtILock'[j] = dtILock[j]
    BY <1>3, <1>6 DEF TreeInv, TreeTyped
  <2>3. PlanInv(d)'
    BY <1>1, <1>2, <2>1 DEF TreeInv, ReqInv, PlanInv
  <2>4. HeadInv(d)'
    BY <1>1, <2>1, <2>2 DEF HeadInv, Retiring
  <2>5. SeenInv(d)'
    BY <1>2, <1>4, <2>1, <2>2 DEF SeenInv, Removing, Retiring
  <2>6. ReqInv(d)' /\ OthersSame(d)
    BY <1>2, <2>1, <2>3, <2>4, <2>5 DEF ReqInv, OthersSame
  <2>7. TreeTyped'
    BY <1>2, <2>1, <2>2 DEF TreeInv, TreeTyped, ReqTable
  <2>8. Mild
    BY <1>2, <2>2 DEF Mild
  <2>9. NothingUnlisted' /\ OrphansAreLate'
    BY <1>2 DEF TreeInv, NothingUnlisted, OrphansAreLate
  <2>10. \A e \in Deleters \ {d} : \A j \in TreeInstances : e \in dtILock'[j] => e \in dtILock[j]
    BY <2>2
  <2>11. QED BY <2>6, <2>7, <2>8, <2>9, <2>10, OneDeletes
<1>7. QED BY <1>5, <1>6 DEF BeginRetire

(* StopInstance, removeRuntimeDir, DeleteInstanceRow: container before     *)
(* directory before row.                                                   *)
LEMMA RetireMoves ==
  ASSUME TreeInv, NEW d \in Deleters, StopInstance(d) \/ removeRuntimeDir(d) \/ DeleteInstanceRow(d)
  PROVE  TreeInv'
<1> DEFINE i == Head1(d).id
<1>1. /\ dtRow' = dtRow /\ dtFiles' = dtFiles /\ dtLate' = dtLate /\ dtSeen' = dtSeen
      /\ dtStage' = dtStage /\ dtILock' = dtILock
  BY DEF StopInstance, removeRuntimeDir, DeleteInstanceRow, dtStates, dtRest
<1>2. /\ \/ /\ dtReq[d].pc = "stop" /\ dtUp' = dtUp \ {i} /\ dtDirs' = dtDirs /\ dtInst' = dtInst
            /\ GoReq(d, "rmdir")
         \/ /\ dtReq[d].pc = "rmdir" /\ dtUp' = dtUp /\ dtDirs' = dtDirs \ {i} /\ dtInst' = dtInst
            /\ GoReq(d, "rmrow")
         \/ /\ dtReq[d].pc = "rmrow" /\ dtUp' = dtUp /\ dtDirs' = dtDirs /\ dtInst' = dtInst \ {i}
            /\ GoReq(d, "retire")
      /\ dtReq[d].plan # <<>>
  BY DEF StopInstance, removeRuntimeDir, DeleteInstanceRow, ReqAt
<1>3. PICK l \in {"rmdir", "rmrow", "retire"} : GoReq(d, l)
  BY <1>2
<1>4. /\ ReqTable' /\ \A e \in Deleters \ {d} : dtReq'[e] = dtReq[e]
      /\ dtReq'[d].pc = l /\ dtReq'[d].plan = dtReq[d].plan
      /\ dtReq'[d].force = dtReq[d].force /\ Head1(d)' = Head1(d)
  BY <1>3, GoReqIs DEF TreeInv
<1>5. dtReq[d].pc \in Retiring /\ l \in Retiring /\ l \in Removing /\ dtReq[d].pc \in Removing
  BY <1>2 DEF Retiring, Removing
<1>6. PlanInv(d)'
  BY <1>1, <1>2, <1>4 DEF TreeInv, ReqInv, PlanInv
<1>7. SeenInv(d)'
  BY <1>1, <1>4, <1>5 DEF TreeInv, ReqInv, SeenInv, Retiring
<1>8. HeadInv(d)'
  <2>1. /\ dtReq[d].pc = "stop" => dtReq'[d].pc = "rmdir"
        /\ dtReq[d].pc = "rmdir" => dtReq'[d].pc = "rmrow"
        /\ dtReq[d].pc = "rmrow" => dtReq'[d].pc = "retire"
    BY <1>2, GoReqIs DEF TreeInv
  <2>2. /\ dtReq[d].pc = "rmdir" => i \notin dtUp
        /\ Head1(d).kind = "instance" /\ dtStage[i] # "none"
    BY <1>5 DEF TreeInv, ReqInv, HeadInv
  <2>3. QED BY <1>1, <1>2, <1>4, <2>1, <2>2 DEF HeadInv
<1>9. ReqInv(d)' /\ OthersSame(d)
  BY <1>1, <1>4, <1>6, <1>7, <1>8 DEF ReqInv, OthersSame
<1>10. TreeTyped'
  BY <1>1, <1>2, <1>4 DEF TreeInv, TreeTyped, ReqTable
<1>11. Mild
  BY <1>1, <1>2 DEF Mild
<1>12. NothingUnlisted'
  <2>1. dtReq[d].pc = "rmrow" => i \notin dtUp \cup dtDirs
    BY DEF TreeInv, ReqInv, HeadInv
  <2>2. QED BY <1>1, <1>2, <2>1 DEF TreeInv, NothingUnlisted
<1>13. OrphansAreLate'
  BY <1>1 DEF TreeInv, OrphansAreLate
<1>14. QED BY <1>1, <1>9, <1>10, <1>11, <1>12, <1>13, OneDeletes

(* EndRetire: the lock goes with the instance.                             *)
LEMMA EndRetireMoves ==
  ASSUME TreeInv, NEW d \in Deleters, EndRetire(d)
  PROVE  TreeInv'
<1> DEFINE i == Head1(d).id
<1>1. /\ UNCHANGED <<dtStates, dtInst, dtUp, dtDirs, dtRest>>
      /\ dtReq[d].pc = "retire" /\ dtReq[d].plan # <<>>
      /\ dtStage' = [dtStage EXCEPT ![i] = "retired"] /\ dtILock' = [dtILock EXCEPT ![i] = {}]
      /\ DropNode(d)
  BY DEF EndRetire, ReqAt
<1>2. /\ dtRow' = dtRow /\ dtFiles' = dtFiles /\ dtLate' = dtLate /\ dtSeen' = dtSeen
      /\ dtInst' = dtInst /\ dtUp' = dtUp /\ dtDirs' = dtDirs
  BY <1>1 DEF dtStates, dtRest
<1>3. i \in TreeInstances /\ \A c : Head1(d) \notin NodesOf(c)
  <2>1. Head1(d) \in ClosedNodes /\ Head1(d).kind = "instance"
    BY <1>1, HeadIs DEF TreeInv, ReqInv, HeadInv, Retiring
  <2>2. QED BY <2>1, NodeIs
<1>4. /\ ReqTable' /\ \A e \in Deleters \ {d} : dtReq'[e] = dtReq[e]
      /\ dtReq'[d].pc = "delete" /\ dtReq'[d].plan = Tail(dtReq[d].plan)
      /\ dtReq'[d].force = dtReq[d].force
  BY <1>1, DropIs DEF TreeInv
<1>5. /\ DOMAIN dtStage' = TreeInstances /\ dtStage'[i] = "retired"
      /\ \A j \in TreeInstances : j # i => dtStage'[j] = dtStage[j]
      /\ DOMAIN dtILock' = TreeInstances /\ dtILock'[i] = {}
      /\ \A j \in TreeInstances : j # i => dtILock'[j] = dtILock[j]
  BY <1>1, <1>3 DEF TreeInv, TreeTyped
<1>6. PlanInv(d)'
  BY <1>1, <1>2, <1>3, <1>4, DropPlan DEF Removing, Retiring
<1>7. HeadInv(d)'
  BY <1>4 DEF HeadInv, Retiring
<1>8. SeenInv(d)'
  <2>1. \A j \in TreeInstances : d \in dtILock[j] => i = j
    BY DEF TreeInv, ReqInv, SeenInv
  <2>2. \A j \in TreeInstances : d \notin dtILock'[j]
    BY <1>5, <2>1
  <2>3. ~dtReq[d].force => dtSeen[d] = {}
    BY <1>1 DEF TreeInv, ReqInv, SeenInv, Removing, Retiring
  <2>4. QED BY <1>2, <1>4, <2>2, <2>3 DEF SeenInv, Removing, Retiring
<1>9. ReqInv(d)' /\ OthersSame(d)
  BY <1>2, <1>4, <1>6, <1>7, <1>8 DEF ReqInv, OthersSame
<1>10. TreeTyped'
  BY <1>2, <1>4, <1>5 DEF TreeInv, TreeTyped, ReqTable
<1>11. Mild
  BY <1>2, <1>5 DEF Mild
<1>12. NothingUnlisted' /\ OrphansAreLate'
  BY <1>2 DEF TreeInv, NothingUnlisted, OrphansAreLate
<1>13. \A e \in Deleters \ {d} : \A j \in TreeInstances : e \in dtILock'[j] => e \in dtILock[j]
  BY <1>5
<1>14. QED BY <1>9, <1>10, <1>11, <1>12, <1>13, OneDeletes

(* removeStateDir: the files go before the row.                            *)
LEMMA StateDirMoves ==
  ASSUME TreeInv, NEW d \in Deleters, removeStateDir(d)
  PROVE  TreeInv'
<1> DEFINE s == Head1(d).id
<1>1. /\ dtReq[d].pc = "delete" /\ dtReq[d].plan # <<>> /\ Head1(d).kind = "state"
      /\ dtFiles' = dtFiles \ {s} /\ GoReq(d, "staterow")
      /\ dtRow' = dtRow /\ dtInst' = dtInst /\ dtUp' = dtUp /\ dtDirs' = dtDirs /\ dtStage' = dtStage
      /\ dtILock' = dtILock /\ dtLate' = dtLate /\ dtSeen' = dtSeen
  BY DEF removeStateDir, ReqAt, dtInstances, dtRest
<1>2. /\ ReqTable' /\ \A e \in Deleters \ {d} : dtReq'[e] = dtReq[e]
      /\ dtReq'[d].pc = "staterow" /\ dtReq'[d].plan = dtReq[d].plan
      /\ dtReq'[d].force = dtReq[d].force /\ Head1(d)' = Head1(d)
  BY <1>1, GoReqIs DEF TreeInv
<1>3. PlanInv(d)'
  BY <1>1, <1>2 DEF TreeInv, ReqInv, PlanInv
<1>4. HeadInv(d)'
  BY <1>1, <1>2 DEF HeadInv, Retiring
<1>5. SeenInv(d)'
  BY <1>1, <1>2 DEF TreeInv, ReqInv, SeenInv, Removing, Retiring
<1>6. ReqInv(d)' /\ OthersSame(d)
  BY <1>1, <1>2, <1>3, <1>4, <1>5 DEF ReqInv, OthersSame
<1>7. TreeTyped'
  BY <1>1, <1>2 DEF TreeInv, TreeTyped, ReqTable
<1>8. Mild
  BY <1>1 DEF Mild
<1>9. NothingUnlisted' /\ OrphansAreLate'
  BY <1>1 DEF TreeInv, NothingUnlisted, OrphansAreLate
<1>10. QED BY <1>1, <1>6, <1>7, <1>8, <1>9, OneDeletes

(* DeleteStateRow: the files are gone, and no child is left but late ones. *)
LEMMA StateRowMoves ==
  ASSUME TreeInv, NEW d \in Deleters, DeleteStateRow(d)
  PROVE  TreeInv'
<1> DEFINE s == Head1(d).id
<1>1. /\ dtReq[d].pc = "staterow" /\ dtReq[d].plan # <<>> /\ dtFiles' = dtFiles
      /\ UNCHANGED <<dtInstances, dtILock, dtRest>>
  BY DEF DeleteStateRow, ReqAt
<1>2. CASE EndReq(d, "error") /\ UNCHANGED dtRow
  BY <1>1, <1>2, EndMoves DEF Retiring, dtStates
<1>3. CASE dtRow' = dtRow \ {s} /\ DropNode(d)
  <2>1. /\ dtInst' = dtInst /\ dtUp' = dtUp /\ dtDirs' = dtDirs /\ dtStage' = dtStage
        /\ dtILock' = dtILock /\ dtLate' = dtLate /\ dtSeen' = dtSeen
    BY <1>1 DEF dtInstances, dtRest
  <2>2. /\ ReqTable' /\ \A e \in Deleters \ {d} : dtReq'[e] = dtReq[e]
        /\ dtReq'[d].pc = "delete" /\ dtReq'[d].plan = Tail(dtReq[d].plan)
        /\ dtReq'[d].force = dtReq[d].force
    BY <1>3, DropIs DEF TreeInv
  <2>3. Head1(d).kind = "state" /\ s \notin dtFiles \ dtLate
    BY <1>1 DEF TreeInv, ReqInv, HeadInv
  <2>4. Head1(d) = StateNode(s, FALSE) /\ 1 \in 1 .. Len(dtReq[d].plan)
    <3>1. Head1(d) \in ClosedNodes /\ 1 \in 1 .. Len(dtReq[d].plan)
      BY <1>1, HeadIs DEF TreeInv, ReqInv
    <3>2. QED BY <2>3, <3>1, NodeIs
  <2>5. PlanInv(d)'
    <3>1. \A c : Head1(d) \in NodesOf(c) => c = s
      BY <2>4 DEF NodesOf, StateNode
    <3>2. \A c \in dtRow' \ dtLate : Head1(d) \notin NodesOf(c)
      BY <1>3, <3>1
    <3>3. dtRow' \subseteq dtRow
      BY <1>3
    <3>4. QED BY <1>1, <2>1, <2>2, <3>2, <3>3, DropPlan DEF Removing
  <2>6. HeadInv(d)'
    BY <2>2 DEF HeadInv, Retiring
  <2>7. SeenInv(d)'
    BY <1>1, <2>1, <2>2 DEF TreeInv, ReqInv, SeenInv, Removing, Retiring
  <2>8. ReqInv(d)' /\ OthersSame(d)
    BY <2>1, <2>2, <2>5, <2>6, <2>7 DEF ReqInv, OthersSame
  <2>9. TreeTyped'
    BY <1>3, <2>1, <2>2 DEF TreeInv, TreeTyped, ReqTable
  <2>10. Mild
    BY <1>1, <1>3, <2>1 DEF Mild
  <2>11. NothingUnlisted'
    BY <1>1, <1>3, <2>1, <2>3 DEF TreeInv, NothingUnlisted
  <2>12. OrphansAreLate'
    <3>1. ASSUME NEW c \in dtRow, TreeParent[c] = s PROVE c \in dtLate
      <4>1. Covered(dtReq[d].plan, dtRow \ dtLate)
        BY <1>1 DEF TreeInv, ReqInv, PlanInv
      <4>2. dtReq[d].plan[1] = StateNode(TreeParent[c], FALSE)
        BY <2>4, <3>1 DEF Head1
      <4>3. c \in dtRow \ dtLate => \E m \in 1 .. 1 - 1 : dtReq[d].plan[m] \in NodesOf(c)
        BY <2>4, <4>1, <4>2 DEF Covered
      <4>4. ~\E m \in 1 .. 1 - 1 : TRUE
        OBVIOUS
      <4>5. QED BY <4>3, <4>4
    <3>2. QED BY <1>3, <2>1, <3>1 DEF TreeInv, OrphansAreLate
  <2>13. QED BY <2>1, <2>8, <2>9, <2>10, <2>11, <2>12, OneDeletes
<1>4. QED BY <1>2, <1>3 DEF DeleteStateRow

(* DeleteFails: the lock is given back.                                    *)
LEMMA FailMoves ==
  ASSUME TreeInv, NEW d \in Deleters, DeleteFails(d)
  PROVE  TreeInv'
<1>1. /\ EndReq(d, "error") /\ UNCHANGED <<dtStates, dtInstances, dtRest>>
      /\ dtILock' = [i \in TreeInstances |-> IF dtILock[i] = {d} THEN {} ELSE dtILock[i]]
  BY DEF DeleteFails
<1>2. /\ dtRow' = dtRow /\ dtFiles' = dtFiles /\ dtLate' = dtLate /\ dtSeen' = dtSeen
      /\ dtInst' = dtInst /\ dtUp' = dtUp /\ dtDirs' = dtDirs /\ dtStage' = dtStage
  BY <1>1 DEF dtStates, dtInstances, dtRest
<1>3. /\ ReqTable' /\ \A e \in Deleters \ {d} : dtReq'[e] = dtReq[e]
      /\ dtReq'[d].pc = "error" /\ dtReq'[d].plan = <<>>
  BY <1>1, EndReqIs DEF TreeInv
<1>4. /\ DOMAIN dtILock' = TreeInstances
      /\ \A i \in TreeInstances : dtILock'[i] = {} \/ (dtILock'[i] = dtILock[i] /\ dtILock[i] # {d})
  BY <1>1
<1>5. \A i \in TreeInstances : d \notin dtILock'[i]
  BY <1>4 DEF TreeInv, TreeTyped
<1>6. ReqInv(d)' /\ OthersSame(d)
  BY <1>2, <1>3, <1>5, EndedInv DEF OthersSame
<1>7. TreeTyped'
  BY <1>2, <1>3, <1>4 DEF TreeInv, TreeTyped, ReqTable
<1>8. Mild
  BY <1>2 DEF Mild
<1>9. NothingUnlisted' /\ OrphansAreLate'
  BY <1>2 DEF TreeInv, NothingUnlisted, OrphansAreLate
<1>10. \A e \in Deleters \ {d} : \A i \in TreeInstances : e \in dtILock'[i] => e \in dtILock[i]
  BY <1>4
<1>11. QED BY <1>6, <1>7, <1>8, <1>9, <1>10, OneDeletes

(* The rest of the engine changes no request.                              *)
LEMMA RestMoves ==
  ASSUME TreeInv, \/ \E s \in TreeStates : PublishChild(s)
                  \/ \E i \in TreeInstances : AddInstance(i) \/ ConnectTo(i)
                  \/ UNCHANGED treeVars
  PROVE  TreeInv'
<1>1. dtReq' = dtReq /\ dtSeen' = dtSeen /\ dtILock' = dtILock
  BY DEF PublishChild, AddInstance, ConnectTo, treeVars, dtInstances, dtStates, dtRest
<1>2. ASSUME Mild, TreeTyped', NothingUnlisted', OrphansAreLate' PROVE TreeInv'
  <2>1. ASSUME NEW d \in Deleters PROVE ReqInv(d)'
    BY <1>1, <1>2, OthersStay DEF TreeInv
  <2>2. QED BY <1>2, <2>1 DEF TreeInv
<1>3. ASSUME NEW s \in TreeStates, PublishChild(s) PROVE TreeInv'
  <2>1. /\ dtRow' = dtRow \cup {s} /\ dtFiles' = dtFiles \cup {s} /\ TreeParent[s] \in dtRow
        /\ dtLate' = dtLate \/ dtLate' = dtLate \cup {s}
        /\ Listed(s) => dtLate' = dtLate \cup {s}
        /\ dtInst' = dtInst /\ dtUp' = dtUp /\ dtDirs' = dtDirs /\ dtStage' = dtStage
    BY <1>3 DEF PublishChild, dtInstances
  <2>2. Mild
    BY <2>1 DEF Mild
  <2>3. TreeTyped'
    BY <1>1, <2>1 DEF TreeInv, TreeTyped
  <2>4. NothingUnlisted' /\ OrphansAreLate'
    BY <2>1 DEF TreeInv, NothingUnlisted, OrphansAreLate
  <2>5. QED BY <1>2, <2>2, <2>3, <2>4
<1>4. ASSUME NEW i \in TreeInstances, AddInstance(i) PROVE TreeInv'
  <2>1. /\ dtInst' = dtInst \cup {i} /\ dtUp' = dtUp \cup {i} /\ dtDirs' = dtDirs \cup {i}
        /\ dtStage' = [dtStage EXCEPT ![i] = "bound"] /\ dtStage[i] = "none"
        /\ dtRow' = dtRow /\ dtFiles' = dtFiles /\ dtLate' = dtLate
    BY <1>4 DEF AddInstance, dtStates, dtRest
  <2>2. DOMAIN dtStage' = TreeInstances /\ \A j \in TreeInstances : dtStage'[j] = dtStage[j] \/ dtStage'[j] = "bound"
    BY <2>1 DEF TreeInv, TreeTyped
  <2>3. Mild
    BY <2>1, <2>2 DEF Mild
  <2>4. TreeTyped'
    BY <1>1, <2>1, <2>2 DEF TreeInv, TreeTyped
  <2>5. NothingUnlisted' /\ OrphansAreLate'
    BY <2>1 DEF TreeInv, NothingUnlisted, OrphansAreLate
  <2>6. QED BY <1>2, <2>3, <2>4, <2>5
<1>5. CASE (\E i \in TreeInstances : ConnectTo(i)) \/ UNCHANGED treeVars
  <2>1. /\ dtInst' = dtInst /\ dtUp' = dtUp /\ dtDirs' = dtDirs /\ dtStage' = dtStage
        /\ dtRow' = dtRow /\ dtFiles' = dtFiles /\ dtLate' = dtLate
    BY <1>5 DEF ConnectTo, dtStates, dtInstances, treeVars
  <2>2. Mild
    BY <2>1 DEF Mild
  <2>3. TreeTyped'
    BY <1>1, <2>1 DEF TreeInv, TreeTyped
  <2>4. NothingUnlisted' /\ OrphansAreLate'
    BY <2>1 DEF TreeInv, NothingUnlisted, OrphansAreLate
  <2>5. QED BY <1>2, <2>2, <2>3, <2>4
<1>6. QED BY <1>3, <1>4, <1>5

(* A restart ends every request and frees every lock.                      *)
LEMMA RestartMoves ==
  ASSUME TreeInv, RestartDuringDelete
  PROVE  TreeInv'
<1>1. /\ dtRow' = dtRow /\ dtFiles' = dtFiles /\ dtLate' = dtLate /\ dtSeen' = dtSeen
      /\ dtInst' = dtInst /\ dtUp' = dtUp /\ dtDirs' = dtDirs /\ dtStage' = dtStage
      /\ dtReq' = [d \in Deleters |-> [NoRequest EXCEPT !.pc = "error"]]
      /\ dtILock' = [i \in TreeInstances |-> {}]
  BY DEF RestartDuringDelete, dtStates, dtInstances, dtRest
<1>2. ReqTable' /\ \A d \in Deleters : dtReq'[d].pc = "error" /\ dtReq'[d].plan = <<>>
  BY <1>1 DEF NoRequest, ReqTable, ReqFields
<1>3. TreeTyped'
  BY <1>1, <1>2 DEF TreeInv, TreeTyped, ReqTable
<1>4. NothingUnlisted' /\ OrphansAreLate'
  BY <1>1 DEF TreeInv, NothingUnlisted, OrphansAreLate
<1>5. ASSUME NEW d \in Deleters PROVE ReqInv(d)'
  BY <1>1, <1>2, EndedInv
<1>6. QED BY <1>3, <1>4, <1>5 DEF TreeInv

(* The invariant is inductive, action by action.                           *)
LEMMA TreeInvStep == TreeInv /\ [TreeNext]_treeVars => TreeInv'
<1> SUFFICES ASSUME TreeInv, [TreeNext]_treeVars PROVE TreeInv'
  OBVIOUS
<1>1. ASSUME NEW d \in Deleters, Deleted(d) PROVE TreeInv'
  BY <1>1, EndMoves DEF Deleted, Retiring
<1>2. ASSUME NEW d \in Deleters, DeleteStep(d) PROVE TreeInv'
  BY <1>1, <1>2, CheckMoves, ListNodeMoves, JudgeMoves, BeginMoves, RetireMoves, EndRetireMoves,
     StateDirMoves, StateRowMoves DEF DeleteStep
<1>3. QED
  BY <1>2, AskMoves, FailMoves, RestMoves, RestartMoves DEF TreeNext

(* The three properties are consequences.                                  *)
LEMMA TreeInvEnough == TreeInv => NothingUnlisted /\ ConnectedSpared /\ OrphansAreLate
<1> SUFFICES ASSUME TreeInv PROVE ConnectedSpared
  BY DEF TreeInv
<1>1. ASSUME NEW d \in Deleters, NEW i \in dtSeen[d], ~dtReq[d].force, d \in dtILock[i] PROVE FALSE
  <2>1. i \in TreeInstances
    BY DEF TreeInv, TreeTyped
  <2>2. QED BY <1>1, <2>1 DEF TreeInv, ReqInv, SeenInv, Removing
<1>2. QED BY <1>1 DEF ConnectedSpared

(***************************************************************************)
(* Deletion (deletion/manager.go), with any number of requests at work at  *)
(* once, new states and instances, failing steps and restarts: files       *)
(* always have a row, an instance that was seen with a connection is not   *)
(* retired without force, and no deletion makes an orphan of a state that  *)
(* was there when it listed the children of its parent.                    *)
(***************************************************************************)
THEOREM DeletionIsSafe == Spec => [](NothingUnlisted /\ ConnectedSpared /\ OrphansAreLate)
<1>1. Init => TreeInv
  BY LiveInit, TreeInvInit
<1>2. TreeInv /\ [Next]_liveVars => TreeInv'
  BY LiveStep, TreeInvStep
<1>3. QED BY <1>1, <1>2, TreeInvEnough, PTL DEF Spec

(***************************************************************************)
(* Both together are what the run of MCLive checks on its instances.       *)
(***************************************************************************)
THEOREM RemovalsAreSafe == Spec => []RemovalSafe
<1>1. (EvictionMeasured /\ EvictionSpares /\ EvictedToBudget)
      /\ (NothingUnlisted /\ ConnectedSpared /\ OrphansAreLate) => RemovalSafe
  BY DEF RemovalSafe
<1>2. QED BY <1>1, EvictionIsSafe, DeletionIsSafe, PTL
=============================================================================

------------------------------- MODULE MCLive -------------------------------
(***************************************************************************)
(* The components with locks, retries and deadlines, under TLC and with    *)
(* liveness: cache eviction, the managed and the unmanaged base, deletion  *)
(* of trees of states, starting and finding an engine, watching and        *)
(* stopping a job, and uploading sources.  They share no state: a          *)
(* behaviour is one of one of them, named by part, and the others keep an  *)
(* initial state.                                                          *)
(***************************************************************************)
EXTENDS Eviction, ManagedBase, BaseDir, DeleteTree, EngineStart, WatchControl, RemoteSource

VARIABLE part
liveVars == <<part, evictVars, baseVars, dirVars, treeVars, startVars, watchVars, syncVars>>

(* Eviction: 2 is a child of 1; sizes, last uses and exempt states.        *)
Parents == (1 :> 0) @@ (2 :> 1) @@ (3 :> 0)
Entry(sizes, uses, spared) ==
  [x \in EvictStates |-> [size |-> sizes[x], used |-> uses[x], exempt |-> x \in spared]]
AnEntry == Entry(<<1, 3, 1>>, <<0, 1, 0>>, {})
Entries == {AnEntry, Entry(<<1, 1, 3>>, <<0, 0, 0>>, {3})}
Config(max, reserve, high, low) == [max |-> max, reserve |-> reserve, high |-> high, low |-> low]
AConfig == Config(4, 0, 100, 50)
Configs == {AConfig, Config(0, 0, 50, 90), Config(0, 20, 90, 80), Config(2, 5, 90, 60)}

(* DeleteTree: 2 and 3 are children of 1, the instances belong to 2.       *)
TreeParents == (1 :> 0) @@ (2 :> 1) @@ (3 :> 1)
InstanceStates == [i \in TreeInstances |-> 2]

(* RemoteSource: a second content names a directory as well.               *)
Includes == [c \in Contents |-> IF c = 1 THEN {"b"} ELSE {"b", "d"}]

Init ==
  /\ part \in {"evict", "base", "dir", "tree", "start", "watch", "sync"}
  /\ EvictInit /\ (part # "evict" => evConfig = AConfig /\ evEntry = AnEntry)
  /\ BaseInit /\ DirInit /\ TreeInit
  /\ StartInit /\ (part # "start" => storeLock = NoEngine)
  /\ WatchInit /\ (part # "watch" => watch.mode = "prepare")
  /\ SyncInit /\ (part # "sync" => rsBlobs = [c \in Contents |-> 0])

Next ==
  \/ /\ part = "evict" /\ EvictNext
     /\ UNCHANGED <<part, baseVars, dirVars, treeVars, startVars, watchVars, syncVars>>
  \/ /\ part = "base" /\ BaseNext
     /\ UNCHANGED <<part, evictVars, dirVars, treeVars, startVars, watchVars, syncVars>>
  \/ /\ part = "dir" /\ DirNext
     /\ UNCHANGED <<part, evictVars, baseVars, treeVars, startVars, watchVars, syncVars>>
  \/ /\ part = "tree" /\ TreeNext
     /\ UNCHANGED <<part, evictVars, baseVars, dirVars, startVars, watchVars, syncVars>>
  \/ /\ part = "start" /\ StartNext
     /\ UNCHANGED <<part, evictVars, baseVars, dirVars, treeVars, watchVars, syncVars>>
  \/ /\ part = "watch" /\ WatchNext
     /\ UNCHANGED <<part, evictVars, baseVars, dirVars, treeVars, startVars, syncVars>>
  \/ /\ part = "sync" /\ SyncNext
     /\ UNCHANGED <<part, evictVars, baseVars, dirVars, treeVars, startVars, watchVars>>

(* The fairness of the modules, each for the behaviours of its part.       *)
Fairness ==
  /\ \A j \in EvictJobs : WF_evictVars(part = "evict" /\ EvictStep(j))
  /\ WF_evictVars(part = "evict" /\ EvictLockAges)
  /\ \A j \in BaseJobs : WF_baseVars(part = "base" /\ BaseStep(j))
  /\ \A j \in DirJobs : WF_dirVars(part = "dir" /\ DirStep(j))
  /\ \A d \in Deleters : WF_treeVars(part = "tree" /\ DeleteStep(d))
  /\ \A c \in Clis : /\ WF_startVars(part = "start" /\ CliStep(c))
                     /\ WF_startVars(part = "start" /\ Deadline(c))
  /\ WF_watchVars(part = "watch" /\ JobFinishes)
  /\ WF_watchVars(part = "watch" /\ JobAnnounces)
  /\ WF_watchVars(part = "watch" /\ WatchProgress)
  /\ WF_syncVars(part = "sync" /\ SyncStep)

Spec == Init /\ [][Next]_liveVars /\ Fairness

-----------------------------------------------------------------------------
\* A base that a job clones is whole and has the password of its secret
\* (startManagedRuntime, Bootstrap; ManagedBase); one job at a time runs initdb,
\* and a marked base is whole (withInitLock, ensureBaseState; BaseDir).
BasesSafe ==
  CASE part = "base" -> ClonedBaseFits
    [] part = "dir" -> OneInitdb /\ MarkedBaseWhole
    [] OTHER -> TRUE

\* Removing states: eviction takes leaves only, measures again after every victim
\* and reports success only within the budget (Eviction); whatever step of
\* deleteTree fails or is cut off, it leaves no files without a row, retires no
\* connected instance without force and makes no orphan of its own (DeleteTree).
RemovalSafe ==
  CASE part = "evict" -> EvictionMeasured /\ EvictionSpares /\ EvictedToBudget
    [] part = "tree" -> NothingUnlisted /\ ConnectedSpared /\ OrphansAreLate
    [] OTHER -> TRUE

\* While an engine serves, engine.json names it (EngineStart); the watching CLI
\* shows every event once, returns how the job ended and stops it only when told
\* to (WatchControl); an upload never mixes two versions of a file, however it is
\* edited meanwhile (RemoteSource).
ServiceSafe ==
  CASE part = "start" -> ServingDiscoverable
    [] part = "watch" -> WatchSafe
    [] part = "sync" -> SyncTruthful
    [] OTHER -> TRUE

\* Nobody waits for ever: for the eviction lock, for the mutex of the managed base,
\* for the init lock of a base directory, for the locks of a deletion; a connecting
\* CLI gets an engine or an error, a watching CLI returns, and the upload loop ends
\* (EvictorsReturn, BaseJobsEnd, BaseLockFreed, DeletionEnds, ConnectReturns,
\* WatchReturns and SyncEnds of the modules).
WaitsEnd ==
  /\ \A j \in EvictJobs : []<>(part = "evict" => EvictorHome(j))
  /\ \A j \in BaseJobs : []<>(part = "base" => BaseJobEnded(j))
  /\ \A j \in DirJobs : []<>(part = "dir" => DirJobEnded(j))
  /\ \A d \in Deleters : []<>(part = "tree" => DeletionOver(d))
  /\ \A c \in Clis : []<>(part = "start" => Returned(c))
  /\ []<>(part = "watch" => WatchDone)
  /\ []<>(part = "sync" => SyncOver)
=============================================================================

----------------------------- MODULE Containers ------------------------------
(* Containers of the engine: Start and StartManaged, Stop, StopManaged and     *)
(* InspectManaged of runtime/docker.go and managed.go, with a daemon that may  *)
(* be down, calls that fail, a context that is cancelled and an engine that    *)
(* restarts and forgets its map of managed containers.                        *)
EXTENDS Integers, FiniteSets

CONSTANTS
    Runtimes,             \* what is started; one container each
    ManagedRuntimes,      \* those started with StartManaged
    MaxEngineRestarts     \* bound

ASSUME RuntimeConstants == ManagedRuntimes \subseteq Runtimes /\ MaxEngineRestarts \in Nat

VARIABLES
    ctPc,        \* the operation on every runtime
    ctLive,      \* containers the daemon has
    ctServer,    \* containers whose PostgreSQL runs
    ctKnown,     \* managedContainers: the map of this engine process
    ctCancelled, \* contexts that are done
    ctDaemon,    \* the daemon answers
    ctDirty,     \* history: stopped containers whose PostgreSQL had not stopped
    ctRestarts

containerVars == <<ctPc, ctLive, ctServer, ctKnown, ctCancelled, ctDaemon, ctDirty, ctRestarts>>
ctWorld == <<ctCancelled, ctDaemon, ctDirty, ctRestarts>>

ContainersInit ==
    /\ ctPc = [r \in Runtimes |-> "idle"]
    /\ ctLive = {} /\ ctServer = {} /\ ctKnown = {} /\ ctCancelled = {}
    /\ ctDaemon = TRUE /\ ctDirty = {} /\ ctRestarts = 0

CtGo(r, l) == ctPc' = [ctPc EXCEPT ![r] = l]

\* A command reaches the daemon if it is up and the context is not done.
CanRun(r) == ctDaemon /\ r \notin ctCancelled

\* docker run -d ... sleep infinity.  A run that fails may have created the
\* container, whose id nobody has then.
RunDetached(r) ==
    /\ ctPc[r] = "idle" /\ CanRun(r)
    /\ \/ ctLive' = ctLive \cup {r} /\ CtGo(r, "init")
       \/ ctLive' \in {ctLive, ctLive \cup {r}} /\ CtGo(r, "failed")
    /\ UNCHANGED <<ctServer, ctKnown, ctWorld>>

\* Owner and mode of the data directory; PG_VERSION, host rules.
PrepareData(r) ==
    /\ ctPc[r] = "init" /\ CanRun(r)
    /\ CtGo(r, "pgctl")
    /\ UNCHANGED <<ctLive, ctServer, ctKnown, ctWorld>>

StartPostgres(r) ==
    /\ ctPc[r] = "pgctl" /\ CanRun(r)
    /\ ctServer' = ctServer \cup {r} /\ CtGo(r, "port")
    /\ UNCHANGED <<ctLive, ctKnown, ctWorld>>

\* The port is read; a managed container enters the map.
LearnPort(r) ==
    /\ ctPc[r] = "port" /\ CanRun(r)
    /\ ctKnown' = IF r \in ManagedRuntimes THEN ctKnown \cup {r} ELSE ctKnown
    /\ CtGo(r, "up")
    /\ UNCHANGED <<ctLive, ctServer, ctWorld>>

\* A command of the start fails: the container is to be removed.
StartFails(r) ==
    /\ ctPc[r] \in {"init", "pgctl", "port"}
    /\ CtGo(r, "undo")
    /\ UNCHANGED <<ctLive, ctServer, ctKnown, ctWorld>>

\* StartManaged removes it with a context that cannot be cancelled, Start with
\* the one of the caller; the result of the removal is not looked at.
UndoStart(r) ==
    /\ ctPc[r] = "undo"
    /\ LET removed == ctDaemon /\ (r \in ManagedRuntimes \/ r \notin ctCancelled) IN
       /\ ctLive' = IF removed THEN ctLive \ {r} ELSE ctLive
       /\ ctServer' = IF removed THEN ctServer \ {r} ELSE ctServer
    /\ CtGo(r, "failed")
    /\ UNCHANGED <<ctKnown, ctWorld>>

-----------------------------------------------------------------------------
(* Stopping a container somebody recorded, perhaps before a restart.          *)

BeginStop(r) ==
    /\ ctPc[r] = "up"
    /\ CtGo(r, IF r \in ManagedRuntimes THEN "ps" ELSE "stop")
    /\ UNCHANGED <<ctLive, ctServer, ctKnown, ctWorld>>

\* Mutant of ConfirmContainer.
ConfirmContainerGuesses(r) ==
    /\ ctPc[r] = "ps"
    /\ IF CanRun(r) /\ r \in ctLive THEN CtGo(r, "inspect") /\ UNCHANGED ctKnown
       ELSE CtGo(r, "stopped") /\ ctKnown' = ctKnown \ {r}
    /\ UNCHANGED <<ctLive, ctServer, ctWorld>>

\* docker ps --all: confirmed absence ends the stop.
ConfirmContainer(r) ==
    /\ ctPc[r] = "ps" /\ CanRun(r)
    /\ IF r \in ctLive THEN CtGo(r, "inspect") /\ UNCHANGED ctKnown
       ELSE CtGo(r, "stopped") /\ ctKnown' = ctKnown \ {r}
    /\ UNCHANGED <<ctLive, ctServer, ctWorld>>

\* Mutant of InspectManaged.
InspectManagedForgets(r) ==
    /\ ctPc[r] = "inspect" /\ CanRun(r)
    /\ CtGo(r, "stop")
    /\ UNCHANGED <<ctLive, ctServer, ctKnown, ctWorld>>

\* Labels and state must be those of the record; the container enters the map.
InspectManaged(r) ==
    /\ ctPc[r] = "inspect" /\ CanRun(r)
    /\ ctKnown' = ctKnown \cup {r} /\ CtGo(r, "stop")
    /\ UNCHANGED <<ctLive, ctServer, ctWorld>>

\* Stop: a container of the map has its PostgreSQL stopped first.
StopServer(r) ==
    /\ ctPc[r] = "stop" /\ CanRun(r)
    /\ ctServer' = IF r \in ctKnown THEN ctServer \ {r} ELSE ctServer
    /\ CtGo(r, "rm")
    /\ UNCHANGED <<ctLive, ctKnown, ctWorld>>

\* docker rm -f; a container that does not exist is fine.
RemoveContainer(r) ==
    /\ ctPc[r] = "rm" /\ CanRun(r)
    /\ ctDirty' = IF r \in ctServer \cap ctLive THEN ctDirty \cup {r} ELSE ctDirty
    /\ ctLive' = ctLive \ {r} /\ ctServer' = ctServer \ {r}
    /\ CtGo(r, "stopped")
    /\ UNCHANGED <<ctKnown, ctCancelled, ctDaemon, ctRestarts>>

\* A stop that fails is reported; it may be asked for again.
StopFails(r) ==
    /\ ctPc[r] \in {"ps", "inspect", "stop", "rm"}
    /\ CtGo(r, "up")
    /\ UNCHANGED <<ctLive, ctServer, ctKnown, ctWorld>>

-----------------------------------------------------------------------------
CancelRuntime(r) ==
    /\ r \notin ctCancelled
    /\ ctCancelled' = ctCancelled \cup {r}
    /\ UNCHANGED <<ctPc, ctLive, ctServer, ctKnown, ctDaemon, ctDirty, ctRestarts>>

\* A container may end by itself (--rm removes it), the daemon may go and come.
ContainerDies(r) ==
    /\ r \in ctLive /\ ctPc[r] = "up"
    /\ ctLive' = ctLive \ {r} /\ ctServer' = ctServer \ {r}
    /\ UNCHANGED <<ctPc, ctKnown, ctWorld>>

ToggleDaemon ==
    /\ ctDaemon' = ~ctDaemon
    /\ UNCHANGED <<ctPc, ctLive, ctServer, ctKnown, ctCancelled, ctDirty, ctRestarts>>

\* A new engine process: records survive, the map and the contexts do not.
RestartEngine ==
    /\ ctRestarts < MaxEngineRestarts
    /\ ctRestarts' = ctRestarts + 1
    /\ ctKnown' = {} /\ ctCancelled' = {}
    /\ ctPc' = [r \in Runtimes |->
                  CASE ctPc[r] \in {"ps", "inspect", "stop", "rm"} -> "up"
                    [] ctPc[r] \in {"init", "pgctl", "port", "undo"} -> "lost"
                    [] OTHER -> ctPc[r]]
    /\ UNCHANGED <<ctLive, ctServer, ctDaemon, ctDirty>>

ContainersNext ==
    \/ \E r \in Runtimes :
         \/ RunDetached(r) \/ PrepareData(r) \/ StartPostgres(r) \/ LearnPort(r)
         \/ StartFails(r) \/ UndoStart(r) \/ BeginStop(r) \/ ConfirmContainer(r)
         \/ InspectManaged(r) \/ StopServer(r) \/ RemoveContainer(r) \/ StopFails(r)
         \/ CancelRuntime(r) \/ ContainerDies(r)
    \/ ToggleDaemon \/ RestartEngine

-----------------------------------------------------------------------------
(* Properties.                                                                *)

\* A managed container is never removed by a stop while its PostgreSQL runs, so
\* that its data directory is clean for a snapshot, also when the stop follows a
\* restart that lost the map of managed containers (StopManaged, Stop).
ManagedStopClean == ctDirty \cap ManagedRuntimes = {}

\* "A failed observation cannot authorize erase": a stop that returned without
\* error means that the container does not exist, and until then PostgreSQL was
\* not left without its container.
StoppedIsGone ==
    /\ \A r \in Runtimes : ctPc[r] = "stopped" => r \notin ctLive
    /\ ctServer \subseteq ctLive
=============================================================================

------------------------------- MODULE BaseDir -------------------------------
(* The base directory of an image when the service has no access component:    *)
(* ensureBaseState and withInitLock of prepare/execution.go over InitBase of   *)
(* runtime/docker.go, then startRuntime up to the running container.  The      *)
(* lock is a file created with O_EXCL, the marker a file written at the end.   *)
EXTENDS Integers, FiniteSets

CONSTANTS
    DirJobs,          \* jobs that start from the image
    MaxDirKills       \* bound: initdb killed, engine stopped

VARIABLES
    bdFiles,    \* "none", "empty", "torn" (PG_VERSION of an unfinished initdb), "whole"
    bdMarker, bdLock,
    bdPc, bdKills,
    bdTorn      \* history: an initdb was killed

dirVars == <<bdFiles, bdMarker, bdLock, bdPc, bdKills, bdTorn>>
bdDisk == <<bdFiles, bdMarker, bdLock>>

DirInit ==
    /\ bdFiles = "none" /\ bdMarker = FALSE /\ bdLock = FALSE
    /\ bdPc = [j \in DirJobs |-> "check"] /\ bdKills = 0 /\ bdTorn = FALSE

DirGo(j, l) == bdPc' = [bdPc EXCEPT ![j] = l]

initMarkerExists(j) ==
    /\ bdPc[j] = "check"
    /\ DirGo(j, IF bdMarker THEN "clone" ELSE "mkdir")
    /\ UNCHANGED <<bdDisk, bdKills, bdTorn>>

ensureBaseDir(j) ==
    /\ bdPc[j] = "mkdir"
    /\ bdFiles' = IF bdFiles = "none" THEN "empty" ELSE bdFiles
    /\ DirGo(j, "lock")
    /\ UNCHANGED <<bdMarker, bdLock, bdKills, bdTorn>>

\* Mutant of TakeInitLock.
TakeInitLockAnyway(j) ==
    /\ bdPc[j] = "lock"
    /\ \/ ~bdLock /\ bdLock' = TRUE /\ DirGo(j, "inspect")
       \/ bdLock /\ bdLock' = FALSE /\ DirGo(j, "lock")
    /\ UNCHANGED <<bdFiles, bdMarker, bdKills, bdTorn>>

\* withInitLock: create the file, or look for the marker of a finished
\* initialisation, in which case the lock is taken for a left-over and removed.
TakeInitLock(j) ==
    /\ bdPc[j] = "lock"
    /\ \/ ~bdLock /\ bdLock' = TRUE /\ DirGo(j, "inspect")
       \/ bdLock /\ bdMarker /\ bdLock' = FALSE /\ DirGo(j, "clone")
    /\ UNCHANGED <<bdFiles, bdMarker, bdKills, bdTorn>>

hasPGVersion(files) == files \in {"torn", "whole"}
resetBaseDirContents(files) == "empty"

\* Mutant of InspectBase.
InspectBaseMarks(j) ==
    /\ bdPc[j] = "inspect"
    /\ IF bdMarker THEN DirGo(j, "unlock") /\ UNCHANGED <<bdFiles, bdMarker>>
       ELSE bdMarker' = TRUE /\ bdFiles' = "empty" /\ DirGo(j, "init")
    /\ UNCHANGED <<bdLock, bdKills, bdTorn>>

\* Under the lock: a marker or a PG_VERSION (or one that cannot be read) means
\* that there is nothing to do; else everything but the lock is removed.
InspectBase(j) ==
    /\ bdPc[j] = "inspect"
    /\ IF bdMarker THEN DirGo(j, "unlock") /\ UNCHANGED bdFiles
       ELSE IF hasPGVersion(bdFiles) THEN DirGo(j, "mark") /\ UNCHANGED bdFiles
       ELSE \/ bdFiles' = resetBaseDirContents(bdFiles) /\ DirGo(j, "init")
            \/ DirGo(j, "abort") /\ UNCHANGED bdFiles
    /\ UNCHANGED <<bdMarker, bdLock, bdKills, bdTorn>>

\* docker run ... initdb starts; PG_VERSION is among the first files it writes.
StartInitdb(j) ==
    /\ bdPc[j] = "init"
    /\ bdFiles' = "torn" /\ DirGo(j, "initdb")
    /\ UNCHANGED <<bdMarker, bdLock, bdKills, bdTorn>>

\* InitBase then sees PG_VERSION, opens the files and the host rules, or fails to.
FinishInitdb(j) ==
    /\ bdPc[j] = "initdb"
    /\ bdFiles' = "whole" /\ \E l \in {"mark", "abort"} : DirGo(j, l)
    /\ UNCHANGED <<bdMarker, bdLock, bdKills, bdTorn>>

\* initdb reports an error and cleans up after itself; or a step before it fails.
InitBaseFails(j) ==
    /\ bdPc[j] \in {"init", "initdb"}
    /\ bdFiles' = "empty" /\ DirGo(j, "abort")
    /\ UNCHANGED <<bdMarker, bdLock, bdKills, bdTorn>>

writeInitMarker(j) ==
    /\ bdPc[j] = "mark"
    /\ \/ bdMarker' = TRUE /\ DirGo(j, "unlock")
       \/ DirGo(j, "abort") /\ UNCHANGED bdMarker
    /\ UNCHANGED <<bdFiles, bdLock, bdKills, bdTorn>>

\* Mutant of ReleaseInitLock.
ReleaseInitLockOnSuccess(j) ==
    /\ bdPc[j] \in {"unlock", "abort"}
    /\ bdLock' = (bdPc[j] = "abort")
    /\ DirGo(j, IF bdPc[j] = "unlock" THEN "clone" ELSE "failed")
    /\ UNCHANGED <<bdFiles, bdMarker, bdKills, bdTorn>>

\* The deferred os.Remove of the lock file.
ReleaseInitLock(j) ==
    /\ bdPc[j] \in {"unlock", "abort"}
    /\ bdLock' = FALSE
    /\ DirGo(j, IF bdPc[j] = "unlock" THEN "clone" ELSE "failed")
    /\ UNCHANGED <<bdFiles, bdMarker, bdKills, bdTorn>>

\* startRuntime clones the base and starts a container, which checks PG_VERSION
\* once more and may run initdb in the clone; a clone that is dirty is refused.
StartFromBase(j) ==
    /\ bdPc[j] = "clone"
    /\ DirGo(j, IF bdFiles = "whole" THEN "done" ELSE "broken")
    /\ UNCHANGED <<bdDisk, bdKills, bdTorn>>

\* The job is cancelled while it polls for the lock.
DirCancelled(j) ==
    /\ bdPc[j] = "lock" /\ bdLock
    /\ DirGo(j, "failed")
    /\ UNCHANGED <<bdDisk, bdKills, bdTorn>>

\* The container or its client is stopped in the middle of initdb, by the daemon or
\* because the job is cancelled.  InitBase then goes by PG_VERSION alone, unless the
\* daemon does not answer.
KillInitdb(j) ==
    /\ bdPc[j] = "initdb" /\ bdKills < MaxDirKills
    /\ bdKills' = bdKills + 1 /\ bdTorn' = TRUE
    /\ \E l \in (IF hasPGVersion(bdFiles) THEN {"mark", "abort"} ELSE {"abort"}) : DirGo(j, l)
    /\ UNCHANGED bdDisk

\* The engine stops: the files stay, the jobs begin again.
StopEngineInBase ==
    /\ bdKills < MaxDirKills
    /\ bdKills' = bdKills + 1
    /\ bdTorn' = (bdTorn \/ \E j \in DirJobs : bdPc[j] = "initdb")
    /\ bdPc' = [j \in DirJobs |-> "check"]
    /\ UNCHANGED bdDisk

DirStep(j) ==
    \/ initMarkerExists(j) \/ ensureBaseDir(j) \/ TakeInitLock(j) \/ InspectBase(j)
    \/ StartInitdb(j) \/ FinishInitdb(j) \/ writeInitMarker(j) \/ ReleaseInitLock(j)
    \/ StartFromBase(j)

DirNext ==
    \/ \E j \in DirJobs : DirStep(j) \/ InitBaseFails(j) \/ KillInitdb(j) \/ DirCancelled(j)
    \/ StopEngineInBase
    \/ (\A j \in DirJobs : bdPc[j] \in {"done", "failed", "broken"}) /\ UNCHANGED dirVars

DirFairness == \A j \in DirJobs : WF_dirVars(DirStep(j))

-----------------------------------------------------------------------------
(* Properties.                                                                *)

\* Never two jobs write the base at once, although a waiter that sees the marker
\* removes the lock of whoever holds it (withInitLock): a new holder finds the
\* marker and does nothing.
OneInitdb == Cardinality({j \in DirJobs : bdPc[j] \in {"init", "initdb"}}) <= 1

\* A marked base is whole, unless an initdb was killed: PG_VERSION alone is then
\* taken for a finished base (ensureBaseState, InitBase).
MarkedBaseWhole == bdMarker /\ ~bdTorn => bdFiles = "whole"

\* Without a restart a job never waits for the base for ever: the holder of the
\* lock removes it also when the initialisation fails.
DirJobEnded(j) == bdPc[j] \in {"done", "failed", "broken"} \/ bdKills > 0
BaseLockFreed == \A j \in DirJobs : []<>DirJobEnded(j)
=============================================================================

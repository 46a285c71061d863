----------------------------- MODULE ManagedBase -----------------------------
(* The base directory of a managed identity and its bootstrap credential:      *)
(* the "image" branch of startManagedRuntime with BaseOperation, Bootstrap,    *)
(* the secret files, InitManagedBase and BaseReady.  Jobs take turns under     *)
(* managedMu; each step may fail, and the engine may stop between any two.     *)
EXTENDS Integers, FiniteSets

CONSTANTS
    BaseJobs,          \* jobs that need the base
    NoJob,
    MaxBaseRestarts,   \* bound: restarts of the engine
    MaxBaseLosses      \* bound: directories and secrets lost between uses

ASSUME BaseConstants == NoJob \notin BaseJobs /\ MaxBaseRestarts \in Nat /\ MaxBaseLosses \in Nat

VARIABLES
    mbMu,        \* holder of managedMu
    mbPc,        \* where every job is
    mbDir,       \* the base directory: its contents, generation and password
    mbOp,        \* the journal entry the base key points at
    mbRow,       \* the bootstrap_access row: the lineage has a committed secret
    mbSecret,    \* the password in the secret file, 0 if there is no file
    mbFresh,     \* the next password rand.Read will produce
    mbHeld,      \* the password a job got from Bootstrap
    mbRestarts, mbLosses

baseVars == <<mbMu, mbPc, mbDir, mbOp, mbRow, mbSecret, mbFresh, mbHeld, mbRestarts, mbLosses>>
mbDisk == <<mbDir, mbOp, mbRow, mbSecret, mbFresh>>
mbBounds == <<mbRestarts, mbLosses>>

NoDir == [is |-> "none", gen |-> 0, pwd |-> 0]
NoOp == [stage |-> "none", gen |-> 0]

BaseInit ==
    /\ mbMu = NoJob /\ mbPc = [j \in BaseJobs |-> "start"]
    /\ mbDir = NoDir /\ mbOp = NoOp /\ mbRow = FALSE
    /\ mbSecret = 0 /\ mbFresh = 1
    /\ mbHeld = [j \in BaseJobs |-> 0]
    /\ mbRestarts = 0 /\ mbLosses = 0

BaseGoto(j, l) == mbPc' = [mbPc EXCEPT ![j] = l]

\* Mutant of BaseFail.
BaseFailLocked(j) == BaseGoto(j, "failed") /\ UNCHANGED mbMu

\* return fail(err), with the deferred Unlock.
BaseFail(j) == BaseGoto(j, "failed") /\ mbMu' = NoJob

\* managedMu.Lock.
EnterBase(j) ==
    /\ mbPc[j] = "start" /\ mbMu = NoJob
    /\ mbMu' = j /\ BaseGoto(j, "operation")
    /\ UNCHANGED <<mbDisk, mbHeld, mbBounds>>

\* A directory nobody assigned is refused; the entry of an existing or a not
\* yet initialised base is taken up; a base that is gone gets a new generation
\* and its old entry retires, in one transaction.
BaseOperation(j) ==
    /\ mbPc[j] = "operation"
    /\ LET exists == mbDir.is # "none" IN
       \/ /\ mbOp.stage = "none" /\ exists
          /\ BaseFail(j) /\ UNCHANGED mbOp
       \/ /\ mbOp.stage = "assigned" \/ (mbOp.stage = "ready" /\ exists)
          /\ BaseGoto(j, "bootstrap") /\ UNCHANGED <<mbOp, mbMu>>
       \/ /\ mbOp.stage \in {"none", "ready"} /\ ~exists
          /\ mbOp' = [stage |-> "assigned", gen |-> mbOp.gen + 1]
          /\ BaseGoto(j, "bootstrap") /\ UNCHANGED mbMu
    /\ UNCHANGED <<mbDir, mbRow, mbSecret, mbFresh, mbHeld, mbBounds>>

\* Secrets.Resolve finds the record, and never makes another.
SecretStored == mbSecret # 0

\* Mutant of ResolveBootstrap.
ResolveRegenerates(j) ==
    /\ mbPc[j] = "bootstrap" /\ mbRow
    /\ mbSecret' = IF mbSecret = 0 THEN mbFresh ELSE mbSecret
    /\ mbFresh' = IF mbSecret = 0 THEN mbFresh + 1 ELSE mbFresh
    /\ mbHeld' = [mbHeld EXCEPT ![j] = mbSecret']
    /\ BaseGoto(j, IF mbOp.stage = "ready" THEN "use" ELSE "target")
    /\ UNCHANGED <<mbMu, mbDir, mbOp, mbRow, mbBounds>>

\* With a row the secret must be there; without one it is reserved, but only
\* for a base that is not initialised yet.
ResolveBootstrap(j) ==
    /\ mbPc[j] = "bootstrap" /\ mbRow
    /\ IF SecretStored
       THEN /\ mbHeld' = [mbHeld EXCEPT ![j] = mbSecret]
            /\ BaseGoto(j, IF mbOp.stage = "ready" THEN "use" ELSE "target") /\ UNCHANGED mbMu
       ELSE BaseFail(j) /\ UNCHANGED mbHeld
    /\ UNCHANGED <<mbDisk, mbBounds>>

\* Reserve returns an existing secret, or links a synced file under its name.
ReserveBootstrap(j) ==
    /\ mbPc[j] = "bootstrap" /\ ~mbRow
    /\ IF mbOp.stage = "assigned"
       THEN /\ mbSecret' = IF mbSecret = 0 THEN mbFresh ELSE mbSecret
            /\ mbFresh' = IF mbSecret = 0 THEN mbFresh + 1 ELSE mbFresh
            /\ BaseGoto(j, "insert") /\ UNCHANGED mbMu
       ELSE BaseFail(j) /\ UNCHANGED <<mbSecret, mbFresh>>
    /\ UNCHANGED <<mbDir, mbOp, mbRow, mbHeld, mbBounds>>

InsertBootstrap(j) ==
    /\ mbPc[j] = "insert"
    /\ mbRow' = TRUE
    /\ mbHeld' = [mbHeld EXCEPT ![j] = mbSecret]
    /\ BaseGoto(j, "target")
    /\ UNCHANGED <<mbMu, mbDir, mbOp, mbSecret, mbFresh, mbBounds>>

\* Mutant of EnsureManagedBaseDir.
EnsureBaseDirResets(j) ==
    /\ mbPc[j] = "target"
    /\ mbDir' = [is |-> "empty", gen |-> mbOp.gen, pwd |-> 0] /\ BaseGoto(j, "initdb")
    /\ UNCHANGED <<mbMu, mbOp, mbRow, mbSecret, mbFresh, mbHeld, mbBounds>>

\* Lstat again: what is there is not touched.
EnsureManagedBaseDir(j) ==
    /\ mbPc[j] = "target"
    /\ IF mbDir.is = "none"
       THEN mbDir' = [is |-> "empty", gen |-> mbOp.gen, pwd |-> 0] /\ BaseGoto(j, "initdb") /\ UNCHANGED mbMu
       ELSE BaseFail(j) /\ UNCHANGED mbDir
    /\ UNCHANGED <<mbOp, mbRow, mbSecret, mbFresh, mbHeld, mbBounds>>

\* InitManagedBase resolves the secret itself and runs initdb with it ...
InitManagedBase(j) ==
    /\ mbPc[j] = "initdb"
    /\ IF SecretStored
       THEN mbDir' = [mbDir EXCEPT !.is = "initdb", !.pwd = mbSecret] /\ BaseGoto(j, "hba") /\ UNCHANGED mbMu
       ELSE BaseFail(j) /\ UNCHANGED mbDir
    /\ UNCHANGED <<mbOp, mbRow, mbSecret, mbFresh, mbHeld, mbBounds>>

\* ... then puts the exact-role rules first and opens the files for cloning.
PatchHBA(j) ==
    /\ mbPc[j] = "hba"
    /\ mbDir' = [mbDir EXCEPT !.is = "whole"] /\ BaseGoto(j, "ready")
    /\ UNCHANGED <<mbMu, mbOp, mbRow, mbSecret, mbFresh, mbHeld, mbBounds>>

BaseReady(j) ==
    /\ mbPc[j] = "ready"
    /\ IF mbOp.stage = "assigned"
       THEN mbOp' = [mbOp EXCEPT !.stage = "ready"] /\ BaseGoto(j, "use") /\ UNCHANGED mbMu
       ELSE BaseFail(j) /\ UNCHANGED mbOp
    /\ UNCHANGED <<mbDir, mbRow, mbSecret, mbFresh, mbHeld, mbBounds>>

\* The job goes on to clone the base; the mutex is released at its end.
CloneBase(j) ==
    /\ mbPc[j] = "use"
    /\ BaseGoto(j, "done") /\ mbMu' = NoJob
    /\ UNCHANGED <<mbDisk, mbHeld, mbBounds>>

\* Any call fails; what an interrupted initdb wrote stays.
BaseStepFails(j) ==
    /\ mbMu = j
    /\ BaseFail(j)
    /\ mbDir' = IF mbPc[j] = "initdb" THEN [mbDir EXCEPT !.is = "partial"] ELSE mbDir
    /\ UNCHANGED <<mbOp, mbRow, mbSecret, mbFresh, mbHeld, mbBounds>>

\* The engine stops; its jobs are taken up again.
BaseRestart ==
    /\ mbRestarts < MaxBaseRestarts
    /\ mbRestarts' = mbRestarts + 1
    /\ mbMu' = NoJob /\ mbPc' = [j \in BaseJobs |-> "start"]
    /\ mbHeld' = [j \in BaseJobs |-> 0]
    /\ UNCHANGED <<mbDisk, mbLosses>>

\* The base directory is evicted, or the secret file is lost, while no job of
\* the engine is at work on the base.
LoseBase ==
    /\ mbLosses < MaxBaseLosses /\ mbMu = NoJob
    /\ mbLosses' = mbLosses + 1
    /\ \/ mbDir # NoDir /\ mbDir' = NoDir /\ UNCHANGED mbSecret
       \/ mbSecret # 0 /\ mbSecret' = 0 /\ UNCHANGED mbDir
    /\ UNCHANGED <<mbMu, mbPc, mbOp, mbRow, mbFresh, mbHeld, mbRestarts>>

BaseStep(j) ==
    \/ EnterBase(j) \/ BaseOperation(j) \/ ResolveBootstrap(j) \/ ReserveBootstrap(j)
    \/ InsertBootstrap(j) \/ EnsureManagedBaseDir(j) \/ InitManagedBase(j) \/ PatchHBA(j)
    \/ BaseReady(j) \/ CloneBase(j)

BaseNext ==
    \/ \E j \in BaseJobs : BaseStep(j) \/ BaseStepFails(j)
    \/ BaseRestart \/ LoseBase
    \/ (\A j \in BaseJobs : mbPc[j] \in {"done", "failed"}) /\ UNCHANGED baseVars

BaseFairness == \A j \in BaseJobs : WF_baseVars(BaseStep(j))

-----------------------------------------------------------------------------
(* Properties.                                                                *)

\* A base a job clones is whole, belongs to the current generation of the
\* journal, and has the password the secret store still returns for it: the
\* order reserve, row, initdb, ready is kept over failures, restarts, lost
\* secrets and evicted directories (startManagedRuntime, Bootstrap).
ClonedBaseFits ==
    \A j \in BaseJobs : mbPc[j] = "use" =>
        /\ mbDir.is = "whole" /\ mbDir.gen = mbOp.gen
        /\ mbDir.pwd = mbSecret /\ mbHeld[j] = mbSecret

\* "Partial/unowned targets fail closed without destructive reset": once its
\* initialisation was given up, an incomplete base is neither completed nor cleaned up,
\* it can only be removed from outside.
PartialBaseKept ==
    [][/\ mbDir.is \in {"empty", "partial", "initdb"}
       /\ \A j \in BaseJobs : mbPc[j] \notin {"initdb", "hba"}
       => mbDir' \in {mbDir, NoDir}]_baseVars

\* Every job that waits for the base gets its turn and ends.
BaseJobEnded(j) == mbPc[j] \in {"done", "failed"}
BaseJobsEnd == \A j \in BaseJobs : []<>BaseJobEnded(j)
=============================================================================

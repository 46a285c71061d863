----------------------------- MODULE StateBuild -----------------------------
(***************************************************************************)
(* Building one cached state: executeStateTask and the lock and marker     *)
(* files of prepare/execution.go, the operation journal and the capture    *)
(* seals of instanceaccess/operations.go, and the removal of the state by  *)
(* eviction (prepare/capacity.go) or deletion (deletion/manager.go).       *)
(*                                                                         *)
(* Several prepare jobs may need the same missing state at the same time.  *)
(* With the copy back end the lock file and the marker live inside the     *)
(* state directory; with btrfs they live beside it.  A step that calls     *)
(* docker, PostgreSQL, the file system or SQLite may fail, and so may any  *)
(* step whose context is cancelled.                                        *)
(***************************************************************************)
EXTENDS Naturals, FiniteSets

CONSTANTS Builders,    \* prepare jobs that need the state
          Inheritors,  \* jobs whose runtime is cloned from a published state
          Warm,        \* jobs that hold a runtime of the input from the step before
          Removers,    \* eviction passes and delete requests
          Kind,        \* the snapshot back end: "copy" or "btrfs"
          MaxCrashes,  \* bound: engine restarts in a behaviour
          None         \* no builder

ASSUME BuildAssumption ==
  /\ None \notin Builders
  /\ Inheritors \subseteq Builders /\ Warm \subseteq Builders
  /\ Kind \in {"copy", "btrfs"}
  /\ MaxCrashes \in Nat

VARIABLES
  lock,     \* the lock file exists
  marker,   \* the .build.ok file exists
  dir,      \* the state directory exists
  files,    \* the builders whose files are in the directory
  whole,    \* the builder whose snapshot ran to its end last, or None
  row,      \* the states row: the builder that inserted it, or None
  seal,     \* the managed_state_seals row: the sealing builder, or None
  op,       \* op[b]: the journal stage of b's runtime operation
  rt,       \* rt[b]: b's runner holds a live runtime
  pc,       \* pc[b]: where b is in executeStateTask
  rpc,      \* rpc[r]: where r is between listing and deleting the state
  crashes   \* engine restarts so far

disk == <<lock, marker, dir, files, whole>>
vars == <<lock, marker, dir, files, whole, row, seal, op, rt, pc, rpc, crashes>>

\* "cloned" is stage assigned with the clone directory present.
OpStages == {"none", "assigned", "cloned", "running", "retired"}
Steps == {"check", "mkdir", "acquire", "busy", "steal", "recheck", "reset",
          "assign", "clone", "attach", "seal", "snap", "snapping", "publish",
          "mark", "commit", "unlock", "undo", "cleanup", "ok", "failed"}

TypeOK ==
  /\ lock \in BOOLEAN /\ marker \in BOOLEAN /\ dir \in BOOLEAN
  /\ files \in SUBSET Builders
  /\ whole \in Builders \cup {None}
  /\ row \in Builders \cup {None}
  /\ seal \in Builders \cup {None}
  /\ op \in [Builders -> OpStages]
  /\ rt \in [Builders -> BOOLEAN]
  /\ pc \in [Builders -> Steps]
  /\ rpc \in [Removers -> {"idle", "listed", "removed"}]
  /\ crashes \in Nat

Init ==
  /\ lock = FALSE /\ marker = FALSE /\ dir = FALSE
  /\ files = {} /\ whole = None /\ row = None /\ seal = None
  /\ op = [b \in Builders |-> IF b \in Warm THEN "running" ELSE "none"]
  /\ rt = [b \in Builders |-> b \in Warm]
  /\ pc = [b \in Builders |-> "check"]
  /\ rpc = [r \in Removers |-> "idle"]
  /\ crashes = 0

-----------------------------------------------------------------------------
Goto(b, step) == pc' = [pc EXCEPT ![b] = step]

\* RemovePath of the state directory.  The copy back end keeps the lock and
\* the marker inside it, so they go too; btrfs keeps them in states/.build.
RemoveStateDir ==
  /\ files' = {} /\ whole' = None
  /\ IF Kind = "copy" THEN lock' = FALSE /\ marker' = FALSE
                      ELSE UNCHANGED <<lock, marker>>

\* The callback of withStateBuildLock returns an error: the deferred unlock,
\* then the job fails and the runner's deferred cleanup runs.
Abort(b) ==
  /\ pc[b] \in {"recheck", "reset", "assign", "clone", "attach", "seal", "snap",
                "snapping", "publish", "mark", "commit"}
  /\ Goto(b, "undo")
  /\ op' = [op EXCEPT ![b] = CASE pc[b] = "attach" -> "assigned"
                               [] OTHER -> @]
  /\ UNCHANGED <<disk, row, seal, rt, rpc, crashes>>

-----------------------------------------------------------------------------
\* The cache check before the lock: the row and its seal, never the files.
Check(b) ==
  /\ pc[b] = "check"
  /\ Goto(b, IF row = None THEN "mkdir" ELSE IF seal = None THEN "cleanup" ELSE "ok")
  /\ UNCHANGED <<disk, row, seal, op, rt, rpc, crashes>>

\* ensureCacheCapacity, EnsureStateDir and the MkdirAll of the lock's parent:
\* btrfs creates only the parent directory.
EnsureStateDir(b) ==
  /\ pc[b] = "mkdir"
  /\ \/ /\ dir' = (dir \/ Kind = "copy")
        /\ Goto(b, "acquire")
     \/ /\ Goto(b, "cleanup")
        /\ UNCHANGED dir
  /\ UNCHANGED <<lock, marker, files, whole, row, seal, op, rt, rpc, crashes>>

\* Mutant: the lock file is opened without O_EXCL.
TryLockShared(b) ==
  /\ pc[b] = "acquire"
  /\ lock' = TRUE
  /\ Goto(b, "recheck")
  /\ UNCHANGED <<marker, dir, files, whole, row, seal, op, rt, rpc, crashes>>

\* One turn of the O_EXCL loop: created, already there, or an error (the
\* directory is gone, or the job's context is done).
TryLock(b) ==
  /\ pc[b] = "acquire"
  /\ \/ /\ ~lock /\ (Kind = "btrfs" \/ dir)
        /\ lock' = TRUE
        /\ Goto(b, "recheck")
     \/ /\ lock
        /\ Goto(b, "busy")
        /\ UNCHANGED lock
     \/ /\ Goto(b, "cleanup")
        /\ UNCHANGED lock
  /\ UNCHANGED <<marker, dir, files, whole, row, seal, op, rt, rpc, crashes>>

\* The lock is busy: a marker means that the state has been built.
Busy(b) ==
  /\ pc[b] = "busy"
  /\ Goto(b, IF marker THEN "steal" ELSE "acquire")
  /\ UNCHANGED <<disk, row, seal, op, rt, rpc, crashes>>

\* The waiter removes the lock file and reports success.
Steal(b) ==
  /\ pc[b] = "steal"
  /\ lock' = FALSE
  /\ Goto(b, "ok")
  /\ UNCHANGED <<marker, dir, files, whole, row, seal, op, rt, rpc, crashes>>

\* Inside the lock: a cache hit returns, btrfs and a left-over marker ask for
\* a reset of the directory.
Recheck(b) ==
  /\ pc[b] = "recheck"
  /\ Goto(b, CASE row # None /\ seal # None -> "unlock"
               [] row # None /\ seal = None -> "undo"
               [] row = None -> IF Kind = "btrfs" \/ marker THEN "reset" ELSE "assign")
  /\ UNCHANGED <<disk, row, seal, op, rt, rpc, crashes>>

\* resetStateDir: RemovePath, then EnsureStateDir.
ResetStateDir(b) ==
  /\ pc[b] = "reset"
  /\ RemoveStateDir
  /\ dir' = (Kind = "copy")
  /\ Goto(b, "assign")
  /\ UNCHANGED <<row, seal, op, rt, rpc, crashes>>

\* ensureRuntime takes the runtime the job holds; otherwise startManagedRuntime
\* writes the journal entry first.  An entry of an earlier run is reused only
\* in stage assigned and with no clone on disk.  A builder is a job that asks for
\* one state, so that b stands for the pair (job, input) the entry is keyed by.
Assign(b) ==
  /\ pc[b] = "assign"
  /\ IF rt[b] THEN Goto(b, "seal") /\ UNCHANGED op
     ELSE IF op[b] \in {"none", "assigned"}
     THEN op' = [op EXCEPT ![b] = "assigned"] /\ Goto(b, "clone")
     ELSE Goto(b, "undo") /\ UNCHANGED op
  /\ UNCHANGED <<disk, row, seal, rt, rpc, crashes>>

\* The clone of the source directory into the job's directory.
Clone(b) ==
  /\ pc[b] = "clone"
  /\ op' = [op EXCEPT ![b] = "cloned"]
  /\ Goto(b, "attach")
  /\ UNCHANGED <<disk, row, seal, rt, rpc, crashes>>

\* StartManaged, Attach and the verification.  A failed Attach stops the
\* container and keeps the clone; a failed verification retires the operation,
\* if that write succeeds.
Attach(b) ==
  /\ pc[b] = "attach"
  /\ \/ /\ op' = [op EXCEPT ![b] = "running"]
        /\ rt' = [rt EXCEPT ![b] = TRUE]
        /\ Goto(b, "seal")
     \/ /\ \E stage \in {"cloned", "running", "retired"} : op' = [op EXCEPT ![b] = stage]
        /\ Goto(b, "undo")
        /\ UNCHANGED rt
  /\ UNCHANGED <<disk, row, seal, rpc, crashes>>

\* Mutant: any other builder's seal is replaced.
RecordSealAlways(b) ==
  /\ pc[b] = "seal"
  /\ seal' = b
  /\ Goto(b, "snap")
  /\ UNCHANGED <<disk, row, op, rt, rpc, crashes>>

\* Mutant: a retired owner's seal is replaced although the state is published.
RecordSealIgnoresRow(b) ==
  /\ pc[b] = "seal"
  /\ IF seal \in {None, b} \/ op[seal] = "retired"
     THEN seal' = b /\ Goto(b, "snap")
     ELSE Goto(b, "undo") /\ UNCHANGED seal
  /\ UNCHANGED <<disk, row, op, rt, rpc, crashes>>

\* The prepare step has run and PostgreSQL is stopped.  RecordSeal inserts
\* the certificate or replaces that of a retired, unpublished owner.
RecordSeal(b) ==
  /\ pc[b] = "seal"
  /\ IF /\ op[b] = "running"
        /\ \/ seal \in {None, b}
           \/ row = None /\ op[seal] = "retired"
     THEN seal' = b /\ Goto(b, "snap")
     ELSE Goto(b, "undo") /\ UNCHANGED seal
  /\ UNCHANGED <<disk, row, op, rt, rpc, crashes>>

\* Mutant: the marker is written with the snapshot, before the row.
SnapshotMarks(b) ==
  /\ pc[b] = "snap"
  /\ ~dir
  /\ dir' = TRUE /\ files' = {b} /\ whole' = b
  /\ marker' = TRUE
  /\ Goto(b, "publish")
  /\ UNCHANGED <<lock, row, seal, op, rt, rpc, crashes>>

\* Snapshot starts.  btrfs refuses an existing subvolume and takes the
\* snapshot in one operation; copy walks the source and writes into whatever
\* is there, a marker cloned from the parent state first of all.
Snapshot(b) ==
  /\ pc[b] = "snap"
  /\ IF Kind = "btrfs"
     THEN IF dir
          THEN Goto(b, "undo") /\ UNCHANGED <<dir, files, whole>>
          ELSE dir' = TRUE /\ files' = {b} /\ whole' = b /\ Goto(b, "publish")
     ELSE dir' = TRUE /\ files' = files \cup {b} /\ whole' = None /\ Goto(b, "snapping")
  /\ marker' = (marker \/ (Kind = "copy" /\ b \in Inheritors))
  /\ UNCHANGED <<lock, row, seal, op, rt, rpc, crashes>>

\* The copy ends.  If the directory was emptied under it, what is left is not
\* a whole snapshot.
SnapshotEnds(b) ==
  /\ pc[b] = "snapping"
  /\ dir' = TRUE
  /\ files' = files \cup {b}
  /\ whole' = IF b \in files THEN b ELSE None
  /\ Goto(b, "publish")
  /\ UNCHANGED <<lock, marker, row, seal, op, rt, rpc, crashes>>

\* Mutant: the directory is also removed after an error that follows the insert.
PublishRemoves(b) ==
  /\ pc[b] = "publish"
  /\ row' = IF row = None THEN b ELSE row
  /\ RemoveStateDir
  /\ dir' = FALSE
  /\ Goto(b, "undo")
  /\ UNCHANGED <<seal, op, rt, rpc, crashes>>

\* CreateState is INSERT OR IGNORE.  A store error removes the directory.
Publish(b) ==
  /\ pc[b] = "publish"
  /\ \/ /\ row' = IF row = None THEN b ELSE row
        /\ Goto(b, "mark")
        /\ UNCHANGED disk
     \/ /\ RemoveStateDir
        /\ dir' = FALSE
        /\ Goto(b, "undo")
        /\ UNCHANGED row
  /\ UNCHANGED <<seal, op, rt, rpc, crashes>>

\* writeStateBuildMarker, which creates the marker's directory if need be.
Mark(b) ==
  /\ pc[b] = "mark"
  /\ marker' = TRUE
  /\ dir' = (dir \/ Kind = "copy")
  /\ Goto(b, "commit")
  /\ UNCHANGED <<lock, files, whole, row, seal, op, rt, rpc, crashes>>

\* The capacity check of phase metadata_commit passes.
Commit(b) ==
  /\ pc[b] = "commit"
  /\ Goto(b, "unlock")
  /\ UNCHANGED <<disk, row, seal, op, rt, rpc, crashes>>

\* Mutant: only a successful build removes its lock file.
UnlockOnSuccess(b) ==
  /\ pc[b] \in {"unlock", "undo"}
  /\ lock' = (lock /\ pc[b] = "undo")
  /\ Goto(b, IF pc[b] = "unlock" THEN "ok" ELSE "cleanup")
  /\ UNCHANGED <<marker, dir, files, whole, row, seal, op, rt, rpc, crashes>>

\* The deferred os.Remove(lockPath), whoever created the file.
Unlock(b) ==
  /\ pc[b] \in {"unlock", "undo"}
  /\ lock' = FALSE
  /\ Goto(b, IF pc[b] = "unlock" THEN "ok" ELSE "cleanup")
  /\ UNCHANGED <<marker, dir, files, whole, row, seal, op, rt, rpc, crashes>>

\* Mutant: the operation is retired and the runtime forgotten too early.
CleanupRuntimeEarly(b) ==
  /\ pc[b] \in {"cleanup", "ok", "snap"}
  /\ op' = [op EXCEPT ![b] = IF rt[b] THEN "retired" ELSE @]
  /\ rt' = [rt EXCEPT ![b] = FALSE]
  /\ Goto(b, CASE pc[b] = "ok" -> "ok" [] pc[b] = "snap" -> "snap" [] OTHER -> "failed")
  /\ (pc[b] = "ok" => rt[b])
  /\ UNCHANGED <<disk, row, seal, rpc, crashes>>

\* cleanupRuntime of a failed job, or of a job that has moved on to another
\* state.  RetireOperation may itself fail and leave the journal as it is.
CleanupRuntime(b) ==
  /\ \/ pc[b] = "cleanup"
     \/ pc[b] = "ok" /\ rt[b]
  /\ \E retired \in {TRUE, ~rt[b]} :
       op' = [op EXCEPT ![b] = IF rt[b] /\ retired THEN "retired" ELSE @]
  /\ rt' = [rt EXCEPT ![b] = FALSE]
  /\ Goto(b, IF pc[b] = "ok" THEN "ok" ELSE "failed")
  /\ UNCHANGED <<disk, row, seal, rpc, crashes>>

-----------------------------------------------------------------------------
\* listEvictionCandidates, or DeleteState, has read the row.
ListState(r) ==
  /\ rpc[r] = "idle"
  /\ row # None
  /\ rpc' = [rpc EXCEPT ![r] = "listed"]
  /\ UNCHANGED <<disk, row, seal, op, rt, pc, crashes>>

\* The files go first.
RemoveFiles(r) ==
  /\ rpc[r] = "listed"
  /\ RemoveStateDir
  /\ dir' = FALSE
  /\ rpc' = [rpc EXCEPT ![r] = "removed"]
  /\ UNCHANGED <<row, seal, op, rt, pc, crashes>>

\* Mutant: the trigger that drops the seal of a deleted state is missing.
DeleteRowKeepsSeal(r) ==
  /\ rpc[r] = "removed"
  /\ row' = None
  /\ rpc' = [rpc EXCEPT ![r] = "idle"]
  /\ UNCHANGED <<disk, seal, op, rt, pc, crashes>>

\* The row follows, and the trigger on states drops its seal with it.  The
\* statement fails when the context is done or the row is still referenced.
DeleteRow(r) ==
  /\ rpc[r] = "removed"
  /\ \/ row' = None /\ seal' = IF row = None THEN seal ELSE None
     \/ UNCHANGED <<row, seal>>
  /\ rpc' = [rpc EXCEPT ![r] = "idle"]
  /\ UNCHANGED <<disk, op, rt, pc, crashes>>

\* The engine stops and starts again: files, rows and the journal stay, and
\* Recover starts every job that is not terminal from the top.
Crash ==
  /\ crashes < MaxCrashes
  /\ crashes' = crashes + 1
  /\ rt' = [b \in Builders |-> FALSE]
  /\ pc' = [b \in Builders |-> CASE pc[b] \in {"ok", "failed"} -> pc[b]
                                 [] pc[b] = "cleanup" -> "failed"
                                 [] OTHER -> "check"]
  /\ rpc' = [r \in Removers |-> "idle"]
  /\ UNCHANGED <<disk, row, seal, op>>

BuilderStep(b) ==
  \/ Check(b) \/ EnsureStateDir(b) \/ TryLock(b) \/ Busy(b) \/ Steal(b)
  \/ Recheck(b) \/ ResetStateDir(b) \/ Assign(b) \/ Clone(b) \/ Attach(b)
  \/ RecordSeal(b) \/ Snapshot(b) \/ SnapshotEnds(b) \/ Publish(b) \/ Mark(b)
  \/ Commit(b) \/ Unlock(b) \/ CleanupRuntime(b) \/ Abort(b)

RemoverStep(r) == ListState(r) \/ RemoveFiles(r) \/ DeleteRow(r)

Next == \/ \E b \in Builders : BuilderStep(b)
        \/ \E r \in Removers : RemoverStep(r)
        \/ Crash

Spec == Init /\ [][Next]_vars

\* Every runner is a goroutine that is scheduled, and each call it makes ends:
\* docker and PostgreSQL calls carry deadlines.
FairSpec == Spec /\ \A b \in Builders : WF_vars(BuilderStep(b))

-----------------------------------------------------------------------------
Building(b) == pc[b] \in {"assign", "clone", "attach", "seal", "snap", "snapping", "publish"}

\* One job at a time builds the state: withStateBuildLock admits the next one
\* when the first is done or has failed.
Serialized == \A b, c \in Builders : Building(b) /\ Building(c) => b = c

\* A published state carries the seal of the job that published it: RecordSeal
\* and CreateState of two jobs, and the deletion of a row, never mix.
SealMatchesRow == row # None => seal = row

\* From the seal to publication a job is alone, whatever has become of the
\* lock file: the state is not published and the certificate is the job's own.
PublishExclusive == \A b \in Builders : pc[b] \in {"snap", "snapping", "publish"} =>
  seal = b /\ op[b] = "running" /\ row = None

\* A published state has the complete snapshot of the job that published it
\* and nothing else in its directory.
RowHasSnapshot == row # None => dir /\ files = {row} /\ whole = row

\* A job that has passed executeStateTask can rely on the state: it is in the
\* cache with its files.
SuccessMeansPublished == \A b \in Builders : pc[b] \in {"unlock", "ok"} =>
  row # None /\ whole = row

\* Every job gets its state or fails; none waits for the lock forever.
BuildersFinish == \A b \in Builders : <>(pc[b] \in {"ok", "failed"})

\* A cache hit is only reported for a state whose files are complete.
CachedIsWhole == [][\A b \in Builders :
  pc[b] = "check" /\ pc'[b] = "ok" => dir /\ whole # None]_vars

\* A job with a runtime owns the running journal entry of its operation, from
\* Attach to cleanupRuntime.
RuntimeOwned == \A b \in Builders :
  /\ rt[b] => op[b] = "running" /\ pc[b] \notin {"clone", "attach", "failed"}
  /\ pc[b] \in {"seal", "snap", "snapping", "publish"} => rt[b]

\* A seal belongs to an operation that has run, and its job never starts the
\* runtime again: Assign refuses a running or retired entry.
SealJournalled == \A b \in Builders : seal = b =>
  /\ op[b] \in {"running", "retired"} /\ pc[b] \notin {"clone", "attach", "seal"}
  /\ pc[b] \in {"check", "mkdir", "acquire", "busy", "steal", "recheck", "reset", "assign"}
       => ~rt[b]

\* The inductive invariant: what RecordSeal, CreateState and RetireOperation
\* of operations.go and execution.go maintain together.
BuildInv ==
  TypeOK /\ SealMatchesRow /\ PublishExclusive /\ RuntimeOwned /\ SealJournalled

Sealed == INSTANCE SealedState

\* Seal, publication and removal of a state implement the abstract contract:
\* a published state's seal is immutable, only the sealing job publishes.
ImplementsSealed == Sealed!SealedSpec
=============================================================================

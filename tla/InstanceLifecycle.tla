------------------------- MODULE InstanceLifecycle -------------------------
(***************************************************************************)
(* The life of the one managed instance of a prepare job: createInstance   *)
(* and the end of runJob (prepare/managed_execution.go, prepare/manager.go)*)
(* the access stages of instanceaccess/service.go, authorised use          *)
(* (run/managed.go), deletion (deletion/manager.go), the removal of the    *)
(* job's directory, and restarts.                                          *)
(*                                                                         *)
(* Activation, use and retirement run under the instance's fence, which    *)
(* InstanceFence shows to be an exclusive lock.  A step that calls docker, *)
(* PostgreSQL, the file system or SQLite may fail.                         *)
(***************************************************************************)
EXTENDS Naturals

CONSTANTS Built,      \* the physical runtime the executor may leave to the job
          Started,    \* the physical runtime createInstance starts itself
          None,       \* no runtime
          Cancels,    \* TRUE: the job may be cancelled
          Forgets,    \* TRUE: the finished job may be trimmed or deleted
          MaxCrashes  \* bound: engine restarts in a behaviour

Bindings == {Built, Started}

ASSUME LifecycleAssumption ==
  /\ None \notin Bindings
  /\ Built # Started
  /\ Cancels \in BOOLEAN /\ Forgets \in BOOLEAN
  /\ MaxCrashes \in Nat

VARIABLES
  \* durable: SQLite rows, files, containers
  job,        \* status of the job row
  stage,      \* stage of the instance_access row, "absent" without a row
  bound,      \* the runtime the access row is bound to, or None
  secret,     \* runtimes with a stored secret
  role,       \* runtimes whose database role has the instance password
  irow,       \* the runtime recorded in the instances row, or None
  op,         \* op[b]: journal stage of b's operation
  container,  \* container[b]: the container runs
  clone,      \* clone[b]: the data directory below the job's directory exists
  aside,      \* runtimes whose directory was renamed to <dir>.stale-<time> and left
  \* in memory
  fence,      \* who owns the instance's fence: "job", "user", "delete", "free"
  rt,         \* the runtime the runner holds, or None
  jpc,        \* where the runner is
  cancelled,  \* the runner's context is done
  upc,        \* where an authorised use is
  dpc,        \* where a deletion is
  entry,      \* the instance row the deletion has read
  crashes

durable == <<job, stage, bound, secret, role, irow, op, container, clone, aside>>
vars == <<job, stage, bound, secret, role, irow, op, container, clone, aside,
          fence, rt, jpc, cancelled, upc, dpc, entry, crashes>>

Stages == {"absent", "reserved", "applying", "verified", "retiring", "retired", "quarantined"}
JobSteps == {"lookup", "resume", "start", "activate", "load", "intent", "begin", "apply",
             "verify", "publish", "finish", "succeed", "fail", "retire", "stop", "erase", "done"}
Fenced == {"load", "intent", "begin", "apply", "verify", "publish"}

TypeOK ==
  /\ job \in {"running", "succeeded", "failed", "deleted"}
  /\ stage \in Stages
  /\ bound \in Bindings \cup {None}
  /\ secret \in SUBSET Bindings
  /\ role \in SUBSET Bindings
  /\ irow \in Bindings \cup {None}
  /\ op \in [Bindings -> {"none", "running", "retired"}]
  /\ container \in [Bindings -> BOOLEAN]
  /\ clone \in [Bindings -> BOOLEAN]
  /\ aside \in SUBSET Bindings
  /\ fence \in {"free", "job", "user", "delete"}
  /\ rt \in Bindings \cup {None}
  /\ jpc \in JobSteps
  /\ cancelled \in BOOLEAN
  /\ upc \in {"idle", "load", "using"}
  /\ dpc \in {"idle", "wait", "load", "stop", "erase", "forget", "close"}
  /\ entry \in Bindings \cup {None}
  /\ crashes \in Nat

\* The job has produced its state: with a runtime left from building it, or
\* without one because the state came from the cache.
Init ==
  /\ job = "running" /\ stage = "absent" /\ bound = None
  /\ secret = {} /\ role = {} /\ irow = None
  /\ rt \in {Built, None}
  /\ op = [b \in Bindings |-> IF b = rt THEN "running" ELSE "none"]
  /\ container = [b \in Bindings |-> b = rt]
  /\ clone = [b \in Bindings |-> b = rt]
  /\ aside = {} /\ fence = "free" /\ jpc = "lookup" /\ cancelled = FALSE
  /\ upc = "idle" /\ dpc = "idle" /\ entry = None /\ crashes = 0

-----------------------------------------------------------------------------
\* The runner: createManagedInstance and the end of runJob.

\* GetInstance: a published instance is read back through hydrateManagedResult,
\* which succeeds for a verified access and a live container.
Lookup ==
  /\ jpc = "lookup"
  /\ ~cancelled
  /\ jpc' = IF irow = None THEN (IF rt = None THEN "resume" ELSE "activate")
            ELSE IF stage = "verified" /\ container[irow] THEN "finish" ELSE "fail"
  /\ UNCHANGED <<durable, fence, rt, cancelled, upc, dpc, entry, crashes>>

\* ResumePublication: only a pending or verified intent with its own running
\* operation, stored secret and live container is taken up again.
Resume ==
  /\ jpc = "resume"
  /\ ~cancelled
  /\ fence = "free"
  /\ IF stage = "absent" THEN jpc' = "start" /\ UNCHANGED rt
     ELSE IF /\ stage \in {"reserved", "applying", "verified"}
             /\ op[bound] = "running" /\ bound \in secret /\ container[bound]
          THEN jpc' = "activate" /\ rt' = bound
          ELSE jpc' = "fail" /\ UNCHANGED rt
  /\ UNCHANGED <<durable, fence, cancelled, upc, dpc, entry, crashes>>

\* startManagedRuntime from the state.  Its journal entry has one reference per
\* job and state, so an entry of an earlier run is a conflict.
Start ==
  /\ jpc = "start"
  /\ ~cancelled
  /\ IF op[Started] = "none"
     THEN /\ op' = [op EXCEPT ![Started] = "running"]
          /\ container' = [container EXCEPT ![Started] = TRUE]
          /\ clone' = [clone EXCEPT ![Started] = TRUE]
          /\ rt' = Started
          /\ jpc' = "activate"
     ELSE jpc' = "fail" /\ UNCHANGED <<op, container, clone, rt>>
  /\ UNCHANGED <<aside, job, stage, bound, secret, role, irow, fence, cancelled, upc, dpc, entry, crashes>>

\* Activate takes the fence.
Activate ==
  /\ jpc = "activate"
  /\ ~cancelled
  /\ fence = "free"
  /\ fence' = "job"
  /\ jpc' = "load"
  /\ UNCHANGED <<durable, rt, cancelled, upc, dpc, entry, crashes>>

\* Mutant: the intent is written first and the secret reserved afterwards.
LoadWithoutSecret ==
  /\ jpc = "load"
  /\ jpc' = "intent"
  /\ UNCHANGED <<durable, fence, rt, cancelled, upc, dpc, entry, crashes>>

\* Activate, first part: without an intent a secret is reserved, and kept if
\* it exists; an existing intent must be for this runtime, pending or verified.
Load ==
  /\ jpc = "load"
  /\ ~cancelled
  /\ IF stage = "absent"
     THEN secret' = secret \cup {rt} /\ jpc' = "intent" /\ UNCHANGED fence
     ELSE IF bound = rt /\ rt \in secret /\ stage \in {"reserved", "applying", "verified"}
     THEN jpc' = (IF stage = "reserved" THEN "begin" ELSE "apply") /\ UNCHANGED <<secret, fence>>
     ELSE jpc' = "fail" /\ fence' = "free" /\ UNCHANGED secret
  /\ UNCHANGED <<aside, job, stage, bound, role, irow, op, container, clone,
                 rt, cancelled, upc, dpc, entry, crashes>>

\* Mutant: the database is changed before the intent is written.
IntentAfterApply ==
  /\ jpc = "intent"
  /\ role' = role \cup {rt}
  /\ UNCHANGED <<aside, job, stage, bound, secret, irow, op, container, clone,
                 fence, rt, jpc, cancelled, upc, dpc, entry, crashes>>

\* The intent row.
Intent ==
  /\ jpc = "intent"
  /\ ~cancelled
  /\ stage' = "reserved" /\ bound' = rt
  /\ jpc' = "begin"
  /\ UNCHANGED <<aside, job, secret, role, irow, op, container, clone,
                 fence, rt, cancelled, upc, dpc, entry, crashes>>

\* reserved -> applying, before the database is touched.
Begin ==
  /\ jpc = "begin"
  /\ ~cancelled
  /\ stage = "reserved"
  /\ stage' = "applying"
  /\ jpc' = "apply"
  /\ UNCHANGED <<aside, job, bound, secret, role, irow, op, container, clone,
                 fence, rt, cancelled, upc, dpc, entry, crashes>>

\* Mutant: a failed activation goes on to publication.
ApplyIgnoresError ==
  /\ jpc = "apply"
  /\ role' = role \cup {rt}
  /\ stage' \in {stage, "quarantined"}
  /\ jpc' = "publish"
  /\ UNCHANGED <<aside, job, bound, secret, irow, op, container, clone,
                 fence, rt, cancelled, upc, dpc, entry, crashes>>

\* EnsureManagedPassword.  It may fail before or after ALTER ROLE; then the
\* intent is quarantined, if that write succeeds.
Apply ==
  /\ jpc = "apply"
  /\ \/ /\ container[rt] /\ ~cancelled
        /\ role' = role \cup {rt}
        /\ jpc' = "verify"
        /\ UNCHANGED <<stage, fence>>
     \/ /\ role' \in {role, role \cup {rt}}
        /\ stage' \in {stage, "quarantined"}
        /\ jpc' = "fail"
        /\ fence' = "free"
  /\ UNCHANGED <<aside, job, bound, secret, irow, op, container, clone,
                 rt, cancelled, upc, dpc, entry, crashes>>

\* The context is looked at once more, then applying -> verified.
Verify ==
  /\ jpc = "verify"
  /\ ~cancelled
  /\ stage' = "verified"
  /\ jpc' = "publish"
  /\ UNCHANGED <<aside, job, bound, secret, role, irow, op, container, clone,
                 fence, rt, cancelled, upc, dpc, entry, crashes>>

\* CreateInstance, still under the fence.
Publish ==
  /\ jpc = "publish"
  /\ ~cancelled
  /\ irow' = rt
  /\ fence' = "free"
  /\ jpc' = "finish"
  /\ UNCHANGED <<aside, job, stage, bound, secret, role, op, container, clone,
                 rt, cancelled, upc, dpc, entry, crashes>>

\* A step of createInstance fails or sees the cancelled context; the fence is
\* released by the deferred unlock.
Fails ==
  /\ jpc \in {"lookup", "resume", "start", "activate", "load", "intent", "begin", "verify",
              "publish", "finish"}
  /\ jpc' = "fail"
  /\ fence' = IF jpc \in Fenced THEN "free" ELSE fence
  /\ UNCHANGED <<durable, rt, cancelled, upc, dpc, entry, crashes>>

\* The task is marked succeeded, with the job's context.
Finish ==
  /\ jpc = "finish"
  /\ ~cancelled
  /\ jpc' = "succeed"
  /\ UNCHANGED <<durable, fence, rt, cancelled, upc, dpc, entry, crashes>>

AfterJob == IF rt = None THEN "done" ELSE "retire"

\* succeed writes the terminal status and its events; without an error the
\* runner lets its runtime go on.
Succeed ==
  /\ jpc = "succeed"
  /\ \/ job' = "succeeded" /\ jpc' = "done"
     \/ job' \in {job, "succeeded"} /\ jpc' = AfterJob
  /\ UNCHANGED <<aside, stage, bound, secret, role, irow, op, container, clone,
                 fence, rt, cancelled, upc, dpc, entry, crashes>>

\* failJob, whose own error is ignored, then the deferred cleanupRuntime.
FailJob ==
  /\ jpc = "fail"
  /\ job' \in {job, "failed"}
  /\ jpc' = AfterJob
  /\ UNCHANGED <<aside, stage, bound, secret, role, irow, op, container, clone,
                 fence, rt, cancelled, upc, dpc, entry, crashes>>

\* cleanupRuntime: retire the operation, stop the container, erase the clone;
\* an error ends it.
CleanupRetire ==
  /\ jpc = "retire"
  /\ \/ op' = [op EXCEPT ![rt] = "retired"] /\ jpc' = "stop"
     \/ jpc' = "done" /\ UNCHANGED op
  /\ UNCHANGED <<aside, job, stage, bound, secret, role, irow, container, clone,
                 fence, rt, cancelled, upc, dpc, entry, crashes>>

\* runtime.Stop.
CleanupStop ==
  /\ jpc = "stop"
  /\ \/ container' = [container EXCEPT ![rt] = FALSE] /\ jpc' = "erase"
     \/ jpc' = "done" /\ UNCHANGED container
  /\ UNCHANGED <<aside, job, stage, bound, secret, role, irow, op, clone,
                 fence, rt, cancelled, upc, dpc, entry, crashes>>

\* The clone's cleanup function, whose error leaves the clone.
CleanupErase ==
  /\ jpc = "erase"
  /\ clone' \in {clone, [clone EXCEPT ![rt] = FALSE]}
  /\ jpc' = "done"
  /\ UNCHANGED <<aside, job, stage, bound, secret, role, irow, op, container,
                 fence, rt, cancelled, upc, dpc, entry, crashes>>

JobProgress ==
  \/ Lookup \/ Resume \/ Start \/ Activate \/ Load \/ Intent \/ Begin \/ Apply \/ Verify
  \/ Publish \/ Finish \/ Succeed \/ FailJob
  \/ CleanupRetire \/ CleanupStop \/ CleanupErase

JobStep == JobProgress \/ Fails

\* The user cancels the job, whose runner is registered until it is done.
Cancel ==
  /\ Cancels
  /\ jpc # "done" /\ job = "running" /\ ~cancelled
  /\ cancelled' = TRUE
  /\ UNCHANGED <<durable, fence, rt, jpc, upc, dpc, entry, crashes>>

-----------------------------------------------------------------------------
\* Use: fence, verified stage and stored secret, then the command runs.
UseBegin ==
  /\ upc = "idle" /\ irow # None /\ fence = "free"
  /\ fence' = "user" /\ upc' = "load"
  /\ UNCHANGED <<durable, rt, jpc, cancelled, dpc, entry, crashes>>

\* The stage, the secret and, in the callback, the container are checked.
UseLoad ==
  /\ upc = "load"
  /\ IF stage = "verified" /\ bound \in secret /\ container[bound]
     THEN upc' = "using" /\ UNCHANGED fence
     ELSE upc' = "idle" /\ fence' = "free"
  /\ UNCHANGED <<durable, rt, jpc, cancelled, dpc, entry, crashes>>

\* The command has ended.
UseEnd ==
  /\ upc = "using"
  /\ upc' = "idle" /\ fence' = "free"
  /\ UNCHANGED <<durable, rt, jpc, cancelled, dpc, entry, crashes>>

-----------------------------------------------------------------------------
\* DeleteInstance reads the row, without the fence.
DeleteRead ==
  /\ dpc = "idle" /\ irow # None
  /\ entry' = irow /\ dpc' = "wait"
  /\ UNCHANGED <<durable, fence, rt, jpc, cancelled, upc, crashes>>

\* Mutant: retirement does not wait for the fence.
DeleteFenceSkipped ==
  /\ dpc = "wait"
  /\ fence' = "delete" /\ dpc' = "load"
  /\ UNCHANGED <<durable, rt, jpc, cancelled, upc, entry, crashes>>

\* RetireBound takes the fence.
DeleteFence ==
  /\ dpc = "wait" /\ fence = "free"
  /\ fence' = "delete" /\ dpc' = "load"
  /\ UNCHANGED <<durable, rt, jpc, cancelled, upc, entry, crashes>>

\* Mutant: the container is stopped before the retirement is recorded.
DeleteIntentLate ==
  /\ dpc = "load"
  /\ dpc' = "stop"
  /\ UNCHANGED <<durable, fence, rt, jpc, cancelled, upc, entry, crashes>>

\* RetireBound: a retired access is done, any other becomes retiring.
DeleteIntent ==
  /\ dpc = "load"
  /\ IF stage = "retired"
     THEN dpc' = "idle" /\ fence' = "free" /\ UNCHANGED stage
     ELSE stage' = "retiring" /\ dpc' = "stop" /\ UNCHANGED fence
  /\ UNCHANGED <<aside, job, bound, secret, role, irow, op, container, clone,
                 rt, jpc, cancelled, upc, entry, crashes>>

\* stopManagedRuntime checks that the row and the access name one runtime.
DeleteStop ==
  /\ dpc = "stop"
  /\ entry = bound
  /\ container' = [container EXCEPT ![bound] = FALSE]
  /\ dpc' = "erase"
  /\ UNCHANGED <<aside, job, stage, bound, secret, role, irow, op, clone,
                 fence, rt, jpc, cancelled, upc, entry, crashes>>

\* Mutant: the row is deleted although the directory is still there.
DeleteEraseSkipped ==
  /\ dpc = "erase"
  /\ dpc' = "forget"
  /\ UNCHANGED <<durable, fence, rt, jpc, cancelled, upc, entry, crashes>>

\* removeRuntimeDir.  A directory that cannot be removed is renamed, and it is
\* not an error if it cannot be removed under its new name either.
DeleteErase ==
  /\ dpc = "erase"
  /\ clone' = [clone EXCEPT ![entry] = FALSE]
  /\ aside' \in {aside, aside \cup {x \in {entry} : clone[x]}}
  /\ dpc' = "forget"
  /\ UNCHANGED <<job, stage, bound, secret, role, irow, op, container,
                 fence, rt, jpc, cancelled, upc, entry, crashes>>

\* The instances row.
DeleteForget ==
  /\ dpc = "forget"
  /\ irow' = None
  /\ dpc' = "close"
  /\ UNCHANGED <<aside, job, stage, bound, secret, role, op, container, clone,
                 fence, rt, jpc, cancelled, upc, entry, crashes>>

\* Mutant: the fence is not released at the end of a retirement.
DeleteCloseLeaks ==
  /\ dpc = "close"
  /\ stage' = "retired"
  /\ dpc' = "idle"
  /\ UNCHANGED <<aside, job, bound, secret, role, irow, op, container, clone,
                 fence, rt, jpc, cancelled, upc, entry, crashes>>

\* retiring -> retired, and the deferred unlock.
DeleteClose ==
  /\ dpc = "close"
  /\ stage' = "retired"
  /\ dpc' = "idle" /\ fence' = "free"
  /\ UNCHANGED <<aside, job, bound, secret, role, irow, op, container, clone,
                 rt, jpc, cancelled, upc, entry, crashes>>

\* Mutant: a failed deletion gives the access back.
DeleteFailsRestores ==
  /\ dpc \in {"wait", "load", "stop", "erase", "forget", "close"}
  /\ stage' = IF stage = "retiring" THEN "verified" ELSE stage
  /\ dpc' = "idle"
  /\ fence' = IF dpc = "wait" THEN fence ELSE "free"
  /\ UNCHANGED <<aside, job, bound, secret, role, irow, op, container, clone,
                 rt, jpc, cancelled, upc, entry, crashes>>

\* Any step of the deletion may fail; the retiring intent stays for a retry.
DeleteFails ==
  /\ dpc \in {"wait", "load", "stop", "erase", "forget", "close"}
  /\ dpc' = "idle"
  /\ fence' = IF dpc = "wait" THEN fence ELSE "free"
  /\ UNCHANGED <<durable, rt, jpc, cancelled, upc, entry, crashes>>

DeleteStep ==
  \/ DeleteRead \/ DeleteFence \/ DeleteIntent \/ DeleteStop \/ DeleteErase
  \/ DeleteForget \/ DeleteClose \/ DeleteFails

-----------------------------------------------------------------------------
\* trimCompletedJobs, or a delete request for the finished job: the row goes,
\* and removeJobDir takes the job's directory with everything below it; that
\* it cannot is only logged.
ForgetJob ==
  /\ Forgets
  /\ job \in {"succeeded", "failed"}
  /\ job' = "deleted"
  /\ \/ clone' = [b \in Bindings |-> FALSE] /\ aside' = {}
     \/ UNCHANGED <<clone, aside>>
  /\ UNCHANGED <<stage, bound, secret, role, irow, op, container,
                 fence, rt, jpc, cancelled, upc, dpc, entry, crashes>>

\* The engine stops and starts again; Recover runs a job that is not terminal.
Crash ==
  /\ crashes < MaxCrashes
  /\ crashes' = crashes + 1
  /\ fence' = "free" /\ rt' = None /\ cancelled' = FALSE
  /\ jpc' = IF job = "running" THEN "lookup" ELSE "done"
  /\ upc' = "idle" /\ dpc' = "idle" /\ entry' = None
  /\ UNCHANGED durable

Next == \/ JobStep \/ Cancel
        \/ UseBegin \/ UseLoad \/ UseEnd
        \/ DeleteStep \/ ForgetJob \/ Crash

Spec == Init /\ [][Next]_vars

\* The runner is scheduled and its calls end; a waiter for the fence is served
\* in turn (InstanceFence) and a cancelled context ends the step that sees it.
\* Users and deletions end when they have started.
FairSpec == /\ Spec
            /\ WF_vars(JobProgress) /\ SF_vars(Activate) /\ SF_vars(Resume)
            /\ WF_vars(cancelled /\ Fails)
            /\ WF_vars(UseLoad \/ UseEnd)
            /\ WF_vars(dpc # "idle" /\ DeleteStep)

-----------------------------------------------------------------------------
\* The secret is stored before the intent that refers to it (Activate), so an
\* intent found after a restart can always be taken up or retired.
SecretBeforeIntent == stage # "absent" => bound \in secret

\* A database role gets the instance password only under a recorded intent for
\* that very runtime (Activate).
IntentBeforeMutation == \A b \in role : bound = b /\ stage \notin {"absent", "reserved"}

\* An instance row exists only for the runtime whose access was verified, and
\* never for a quarantined or retired access (Activate, RetireBound).
PublishedVerified == irow # None => irow = bound /\ stage \in {"verified", "retiring"}

\* While an authorised command runs the access stays verified: retirement and
\* activation wait for it (Use, RetireBound).
UseProtected == upc = "using" => stage = "verified" /\ irow = bound

\* A retired access has no row, no container, and no data at the path of its
\* runtime, and only a retirement sets data aside (DeleteInstance with
\* RetireBound), also after failures and restarts.
RetiredIsGone ==
  /\ stage = "retired" => irow = None /\ ~container[bound] /\ ~clone[bound]
  /\ \A b \in aside : b = bound /\ stage \in {"retiring", "retired"}

\* Nothing of a retired access is left under another name either.  This does not
\* hold: removeRuntimeDir does not report that the renamed directory stays.
RetiredLeavesNoData == stage = "retired" => bound \notin aside

\* A deletion that has begun is not undone: retiring leads to retired only.
RetirementFinal == [][/\ stage = "retiring" => stage' \in {"retiring", "retired"}
                      /\ stage = "retired" => stage' = "retired"]_vars

\* The runner comes to an end, whatever users and deletions do.
RunnerFinishes == <>(jpc = "done")

\* Trimming or deleting a finished job leaves a published instance its data.
DataOutlivesJob == irow # None /\ stage = "verified" => clone[irow]

\* The container of a verified, published instance is stopped only after its
\* access has been fenced by retirement.
RetireBeforeStop == [][irow # None /\ stage = "verified" /\ container[irow]
                         => container'[irow]]_vars

-----------------------------------------------------------------------------
\* The fence is owned by whoever is in a fenced step.
FenceOwned ==
  /\ jpc \in Fenced <=> fence = "job"
  /\ upc \in {"load", "using"} <=> fence = "user"
  /\ dpc \in {"load", "stop", "erase", "forget", "close"} <=> fence = "delete"

\* What the runner knows at each step of Activate.
RunnerKnows ==
  /\ jpc \in Fenced \cup {"activate", "retire", "stop", "erase"} => rt # None
  /\ jpc = "intent" => stage = "absent" /\ rt \in secret
  /\ jpc = "begin" => bound = rt /\ stage = "reserved"
  /\ jpc \in {"apply", "verify"} => bound = rt /\ stage \in {"applying", "verified"}
  /\ jpc = "publish" => bound = rt /\ stage = "verified"
  /\ jpc \in {"resume", "start", "activate"} \cup Fenced => irow = None

\* What the deletion knows at each step.
DeletionKnows ==
  /\ dpc \in {"stop", "erase", "forget", "close"} => stage = "retiring"
  /\ dpc \in {"erase", "forget", "close"} => entry = bound /\ ~container[bound]
  /\ dpc \in {"forget", "close"} => ~clone[bound]
  /\ dpc = "close" => irow = None
  /\ dpc # "idle" => entry = bound /\ entry # None

\* Access rows and the runtimes they are bound to.
BindingSane ==
  /\ stage = "absent" <=> bound = None
  /\ op[Started] = "none" => ~container[Started] /\ ~clone[Started] /\ bound # Started
  /\ rt = Started => op[Started] # "none"
  /\ upc = "load" => irow # None

\* The inductive invariant: access row, instance row, secret and runtime agree
\* in every interleaving of activation, use, deletion, cleanup and restart.
LifecycleInv ==
  /\ TypeOK
  /\ FenceOwned /\ RunnerKnows /\ DeletionKnows /\ BindingSane
  /\ SecretBeforeIntent /\ IntentBeforeMutation /\ PublishedVerified
  /\ UseProtected /\ RetiredIsGone
=============================================================================

---------------------------- MODULE PrepareJobs ----------------------------
(***************************************************************************)
(* One prepare job: Submit, the runner (jobCoordinator.runJob and          *)
(* loadOrPlanTasks), Cancel, Delete, retention and Recover                 *)
(* (prepare/manager.go), over the rows of prepare/queue/sqlite_store.go,   *)
(* with the scripts of the job edited while it runs.                       *)
(*                                                                         *)
(* A state is named by the versions of the scripts applied to the base:    *)
(* computeOutputStateID chains the hash of a step to its input.  What the  *)
(* executor does between two cache checks is StateBuild; here a build is   *)
(* one step.  What publication does is InstanceLifecycle.                  *)
(***************************************************************************)
EXTENDS Naturals, Sequences

CONSTANTS Steps,      \* number of scripts (psql) or changesets (lb)
          Versions,   \* contents a script may have
          Kind,       \* "psql" or "lb"
          Edits,      \* TRUE: scripts may be edited at any time
          Cancels,    \* TRUE: the job may be cancelled
          Deletes,    \* TRUE: the job may be deleted or trimmed
          MaxCrashes, \* bound: engine restarts in a behaviour
          Nothing     \* no runtime, no instance

ASSUME JobsAssumption ==
  /\ Steps \in Nat \ {0}
  /\ Kind \in {"psql", "lb"}
  /\ {Edits, Cancels, Deletes} \subseteq BOOLEAN
  /\ MaxCrashes \in Nat
  /\ Nothing \notin [id : Seq(Versions), data : Seq(Versions)]

VARIABLES
  \* durable: the queue's rows, the state store, the scripts
  row,        \* status of the job row, "absent" before Submit, "gone" after deletion
  why,        \* error of the row
  tasks,      \* the task rows by position
  sign,       \* stored signature, <<>> if none
  cache,      \* sealed states: the name and what is really in it
  made,       \* the published instance: the state's name and what is in it
  source,     \* the scripts
  planOnly,   \* the request is plan-only
  \* in memory
  pc,         \* where the runner is
  registered, \* the runner is in m.running
  cancelled,  \* the runner's context is done
  plan,       \* the runner's task list
  pos,        \* the task the runner is at
  out,        \* the runner's stateID
  rt,         \* the live runtime: state it stands for and what is in it
  cpc,        \* where a cancel request is
  dpc,        \* where a delete request is
  forced,     \* the delete request has --force
  crashes,
  unsaved,    \* since the engine started a terminal status could not be written
  lockLeft    \* on disk: the build lock of an engine that stopped while it built

stored == <<row, why, tasks, sign, cache, made>>
runner == <<pc, registered, cancelled, plan, pos, out, rt>>
vars == <<row, why, tasks, sign, cache, made, source,
          pc, registered, cancelled, plan, pos, out, rt, cpc, dpc, forced, crashes, planOnly, unsaved, lockLeft>>

Terminal == {"succeeded", "failed"}
Full == Steps + 2
Executes == 2 .. Steps + 1
Named == {s.id : s \in cache}

\* What is in a sealed state, or in the base.
Content(id) == IF id = <<>> THEN <<>> ELSE (CHOOSE s \in cache : s.id = id).data
Present(id) == id = <<>> \/ id \in Named

States == Seq(Versions)
Task == [status : {"queued", "running", "succeeded", "failed"},
         in : States, out : States, cached : BOOLEAN]

TypeOK ==
  /\ row \in {"absent", "queued", "running", "succeeded", "failed", "gone"}
  /\ why \in {"none", "cancelled", "error", "chain"}
  /\ tasks \in Seq(Task) /\ Len(tasks) <= Full
  /\ cache \subseteq [id : States, data : States]
  /\ made \in [id : States, data : States] \cup {Nothing}
  /\ source \in [1 .. Steps -> Versions]
  /\ pc \in {"none", "spawn", "load", "mark", "tasks", "plan", "replace", "insert", "loop", "run",
             "waiting", "finish", "instance", "plandone", "succeed", "fail", "refuse", "close", "closed"}
  /\ planOnly \in BOOLEAN /\ registered \in BOOLEAN /\ cancelled \in BOOLEAN /\ forced \in BOOLEAN
  /\ unsaved \in BOOLEAN /\ lockLeft \in BOOLEAN
  /\ pos \in 1 .. Full + 1
  /\ rt \in [id : States, data : States] \cup {Nothing}
  /\ cpc \in {"idle", "lookup", "fail"}
  /\ dpc \in {"idle", "kill", "wait", "row"}
  /\ crashes \in Nat

\* Other jobs have already sealed some of the states this job will need.
Init ==
  /\ row = "absent" /\ why = "none" /\ tasks = <<>> /\ sign = <<>> /\ made = Nothing
  /\ source \in [1 .. Steps -> Versions] /\ planOnly \in BOOLEAN
  /\ \E k \in 0 .. Steps :
       cache = {[id |-> SubSeq(source, 1, i), data |-> SubSeq(source, 1, i)] : i \in 1 .. k}
  /\ pc = "none" /\ registered = FALSE /\ cancelled = FALSE
  /\ plan = <<>> /\ pos = 1 /\ out = <<>> /\ rt = Nothing
  /\ cpc = "idle" /\ dpc = "idle" /\ forced = FALSE /\ crashes = 0
  /\ unsaved = FALSE /\ lockLeft = FALSE

-----------------------------------------------------------------------------
\* CreateJob, then the runner's goroutine.
Submit ==
  /\ row = "absent"
  /\ row' = "queued" /\ pc' = "spawn"
  /\ UNCHANGED <<why, tasks, sign, cache, made, source,
                 registered, cancelled, plan, pos, out, rt, cpc, dpc, forced, crashes, planOnly, unsaved, lockLeft>>

\* Every write of a status is an UPDATE by job id: without the row it does nothing.
SetRow(status) == row' = IF row \in {"absent", "gone"} THEN row ELSE status

\* A runner writes its terminal status once; that it could not is reported to
\* nobody.
WriteEnd(status, reasons) ==
  \/ SetRow(status) /\ why' \in reasons /\ UNCHANGED unsaved
  \/ UNCHANGED <<row, why>> /\ unsaved' = TRUE

\* registerRunner.
Spawn ==
  /\ pc = "spawn"
  /\ registered' = TRUE /\ cancelled' = FALSE /\ pc' = "load"
  /\ UNCHANGED <<stored, source, plan, pos, out, rt, cpc, dpc, forced, crashes, planOnly, unsaved, lockLeft>>

\* Recover cannot restore the request of a stored job and fails it.
RestoreFails ==
  /\ pc = "spawn" /\ crashes > 0
  /\ WriteEnd("failed", {"error"}) /\ pc' = "none"
  /\ UNCHANGED <<tasks, sign, cache, made, source,
                 registered, cancelled, plan, pos, out, rt, cpc, dpc, forced, crashes, planOnly, lockLeft>>

\* runJob: a job that is gone or terminal is left alone.
Load ==
  /\ pc = "load"
  /\ pc' = IF row \in Terminal \cup {"gone"} THEN "close"
           ELSE IF cancelled THEN "fail" ELSE "mark"
  /\ UNCHANGED <<stored, source, registered, cancelled, plan, pos, out, rt,
                 cpc, dpc, forced, crashes, planOnly, unsaved, lockLeft>>

\* The row becomes running, whatever it is by now; the error is ignored.
Mark ==
  /\ pc = "mark"
  /\ IF cancelled THEN UNCHANGED row ELSE SetRow("running")
  /\ pc' = "tasks"
  /\ UNCHANGED <<why, tasks, sign, cache, made, source,
                 registered, cancelled, plan, pos, out, rt, cpc, dpc, forced, crashes, planOnly, unsaved, lockLeft>>

\* validateManagedTasks: the stored steps form a chain from the base.
ValidChain(ts) ==
  LET ex == {i \in DOMAIN ts : i \in Executes} IN
  /\ ex # {}
  /\ \A i \in ex : ts[i].in = IF i = 2 THEN <<>> ELSE ts[i - 1].out

\* The signature of a psql job is made of the scripts, that of a Liquibase job
\* of the planned tasks.
Signature(ts) == IF Kind = "psql" THEN source
                 ELSE [i \in DOMAIN ts |-> <<ts[i].in, ts[i].out>>]

\* Mutant: an incomplete list of steps is not noticed.
ShapeDriftMissed(ts) == FALSE

\* hasPsqlExecuteShapeDrift: some but not all steps are stored.
ShapeDrift(ts) ==
  /\ Kind = "psql" /\ Steps > 1
  /\ Len(ts) - 1 \in 1 .. Steps - 1

Drifted(ts) == (sign # <<>> /\ sign # Signature(ts)) \/ ShapeDrift(ts)

\* A step found running is put back, or done if its state is sealed.
Recovered(ts) ==
  [i \in DOMAIN ts |->
     IF i \in Executes /\ ts[i].status = "running"
     THEN [ts[i] EXCEPT !.status = IF ts[i].out \in Named THEN "succeeded" ELSE "queued"]
     ELSE ts[i]]

\* findOutputStateID.
LastOut(ts) == LET ex == {i \in DOMAIN ts : i \in Executes} IN
               IF ex = {} THEN <<>> ELSE ts[CHOOSE i \in ex : \A j \in ex : j <= i].out

\* loadOrPlanTasks on the stored tasks.
LoadTasks ==
  /\ pc = "tasks"
  /\ ~cancelled
  /\ IF tasks = <<>> THEN pc' = "plan" /\ UNCHANGED <<tasks, plan, out, pos>>
     ELSE IF ~ValidChain(tasks) THEN pc' = "refuse" /\ UNCHANGED <<tasks, plan, out, pos>>
     ELSE IF Drifted(tasks) THEN pc' = "plan" /\ UNCHANGED <<tasks, plan, out, pos>>
     ELSE /\ tasks' = Recovered(tasks) /\ plan' = tasks' /\ out' = LastOut(tasks)
          /\ pos' = 1
          /\ pc' = IF planOnly THEN "plandone" ELSE "loop"
  /\ UNCHANGED <<row, why, sign, cache, made, source,
                 registered, cancelled, rt, cpc, dpc, forced, crashes, planOnly, unsaved, lockLeft>>

\* The plan for the scripts as they are: plan, one step each, prepare-instance.
PlanOf(src) ==
  [i \in 1 .. Full |->
     IF i \in Executes
     THEN [status |-> "queued", in |-> SubSeq(src, 1, i - 2), out |-> SubSeq(src, 1, i - 1),
           cached |-> SubSeq(src, 1, i - 1) \in Named]
     ELSE [status |-> "queued", in |-> <<>>, out |-> <<>>, cached |-> FALSE]]

\* buildPlan and the signature.
Plan ==
  /\ pc = "plan"
  /\ ~cancelled
  /\ plan' = PlanOf(source) /\ out' = source /\ pos' = 1
  /\ sign' = Signature(plan')
  /\ pc' = "replace"
  /\ UNCHANGED <<row, why, tasks, cache, made, source,
                 registered, cancelled, rt, cpc, dpc, forced, crashes, planOnly, unsaved, lockLeft>>

\* ReplaceTasks: a DELETE ...
Replace ==
  /\ pc = "replace"
  /\ ~cancelled
  /\ tasks' = <<>> /\ pc' = "insert"
  /\ UNCHANGED <<row, why, sign, cache, made, source,
                 registered, cancelled, plan, pos, out, rt, cpc, dpc, forced, crashes, planOnly, unsaved, lockLeft>>

\* ... and one INSERT per task, which the foreign key refuses without the row.
Insert ==
  /\ pc = "insert"
  /\ ~cancelled /\ row # "gone"
  /\ tasks' = Append(tasks, plan[Len(tasks) + 1])
  /\ pc' = IF Len(tasks') < Full THEN "insert" ELSE IF planOnly THEN "plandone" ELSE "loop"
  /\ UNCHANGED <<row, why, sign, cache, made, source,
                 registered, cancelled, plan, pos, out, rt, cpc, dpc, forced, crashes, planOnly, unsaved, lockLeft>>

\* markTasksSucceeded of a plan-only job.
PlanDone ==
  /\ pc = "plandone"
  /\ ~cancelled /\ row # "gone"
  /\ tasks' = [i \in DOMAIN tasks |-> [tasks[i] EXCEPT !.status = "succeeded"]]
  /\ pc' = "succeed"
  /\ UNCHANGED <<row, why, sign, cache, made, source,
                 registered, cancelled, plan, pos, out, rt, cpc, dpc, forced, crashes, planOnly, unsaved, lockLeft>>

-----------------------------------------------------------------------------
\* updateTaskStatus with the job's context; without the row its event fails.
SetTask(i, status) ==
  /\ ~cancelled /\ row # "gone"
  /\ tasks' = [tasks EXCEPT ![i].status = status]

\* Mutant: a failed task is passed over like a finished one.
SkipsFailed ==
  /\ pc = "loop" /\ ~cancelled /\ pos <= Len(plan)
  /\ plan[pos].status \in {"succeeded", "failed"}
  /\ pos' = pos + 1
  /\ UNCHANGED <<stored, source, pc, registered, cancelled, plan, out, rt,
                 cpc, dpc, forced, crashes, planOnly, unsaved, lockLeft>>

\* The head of the task loop: a finished task is passed over.
Skip ==
  /\ pc = "loop" /\ ~cancelled /\ pos <= Len(plan)
  /\ plan[pos].status = "succeeded"
  /\ pos' = pos + 1
  /\ UNCHANGED <<stored, source, pc, registered, cancelled, plan, out, rt,
                 cpc, dpc, forced, crashes, planOnly, unsaved, lockLeft>>

\* A task that has failed before fails the job.
FoundFailed ==
  /\ pc = "loop" /\ ~cancelled /\ pos <= Len(plan)
  /\ plan[pos].status = "failed"
  /\ pc' = "fail"
  /\ UNCHANGED <<stored, source, registered, cancelled, plan, pos, out, rt,
                 cpc, dpc, forced, crashes, planOnly, unsaved, lockLeft>>

\* A step planned as cached is checked again.
StillCached == pos \in Executes /\ plan[pos].cached /\ plan[pos].out \in Named

TakeCached ==
  /\ pc = "loop" /\ pos <= Len(plan)
  /\ plan[pos].status \in {"queued", "running"}
  /\ StillCached
  /\ SetTask(pos, "succeeded")
  /\ out' = plan[pos].out
  /\ pos' = pos + 1
  /\ UNCHANGED <<row, why, sign, cache, made, source,
                 pc, registered, cancelled, plan, rt, cpc, dpc, forced, crashes, planOnly, unsaved, lockLeft>>

Begin ==
  /\ pc = "loop" /\ pos <= Len(plan)
  /\ plan[pos].status \in {"queued", "running"}
  /\ ~StillCached
  /\ SetTask(pos, "running")
  /\ pc' = IF pos = 1 THEN "finish" ELSE IF pos = Full THEN "instance" ELSE "run"
  /\ UNCHANGED <<row, why, sign, cache, made, source,
                 registered, cancelled, plan, pos, out, rt, cpc, dpc, forced, crashes, planOnly, unsaved, lockLeft>>

\* A list without prepare-instance ends in createInstance all the same.
EndOfList ==
  /\ pc = "loop" /\ ~cancelled /\ pos > Len(plan)
  /\ pc' = IF out = <<>> THEN "fail" ELSE "instance"
  /\ UNCHANGED <<stored, source, registered, cancelled, plan, pos, out, rt,
                 cpc, dpc, forced, crashes, planOnly, unsaved, lockLeft>>

\* The version a step is named by: a psql script is hashed again under the
\* content lock that covers its execution, a changeset keeps its planned hash.
StepHash == IF Kind = "psql" THEN source[pos - 1] ELSE plan[pos].out[pos - 1]

\* Mutant: the live runtime is used whatever state it stands for.
HoldsAny(input) == rt # Nothing

\* The live runtime stands for the input.
Holds(input) == rt # Nothing /\ rt.id = input

\* ensureRuntime: the live runtime, or one started from the input.
EnsureRuntime(input) == IF Holds(input) THEN rt ELSE [id |-> input, data |-> Content(input)]

\* executeStateTask: the name, the cache, or a build from the input.
Execute ==
  /\ pc = "run"
  /\ ~cancelled
  /\ LET input == plan[pos].in
         id == Append(input, StepHash)
         built == [id |-> id, data |-> Append(EnsureRuntime(input).data, source[pos - 1])]
     IN
     /\ tasks' = IF row = "gone" THEN tasks
                 ELSE [tasks EXCEPT ![pos].out = id, ![pos].cached = id \in Named]
     /\ out' = id
     /\ IF id \in Named
        THEN rt' = Nothing /\ UNCHANGED cache
        ELSE /\ Holds(input) \/ Present(input)
             /\ cache' = cache \cup {built}
             /\ rt' = built
  /\ pc' = "finish"
  /\ UNCHANGED <<row, why, sign, made, source,
                 registered, cancelled, plan, pos, cpc, dpc, forced, crashes, planOnly, unsaved, lockLeft>>

\* withStateBuildLock: a lock that nobody will remove, if it is that of the state
\* to be built, is waited for until the job is cancelled.
AwaitLock ==
  /\ pc = "run" /\ ~cancelled
  /\ lockLeft /\ Append(plan[pos].in, StepHash) \notin Named
  /\ pc' = "waiting"
  /\ UNCHANGED <<stored, source, registered, cancelled, plan, pos, out, rt,
                 cpc, dpc, forced, crashes, planOnly, unsaved, lockLeft>>

\* Execution or publication fails, or the wait for the lock is cancelled: the task
\* is marked failed if that can be written, and the job is to fail.
TaskFails ==
  /\ pc \in {"run", "instance"} \/ (pc = "waiting" /\ cancelled)
  /\ pc' = "fail"
  /\ tasks' = IF cancelled \/ row = "gone" \/ pos > Len(tasks) THEN tasks
              ELSE [tasks EXCEPT ![pos].status = "failed"]
  /\ UNCHANGED <<row, why, sign, cache, made, source,
                 registered, cancelled, plan, pos, out, rt, cpc, dpc, forced, crashes, planOnly, unsaved, lockLeft>>

\* The task is marked succeeded.
Finish ==
  /\ pc = "finish"
  /\ SetTask(pos, "succeeded")
  /\ IF pos = Full THEN pc' = "succeed" /\ UNCHANGED pos
     ELSE pc' = "loop" /\ pos' = pos + 1
  /\ UNCHANGED <<row, why, sign, cache, made, source,
                 registered, cancelled, plan, out, rt, cpc, dpc, forced, crashes, planOnly, unsaved, lockLeft>>

\* createInstance: an instance published before must be of the same state.
Publish ==
  /\ pc = "instance"
  /\ ~cancelled
  /\ IF made # Nothing THEN made.id = out /\ UNCHANGED <<made, rt>>
     ELSE /\ Holds(out) \/ Present(out)
          /\ \E r \in {EnsureRuntime(out)} : made' = r /\ rt' = r
  /\ pc' = IF pos <= Len(plan) THEN "finish" ELSE "succeed"
  /\ UNCHANGED <<row, why, tasks, sign, cache, source,
                 registered, cancelled, plan, pos, out, cpc, dpc, forced, crashes, planOnly, unsaved, lockLeft>>

\* Any other step that uses the context, the store or the event log fails.
Fails ==
  /\ pc \in {"mark", "tasks", "plan", "replace", "insert", "plandone", "loop", "finish"}
  /\ pc' = "fail"
  /\ UNCHANGED <<stored, source, registered, cancelled, plan, pos, out, rt,
                 cpc, dpc, forced, crashes, planOnly, unsaved, lockLeft>>

\* succeed and succeedPlan write the terminal status whatever the row says.
Succeed ==
  /\ pc = "succeed"
  /\ WriteEnd("succeeded", {why})
  /\ pc' = "close"
  /\ UNCHANGED <<tasks, sign, cache, made, source,
                 registered, cancelled, plan, pos, out, rt, cpc, dpc, forced, crashes, planOnly, lockLeft>>

\* Mutant: a failing runner leaves the row as it is.
FailJobSilent ==
  /\ pc \in {"fail", "refuse"}
  /\ pc' = "close"
  /\ UNCHANGED <<stored, source, registered, cancelled, plan, pos, out, rt,
                 cpc, dpc, forced, crashes, planOnly, unsaved, lockLeft>>

\* failJob.
FailJob ==
  /\ pc \in {"fail", "refuse"}
  /\ WriteEnd("failed", IF pc = "refuse" THEN {"chain"}
                        ELSE IF cancelled THEN {"cancelled", "error"} ELSE {"error"})
  /\ pc' = "close"
  /\ UNCHANGED <<tasks, sign, cache, made, source,
                 registered, cancelled, plan, pos, out, rt, cpc, dpc, forced, crashes, planOnly, lockLeft>>

\* Mutant: the runner ends without closing its channel.
CloseForgets ==
  /\ pc = "close"
  /\ pc' = "ended" /\ rt' = Nothing
  /\ UNCHANGED <<stored, source, registered, cancelled, plan, pos, out, cpc, dpc, forced, crashes, planOnly, unsaved, lockLeft>>

\* The deferred end: cleanupRuntime, close(done) ...
Close ==
  /\ pc = "close"
  /\ pc' = "closed" /\ rt' = Nothing
  /\ UNCHANGED <<stored, source, registered, cancelled, plan, pos, out, cpc, dpc, forced, crashes, planOnly, unsaved, lockLeft>>

\* ... and unregisterRunner.
Unregister ==
  /\ pc = "closed"
  /\ pc' = "none" /\ registered' = FALSE
  /\ UNCHANGED <<stored, source, cancelled, plan, pos, out, rt, cpc, dpc, forced, crashes, planOnly, unsaved, lockLeft>>

RunnerStep ==
  \/ Spawn \/ RestoreFails \/ Load \/ Mark \/ LoadTasks \/ Plan \/ Replace \/ Insert \/ PlanDone
  \/ Skip \/ FoundFailed \/ TakeCached \/ Begin \/ EndOfList \/ Execute \/ AwaitLock \/ TaskFails \/ Finish
  \/ Publish \/ Fails \/ Succeed \/ FailJob \/ Close \/ Unregister

-----------------------------------------------------------------------------
\* Cancel reads the row ...
CancelRead ==
  /\ Cancels
  /\ cpc = "idle" /\ row \in {"queued", "running"}
  /\ cpc' = "lookup"
  /\ UNCHANGED <<stored, source, runner, dpc, forced, crashes, planOnly, unsaved, lockLeft>>

\* ... then looks for the runner ...
CancelRunner ==
  /\ cpc = "lookup"
  /\ IF registered THEN cancelled' = TRUE /\ cpc' = "idle"
     ELSE cpc' = "fail" /\ UNCHANGED cancelled
  /\ UNCHANGED <<stored, source, pc, registered, plan, pos, out, rt, dpc, forced, crashes, planOnly, unsaved, lockLeft>>

\* ... and without one fails the job itself.
CancelFail ==
  /\ cpc = "fail"
  /\ SetRow("failed") /\ why' = "cancelled"
  /\ cpc' = "idle"
  /\ UNCHANGED <<tasks, sign, cache, made, source, runner, dpc, forced, crashes, planOnly, unsaved, lockLeft>>

\* Delete: blocked by a running task unless forced.
DeleteRead ==
  /\ Deletes
  /\ dpc = "idle" /\ row \notin {"absent", "gone"}
  /\ forced' \in BOOLEAN
  /\ LET blocked == \E i \in DOMAIN tasks : tasks[i].status = "running" IN
     /\ blocked => forced'
     /\ dpc' = IF blocked THEN "kill" ELSE "row"
  /\ UNCHANGED <<stored, source, runner, cpc, crashes, planOnly, unsaved, lockLeft>>

\* The runner, if there is one, is cancelled ...
DeleteKill ==
  /\ dpc = "kill"
  /\ IF registered THEN cancelled' = TRUE /\ dpc' = "wait"
     ELSE dpc' = "row" /\ UNCHANGED cancelled
  /\ UNCHANGED <<stored, source, pc, registered, plan, pos, out, rt, cpc, forced, crashes, planOnly, unsaved, lockLeft>>

\* ... and waited for.
DeleteWait ==
  /\ dpc = "wait" /\ pc \in {"closed", "none"}
  /\ dpc' = "row"
  /\ UNCHANGED <<stored, source, runner, cpc, forced, crashes, planOnly, unsaved, lockLeft>>

\* DeleteJob cascades to the tasks.
DeleteRow ==
  /\ dpc = "row"
  /\ row' = "gone" /\ tasks' = <<>>
  /\ dpc' = "idle"
  /\ UNCHANGED <<why, sign, cache, made, source, runner, cpc, forced, crashes, planOnly, unsaved, lockLeft>>

\* trimCompletedJobsBySignature of another job.
Trim ==
  /\ Deletes
  /\ row \in Terminal
  /\ row' = "gone" /\ tasks' = <<>>
  /\ UNCHANGED <<why, sign, cache, made, source, runner, cpc, dpc, forced, crashes, planOnly, unsaved, lockLeft>>

\* A script is edited.
Edit ==
  /\ Edits
  /\ \E i \in 1 .. Steps, v \in Versions : source' = [source EXCEPT ![i] = v]
  /\ UNCHANGED <<stored, runner, cpc, dpc, forced, crashes, planOnly, unsaved, lockLeft>>

\* The engine stops, starts again and recovers the jobs that are not terminal.  The
\* lock of a build of this or another job may be left behind.
Crash ==
  /\ crashes < MaxCrashes
  /\ crashes' = crashes + 1
  /\ pc' = IF row \in {"queued", "running"} THEN "spawn" ELSE "none"
  /\ registered' = FALSE /\ cancelled' = FALSE
  /\ plan' = <<>> /\ pos' = 1 /\ out' = <<>> /\ rt' = Nothing
  /\ cpc' = "idle" /\ dpc' = "idle" /\ forced' = FALSE
  /\ unsaved' = FALSE /\ lockLeft' \in {lockLeft, TRUE}
  /\ UNCHANGED <<stored, source, planOnly>>

Next ==
  \/ Submit \/ RunnerStep
  \/ CancelRead \/ CancelRunner \/ CancelFail
  \/ DeleteRead \/ DeleteKill \/ DeleteWait \/ DeleteRow \/ Trim
  \/ Edit \/ Crash

Spec == Init /\ [][Next]_vars

\* The runner is scheduled and its calls return, the wait for a lock that was left
\* excepted; so are accepted requests.
FairSpec == /\ Spec
            /\ WF_vars(RunnerStep)
            /\ WF_vars(CancelRunner \/ CancelFail)
            /\ WF_vars(DeleteKill \/ DeleteWait \/ DeleteRow)

-----------------------------------------------------------------------------
\* A sealed state, a live runtime and a published instance hold what their name
\* says: the scripts applied, in the versions hashed, in order (executeStateTask,
\* ensureRuntime, createManagedInstance), however the scripts change between
\* planning, execution and recovery.
SealTruthful ==
  /\ \A s \in cache : s.id = s.data
  /\ rt # Nothing => rt.id = rt.data
  /\ made # Nothing => made.id = made.data

\* A job that succeeds has finished every task of its plan and has published an
\* instance of the last state, all steps applied (runJob, loadOrPlanTasks),
\* also when a restart found an incomplete list of tasks.
SucceededWhole ==
  row = "succeeded" =>
    /\ \A i \in DOMAIN tasks : tasks[i].status = "succeeded"
    /\ planOnly \/ (made # Nothing /\ Len(made.data) = Steps)

\* Tasks run in the order of the plan: one that is not queued has only
\* succeeded tasks before it (runJob), across restarts and replanning.
TasksInOrder ==
  \A j \in DOMAIN tasks : tasks[j].status # "queued" =>
    \A i \in 1 .. j - 1 : tasks[i].status = "succeeded"

\* A submitted job becomes terminal or is deleted (runJob, failJob, Recover), unless
\* its terminal status could not be written or it waits for the build lock of an
\* engine that stopped; a restart takes the job up again in the first case and a
\* cancellation ends it in the second.
JobEnds ==
  (row \in {"queued", "running"}) ~>
    (row \in Terminal \cup {"gone"} \/ unsaved \/ (pc = "waiting" /\ ~cancelled))

\* No run checks this, which does not hold: every submitted job becomes terminal
\* while the engine runs, however its writes and the locks on disk fare.
JobAlwaysEnds == (row \in {"queued", "running"}) ~> (row \in Terminal \cup {"gone"})

\* A forced delete gets past the runner it has cancelled (Delete).
DeleteReturns == (dpc = "wait") ~> (dpc = "idle")

\* A job reported as cancelled stays failed.
CancelledStays == [][row = "failed" /\ why = "cancelled" => row' \in {"failed", "gone"}]_vars

\* Without --force a job is not deleted once one of its tasks has started,
\* unless it has come to its end.
StartedNotDeleted ==
  [][dpc = "row" /\ ~forced /\ row' = "gone" /\ row \in {"queued", "running"}
       => \A i \in DOMAIN tasks : tasks[i].status = "queued"]_vars

\* Recovery takes up a job whose task list was being written.
PlanResumes == why # "chain"
=============================================================================

---------------------------- MODULE CommandProofs ---------------------------
(***************************************************************************)
(* Proofs about the commands of the CLI, for every value of the constants: *)
(* what the stages of a command leave behind, and alias files, from the    *)
(* algebra of their paths to what an alias means wherever it is run.       *)
(* Both are components of MCStores; CommandStep reduces a step of the      *)
(* whole to a step or a stutter of each of them.                           *)
(***************************************************************************)
EXTENDS MCStores, FiniteSetTheorems, WellFoundedInduction, TLAPS

(* A step of the composition is, for either component, one of its steps or *)
(* leaves its variables alone.                                             *)
LEMMA CommandStep == [Next]_storeVars => [CliNext]_stageVars /\ [AliasNext]_aliasVars
BY DEF Next, storeVars

(* The alias files start as their own module says.                         *)
LEMMA CommandInit == Init => AliasInit
BY DEF Init

-----------------------------------------------------------------------------
(* CliStages.  Nothing is given back before the stage is over, and nothing *)
(* was taken for a command without a ref; a job belongs to `prepare`, and  *)
(* runs on only where somebody waits for it, left it or lost it.           *)
BeforeJob == {"dispatch", "resolve", "checkout", "load", "check", "bind", "trace", "stage"}
RunSteps == {"run", "runload", "runcheck", "runbind", "exec"}

CliTyped ==
  /\ inv \in Invocations
  /\ outcome = [err |-> outcome.err, handled |-> outcome.handled]
  /\ outcome.err \in BOOLEAN /\ outcome.handled \in BOOLEAN
  /\ faults \subseteq {"lost", "removal", "deletion"}
  /\ reads = {} \/ inv.ref = "blob" \/ \E x : reads = {x}

TakenInv ==
  /\ step \notin {"dispatch", "done"} => Dispatchable(inv)
  /\ inv.ref = "none" => tree = "none" /\ staged = "none"
  /\ step \notin {"unwind", "done"} => tree # "gone" /\ staged # "gone"
  /\ step \in {"unwind", "done"} /\ outcome.err = FALSE => (tree = "open" => inv.keep) /\ staged # "open"
  /\ step \in {"resolve", "checkout"} => inv.ref # "none"

EngineInv ==
  /\ step \in BeforeJob => job = "none"
  /\ step \in {"wait"} => job # "none"
  /\ job # "none" => inv.cmd = "prepare"
  /\ instance # "none" => job = "ended"
  /\ job = "running" => step = "wait" \/ outcome.handled = TRUE \/ "lost" \in faults
  /\ job = "running" /\ step # "wait" => inv.ref = "none" \/ "lost" \in faults

(* What the run stage starts from: an instance the prepare stage made, and *)
(* a watch that was not left.                                              *)
RunInv ==
  /\ step \in RunSteps => inv.then \/ inv.cmd = "run"
  /\ step \in RunSteps /\ inv.then => instance = "ready" /\ outcome.handled = FALSE
  /\ step \in BeforeJob \cup RunSteps \cup {"wait"} => outcome.err = FALSE /\ outcome.handled = FALSE
  /\ step = "finish" /\ inv.then =>
       \/ outcome.handled = TRUE
       \/ outcome.err = FALSE /\ instance = "ready"
       \/ outcome.err = TRUE /\ (instance = "ready" => faults # {})
  /\ step = "done" /\ inv.then /\ instance = "ready" =>
       outcome.handled = TRUE \/ faults # {} \/ inv.runKind = "other"
  /\ ran = "prepared" => instance # "none" /\ outcome.handled = FALSE /\ step \in {"unwind", "done"}

(* What the provenance file may say.                                       *)
ProvenanceInv ==
  /\ step = "finish" /\ inv.prov /\ outcome.err = FALSE => artifact = "succeeded"
  /\ step \in {"unwind", "done"} /\ inv.prov /\ outcome.err = FALSE => step = "done" /\ artifact = "succeeded"
  /\ artifact = "succeeded" /\ inv.cmd = "prepare" => job # "none"
  /\ step \in {"write", "finish"} /\ inv.cmd = "prepare" /\ outcome.err = FALSE => job # "none"
  /\ step = "write" => inv.prov
  /\ artifact = "failed" => outcome.err = TRUE /\ step \in {"finish", "done"}

CliInv == CliTyped /\ TakenInv /\ EngineInv /\ RunInv /\ ProvenanceInv

(* What an outcome becomes.                                                *)
Becomes(err, handled) ==
  /\ outcome' = [err |-> err, handled |-> handled]
  /\ outcome'.err = err /\ outcome'.handled = handled

(* A failure of the command keeps whether prepare was handled.             *)
LEMMA FailIs == ASSUME CliTyped, Fail PROVE Becomes(TRUE, outcome.handled)
BY DEF CliTyped, Fail, Becomes

(* A stage that was handled (--no-watch, or detached) is no failure.       *)
LEMMA HandledIs ==
  ASSUME CliTyped, outcome' = [outcome EXCEPT !.handled = TRUE] PROVE Becomes(outcome.err, TRUE)
BY DEF CliTyped, Becomes

(* The error of a stage is set and the rest kept.                          *)
LEMMA ErrIs ==
  ASSUME CliTyped, NEW e, outcome' = [outcome EXCEPT !.err = e] PROVE Becomes(e, outcome.handled)
BY DEF CliTyped, Becomes

(* An outcome that stays.                                                  *)
LEMMA SameIs == ASSUME CliTyped, outcome' = outcome PROVE Becomes(outcome.err, outcome.handled)
BY DEF CliTyped, Becomes

(* A step that keeps the invocation and reads from one commit.             *)
LEMMA TypedKeeps ==
  ASSUME CliTyped, inv' = inv, NEW e \in BOOLEAN, NEW h \in BOOLEAN, Becomes(e, h),
         faults' \subseteq {"lost", "removal", "deletion"},
         reads' = reads \/ inv.ref = "blob" \/ \E x : reads' = {x}
  PROVE  CliTyped'
<1>1. inv' \in Invocations /\ inv'.ref = inv.ref
  BY DEF CliTyped
<1>2. outcome' = [err |-> outcome'.err, handled |-> outcome'.handled]
  BY DEF Becomes
<1>3. outcome'.err \in BOOLEAN /\ outcome'.handled \in BOOLEAN
  BY DEF Becomes
<1>4. reads' = {} \/ inv'.ref = "blob" \/ \E x : reads' = {x}
  BY <1>1 DEF CliTyped
<1>5. QED BY <1>1, <1>2, <1>3, <1>4 DEF CliTyped

(* The clean-up of a command.                                              *)
LEMMA ReleasedIs ==
  ASSUME CliTyped, NEW e \in BOOLEAN, Released(e)
  PROVE  \/ /\ tree' = IF tree = "open" /\ ~inv.keep THEN "gone" ELSE tree
            /\ staged' = IF staged = "open" THEN "gone" ELSE staged
            /\ Becomes(e, outcome.handled) /\ faults' = faults
         \/ /\ tree' = tree /\ staged' = staged
            /\ tree = "open" \/ staged = "open"
            /\ Becomes(TRUE, outcome.handled) /\ faults' = faults \cup {"removal"}
BY DEF CliTyped, Released, Becomes

(* The invocation says what may be asked of a command.                     *)
LEMMA InvocationIs ==
  ASSUME CliTyped
  PROVE  /\ inv.then => inv.cmd = "prepare"
         /\ inv.keep => inv.ref = "worktree"
         /\ inv.cmd = "run" => ~inv.prov
         /\ inv.ref \in {"none", "worktree", "blob"}
         /\ inv.cmd \in {"prepare", "plan", "cache", "run"}
         /\ inv.watch \in {"default", "watch", "no"}
BY DEF CliTyped, Invocations

(* What the dispatcher and the argument parsers let through.               *)
LEMMA DispatchableIs ==
  ASSUME Dispatchable(inv)
  PROVE  /\ inv.then => inv.ref = "none" /\ ~inv.prov
         /\ inv.cmd = "cache" => ~inv.prov
         /\ inv.ref # "none" => inv.watch # "no"
BY DEF Dispatchable, runCache, validatePrepareRefWatch

(* A step towards the stage, or within the run stage, before which nothing *)
(* has failed.                                                             *)
LEMMA MoveOnKeeps ==
  ASSUME CliInv, step \in BeforeJob \cup RunSteps, Dispatchable(inv),
         inv' = inv, job' = job, instance' = instance, ran' = ran, artifact' = artifact,
         outcome' = outcome, faults' = faults,
         step' \in (BeforeJob \cup RunSteps \cup {"finish"}) \ {"dispatch"},
         step' \in BeforeJob => job = "none",
         step' \in RunSteps => step \in RunSteps \/ inv.cmd = "run",
         step' = "finish" => inv.cmd = "cache",
         step' \in {"resolve", "checkout"} => inv.ref # "none",
         tree' = tree \/ (inv.ref # "none" /\ tree' = "open"),
         staged' = staged \/ (inv.ref # "none" /\ staged' = "open"),
         reads' = reads \/ inv.ref = "blob" \/ \E x : reads' = {x}
  PROVE  CliInv'
<1>o. Becomes(outcome.err, outcome.handled)
  BY SameIs DEF CliInv
<1>f. outcome'.err = FALSE /\ outcome'.handled = FALSE
  BY <1>o DEF CliInv, RunInv, Becomes
<1>i. /\ inv.then => inv.cmd = "prepare"
      /\ inv.cmd = "run" => ~inv.prov
      /\ inv.cmd = "cache" => ~inv.prov
  BY InvocationIs, DispatchableIs DEF CliInv
<1>2. CliTyped'
  BY <1>o, TypedKeeps DEF CliInv, CliTyped
<1>3. TakenInv'
  BY <1>f DEF CliInv, TakenInv, BeforeJob, RunSteps
<1>4. EngineInv'
  BY <1>f, <1>i DEF CliInv, EngineInv, RunInv, BeforeJob, RunSteps
<1>5. RunInv'
  BY <1>f, <1>i DEF CliInv, EngineInv, RunInv, BeforeJob, RunSteps
<1>6. ProvenanceInv'
  BY <1>f, <1>i DEF CliInv, EngineInv, ProvenanceInv, BeforeJob, RunSteps
<1>7. QED BY <1>2, <1>3, <1>4, <1>5, <1>6 DEF CliInv

(* A refusal that gives nothing back, since nothing was taken.             *)
LEMMA RefusedKeeps ==
  ASSUME CliInv, step \in BeforeJob \cup RunSteps, Fail,
         inv' = inv, job' = job, instance' = instance, ran' = ran, artifact' = artifact,
         faults' = faults, staged' = staged, reads' = reads,
         tree' = tree \/ (inv.ref # "none" /\ tree' = "open"),
         step' = "done" \/ (step' = "unwind" /\ Dispatchable(inv)),
         step' = "done" => step \in {"dispatch", "check"} \/ inv.runKind = "other"
  PROVE  CliInv'
<1>o. Becomes(TRUE, outcome.handled)
  BY FailIs DEF CliInv
<1>f. outcome'.err = TRUE /\ outcome'.handled = FALSE
  BY <1>o DEF CliInv, RunInv, Becomes
<1>2. CliTyped'
  BY <1>o, TypedKeeps DEF CliInv, CliTyped
<1>3. TakenInv'
  BY <1>f DEF CliInv, TakenInv, BeforeJob, RunSteps
<1>r. job # "running"
  BY DEF CliInv, EngineInv, RunInv, BeforeJob, RunSteps, CliTyped, Invocations
<1>4. EngineInv'
  BY <1>f, <1>r DEF CliInv, EngineInv, BeforeJob, RunSteps
<1>5. RunInv'
  BY <1>f DEF CliInv, EngineInv, RunInv, BeforeJob, RunSteps
<1>6. ProvenanceInv'
  BY <1>f DEF CliInv, EngineInv, ProvenanceInv, BeforeJob, RunSteps
<1>7. QED BY <1>2, <1>3, <1>4, <1>5, <1>6 DEF CliInv

(* A failure that gives back what the command owns.                        *)
LEMMA FailReleasedKeeps ==
  ASSUME CliInv, step \in (BeforeJob \cup RunSteps) \ {"dispatch"}, FailReleased
  PROVE  CliInv'
<1>1. /\ inv' = inv /\ job' = job /\ instance' = instance /\ ran' = ran /\ artifact' = artifact
      /\ reads' = reads /\ step' = "unwind"
  BY DEF FailReleased, StageGoto, workVars
<1>o. /\ Becomes(TRUE, outcome.handled)
      /\ faults' = faults \/ faults' = faults \cup {"removal"}
      /\ tree' = "none" => tree = "none"
      /\ inv.ref = "none" => tree' = tree /\ staged' = staged
  BY ReleasedIs DEF CliInv, FailReleased, TakenInv
<1>f. outcome'.err = TRUE /\ outcome'.handled = FALSE
  BY <1>o DEF CliInv, RunInv, Becomes
<1>2. CliTyped'
  <2>1. faults' \subseteq {"lost", "removal", "deletion"}
    BY <1>o DEF CliInv, CliTyped
  <2>2. QED BY <1>1, <1>o, <2>1, TypedKeeps DEF CliInv, CliTyped
<1>3. TakenInv'
  BY <1>1, <1>o, <1>f DEF CliInv, TakenInv, BeforeJob, RunSteps
<1>r. job # "running"
  BY DEF CliInv, EngineInv, RunInv, BeforeJob, RunSteps, CliTyped, Invocations
<1>4. EngineInv'
  BY <1>1, <1>f, <1>r DEF CliInv, EngineInv, BeforeJob, RunSteps
<1>5. RunInv'
  BY <1>1, <1>f DEF CliInv, EngineInv, RunInv, BeforeJob, RunSteps
<1>6. ProvenanceInv'
  BY <1>1, <1>f DEF CliInv, EngineInv, ProvenanceInv, BeforeJob, RunSteps
<1>7. QED BY <1>2, <1>3, <1>4, <1>5, <1>6 DEF CliInv

(* The parser's command, or the composite one: no other has a run stage.   *)
LEMMA StepFacts ==
  ASSUME CliInv
  PROVE  /\ inv.then => inv.cmd = "prepare" /\ (Dispatchable(inv) => inv.ref = "none" /\ ~inv.prov)
         /\ inv.cmd = "run" => ~inv.prov
         /\ inv.cmd = "cache" /\ Dispatchable(inv) => ~inv.prov
         /\ step \notin {"dispatch", "done"} => Dispatchable(inv)
         /\ step \in BeforeJob => job = "none"
         /\ inv.cmd = "run" => job = "none"
         /\ step \in RunSteps => inv.then \/ inv.cmd = "run"
         /\ step \in {"resolve", "checkout"} => inv.ref # "none"
         /\ inv.cmd \in {"prepare", "plan", "cache", "run"}
         /\ inv.ref \in {"none", "worktree", "blob"}
BY InvocationIs, DispatchableIs DEF CliInv, TakenInv, EngineInv, RunInv

(* Up to the switch of runner.run nothing was taken.                       *)
LEMMA DispatchKeeps == ASSUME CliInv, Dispatch PROVE CliInv'
<1>1. /\ step = "dispatch" /\ inv' = inv /\ faults' = faults
      /\ tree' = tree /\ staged' = staged /\ reads' = reads
      /\ job' = job /\ instance' = instance /\ ran' = ran /\ artifact' = artifact
      /\ \/ /\ Dispatchable(inv) /\ outcome' = outcome
            /\ step' \in {"run", "check", "load", "resolve"}
            /\ step' = "run" => inv.cmd = "run"
            /\ step' = "resolve" => inv.ref # "none"
         \/ step' = "done" /\ Fail
  BY DEF Dispatch, StageGoto, refVars, workVars
<1>2. CASE Dispatchable(inv) /\ outcome' = outcome /\ step' # "done"
  BY <1>1, <1>2, StepFacts, MoveOnKeeps DEF BeforeJob, RunSteps
<1>3. CASE step' = "done" /\ Fail
  BY <1>1, <1>3, StepFacts, RefusedKeeps DEF BeforeJob, RunSteps
<1>4. QED BY <1>1, <1>2, <1>3

(* Asking git for the commit takes nothing.                                *)
LEMMA ResolveCommitKeeps == ASSUME CliInv, ResolveCommit PROVE CliInv'
<1>1. /\ step = "resolve" /\ inv' = inv /\ faults' = faults
      /\ tree' = tree /\ staged' = staged /\ reads' = reads
      /\ job' = job /\ instance' = instance /\ ran' = ran /\ artifact' = artifact
      /\ \/ step' = "checkout" /\ outcome' = outcome
         \/ step' = "unwind" /\ Fail
  BY DEF ResolveCommit, StageGoto, refVars, workVars
<1>2. CASE step' = "checkout" /\ outcome' = outcome
  BY <1>1, <1>2, StepFacts, MoveOnKeeps DEF BeforeJob, RunSteps
<1>3. CASE step' = "unwind" /\ Fail
  BY <1>1, <1>3, StepFacts, RefusedKeeps DEF BeforeJob, RunSteps
<1>4. QED BY <1>1, <1>2, <1>3

(* A worktree is taken for a ref only, and read at one commit.             *)
LEMMA CheckoutKeeps == ASSUME CliInv, Checkout PROVE CliInv'
<1>1. /\ step = "checkout" /\ inv' = inv /\ faults' = faults /\ staged' = staged
      /\ job' = job /\ instance' = instance /\ ran' = ran /\ artifact' = artifact
      /\ tree' = tree \/ (inv.ref = "worktree" /\ tree' = "open")
      /\ reads' = reads \/ \E x : reads' = {x}
      /\ \/ /\ step' \in {"runload", "runbind", "load", "bind"} /\ outcome' = outcome
            /\ step' \in {"runload", "runbind"} => inv.cmd = "run"
         \/ step' = "unwind" /\ Fail /\ reads' = reads
  BY DEF Checkout, AfterCheckout, StageGoto, workVars
<1>2. CASE step' # "unwind"
  BY <1>1, <1>2, StepFacts, MoveOnKeeps DEF BeforeJob, RunSteps
<1>3. CASE step' = "unwind" /\ Fail
  BY <1>1, <1>3, StepFacts, RefusedKeeps DEF BeforeJob, RunSteps
<1>4. QED BY <1>1, <1>2, <1>3

(* An alias found, or the worktree given back.                             *)
LEMMA LoadAliasKeeps == ASSUME CliInv, LoadAlias PROVE CliInv'
<1>1. step = "load"
  BY DEF LoadAlias
<1>2. CASE StageGoto("check") /\ UNCHANGED <<inv, refVars, workVars, outcome, faults>>
  BY <1>1, <1>2, StepFacts, MoveOnKeeps DEF BeforeJob, RunSteps, StageGoto, refVars, workVars
<1>3. CASE FailReleased
  BY <1>1, <1>3, FailReleasedKeeps DEF BeforeJob
<1>4. QED BY <1>2, <1>3 DEF LoadAlias

(* The early returns of buildStageRuntime.                                 *)
LEMMA CheckStageKeeps == ASSUME CliInv, CheckStage PROVE CliInv'
<1>1. /\ step = "check" /\ inv' = inv /\ faults' = faults
      /\ tree' = tree /\ staged' = staged /\ reads' = reads
      /\ job' = job /\ instance' = instance /\ ran' = ran /\ artifact' = artifact
      /\ \/ /\ step' \in {"resolve", "bind"} /\ outcome' = outcome
            /\ step' = "resolve" => inv.ref # "none"
         \/ step' = "done" /\ Fail
  BY DEF CheckStage, StageGoto, refVars, workVars
<1>2. CASE step' # "done"
  BY <1>1, <1>2, StepFacts, MoveOnKeeps DEF BeforeJob, RunSteps
<1>3. CASE step' = "done" /\ Fail
  BY <1>1, <1>3, StepFacts, RefusedKeeps DEF BeforeJob, RunSteps
<1>4. QED BY <1>1, <1>2, <1>3

(* Files are staged for a blob ref only.                                   *)
LEMMA BoundKeeps == ASSUME CliInv, step = "bind", Bound PROVE CliInv'
<1>1. /\ inv' = inv /\ faults' = faults /\ tree' = tree /\ outcome' = outcome
      /\ job' = job /\ instance' = instance /\ ran' = ran /\ artifact' = artifact
      /\ staged' = staged \/ (inv.ref = "blob" /\ staged' = "open")
      /\ reads' = reads \/ inv.ref = "blob"
      /\ step' \in {"trace", "stage"}
  BY DEF Bound, materializeRefFiles, StageGoto, workVars
<1>2. QED BY <1>1, StepFacts, MoveOnKeeps DEF BeforeJob, RunSteps

(* The three kinds of a stage bind alike.                                  *)
LEMMA BindKeeps == ASSUME CliInv, BindPsql \/ BindLiquibase \/ BindUnknown PROVE CliInv'
<1>1. step = "bind" /\ (Bound \/ FailReleased)
  BY DEF BindPsql, BindLiquibase, BindUnknown
<1>2. QED BY <1>1, BoundKeeps, FailReleasedKeeps DEF BeforeJob

(* Only `cache explain` ends with the trace.                               *)
LEMMA TraceInputsKeeps == ASSUME CliInv, TraceInputs PROVE CliInv'
<1>1. step = "trace"
  BY DEF TraceInputs
<1>2. CASE step' # "unwind" /\ ~FailReleased
  <2>1. /\ inv' = inv /\ faults' = faults /\ tree' = tree /\ staged' = staged /\ outcome' = outcome
        /\ job' = job /\ instance' = instance /\ ran' = ran /\ artifact' = artifact
        /\ reads' = reads \/ inv.ref = "blob"
        /\ step' \in {"finish", "stage"} /\ (step' = "finish" => inv.cmd = "cache")
    BY <1>2 DEF TraceInputs, StageGoto, workVars
  <2>2. QED BY <1>1, <2>1, StepFacts, MoveOnKeeps DEF BeforeJob, RunSteps
<1>3. CASE FailReleased
  BY <1>1, <1>3, FailReleasedKeeps DEF BeforeJob
<1>4. QED BY <1>2, <1>3 DEF TraceInputs, StageGoto

(* The run stage up to its execution.                                      *)
LEMMA RunPrefixKeeps == ASSUME CliInv, StartRun \/ LoadRunAlias \/ CheckRun \/ BindRun PROVE CliInv'
<1>1. CASE StartRun
  <2>1. /\ step = "run" /\ inv' = inv /\ faults' = faults
        /\ tree' = tree /\ staged' = staged /\ reads' = reads
        /\ job' = job /\ instance' = instance /\ ran' = ran /\ artifact' = artifact
        /\ \/ step' = "done" /\ Fail /\ inv.runKind = "other"
           \/ step' \in {"runcheck", "runload"} /\ outcome' = outcome
           \/ step' = "resolve" /\ inv.ref # "none" /\ outcome' = outcome
           \/ step' = "unwind" /\ Fail
    BY <1>1 DEF StartRun, StageGoto, refVars, workVars
  <2>2. CASE outcome' = outcome /\ step' \notin {"done", "unwind"}
    BY <2>1, <2>2, StepFacts, MoveOnKeeps DEF BeforeJob, RunSteps
  <2>3. CASE Fail /\ step' \in {"done", "unwind"}
    BY <2>1, <2>3, StepFacts, RefusedKeeps DEF BeforeJob, RunSteps
  <2>4. QED BY <2>1, <2>2, <2>3
<1>2. ASSUME step \in {"runload", "runcheck", "runbind"},
             step' \in {"runcheck", "resolve", "runbind", "exec"},
             step' = "resolve" => inv.ref # "none",
             inv' = inv, faults' = faults, tree' = tree, staged' = staged, outcome' = outcome,
             job' = job, instance' = instance, ran' = ran, artifact' = artifact,
             reads' = reads \/ inv.ref = "blob"
      PROVE  CliInv'
  BY <1>2, StepFacts, MoveOnKeeps DEF BeforeJob, RunSteps
<1>3. ASSUME step \in {"runload", "runcheck", "runbind"}, FailReleased PROVE CliInv'
  BY <1>3, FailReleasedKeeps DEF RunSteps
<1>4. CASE LoadRunAlias
  BY <1>4, <1>2, <1>3 DEF LoadRunAlias, StageGoto, refVars, workVars
<1>5. CASE CheckRun
  BY <1>5, <1>2, <1>3 DEF CheckRun, StageGoto, refVars, workVars
<1>6. CASE BindRun
  BY <1>6, <1>2, <1>3 DEF BindRun, StageGoto, workVars
<1>7. QED BY <1>1, <1>4, <1>5, <1>6

(* The engine's part of the stage.                                         *)
LEMMA StageKeeps == ASSUME CliInv, RunPlanStage \/ SubmitPrepare PROVE CliInv'
<1>1. /\ step = "stage" /\ inv' = inv /\ faults' = faults
      /\ tree' = tree /\ staged' = staged /\ reads' = reads
      /\ instance' = instance /\ ran' = ran /\ artifact' = artifact
      /\ \/ step' = "write" /\ inv.prov
         \/ step' = "finish" /\ ~inv.prov
         \/ step' = "wait"
      /\ \/ /\ inv.cmd = "plan" /\ job' = job /\ step' # "wait"
            /\ Fail \/ outcome' = outcome
         \/ /\ inv.cmd = "prepare" /\ job' = "running" /\ inv.watch = "no" /\ step' # "wait"
            /\ outcome' = [outcome EXCEPT !.handled = TRUE]
         \/ inv.cmd = "prepare" /\ job' = "running" /\ step' = "wait" /\ outcome' = outcome
         \/ inv.cmd = "prepare" /\ job' = job /\ step' # "wait" /\ Fail
  BY DEF RunPlanStage, SubmitPrepare, AfterStage, StageGoto, refVars, workVars
<1>2. /\ job = "none" /\ instance = "none" /\ outcome.err = FALSE /\ outcome.handled = FALSE
      /\ ran # "prepared" /\ artifact # "failed"
      /\ inv.watch = "no" => inv.ref = "none"
      /\ inv.then => ~inv.prov /\ inv.cmd = "prepare" /\ inv.ref = "none"
  BY <1>1, StepFacts, DispatchableIs DEF CliInv, EngineInv, RunInv, ProvenanceInv, BeforeJob, RunSteps
<1>3. PICK e \in BOOLEAN, h \in BOOLEAN :
        /\ Becomes(e, h)
        /\ h = TRUE => e = FALSE /\ job' = "running" /\ inv.watch = "no" /\ inv.cmd = "prepare"
        /\ h = FALSE /\ job' # job => step' = "wait" /\ e = FALSE /\ inv.cmd = "prepare"
        /\ step' = "wait" => h = FALSE /\ job' # job
        /\ job' \in {job, "running"}
        /\ e = FALSE /\ inv.cmd = "prepare" => job' = "running"
  <2>1. CASE Fail /\ job' = job /\ step' # "wait"
    <3>1. Becomes(TRUE, FALSE)
      BY <1>2, <2>1, FailIs DEF CliInv
    <3>2. QED BY <2>1, <3>1
  <2>2. CASE outcome' = outcome /\ inv.cmd = "plan" /\ job' = job /\ step' # "wait"
    <3>1. Becomes(FALSE, FALSE)
      BY <1>2, <2>2, SameIs DEF CliInv
    <3>2. QED BY <2>2, <3>1
  <2>3. CASE inv.cmd = "prepare" /\ job' = "running" /\ step' = "wait" /\ outcome' = outcome
    <3>1. Becomes(FALSE, FALSE)
      BY <1>2, <2>3, SameIs DEF CliInv
    <3>2. QED BY <1>2, <2>3, <3>1
  <2>4. CASE /\ inv.cmd = "prepare" /\ job' = "running" /\ inv.watch = "no" /\ step' # "wait"
             /\ outcome' = [outcome EXCEPT !.handled = TRUE]
    <3>1. Becomes(FALSE, TRUE)
      BY <1>2, <2>4, HandledIs DEF CliInv
    <3>2. QED BY <2>4, <3>1
  <2>5. QED BY <1>1, <2>1, <2>2, <2>3, <2>4
<1>f. outcome'.err = e /\ outcome'.handled = h
  BY <1>3 DEF Becomes
<1>4. CliTyped'
  BY <1>1, <1>3, TypedKeeps DEF CliInv, CliTyped
<1>5. TakenInv'
  BY <1>1, <1>2, <1>f DEF CliInv, TakenInv
<1>6. EngineInv'
  BY <1>1, <1>2, <1>3, <1>f DEF CliInv, EngineInv, BeforeJob
<1>7. RunInv'
  BY <1>1, <1>2, <1>3, <1>f DEF CliInv, RunInv, BeforeJob, RunSteps
<1>8. ProvenanceInv'
  BY <1>1, <1>2, <1>3, <1>f DEF CliInv, ProvenanceInv
<1>9. QED BY <1>4, <1>5, <1>6, <1>7, <1>8 DEF CliInv

(* The end of a watch: the job over, left, or lost.                        *)
LEMMA WatchPrepareKeeps == ASSUME CliInv, WatchPrepare PROVE CliInv'
<1>1. /\ step = "wait" /\ inv' = inv
      /\ tree' = tree /\ staged' = staged /\ reads' = reads
      /\ job' = job /\ instance' = instance /\ ran' = ran /\ artifact' = artifact
      /\ \/ step' = "write" /\ inv.prov
         \/ step' = "finish" /\ ~inv.prov
      /\ \/ job = "ended" /\ outcome' = [outcome EXCEPT !.err = (instance # "ready")] /\ faults' = faults
         \/ inv.ref = "none" /\ outcome' = [outcome EXCEPT !.handled = TRUE] /\ faults' = faults
         \/ Fail /\ faults' = faults \cup {"lost"}
  BY DEF WatchPrepare, AllowControls, AfterStage, StageGoto, refVars, workVars
<1>2. /\ job # "none" /\ inv.cmd = "prepare" /\ outcome.err = FALSE /\ outcome.handled = FALSE
      /\ ran # "prepared" /\ artifact # "failed" /\ Dispatchable(inv)
      /\ inv.then => ~inv.prov /\ inv.cmd = "prepare" /\ inv.ref = "none"
  BY <1>1, StepFacts DEF CliInv, EngineInv, RunInv, ProvenanceInv, BeforeJob, RunSteps
<1>3. PICK e \in BOOLEAN, h \in BOOLEAN :
        /\ Becomes(e, h)
        /\ \/ job = "ended" /\ (e = FALSE => instance = "ready") /\ (e = TRUE => instance # "ready")
              /\ h = FALSE /\ faults' = faults
           \/ inv.ref = "none" /\ h = TRUE /\ e = FALSE /\ faults' = faults
           \/ e = TRUE /\ h = FALSE /\ faults' = faults \cup {"lost"}
  <2>1. CASE Fail /\ faults' = faults \cup {"lost"}
    BY <1>1, <1>2, <2>1, FailIs DEF CliInv
  <2>2. CASE job = "ended" /\ outcome' = [outcome EXCEPT !.err = (instance # "ready")] /\ faults' = faults
    <3>1. CASE instance = "ready"
      <4>1. outcome' = [outcome EXCEPT !.err = FALSE]
        BY <2>2, <3>1
      <4>2. Becomes(FALSE, FALSE)
        BY <4>1, <1>2, ErrIs DEF CliInv
      <4>3. QED BY <4>2, <2>2, <3>1
    <3>2. CASE instance # "ready"
      <4>1. outcome' = [outcome EXCEPT !.err = TRUE]
        BY <2>2, <3>2
      <4>2. Becomes(TRUE, FALSE)
        BY <4>1, <1>2, ErrIs DEF CliInv
      <4>3. QED BY <4>2, <2>2, <3>2
    <3>3. QED BY <3>1, <3>2
  <2>3. CASE inv.ref = "none" /\ outcome' = [outcome EXCEPT !.handled = TRUE] /\ faults' = faults
    BY <1>1, <1>2, <2>3, HandledIs DEF CliInv
  <2>4. QED BY <1>1, <2>1, <2>2, <2>3
<1>f. outcome'.err = e /\ outcome'.handled = h
  BY <1>3 DEF Becomes
<1>t. faults' = faults \/ faults' = faults \cup {"lost"}
  BY <1>1
<1>4. CliTyped'
  <2>1. faults' \subseteq {"lost", "removal", "deletion"}
    BY <1>t DEF CliInv, CliTyped
  <2>2. QED BY <1>1, <1>3, <2>1, TypedKeeps DEF CliInv, CliTyped
<1>5. TakenInv'
  BY <1>1, <1>2, <1>f DEF CliInv, TakenInv
<1>6. EngineInv'
  BY <1>1, <1>2, <1>3, <1>f DEF CliInv, EngineInv, BeforeJob
<1>7. RunInv'
  BY <1>1, <1>2, <1>3, <1>f DEF CliInv, RunInv, BeforeJob, RunSteps
<1>8. ProvenanceInv'
  BY <1>1, <1>2, <1>3, <1>f DEF CliInv, ProvenanceInv
<1>9. QED BY <1>4, <1>5, <1>6, <1>7, <1>8 DEF CliInv

(* The engine ends a job at any step of the command.                       *)
LEMMA JobEndsKeeps == ASSUME CliInv, JobEnds PROVE CliInv'
<1>1. /\ job = "running" /\ job' = "ended" /\ inv' = inv /\ step' = step
      /\ tree' = tree /\ staged' = staged /\ reads' = reads
      /\ ran' = ran /\ artifact' = artifact /\ outcome' = outcome /\ faults' = faults
  BY DEF JobEnds, refVars
<1>2. CliTyped'
  BY <1>1, SameIs, TypedKeeps DEF CliInv, CliTyped
<1>3. TakenInv'
  BY <1>1 DEF CliInv, TakenInv
<1>4. EngineInv'
  BY <1>1 DEF JobEnds, CliInv, EngineInv
<1>5. RunInv'
  BY <1>1 DEF CliInv, EngineInv, RunInv, CliTyped, BeforeJob, RunSteps
<1>6. ProvenanceInv'
  BY <1>1 DEF CliInv, ProvenanceInv
<1>7. QED BY <1>2, <1>3, <1>4, <1>5, <1>6 DEF CliInv

(* The provenance file tells the outcome of its stage.                     *)
LEMMA WriteProvenanceKeeps == ASSUME CliInv, WriteProvenance PROVE CliInv'
<1>1. /\ step = "write" /\ step' = "finish" /\ inv' = inv /\ faults' = faults
      /\ tree' = tree /\ staged' = staged /\ reads' = reads
      /\ job' = job /\ instance' = instance /\ ran' = ran
      /\ \/ artifact' = (IF outcome.err THEN "failed" ELSE "succeeded") /\ outcome' = outcome
         \/ artifact' = artifact /\ Fail
  BY DEF WriteProvenance, StageGoto, refVars
<1>2. /\ inv.prov /\ ~inv.then /\ artifact # "failed" /\ ran # "prepared"
      /\ outcome.err \in BOOLEAN /\ outcome.handled \in BOOLEAN
  BY <1>1, StepFacts DEF CliInv, CliTyped, RunInv, ProvenanceInv
<1>3. PICK e \in BOOLEAN :
        /\ Becomes(e, outcome.handled)
        /\ e = FALSE => artifact' = "succeeded" /\ outcome.err = FALSE
        /\ artifact' = artifact \/ artifact' = "failed" \/ (artifact' = "succeeded" /\ outcome.err = FALSE)
        /\ artifact' = "failed" => e = TRUE
  <2>1. CASE artifact' = (IF outcome.err THEN "failed" ELSE "succeeded") /\ outcome' = outcome
    <3>1. Becomes(outcome.err, outcome.handled)
      BY <2>1, SameIs DEF CliInv
    <3>2. CASE outcome.err = TRUE
      BY <2>1, <3>1, <3>2, <1>2
    <3>3. CASE outcome.err = FALSE
      BY <2>1, <3>1, <3>3, <1>2
    <3>4. QED BY <3>2, <3>3, <1>2
  <2>2. CASE artifact' = artifact /\ Fail
    BY <2>2, <1>2, FailIs DEF CliInv
  <2>3. QED BY <1>1, <2>1, <2>2
<1>f. outcome'.err = e /\ outcome'.handled = outcome.handled
  BY <1>3 DEF Becomes
<1>4. CliTyped'
  BY <1>1, <1>2, <1>3, TypedKeeps DEF CliInv, CliTyped
<1>5. TakenInv'
  BY <1>1, <1>2, <1>f DEF CliInv, TakenInv
<1>6. EngineInv'
  BY <1>1, <1>2, <1>3, <1>f DEF CliInv, EngineInv, BeforeJob
<1>7. RunInv'
  BY <1>1, <1>2, <1>3, <1>f DEF CliInv, RunInv, BeforeJob, RunSteps
<1>8. ProvenanceInv'
  BY <1>1, <1>2, <1>3, <1>f DEF CliInv, ProvenanceInv
<1>9. QED BY <1>4, <1>5, <1>6, <1>7, <1>8 DEF CliInv

(* The clean-up of a stage, and the way to the run stage.                  *)
LEMMA FinishStageKeeps == ASSUME CliInv, FinishStage PROVE CliInv'
<1>1. /\ step = "finish" /\ inv' = inv /\ reads' = reads
      /\ job' = job /\ instance' = instance /\ ran' = ran /\ artifact' = artifact
      /\ Released(outcome.err)
      /\ step' = IF inv.then /\ ~outcome'.err /\ ~outcome.handled THEN "run" ELSE "done"
  BY DEF FinishStage, StageGoto, workVars
<1>2. /\ outcome.err \in BOOLEAN /\ outcome.handled \in BOOLEAN
      /\ tree # "gone" /\ staged # "gone" /\ ran # "prepared"
      /\ inv.then => inv.ref = "none" /\ ~inv.prov
      /\ inv.ref = "none" => tree = "none" /\ staged = "none"
  BY <1>1, StepFacts DEF CliInv, CliTyped, TakenInv, RunInv
<1>3. PICK e \in BOOLEAN :
        /\ Becomes(e, outcome.handled)
        /\ \/ tree' = (IF tree = "open" /\ ~inv.keep THEN "gone" ELSE tree)
              /\ staged' = (IF staged = "open" THEN "gone" ELSE staged)
              /\ e = outcome.err /\ faults' = faults
           \/ /\ tree' = tree /\ staged' = staged /\ e = TRUE /\ faults' = faults \cup {"removal"}
              /\ tree = "open" \/ staged = "open"
  <2>1. \/ /\ tree' = IF tree = "open" /\ ~inv.keep THEN "gone" ELSE tree
           /\ staged' = IF staged = "open" THEN "gone" ELSE staged
           /\ Becomes(outcome.err, outcome.handled) /\ faults' = faults
        \/ /\ tree' = tree /\ staged' = staged
           /\ tree = "open" \/ staged = "open"
           /\ Becomes(TRUE, outcome.handled) /\ faults' = faults \cup {"removal"}
    BY <1>1, <1>2, ReleasedIs DEF CliInv
  <2>2. CASE Becomes(outcome.err, outcome.handled) /\ faults' = faults
             /\ tree' = (IF tree = "open" /\ ~inv.keep THEN "gone" ELSE tree)
             /\ staged' = (IF staged = "open" THEN "gone" ELSE staged)
    BY <1>2, <2>2
  <2>3. CASE Becomes(TRUE, outcome.handled) /\ faults' = faults \cup {"removal"}
             /\ tree' = tree /\ staged' = staged /\ (tree = "open" \/ staged = "open")
    BY <2>3
  <2>4. QED BY <2>1, <2>2, <2>3
<1>f. outcome'.err = e /\ outcome'.handled = outcome.handled
  BY <1>3 DEF Becomes
<1>s. \/ /\ step' = "run" /\ inv.then /\ e = FALSE /\ outcome.handled = FALSE
         /\ outcome.err = FALSE /\ instance = "ready"
      \/ step' = "done" /\ (inv.then => e = TRUE \/ outcome.handled = TRUE)
  <2>1. CASE inv.then /\ e = FALSE /\ outcome.handled = FALSE
    BY <1>1, <1>2, <1>3, <1>f, <2>1 DEF CliInv, RunInv
  <2>2. CASE ~(inv.then /\ e = FALSE /\ outcome.handled = FALSE)
    BY <1>1, <1>2, <1>3, <1>f, <2>2
  <2>3. QED BY <2>1, <2>2
<1>t. faults' = faults \/ faults' = faults \cup {"removal"}
  BY <1>3
<1>4. CliTyped'
  <2>1. faults' \subseteq {"lost", "removal", "deletion"}
    BY <1>t DEF CliInv, CliTyped
  <2>2. QED BY <1>1, <1>2, <1>3, <2>1, TypedKeeps DEF CliInv, CliTyped
<1>5. TakenInv'
  <2>1. Dispatchable(inv) /\ step' \in {"run", "done"}
    BY <1>1, <1>s, StepFacts
  <2>2. step' = "done" /\ e = FALSE => (tree' = "open" => inv.keep) /\ staged' # "open"
    BY <1>3
  <2>3. inv.ref = "none" => tree' = "none" /\ staged' = "none"
    BY <1>2, <1>3
  <2>4. step' = "run" => tree' # "gone" /\ staged' # "gone"
    BY <1>s, <1>2, <2>3
  <2>5. QED BY <1>1, <1>f, <2>1, <2>2, <2>3, <2>4 DEF TakenInv
<1>6. EngineInv'
  BY <1>1, <1>t, <1>f, <1>s DEF CliInv, EngineInv, BeforeJob
<1>7. RunInv'
  <2>1. CASE step' = "run" /\ inv.then /\ e = FALSE /\ outcome.handled = FALSE /\ instance = "ready"
    BY <1>1, <1>2, <1>f, <2>1 DEF RunInv, BeforeJob, RunSteps
  <2>2. CASE step' = "done" /\ (inv.then => e = TRUE \/ outcome.handled = TRUE)
    <3>1. inv.then /\ instance = "ready" => outcome.handled = TRUE \/ faults' # {}
      BY <1>1, <1>2, <1>3, <2>2 DEF CliInv, RunInv
    <3>2. QED BY <1>1, <1>2, <1>f, <2>2, <3>1 DEF RunInv, BeforeJob, RunSteps
  <2>3. QED BY <1>s, <2>1, <2>2
<1>8. ProvenanceInv'
  <2>1. e = FALSE => outcome.err = FALSE
    BY <1>2, <1>3
  <2>2. artifact = "failed" => e = TRUE /\ step' = "done"
    <3>1. artifact = "failed" => outcome.err = TRUE
      BY DEF CliInv, ProvenanceInv
    <3>2. QED BY <1>2, <1>3, <1>s, <3>1, <2>1
  <2>3. inv.prov /\ e = FALSE => step' = "done" /\ artifact = "succeeded"
    BY <1>1, <1>2, <1>s, <2>1 DEF CliInv, ProvenanceInv
  <2>4. QED BY <1>1, <1>2, <1>f, <1>s, <2>2, <2>3 DEF CliInv, ProvenanceInv
<1>9. QED BY <1>4, <1>5, <1>6, <1>7, <1>8 DEF CliInv

(* The run stage runs against what it started from.                        *)
LEMMA ExecRunKeeps == ASSUME CliInv, ExecRun PROVE CliInv'
<1>1. /\ step = "exec" /\ step' = "unwind" /\ inv' = inv /\ reads' = reads
      /\ job' = job /\ instance' = instance /\ artifact' = artifact
      /\ ran' = "prepared" => inv.then
  BY DEF ExecRun, StageGoto
<1>2. /\ tree # "gone" /\ staged # "gone"
      /\ outcome.handled = FALSE /\ ~inv.prov /\ artifact # "failed"
      /\ inv.then => instance = "ready"
      /\ Dispatchable(inv)
      /\ inv.ref = "none" => tree = "none" /\ staged = "none"
      /\ job # "running"
  BY <1>1, StepFacts DEF CliInv, TakenInv, EngineInv, RunInv, ProvenanceInv, BeforeJob, RunSteps
<1>3. PICK failed \in BOOLEAN : Released(failed)
  BY DEF ExecRun
<1>4. PICK e \in BOOLEAN :
        /\ Becomes(e, FALSE)
        /\ \/ tree' = (IF tree = "open" /\ ~inv.keep THEN "gone" ELSE tree)
              /\ staged' = (IF staged = "open" THEN "gone" ELSE staged) /\ faults' = faults
           \/ /\ tree' = tree /\ staged' = staged /\ e = TRUE /\ faults' = faults \cup {"removal"}
              /\ tree = "open" \/ staged = "open"
  <2>1. \/ /\ tree' = IF tree = "open" /\ ~inv.keep THEN "gone" ELSE tree
           /\ staged' = IF staged = "open" THEN "gone" ELSE staged
           /\ Becomes(failed, outcome.handled) /\ faults' = faults
        \/ /\ tree' = tree /\ staged' = staged
           /\ tree = "open" \/ staged = "open"
           /\ Becomes(TRUE, outcome.handled) /\ faults' = faults \cup {"removal"}
    BY <1>3, ReleasedIs DEF CliInv
  <2>2. CASE Becomes(failed, FALSE) /\ faults' = faults
             /\ tree' = (IF tree = "open" /\ ~inv.keep THEN "gone" ELSE tree)
             /\ staged' = (IF staged = "open" THEN "gone" ELSE staged)
    BY <2>2
  <2>3. CASE Becomes(TRUE, FALSE) /\ faults' = faults \cup {"removal"}
             /\ tree' = tree /\ staged' = staged /\ (tree = "open" \/ staged = "open")
    BY <2>3
  <2>4. QED BY <1>2, <2>1, <2>2, <2>3
<1>f. outcome'.err = e /\ outcome'.handled = FALSE
  BY <1>4 DEF Becomes
<1>t. faults' = faults \/ faults' = faults \cup {"removal"}
  BY <1>4
<1>5. CliTyped'
  <2>1. faults' \subseteq {"lost", "removal", "deletion"}
    BY <1>t DEF CliInv, CliTyped
  <2>2. QED BY <1>1, <1>4, <2>1, TypedKeeps DEF CliInv, CliTyped
<1>6. TakenInv'
  <2>1. e = FALSE => (tree' = "open" => inv.keep) /\ staged' # "open"
    BY <1>4
  <2>2. inv.ref = "none" => tree' = "none" /\ staged' = "none"
    BY <1>2, <1>4
  <2>3. QED BY <1>1, <1>2, <1>f, <2>1, <2>2 DEF TakenInv
<1>7. EngineInv'
  BY <1>1, <1>2, <1>t, <1>f DEF CliInv, EngineInv, BeforeJob
<1>8. RunInv'
  BY <1>1, <1>2, <1>f DEF RunInv, BeforeJob, RunSteps
<1>9. ProvenanceInv'
  BY <1>1, <1>2, <1>f DEF CliInv, ProvenanceInv
<1>10. QED BY <1>5, <1>6, <1>7, <1>8, <1>9 DEF CliInv

(* The prepared instance is removed, or its removal failed.                *)
LEMMA UnwindKeeps == ASSUME CliInv, Unwind PROVE CliInv'
<1>1. /\ step = "unwind" /\ step' = "done" /\ inv' = inv
      /\ tree' = tree /\ staged' = staged /\ reads' = reads
      /\ job' = job /\ ran' = ran /\ artifact' = artifact /\ outcome' = outcome
      /\ \/ inv.then /\ instance = "ready" /\ instance' = "gone" /\ faults' = faults
         \/ faults' = faults \cup {"deletion"} /\ instance' = instance
         \/ ~(inv.then /\ instance = "ready") /\ instance' = instance /\ faults' = faults
  BY DEF Unwind, StageGoto, refVars
<1>t. faults' = faults \/ faults' = faults \cup {"deletion"}
  BY <1>1
<1>2. CliTyped'
  <2>1. faults' \subseteq {"lost", "removal", "deletion"}
    BY <1>t DEF CliInv, CliTyped
  <2>2. QED BY <1>1, <2>1, SameIs, TypedKeeps DEF CliInv, CliTyped
<1>3. TakenInv'
  BY <1>1 DEF CliInv, TakenInv
<1>4. EngineInv'
  BY <1>1 DEF CliInv, EngineInv, BeforeJob
<1>5. RunInv'
  BY <1>1 DEF CliInv, RunInv, BeforeJob, RunSteps
<1>6. ProvenanceInv'
  BY <1>1 DEF CliInv, ProvenanceInv
<1>7. QED BY <1>2, <1>3, <1>4, <1>5, <1>6 DEF CliInv

(* Every step of a command, of the engine and of git.                      *)
LEMMA CliNextKeeps == ASSUME CliInv, [CliNext]_stageVars PROVE CliInv'
<1>1. ASSUME inv' = inv, step' = step, tree' = tree, staged' = staged, reads' = reads, job' = job,
             instance' = instance, ran' = ran, artifact' = artifact, outcome' = outcome,
             faults' = faults
      PROVE  CliInv'
  BY <1>1 DEF CliInv, CliTyped, TakenInv, EngineInv, RunInv, ProvenanceInv
<1>2. CASE MoveRef
  BY <1>1, <1>2 DEF MoveRef, workVars
<1>3. CASE CliDone \/ UNCHANGED stageVars
  BY <1>1, <1>3 DEF CliDone, stageVars
<1>4. CASE CliNext /\ ~MoveRef /\ ~CliDone
  BY <1>4, DispatchKeeps, ResolveCommitKeeps, CheckoutKeeps, LoadAliasKeeps, CheckStageKeeps, BindKeeps,
     TraceInputsKeeps, StageKeeps, WatchPrepareKeeps, WriteProvenanceKeeps, FinishStageKeeps,
     RunPrefixKeeps, ExecRunKeeps, UnwindKeeps, JobEndsKeeps DEF CliNext
<1>5. QED BY <1>2, <1>3, <1>4

(* Every invocation the parser makes starts well.                          *)
LEMMA CliStartInv == ASSUME NEW i \in Invocations, CliStart(i) PROVE CliInv
<1>1. /\ inv = i /\ step = "dispatch" /\ tree = "none" /\ staged = "none" /\ reads = {}
      /\ job = "none" /\ instance = "none" /\ ran = "no" /\ artifact = "none" /\ faults = {}
      /\ outcome = [err |-> FALSE, handled |-> FALSE]
  BY DEF CliStart
<1>2. outcome.err = FALSE /\ outcome.handled = FALSE
  BY <1>1
<1>3. CliTyped
  BY <1>1, <1>2 DEF CliTyped
<1>4. TakenInv /\ EngineInv
  BY <1>1, <1>2 DEF TakenInv, EngineInv
<1>5. RunInv /\ ProvenanceInv
  BY <1>1, <1>2 DEF RunInv, ProvenanceInv, BeforeJob, RunSteps
<1>6. QED BY <1>3, <1>4, <1>5 DEF CliInv

(* The invariant says what a command promises.                             *)
LEMMA CliInvSafe == ASSUME CliInv PROVE CliStagesSafe
<1>1. outcome.err \in BOOLEAN /\ outcome.handled \in BOOLEAN
  BY DEF CliInv, CliTyped
<1>2. SuccessIsClean
  BY <1>1 DEF SuccessIsClean, CliInv, TakenInv
<1>3. InputsOutliveJob
  BY DEF InputsOutliveJob, CliInv, TakenInv, EngineInv
<1>4. PreparedIsRemoved
  BY <1>1 DEF PreparedIsRemoved, CliInv, RunInv
<1>5. ProvenanceTells
  BY <1>1 DEF ProvenanceTells, CliInv, ProvenanceInv
<1>6. WorktreeIsOneCommit
  <2>1. SUFFICES ASSUME inv.ref = "worktree" PROVE Cardinality(reads) <= 1
    BY DEF WorktreeIsOneCommit
  <2>2. CASE reads = {}
    BY <2>2, FS_EmptySet
  <2>3. CASE \E x : reads = {x}
    <3>1. PICK x : reads = {x}
      BY <2>3
    <3>2. Cardinality({x}) = 1
      BY FS_Singleton
    <3>3. QED BY <3>1, <3>2
  <2>4. QED BY <2>1, <2>2, <2>3 DEF CliInv, CliTyped
<1>7. QED BY <1>2, <1>3, <1>4, <1>5, <1>6 DEF CliStagesSafe

(* Whatever part of the whole runs, the stages start well.                 *)
LEMMA CliInvInit == Init => CliInv
<1>1. ASSUME CliInit PROVE CliInv
  BY <1>1, CliStartInv DEF CliInit
<1>2. AnInvocation \in Invocations
  <2>1. [cmd |-> "run", then |-> FALSE, class |-> "raw", kind |-> "psql", ref |-> "none",
         keep |-> FALSE, watch |-> "default", prov |-> FALSE, runKind |-> "psql"] \in Invocations
    BY DEF Invocations
  <2>2. \E i \in Invocations : i.cmd = "run"
    BY <2>1
  <2>3. QED BY <2>2 DEF AnInvocation
<1>3. ASSUME CliStart(AnInvocation) PROVE CliInv
  BY <1>2, <1>3, CliStartInv
<1>4. QED BY <1>1, <1>3 DEF Init

(* CliStagesSafe of every execution: a command that succeeds leaves        *)
(* neither a worktree nor staged files, the files of a job outlive it, the *)
(* instance of a composite command is removed, and a provenance file tells *)
(* how the stage ended (app/runner.go, prepare_shared.go, run_shared.go).  *)
THEOREM StagesAreSafe == Spec => []CliStagesSafe
<1>1. CliInv => CliStagesSafe
  BY CliInvSafe
<1>2. CliInv /\ [Next]_storeVars => CliInv'
  BY CommandStep, CliNextKeeps
<1>3. QED BY <1>1, <1>2, CliInvInit, PTL DEF Spec

-----------------------------------------------------------------------------
(* AliasFiles.  A creator that opened its file is the only one of its      *)
(* path, which was free before and holds what the creator put there.       *)
CreatorTyped ==
  /\ creator = [c \in Creators |-> creator[c]]
  /\ \A c \in Creators : creator[c] = [step |-> creator[c].step, request |-> creator[c].request,
                                       target |-> creator[c].target, payload |-> creator[c].payload]

Holding == {"write", "undo", "done"}
FileOf(c) == CanonicalPath(creator[c].target)

HeldInv ==
  \A c \in Creators : creator[c].step \in Holding =>
    /\ FileOf(c) \in DOMAIN aliasDisk /\ FileOf(c) \notin DOMAIN AliasTree
    /\ creator[c].step = "done" => aliasDisk[FileOf(c)] = AliasNode(creator[c].payload)

OwnInv ==
  \A c, d \in Creators :
    creator[c].step \in Holding /\ creator[d].step \in Holding /\ c # d => FileOf(c) # FileOf(d)

KeptInv ==
  \A p \in DOMAIN AliasTree : p \in DOMAIN aliasDisk /\ aliasDisk[p] = AliasTree[p]

MadeInv ==
  \A p \in DOMAIN aliasDisk \ DOMAIN AliasTree : aliasDisk[p].type # "dir" =>
    \E c \in Creators : creator[c].step \in Holding \cup {"killed"} /\ FileOf(c) = p

AliasInv == CreatorTyped /\ HeldInv /\ OwnInv /\ KeptInv /\ MadeInv

(* A creator goes on and the others stay.                                  *)
LEMMA CreatorMoves ==
  ASSUME CreatorTyped, NEW c \in Creators, NEW s, CreatorTo(c, s)
  PROVE  /\ CreatorTyped'
         /\ creator'[c].step = s /\ FileOf(c)' = FileOf(c) /\ creator'[c].payload = creator[c].payload
         /\ \A d \in Creators : d # c => creator'[d] = creator[d]
         /\ \A d \in Creators : FileOf(d)' = FileOf(d) /\ creator'[d].payload = creator[d].payload
<1>1. /\ creator'[c] = [creator[c] EXCEPT !.step = s]
      /\ \A d \in Creators : d # c => creator'[d] = creator[d]
      /\ creator' = [d \in Creators |-> creator'[d]]
  BY DEF CreatorTyped, CreatorTo
<1>2. /\ creator'[c] = [step |-> s, request |-> creator[c].request, target |-> creator[c].target,
                        payload |-> creator[c].payload]
  BY <1>1 DEF CreatorTyped
<1>3. CreatorTyped'
  <2>1. ASSUME NEW d \in Creators
        PROVE  creator'[d] = [step |-> creator'[d].step, request |-> creator'[d].request,
                              target |-> creator'[d].target, payload |-> creator'[d].payload]
    BY <1>1, <1>2 DEF CreatorTyped
  <2>2. QED BY <1>1, <2>1 DEF CreatorTyped
<1>4. /\ creator'[c].step = s /\ creator'[c].target = creator[c].target
      /\ creator'[c].payload = creator[c].payload
  BY <1>2
<1>5. \A d \in Creators : FileOf(d)' = FileOf(d) /\ creator'[d].payload = creator[d].payload
  BY <1>1, <1>4 DEF FileOf
<1>6. QED BY <1>1, <1>3, <1>4, <1>5

(* At first nobody holds a file.                                           *)
LEMMA AliasInvInit == ASSUME AliasInit PROVE AliasInv
<1>1. \A c \in Creators : creator[c] = IdleCreator
  BY DEF AliasInit
<1>2. CreatorTyped
  BY <1>1 DEF AliasInit, CreatorTyped, IdleCreator
<1>3. \A c \in Creators : creator[c].step \notin Holding
  BY <1>1 DEF IdleCreator, Holding
<1>4. aliasDisk = AliasTree
  BY DEF AliasInit
<1>5. QED BY <1>2, <1>3, <1>4 DEF AliasInv, HeldInv, OwnInv, KeptInv, MadeInv

(* Nothing on the disk changes, and nobody comes to hold a file.           *)
LEMMA IdleKeeps ==
  ASSUME AliasInv, NEW c \in Creators, aliasDisk' = aliasDisk, CreatorTyped',
         \A d \in Creators : d # c => creator'[d] = creator[d],
         \/ creator[c].step \notin Holding \cup {"killed"} /\ creator'[c].step \notin Holding
         \/ creator'[c].step = "killed" /\ FileOf(c)' = FileOf(c)
  PROVE  AliasInv'
<1>0. \A d \in Creators : d # c => FileOf(d)' = FileOf(d) /\ creator'[d] = creator[d]
  BY DEF FileOf
<1>1. creator'[c].step \notin Holding
  BY DEF Holding
<1>2. HeldInv'
  <2>1. ASSUME NEW d \in Creators, creator'[d].step \in Holding
        PROVE  /\ FileOf(d)' \in DOMAIN aliasDisk' /\ FileOf(d)' \notin DOMAIN AliasTree
               /\ creator'[d].step = "done" => aliasDisk'[FileOf(d)'] = AliasNode(creator'[d].payload)
    BY <1>0, <1>1, <2>1 DEF AliasInv, HeldInv
  <2>2. QED BY <2>1 DEF HeldInv
<1>3. OwnInv'
  BY <1>0, <1>1 DEF AliasInv, OwnInv
<1>4. KeptInv'
  BY DEF AliasInv, KeptInv
<1>5. MadeInv'
  <2>1. ASSUME NEW p \in DOMAIN aliasDisk \ DOMAIN AliasTree, aliasDisk[p].type # "dir"
        PROVE  \E d \in Creators : creator'[d].step \in Holding \cup {"killed"} /\ FileOf(d)' = p
    <3>1. PICK d \in Creators : creator[d].step \in Holding \cup {"killed"} /\ FileOf(d) = p
      BY <2>1 DEF AliasInv, MadeInv
    <3>2. CASE d = c
      BY <3>1, <3>2
    <3>3. CASE d # c
      BY <3>1, <3>3, <1>0
    <3>4. QED BY <3>2, <3>3
  <2>2. QED BY <2>1 DEF MadeInv
<1>6. QED BY <1>2, <1>3, <1>4, <1>5 DEF AliasInv

(* A request is examined without touching the disk.                        *)
LEMMA StartCreateKeeps == ASSUME AliasInv, NEW c \in Creators, StartCreate(c) PROVE AliasInv'
<1>1. creator[c].step = "idle" /\ aliasDisk' = aliasDisk
  BY DEF StartCreate
<1>2. PICK r \in CreateRequests :
        creator' = [creator EXCEPT ![c] =
             IF CreateTarget(r) # Nowhere /\ ~PathExists(CreateTarget(r)) /\ CreateAccepted(r, CreateTarget(r))
             THEN [step |-> "mkdir", request |-> r, target |-> CreateTarget(r),
                   payload |-> CreatePayload(r, CreateTarget(r))]
             ELSE [IdleCreator EXCEPT !.step = "refused", !.request = r]]
  BY DEF StartCreate
<1>3. PICK s \in {"mkdir", "refused"} : \E t, q :
        creator' = [creator EXCEPT ![c] = [step |-> s, request |-> r, target |-> t, payload |-> q]]
  <2>1. [IdleCreator EXCEPT !.step = "refused", !.request = r]
          = [step |-> "refused", request |-> r, target |-> Nowhere, payload |-> NoDefinition]
    <3>1. [IdleCreator EXCEPT !.step = "refused"]
            = [step |-> "refused", request |-> NoRequest, target |-> Nowhere, payload |-> NoDefinition]
      BY DEF IdleCreator
    <3>2. ASSUME NEW m, m = [step |-> "refused", request |-> NoRequest, target |-> Nowhere,
                             payload |-> NoDefinition]
          PROVE  [m EXCEPT !.request = r]
                   = [step |-> "refused", request |-> r, target |-> Nowhere, payload |-> NoDefinition]
      BY <3>2
    <3>3. QED BY <3>1, <3>2
  <2>2. CASE CreateTarget(r) # Nowhere /\ ~PathExists(CreateTarget(r)) /\ CreateAccepted(r, CreateTarget(r))
    BY <1>2, <2>2
  <2>3. CASE ~(CreateTarget(r) # Nowhere /\ ~PathExists(CreateTarget(r)) /\ CreateAccepted(r, CreateTarget(r)))
    BY <1>2, <2>1, <2>3
  <2>4. QED BY <2>2, <2>3
<1>4. PICK t, q :
        creator' = [creator EXCEPT ![c] = [step |-> s, request |-> r, target |-> t, payload |-> q]]
  BY <1>3
<1>5. /\ creator'[c] = [step |-> s, request |-> r, target |-> t, payload |-> q]
      /\ \A d \in Creators : d # c => creator'[d] = creator[d]
      /\ creator' = [d \in Creators |-> creator'[d]]
  BY <1>4 DEF AliasInv, CreatorTyped
<1>6. CreatorTyped'
  <2>1. ASSUME NEW d \in Creators
        PROVE  creator'[d] = [step |-> creator'[d].step, request |-> creator'[d].request,
                              target |-> creator'[d].target, payload |-> creator'[d].payload]
    BY <1>5 DEF AliasInv, CreatorTyped
  <2>2. QED BY <1>5, <2>1 DEF CreatorTyped
<1>7. creator[c].step \notin Holding \cup {"killed"} /\ creator'[c].step \notin Holding
  BY <1>1, <1>5 DEF Holding
<1>8. QED BY <1>1, <1>5, <1>6, <1>7, IdleKeeps

(* Directories are added beside the files.                                 *)
LEMMA MakeAliasDirKeeps == ASSUME AliasInv, NEW c \in Creators, MakeAliasDir(c) PROVE AliasInv'
<1>1. creator[c].step = "mkdir"
  BY DEF MakeAliasDir
<1>2. PICK s \in {"refused", "open"} : CreatorTo(c, s)
  <2>1. \E b : CreatorTo(c, IF b THEN "refused" ELSE "open")
    BY DEF MakeAliasDir
  <2>2. PICK b : CreatorTo(c, IF b THEN "refused" ELSE "open")
    BY <2>1
  <2>3. (IF b THEN "refused" ELSE "open") \in {"refused", "open"}
    OBVIOUS
  <2>4. QED BY <2>2, <2>3
<1>3. /\ CreatorTyped' /\ creator'[c].step = s
      /\ \A d \in Creators : d # c => creator'[d] = creator[d]
      /\ \A d \in Creators : FileOf(d)' = FileOf(d) /\ creator'[d].payload = creator[d].payload
  BY <1>2, CreatorMoves DEF AliasInv
<1>4. /\ \A p \in DOMAIN aliasDisk : p \in DOMAIN aliasDisk' /\ aliasDisk'[p] = aliasDisk[p]
      /\ \A p \in DOMAIN aliasDisk' : p \in DOMAIN aliasDisk \/ aliasDisk'[p].type = "dir"
  <2>1. aliasDisk' = aliasDisk \/ \E new : new \cap DOMAIN aliasDisk = {} /\ aliasDisk' =
          [p \in DOMAIN aliasDisk \cup new |->
             IF p \in new THEN [type |-> "dir", def |-> NoDefinition] ELSE aliasDisk[p]]
    <3> DEFINE dir == CanonicalPath(Front(creator[c].target))
               dirs == {SubSeq(dir, 1, n) : n \in 1..Len(dir)}
               fresh == dirs \ DOMAIN aliasDisk
               leaf(p) == IF p \in fresh THEN [type |-> "dir", def |-> NoDefinition] ELSE aliasDisk[p]
    <3>1. aliasDisk' = aliasDisk \/ aliasDisk' = [p \in DOMAIN aliasDisk \cup fresh |-> leaf(p)]
      BY DEF MakeAliasDir
    <3> HIDE DEF dirs
    <3>2. fresh \cap DOMAIN aliasDisk = {}
      OBVIOUS
    <3> HIDE DEF fresh
    <3>3. QED BY <3>1, <3>2
  <2>2. ASSUME NEW new, new \cap DOMAIN aliasDisk = {},
               aliasDisk' = [p \in DOMAIN aliasDisk \cup new |->
                  IF p \in new THEN [type |-> "dir", def |-> NoDefinition] ELSE aliasDisk[p]]
        PROVE  /\ \A p \in DOMAIN aliasDisk : p \in DOMAIN aliasDisk' /\ aliasDisk'[p] = aliasDisk[p]
               /\ \A p \in DOMAIN aliasDisk' : p \in DOMAIN aliasDisk \/ aliasDisk'[p].type = "dir"
    <3>1. \A p \in DOMAIN aliasDisk : p \in DOMAIN aliasDisk' /\ aliasDisk'[p] = aliasDisk[p]
      BY <2>2
    <3>2. \A p \in DOMAIN aliasDisk' : p \in DOMAIN aliasDisk \/ aliasDisk'[p].type = "dir"
      BY <2>2
    <3>3. QED BY <3>1, <3>2
  <2>3. CASE aliasDisk' = aliasDisk
    BY <2>3
  <2>4. QED BY <2>1, <2>2, <2>3
<1>5. \A d \in Creators : creator'[d].step \in Holding => creator[d].step = creator'[d].step
  BY <1>2, <1>3 DEF Holding
<1>6. \A d \in Creators : creator[d].step \in Holding \cup {"killed"} => creator'[d].step = creator[d].step
  BY <1>1, <1>3 DEF Holding
<1>7. HeldInv'
  <2>1. ASSUME NEW d \in Creators, creator'[d].step \in Holding
        PROVE  /\ FileOf(d)' \in DOMAIN aliasDisk' /\ FileOf(d)' \notin DOMAIN AliasTree
               /\ creator'[d].step = "done" => aliasDisk'[FileOf(d)'] = AliasNode(creator'[d].payload)
    BY <1>3, <1>4, <1>5, <2>1 DEF AliasInv, HeldInv
  <2>2. QED BY <2>1 DEF HeldInv
<1>8. OwnInv'
  BY <1>3, <1>5 DEF AliasInv, OwnInv
<1>9. KeptInv'
  BY <1>4 DEF AliasInv, KeptInv
<1>10. MadeInv'
  <2>1. ASSUME NEW p \in DOMAIN aliasDisk' \ DOMAIN AliasTree, aliasDisk'[p].type # "dir"
        PROVE  \E d \in Creators : creator'[d].step \in Holding \cup {"killed"} /\ FileOf(d)' = p
    <3>1. p \in DOMAIN aliasDisk \ DOMAIN AliasTree /\ aliasDisk[p].type # "dir"
      BY <1>4, <2>1
    <3>2. PICK d \in Creators : creator[d].step \in Holding \cup {"killed"} /\ FileOf(d) = p
      BY <3>1 DEF AliasInv, MadeInv
    <3>3. QED BY <3>2, <1>3, <1>6
  <2>2. QED BY <2>1 DEF MadeInv
<1>11. QED BY <1>3, <1>7, <1>8, <1>9, <1>10 DEF AliasInv

(* A file is created, written or broken by the creator that holds it.      *)
LEMMA HolderWrites ==
  ASSUME AliasInv, NEW c \in Creators, NEW n, NEW s \in Holding, CreatorTo(c, s),
         aliasDisk' = OnDisk(FileOf(c), n),
         creator[c].step \in Holding \/ FileOf(c) \notin DOMAIN aliasDisk,
         s = "done" => n = AliasNode(creator[c].payload)
  PROVE  AliasInv'
<1>1. /\ CreatorTyped' /\ creator'[c].step = s
      /\ \A d \in Creators : d # c => creator'[d] = creator[d]
      /\ \A d \in Creators : FileOf(d)' = FileOf(d) /\ creator'[d].payload = creator[d].payload
  BY CreatorMoves DEF AliasInv
<1>2. /\ DOMAIN aliasDisk' = DOMAIN aliasDisk \cup {FileOf(c)} /\ aliasDisk'[FileOf(c)] = n
      /\ \A q \in DOMAIN aliasDisk : q # FileOf(c) => aliasDisk'[q] = aliasDisk[q]
  BY DEF OnDisk
<1>3. FileOf(c) \notin DOMAIN AliasTree
  BY DEF AliasInv, HeldInv, KeptInv
<1>4. \A d \in Creators : d # c /\ creator[d].step \in Holding => FileOf(d) # FileOf(c)
  BY DEF AliasInv, HeldInv, OwnInv
<1>5. HeldInv'
  <2>1. ASSUME NEW d \in Creators, creator'[d].step \in Holding
        PROVE  /\ FileOf(d)' \in DOMAIN aliasDisk' /\ FileOf(d)' \notin DOMAIN AliasTree
               /\ creator'[d].step = "done" => aliasDisk'[FileOf(d)'] = AliasNode(creator'[d].payload)
    <3>1. CASE d = c
      BY <1>1, <1>2, <1>3, <3>1
    <3>2. CASE d # c
      BY <1>1, <1>2, <1>4, <2>1, <3>2 DEF AliasInv, HeldInv
    <3>3. QED BY <3>1, <3>2
  <2>2. QED BY <2>1 DEF HeldInv
<1>6. OwnInv'
  BY <1>1, <1>4 DEF AliasInv, OwnInv
<1>7. KeptInv'
  BY <1>2, <1>3 DEF AliasInv, KeptInv
<1>8. MadeInv'
  <2>1. ASSUME NEW p \in DOMAIN aliasDisk' \ DOMAIN AliasTree, aliasDisk'[p].type # "dir"
        PROVE  \E d \in Creators : creator'[d].step \in Holding \cup {"killed"} /\ FileOf(d)' = p
    <3>1. CASE p = FileOf(c)
      BY <1>1, <3>1
    <3>2. CASE p # FileOf(c)
      <4>1. p \in DOMAIN aliasDisk \ DOMAIN AliasTree /\ aliasDisk[p].type # "dir"
        BY <1>2, <2>1, <3>2
      <4>2. PICK d \in Creators : creator[d].step \in Holding \cup {"killed"} /\ FileOf(d) = p
        BY <4>1 DEF AliasInv, MadeInv
      <4>3. d # c
        BY <4>2, <3>2
      <4>4. QED BY <4>2, <4>3, <1>1
    <3>3. QED BY <3>1, <3>2
  <2>2. QED BY <2>1 DEF MadeInv
<1>9. QED BY <1>1, <1>5, <1>6, <1>7, <1>8 DEF AliasInv

(* A creator takes back its own file only.                                 *)
LEMMA RemoveAliasKeeps == ASSUME AliasInv, NEW c \in Creators, RemoveAlias(c) PROVE AliasInv'
<1>0. creator[c].step = "undo" /\ CreatorTo(c, "refused")
  BY DEF RemoveAlias
<1>1. /\ CreatorTyped' /\ creator'[c].step = "refused"
      /\ \A d \in Creators : d # c => creator'[d] = creator[d]
      /\ \A d \in Creators : FileOf(d)' = FileOf(d) /\ creator'[d].payload = creator[d].payload
  BY <1>0, CreatorMoves DEF AliasInv
<1>2. /\ DOMAIN aliasDisk' = DOMAIN aliasDisk \ {FileOf(c)}
      /\ \A q \in DOMAIN aliasDisk' : aliasDisk'[q] = aliasDisk[q]
  BY DEF RemoveAlias, FileOf
<1>3. FileOf(c) \notin DOMAIN AliasTree
  BY <1>0 DEF AliasInv, HeldInv, Holding
<1>4. \A d \in Creators : d # c /\ creator[d].step \in Holding => FileOf(d) # FileOf(c)
  BY <1>0 DEF AliasInv, OwnInv, Holding
<1>5. HeldInv'
  <2>1. ASSUME NEW d \in Creators, creator'[d].step \in Holding
        PROVE  /\ FileOf(d)' \in DOMAIN aliasDisk' /\ FileOf(d)' \notin DOMAIN AliasTree
               /\ creator'[d].step = "done" => aliasDisk'[FileOf(d)'] = AliasNode(creator'[d].payload)
    <3>1. d # c
      BY <1>1, <2>1 DEF Holding
    <3>2. creator[d].step \in Holding /\ FileOf(d) # FileOf(c)
      BY <1>1, <1>4, <2>1, <3>1
    <3>3. QED BY <1>1, <1>2, <2>1, <3>1, <3>2 DEF AliasInv, HeldInv
  <2>2. QED BY <2>1 DEF HeldInv
<1>6. OwnInv'
  BY <1>1 DEF AliasInv, OwnInv, Holding
<1>7. KeptInv'
  BY <1>2, <1>3 DEF AliasInv, KeptInv
<1>8. MadeInv'
  <2>1. ASSUME NEW p \in DOMAIN aliasDisk' \ DOMAIN AliasTree, aliasDisk'[p].type # "dir"
        PROVE  \E d \in Creators : creator'[d].step \in Holding \cup {"killed"} /\ FileOf(d)' = p
    <3>1. p # FileOf(c) /\ p \in DOMAIN aliasDisk \ DOMAIN AliasTree /\ aliasDisk[p].type # "dir"
      BY <1>2, <2>1
    <3>2. PICK d \in Creators : creator[d].step \in Holding \cup {"killed"} /\ FileOf(d) = p
      BY <3>1 DEF AliasInv, MadeInv
    <3>3. d # c
      BY <3>1, <3>2
    <3>4. QED BY <3>2, <3>3, <1>1
  <2>2. QED BY <2>1 DEF MadeInv
<1>9. QED BY <1>1, <1>5, <1>6, <1>7, <1>8 DEF AliasInv

(* Every step of a creator.                                                *)
LEMMA CreateStepKeeps == ASSUME AliasInv, NEW c \in Creators, CreateStep(c) PROVE AliasInv'
<1>1. CASE StartCreate(c)
  BY <1>1, StartCreateKeeps
<1>2. CASE MakeAliasDir(c)
  BY <1>2, MakeAliasDirKeeps
<1>3. CASE OpenAlias(c)
  <2>1. creator[c].step = "open"
    BY <1>3 DEF OpenAlias
  <2>2. CASE PathExists(creator[c].target)
    <3>1. CreatorTo(c, "refused") /\ aliasDisk' = aliasDisk
      BY <1>3, <2>2 DEF OpenAlias
    <3>2. /\ CreatorTyped' /\ creator'[c].step = "refused"
          /\ \A d \in Creators : d # c => creator'[d] = creator[d]
      BY <3>1, CreatorMoves DEF AliasInv
    <3>3. creator[c].step \notin Holding \cup {"killed"} /\ creator'[c].step \notin Holding
      BY <2>1, <3>2 DEF Holding
    <3>4. QED BY <3>1, <3>2, <3>3, IdleKeeps
  <2>3. CASE ~PathExists(creator[c].target)
    <3>1. /\ CreatorTo(c, "write")
          /\ aliasDisk' = OnDisk(FileOf(c), AliasNode(NoDefinition))
          /\ FileOf(c) \notin DOMAIN aliasDisk
      BY <1>3, <2>3 DEF OpenAlias, FileOf, PathExists
    <3>2. QED BY <3>1, HolderWrites DEF Holding
  <2>4. QED BY <2>2, <2>3
<1>4. CASE WriteAlias(c)
  <2>1. /\ creator[c].step = "write" /\ CreatorTo(c, "done")
        /\ aliasDisk' = OnDisk(FileOf(c), AliasNode(creator[c].payload))
    BY <1>4 DEF WriteAlias, FileOf
  <2>2. QED BY <2>1, HolderWrites DEF Holding
<1>5. CASE WriteAliasFails(c)
  <2>1. /\ creator[c].step = "write" /\ CreatorTo(c, "undo")
        /\ aliasDisk' = OnDisk(FileOf(c), [type |-> "broken", def |-> NoDefinition])
    BY <1>5 DEF WriteAliasFails, FileOf
  <2>2. QED BY <2>1, HolderWrites DEF Holding
<1>6. CASE RemoveAlias(c)
  BY <1>6, RemoveAliasKeeps
<1>7. CASE KillCreator(c)
  <2>1. CreatorTo(c, "killed") /\ aliasDisk' = aliasDisk
    BY <1>7 DEF KillCreator
  <2>2. /\ CreatorTyped' /\ creator'[c].step = "killed" /\ FileOf(c)' = FileOf(c)
        /\ \A d \in Creators : d # c => creator'[d] = creator[d]
    BY <2>1, CreatorMoves DEF AliasInv
  <2>3. QED BY <2>1, <2>2, IdleKeeps
<1>8. QED BY <1>1, <1>2, <1>3, <1>4, <1>5, <1>6, <1>7 DEF CreateStep

(* The commands that read aliases leave them alone.                        *)
LEMMA AliasNextKeeps == ASSUME AliasInv, [AliasNext]_aliasVars PROVE AliasInv'
<1>1. ASSUME UNCHANGED <<aliasDisk, creator>> PROVE AliasInv'
  BY <1>1 DEF AliasInv, CreatorTyped, HeldInv, OwnInv, KeptInv, MadeInv, FileOf
<1>2. CASE FindAliases \/ CheckAliases \/ LoadAliasFile \/ LookAgain \/ UNCHANGED aliasVars
  BY <1>1, <1>2 DEF FindAliases, CheckAliases, LoadAliasFile, LookAgain, aliasVars
<1>3. CASE \E c \in Creators : CreateStep(c)
  BY <1>3, CreateStepKeeps
<1>4. QED BY <1>2, <1>3 DEF AliasNext

(* CreateExclusive of every execution: however many creators are at work   *)
(* and whichever is killed, a file of before stays, a created alias holds  *)
(* what its creator wrote and every other file is accounted for            *)
(* (internal/alias/create.go, O_CREATE|O_EXCL).                            *)
THEOREM CreationIsExclusive == Spec => []CreateExclusive
<1>1. AliasInv => CreateExclusive
  BY DEF AliasInv, HeldInv, KeptInv, MadeInv, CreateExclusive, FileOf, Holding, PathExists, NodeAt
<1>2. Init => AliasInv
  BY CommandInit, AliasInvInit
<1>3. AliasInv /\ [Next]_storeVars => AliasInv'
  BY CommandStep, AliasNextKeeps
<1>4. QED BY <1>1, <1>2, <1>3, PTL DEF Spec

-----------------------------------------------------------------------------
(* AliasFiles: the algebra of paths.  Induction over the naturals, for a   *)
(* set of them.                                                            *)
LEMMA NatInduct ==
  ASSUME NEW T, 0 \in T, \A n \in Nat : n \in T => n + 1 \in T
  PROVE  Nat \subseteq T
<1> DEFINE R == OpToRel(<, Nat)
           bad == Nat \ T
<1>1. SUFFICES ASSUME bad # {} PROVE FALSE
  OBVIOUS
<1>2. IsWellFoundedOn(R, Nat)
  BY NatLessThanWellFounded
<1>3. PICK x \in bad : \A y \in bad : ~(<<y, x>> \in R)
  <2> HIDE DEF R
  <2>1. bad \subseteq Nat
    OBVIOUS
  <2>2. QED BY <1>1, <1>2, <2>1, WFMin
<1>4. x \in Nat \ {0}
  OBVIOUS
<1>5. x - 1 \in Nat /\ x - 1 < x /\ (x - 1) + 1 = x
  BY <1>4
<1>6. x - 1 \in bad
  BY <1>4, <1>5
<1>7. <<x - 1, x>> \in R
  BY <1>4, <1>5 DEF OpToRel
<1>8. QED BY <1>3, <1>6, <1>7

(* A prefix agrees with the sequence as far as it goes.                    *)
LEMMA PrefixIs ==
  ASSUME NEW N, NEW s \in Seq(N), NEW t \in Seq(N)
  PROVE  IsPrefix(s, t) <=> Len(s) <= Len(t) /\ \A i \in 1..Len(s) : s[i] = t[i]
<1>1. SubSeq(s, 1, Len(s)) = s
  OBVIOUS
<1>2. ASSUME Len(s) <= Len(t)
      PROVE  (SubSeq(t, 1, Len(s)) = s) <=> \A i \in 1..Len(s) : s[i] = t[i]
  <2>1. /\ SubSeq(t, 1, Len(s)) \in Seq(N) /\ Len(SubSeq(t, 1, Len(s))) = Len(s)
        /\ \A i \in 1..Len(s) : SubSeq(t, 1, Len(s))[i] = t[i]
    BY <1>2
  <2>2. QED BY <2>1
<1>3. QED BY <1>1, <1>2 DEF IsPrefix

(* The walk from base along the names of rel.                              *)
Walks(w, base, rel) ==
  w = [n \in 0..Len(rel) |-> IF n = 0 THEN base ELSE Enter(w[n - 1], rel[n])]

(* There is one: it is made longer by one name at a time.                  *)
LEMMA WalkExists ==
  ASSUME NEW base, NEW rel, Len(rel) \in Nat
  PROVE  \E w : Walks(w, base, rel)
<1> DEFINE IsWalk(w, k) == w = [n \in 0..k |-> IF n = 0 THEN base ELSE Enter(w[n - 1], rel[n])]
           T == {k \in Nat : \E w : IsWalk(w, k)}
<1>1. 0 \in T
  <2>1. IsWalk([n \in 0..0 |-> base], 0)
    OBVIOUS
  <2>2. QED BY <2>1
<1>2. ASSUME NEW k \in Nat, k \in T PROVE k + 1 \in T
  <2>1. PICK w : IsWalk(w, k)
    BY <1>2
  <2> DEFINE v == [n \in 0..(k + 1) |-> IF n <= k THEN w[n] ELSE Enter(w[k], rel[n])]
  <2>2. ASSUME NEW n \in 0..(k + 1)
        PROVE  v[n] = IF n = 0 THEN base ELSE Enter(v[n - 1], rel[n])
    <3>1. CASE n = 0
      BY <2>1, <3>1
    <3>2. CASE n # 0 /\ n <= k
      <4>1. n - 1 \in 0..k /\ n \in 0..k
        BY <3>2
      <4>2. v[n] = w[n] /\ v[n - 1] = w[n - 1]
        BY <4>1
      <4>3. w[n] = Enter(w[n - 1], rel[n])
        BY <2>1, <4>1, <3>2
      <4>4. QED BY <4>2, <4>3, <3>2
    <3>3. CASE n = k + 1
      <4>1. v[n] = Enter(w[k], rel[n]) /\ v[n - 1] = w[k]
        BY <3>3
      <4>2. QED BY <4>1, <3>3
    <3>4. QED BY <3>1, <3>2, <3>3
  <2>3. v = [n \in 0..(k + 1) |-> v[n]]
    OBVIOUS
  <2> HIDE DEF v
  <2>4. IsWalk(v, k + 1)
    BY <2>2, <2>3
  <2>5. QED BY <2>4
<1> HIDE DEF T
<1>3. Len(rel) \in T
  BY <1>1, <1>2, NatInduct
<1>4. QED BY <1>3 DEF T, Walks

(* JoinPath ends where a walk ends.                                        *)
LEMMA JoinIs ==
  ASSUME NEW base, NEW rel, Len(rel) \in Nat
  PROVE  \E w : Walks(w, base, rel) /\ JoinPath(base, rel) = w[Len(rel)]
<1>0. PICK w : Walks(w, base, rel)
  BY WalkExists
<1>1. w = [n \in 0..Len(rel) |-> IF n = 0 THEN base ELSE Enter(w[n - 1], rel[n])]
  BY <1>0 DEF Walks
<1> DEFINE c == CHOOSE u : u = [n \in 0..Len(rel) |-> IF n = 0 THEN base ELSE Enter(u[n - 1], rel[n])]
<1>2. c = [n \in 0..Len(rel) |-> IF n = 0 THEN base ELSE Enter(c[n - 1], rel[n])]
  BY <1>1
<1>3. JoinPath(base, rel) = c[Len(rel)]
  BY DEF JoinPath
<1> HIDE DEF c
<1>4. Walks(c, base, rel)
  BY <1>2 DEF Walks
<1>5. QED BY <1>3, <1>4

(* The steps of a walk.                                                    *)
LEMMA WalkSteps ==
  ASSUME NEW base, NEW rel, Len(rel) \in Nat, NEW w, Walks(w, base, rel)
  PROVE  w[0] = base /\ \A n \in 1..Len(rel) : w[n] = Enter(w[n - 1], rel[n])
BY DEF Walks

(* A sequence without its last element.                                    *)
LEMMA FrontIs ==
  ASSUME NEW N, NEW p \in Seq(N), Len(p) # 0
  PROVE  /\ SubSeq(p, 1, Len(p) - 1) \in Seq(N)
         /\ Len(SubSeq(p, 1, Len(p) - 1)) = Len(p) - 1
         /\ \A i \in 1..(Len(p) - 1) : SubSeq(p, 1, Len(p) - 1)[i] = p[i]
<1>0. PICK k \in Nat : k = Len(p) - 1
  OBVIOUS
<1>1. SubSeq(p, 1, Len(p) - 1) \in Seq(N)
  OBVIOUS
<1>2. Len(SubSeq(p, 1, Len(p) - 1)) = Len(p) - 1
  <2>1. Len(SubSeq(p, 1, k)) = k
    BY <1>0
  <2>2. QED BY <1>0, <2>1
<1>3. \A i \in 1..(Len(p) - 1) : SubSeq(p, 1, Len(p) - 1)[i] = p[i]
  OBVIOUS
<1>4. QED BY <1>1, <1>2, <1>3

(* A path stays clean at every name.                                       *)
LEMMA EnterClean ==
  ASSUME NEW p, CleanPath(p), NEW n \in Names
  PROVE  CleanPath(Enter(p, n))
<1>1. p \in Seq(Names) /\ \A i \in 1..Len(p) : p[i] # Up
  BY DEF CleanPath
<1>2. CASE n = Up /\ Len(p) = 0
  <2>1. SubSeq(p, 1, Len(p) - 1) = <<>>
    BY <1>1, <1>2
  <2>2. QED BY <1>2, <2>1 DEF Enter, CleanPath
<1>3. CASE n = Up /\ Len(p) # 0
  <2> DEFINE t == SubSeq(p, 1, Len(p) - 1)
  <2>1. /\ t \in Seq(Names) /\ Len(t) = Len(p) - 1
        /\ \A i \in 1..(Len(p) - 1) : t[i] = p[i]
    BY <1>1, <1>3, FrontIs
  <2>2. Enter(p, n) = t
    BY <1>3 DEF Enter
  <2> HIDE DEF t
  <2>3. DOMAIN t = 1..(Len(p) - 1) /\ Len(p) - 1 <= Len(p)
    BY <1>1, <2>1
  <2>4. QED BY <1>1, <2>1, <2>2, <2>3 DEF CleanPath
<1>4. CASE n # Up
  <2> DEFINE t == Append(p, n)
  <2>1. /\ t \in Seq(Names) /\ Len(t) = Len(p) + 1 /\ t[Len(t)] = n
        /\ \A i \in 1..Len(p) : t[i] = p[i]
    BY <1>1
  <2>2. Enter(p, n) = t
    BY <1>4 DEF Enter
  <2> HIDE DEF t
  <2>3. \A i \in DOMAIN t : i = Len(t) \/ i \in 1..Len(p)
    BY <1>1, <2>1
  <2>4. QED BY <1>1, <1>4, <2>1, <2>2, <2>3 DEF CleanPath
<1>5. QED BY <1>2, <1>3, <1>4

(* Joined to a clean path, any relative path gives a clean one.            *)
LEMMA JoinClean ==
  ASSUME NEW base, CleanPath(base), NEW rel \in Seq(Names)
  PROVE  CleanPath(JoinPath(base, rel))
<1>1. PICK w : Walks(w, base, rel) /\ JoinPath(base, rel) = w[Len(rel)]
  BY JoinIs
<1>2. w[0] = base /\ \A n \in 1..Len(rel) : w[n] = Enter(w[n - 1], rel[n])
  BY <1>1, WalkSteps
<1> DEFINE T == {n \in Nat : n <= Len(rel) => CleanPath(w[n])}
<1>3. 0 \in T
  BY <1>2
<1>4. ASSUME NEW n \in Nat, n \in T PROVE n + 1 \in T
  <2>1. SUFFICES ASSUME n + 1 <= Len(rel) PROVE CleanPath(w[n + 1])
    OBVIOUS
  <2>2. n + 1 \in 1..Len(rel) /\ (n + 1) - 1 = n /\ n <= Len(rel)
    BY <2>1
  <2>3. w[n + 1] = Enter(w[n], rel[n + 1]) /\ rel[n + 1] \in Names
    BY <1>2, <2>2
  <2>4. CleanPath(w[n])
    BY <1>4, <2>2
  <2>5. QED BY <2>3, <2>4, EnterClean
<1>5. Len(rel) \in T
  <2> HIDE DEF T
  <2>1. QED BY <1>3, <1>4, NatInduct
<1>6. QED BY <1>1, <1>5

(* A set of naturals with a bound has a greatest element.                  *)
LEMMA NatGreatest ==
  ASSUME NEW k \in Nat, NEW S, S \subseteq 0..k, S # {}
  PROVE  \E m \in S : \A n \in S : n <= m
<1> DEFINE T == {j \in Nat : \A Q \in SUBSET (0..j) : Q # {} => \E m \in Q : \A n \in Q : n <= m}
<1>1. 0 \in T
  <2>1. ASSUME NEW Q \in SUBSET (0..0), Q # {} PROVE \E m \in Q : \A n \in Q : n <= m
    <3>1. PICK m \in Q : TRUE
      BY <2>1
    <3>2. \A n \in Q : n \in 0..0
      OBVIOUS
    <3>3. \A n \in Q : n = 0
      BY <3>2
    <3>4. QED BY <3>1, <3>3
  <2>2. QED BY <2>1
<1>2. ASSUME NEW j \in Nat, j \in T PROVE j + 1 \in T
  <2>1. SUFFICES ASSUME NEW Q \in SUBSET (0..(j + 1)), Q # {} PROVE \E m \in Q : \A n \in Q : n <= m
    OBVIOUS
  <2>2. CASE j + 1 \in Q
    BY <2>2
  <2>3. CASE j + 1 \notin Q
    <3>1. Q \in SUBSET (0..j)
      BY <2>3
    <3>2. QED BY <1>2, <2>1, <3>1
  <2>4. QED BY <2>2, <2>3
<1> HIDE DEF T
<1>3. k \in T
  BY <1>1, <1>2, NatInduct
<1>4. QED BY <1>3 DEF T

(* ".." is a name that relative paths use.                                 *)
LEMMA UpNamed == Up \in Names
BY DEF Up, Names, AliasSuffixes

(* What RelPath says: up to a common directory, then down.                 *)
ClimbsTo(rel, base, target, m) ==
  /\ m \in 0..Len(base) /\ m <= Len(target) /\ \A i \in 1..m : base[i] = target[i]
  /\ rel \in Seq(Names) /\ Len(rel) = (Len(base) - m) + (Len(target) - m)
  /\ \A i \in 1..(Len(base) - m) : rel[i] = Up
  /\ \A i \in 1..(Len(target) - m) : rel[(Len(base) - m) + i] = target[m + i]

(* RelPath does, for the deepest directory that is common.                 *)
LEMMA RelIs ==
  ASSUME NEW base, NEW target, CleanPath(base), CleanPath(target)
  PROVE  \E m : ClimbsTo(RelPath(base, target), base, target, m)
<1>0. base \in Seq(Names) /\ target \in Seq(Names) /\ Len(base) \in Nat /\ Len(target) \in Nat
  BY DEF CleanPath
<1> DEFINE shared == {n \in 0..Len(base) : n <= Len(target)
                        /\ SubSeq(base, 1, n) = SubSeq(target, 1, n)}
           most == CHOOSE n \in shared : \A m \in shared : m <= n
<1>1. 0 \in shared
  <2>1. SubSeq(base, 1, 0) = <<>> /\ SubSeq(target, 1, 0) = <<>>
    BY <1>0
  <2>2. QED BY <1>0, <2>1
<1>2. most \in shared
  <2>1. shared \subseteq 0..Len(base)
    OBVIOUS
  <2> HIDE DEF shared
  <2>2. \E n \in shared : \A m \in shared : m <= n
    BY <1>0, <1>1, <2>1, NatGreatest
  <2>3. QED BY <2>2
<1> DEFINE up == [i \in 1..(Len(base) - most) |-> Up]
           down == SubSeq(target, most + 1, Len(target))
<1>3. RelPath(base, target) = up \o down
  BY DEF RelPath
<1>4. most \in 0..Len(base) /\ most <= Len(target) /\ SubSeq(base, 1, most) = SubSeq(target, 1, most)
  BY <1>2
<1> HIDE DEF most
<1>5. \A i \in 1..most : base[i] = target[i]
  <2>1. ASSUME NEW i \in 1..most PROVE base[i] = target[i]
    <3>1. SubSeq(base, 1, most)[i] = base[i] /\ SubSeq(target, 1, most)[i] = target[i]
      BY <1>0, <1>4
    <3>2. QED BY <3>1, <1>4
  <2>2. QED BY <2>1
<1>6. /\ up \in Seq(Names) /\ Len(up) = Len(base) - most
      /\ \A i \in 1..(Len(base) - most) : up[i] = Up
  <2>1. Up \in Names
    BY UpNamed
  <2>2. Len(base) - most \in Nat
    BY <1>0, <1>4
  <2>3. QED BY <2>1, <2>2
<1>7. /\ down \in Seq(Names) /\ Len(down) = Len(target) - most
      /\ \A i \in 1..(Len(target) - most) : down[i] = target[most + i]
  BY <1>0, <1>4
<1> HIDE DEF up, down
<1>8. /\ up \o down \in Seq(Names) /\ Len(up \o down) = (Len(base) - most) + (Len(target) - most)
      /\ \A i \in 1..(Len(base) - most) : (up \o down)[i] = Up
      /\ \A i \in 1..(Len(target) - most) : (up \o down)[(Len(base) - most) + i] = target[most + i]
  <2>1. \A i \in 1..Len(up) : (up \o down)[i] = up[i]
    BY <1>6, <1>7
  <2>2. \A i \in 1..Len(down) : (up \o down)[Len(up) + i] = down[i]
    BY <1>6, <1>7
  <2>3. up \o down \in Seq(Names) /\ Len(up \o down) = Len(up) + Len(down)
    BY <1>6, <1>7
  <2>4. QED BY <1>6, <1>7, <2>1, <2>2, <2>3
<1>9. ClimbsTo(RelPath(base, target), base, target, most)
  BY <1>3, <1>4, <1>5, <1>8 DEF ClimbsTo
<1>10. QED BY <1>9

(* One name up ...                                                         *)
LEMMA EnterUp ==
  ASSUME NEW p \in Seq(Names), Len(p) # 0
  PROVE  /\ Enter(p, Up) \in Seq(Names) /\ Len(Enter(p, Up)) = Len(p) - 1
         /\ \A i \in 1..(Len(p) - 1) : Enter(p, Up)[i] = p[i]
BY FrontIs DEF Enter

(* ... and one name down.                                                  *)
LEMMA EnterDown ==
  ASSUME NEW p \in Seq(Names), NEW n \in Names, n # Up
  PROVE  /\ Enter(p, n) \in Seq(Names) /\ Len(Enter(p, n)) = Len(p) + 1
         /\ Enter(p, n)[Len(p) + 1] = n /\ \A i \in 1..Len(p) : Enter(p, n)[i] = p[i]
BY DEF Enter

(* On the way up a walk is at a directory above base ...                   *)
LEMMA WalkUp ==
  ASSUME NEW base, NEW target, CleanPath(base), CleanPath(target), NEW rel, NEW m,
         ClimbsTo(rel, base, target, m), NEW w, Walks(w, base, rel)
  PROVE  \A n \in 0..(Len(base) - m) :
           /\ w[n] \in Seq(Names) /\ Len(w[n]) = Len(base) - n
           /\ \A i \in 1..(Len(base) - n) : w[n][i] = base[i]
<1>0. base \in Seq(Names) /\ Len(base) \in Nat /\ Len(target) \in Nat
  BY DEF CleanPath
<1>1. m \in 0..Len(base) /\ m <= Len(target) /\ rel \in Seq(Names) /\ Len(rel) \in Nat
      /\ Len(base) - m <= Len(rel) /\ \A i \in 1..(Len(base) - m) : rel[i] = Up
  BY <1>0 DEF ClimbsTo
<1>2. w[0] = base /\ \A n \in 1..Len(rel) : w[n] = Enter(w[n - 1], rel[n])
  <2>1. Len(rel) \in Nat
    BY <1>1
  <2>2. QED BY <2>1, WalkSteps
<1>m. m \in Nat /\ Len(base) - m \in Nat /\ Len(target) - m \in Nat
  <2>1. m \in 0..Len(base) /\ m <= Len(target)
    BY <1>1
  <2>2. QED BY <1>0, <2>1
<1> DEFINE At(n) == /\ w[n] \in Seq(Names) /\ Len(w[n]) = Len(base) - n
                    /\ \A i \in 1..(Len(base) - n) : w[n][i] = base[i]
           T == {n \in Nat : n <= Len(base) - m => At(n)}
<1>3. 0 \in T
  BY <1>0, <1>2
<1>4. ASSUME NEW n \in Nat, n \in T PROVE n + 1 \in T
  <2>1. SUFFICES ASSUME n + 1 <= Len(base) - m PROVE At(n + 1)
    OBVIOUS
  <2>2. n + 1 \in 1..Len(rel) /\ n + 1 \in 1..(Len(base) - m) /\ (n + 1) - 1 = n
    BY <1>0, <1>1, <2>1
  <2>3. At(n)
    <3>1. n <= Len(base) - m
      BY <1>m, <2>1
    <3>2. QED BY <1>4, <3>1
  <2>4. w[n + 1] = Enter(w[n], Up)
    BY <1>1, <1>2, <2>2
  <2>5. Len(w[n]) # 0
    BY <1>0, <1>1, <2>1, <2>3
  <2>6. /\ w[n + 1] \in Seq(Names) /\ Len(w[n + 1]) = Len(w[n]) - 1
        /\ \A i \in 1..(Len(w[n]) - 1) : w[n + 1][i] = w[n][i]
    BY <2>3, <2>4, <2>5, EnterUp
  <2>7. Len(w[n]) - 1 = Len(base) - (n + 1) /\ Len(base) - (n + 1) <= Len(base) - n
    BY <1>0, <2>3
  <2>8. \A i \in 1..(Len(base) - (n + 1)) : w[n + 1][i] = base[i]
    <3>1. \A i \in 1..(Len(base) - (n + 1)) : i \in 1..(Len(w[n]) - 1) /\ i \in 1..(Len(base) - n)
      BY <1>0, <2>7
    <3>2. QED BY <2>3, <2>6, <3>1
  <2>9. QED BY <2>6, <2>7, <2>8
<1> HIDE DEF T
<1>5. Nat \subseteq T
  BY <1>3, <1>4, NatInduct
<1>6. ASSUME NEW n \in 0..(Len(base) - m) PROVE At(n)
  <2> HIDE DEF At
  <2>1. n \in Nat /\ n <= Len(base) - m
    BY <1>m
  <2>2. n \in T
    BY <1>5, <2>1
  <2>3. QED BY <2>1, <2>2 DEF T
<1>7. QED BY <1>6

(* ... and on the way down at one above target.                            *)
LEMMA WalkDown ==
  ASSUME NEW base, NEW target, CleanPath(base), CleanPath(target), NEW rel, NEW m,
         ClimbsTo(rel, base, target, m), NEW w, Walks(w, base, rel)
  PROVE  \A n \in 0..(Len(target) - m) :
           LET d == w[(Len(base) - m) + n]
           IN  /\ d \in Seq(Names) /\ Len(d) = m + n
               /\ \A i \in 1..(m + n) : d[i] = target[i]
<1>0. /\ base \in Seq(Names) /\ target \in Seq(Names) /\ Len(base) \in Nat /\ Len(target) \in Nat
      /\ \A i \in 1..Len(target) : target[i] # Up /\ target[i] \in Names
  BY DEF CleanPath
<1>1. /\ m \in 0..Len(base) /\ m <= Len(target) /\ rel \in Seq(Names) /\ Len(rel) \in Nat
      /\ Len(rel) = (Len(base) - m) + (Len(target) - m)
      /\ \A i \in 1..m : base[i] = target[i]
      /\ \A i \in 1..(Len(target) - m) : rel[(Len(base) - m) + i] = target[m + i]
  BY <1>0 DEF ClimbsTo
<1>2. w[0] = base /\ \A n \in 1..Len(rel) : w[n] = Enter(w[n - 1], rel[n])
  <2>1. Len(rel) \in Nat
    BY <1>1
  <2>2. QED BY <2>1, WalkSteps
<1>m. m \in Nat /\ Len(base) - m \in Nat /\ Len(target) - m \in Nat
  <2>1. m \in 0..Len(base) /\ m <= Len(target)
    BY <1>1
  <2>2. QED BY <1>0, <2>1
<1>3. PICK k \in Nat : k = Len(base) - m
  BY <1>m
<1> DEFINE At(n) == /\ w[k + n] \in Seq(Names) /\ Len(w[k + n]) = m + n
                    /\ \A i \in 1..(m + n) : w[k + n][i] = target[i]
           T == {n \in Nat : n <= Len(target) - m => At(n)}
<1>4. 0 \in T
  <2>1. k \in 0..(Len(base) - m)
    BY <1>3
  <2>2. /\ w[k] \in Seq(Names) /\ Len(w[k]) = Len(base) - k
        /\ \A i \in 1..(Len(base) - k) : w[k][i] = base[i]
    BY <2>1, WalkUp
  <2>3. Len(base) - k = m /\ k + 0 = k /\ m + 0 = m
    BY <1>0, <1>1, <1>3
  <2>4. At(0)
    BY <1>1, <2>2, <2>3
  <2>5. QED BY <2>4
<1>5. ASSUME NEW n \in Nat, n \in T PROVE n + 1 \in T
  <2>1. SUFFICES ASSUME n + 1 <= Len(target) - m PROVE At(n + 1)
    OBVIOUS
  <2>2. At(n)
    <3>1. n <= Len(target) - m
      BY <1>m, <2>1
    <3>2. QED BY <1>5, <3>1
  <2>3. /\ k + (n + 1) \in 1..Len(rel) /\ n + 1 \in 1..(Len(target) - m)
        /\ (k + (n + 1)) - 1 = k + n /\ m + (n + 1) \in 1..Len(target)
    BY <1>0, <1>1, <1>3, <2>1
  <2> DEFINE x == target[m + (n + 1)]
  <2>4. rel[k + (n + 1)] = x
    BY <1>1, <1>3, <2>3
  <2>5. x \in Names /\ x # Up
    BY <1>0, <2>3
  <2>6. w[k + (n + 1)] = Enter(w[k + n], x)
    BY <1>2, <2>3, <2>4
  <2> HIDE DEF x
  <2> DEFINE p == w[k + n]
             q == w[k + (n + 1)]
  <2>7. p \in Seq(Names) /\ q = Enter(p, x)
    BY <2>2, <2>6
  <2>8. /\ q \in Seq(Names) /\ Len(q) = Len(p) + 1
        /\ q[Len(p) + 1] = x /\ \A i \in 1..Len(p) : q[i] = p[i]
    <3> HIDE DEF p, q
    <3>1. QED BY <2>5, <2>7, EnterDown
  <2>9. Len(p) = m + n /\ (m + n) + 1 = m + (n + 1) /\ \A i \in 1..(m + n) : p[i] = target[i]
    BY <1>0, <1>1, <2>2
  <2>10. \A i \in 1..(m + (n + 1)) : i = m + (n + 1) \/ i \in 1..(m + n)
    BY <1>m
  <2>11. \A i \in 1..(m + (n + 1)) : q[i] = target[i]
    <3> HIDE DEF p, q
    <3>1. ASSUME NEW i \in 1..(m + (n + 1)) PROVE q[i] = target[i]
      <4>1. CASE i = m + (n + 1)
        BY <2>8, <2>9, <4>1 DEF x
      <4>2. CASE i \in 1..(m + n)
        BY <2>8, <2>9, <4>2
      <4>3. QED BY <2>10, <4>1, <4>2
    <3>2. QED BY <3>1
  <2>12. QED BY <2>8, <2>9, <2>11
<1> HIDE DEF T
<1>6. Nat \subseteq T
  BY <1>4, <1>5, NatInduct
<1>7. ASSUME NEW n \in 0..(Len(target) - m) PROVE At(n)
  BY <1>m, <1>6 DEF T
<1>8. QED BY <1>3, <1>7

(* The walk along a relative path leads to what it was taken for.          *)
LEMMA JoinRel ==
  ASSUME NEW base, NEW target, CleanPath(base), CleanPath(target)
  PROVE  JoinPath(base, RelPath(base, target)) = target
<1>1. PICK m : ClimbsTo(RelPath(base, target), base, target, m)
  BY RelIs
<1>2. ASSUME NEW rel, ClimbsTo(rel, base, target, m) PROVE JoinPath(base, rel) = target
  <2>0. target \in Seq(Names) /\ Len(base) \in Nat /\ Len(target) \in Nat
    BY DEF CleanPath
  <2>1. /\ m \in 0..Len(base) /\ m <= Len(target) /\ Len(rel) \in Nat
        /\ Len(rel) = (Len(base) - m) + (Len(target) - m)
    BY <1>2, <2>0 DEF ClimbsTo
  <2>2. PICK w : Walks(w, base, rel) /\ JoinPath(base, rel) = w[Len(rel)]
    BY <2>1, JoinIs
  <2>3. PICK n \in Nat : n = Len(target) - m
    BY <2>0, <2>1
  <2>4. n \in 0..(Len(target) - m) /\ (Len(base) - m) + n = Len(rel) /\ m + n = Len(target)
    BY <2>0, <2>1, <2>3
  <2> DEFINE d == w[(Len(base) - m) + n]
  <2>5. d \in Seq(Names) /\ Len(d) = m + n /\ \A i \in 1..(m + n) : d[i] = target[i]
    BY <1>2, <2>2, <2>4, WalkDown
  <2>6. d = w[Len(rel)]
    BY <2>4
  <2> HIDE DEF d
  <2>7. d = target
    BY <2>0, <2>4, <2>5
  <2>8. QED BY <2>2, <2>6, <2>7
<1>3. QED BY <1>1, <1>2

-----------------------------------------------------------------------------
(* AliasFiles: canonical paths.  No link stands on a direct path.          *)
Direct(p) == \A l \in DOMAIN AliasLinks : ~IsPrefix(l, p)

(* What a clean path is made of.                                           *)
LEMMA CleanIs ==
  ASSUME NEW p, CleanPath(p)
  PROVE  /\ p \in Seq(Names) /\ Len(p) \in Nat
         /\ \A i \in 1..Len(p) : p[i] # Up /\ p[i] \in Names
BY DEF CleanPath

(* A part of a sequence.                                                   *)
LEMMA PartIs ==
  ASSUME NEW N, NEW p \in Seq(N), NEW a \in Nat, a <= Len(p)
  PROVE  /\ SubSeq(p, a + 1, Len(p)) \in Seq(N) /\ Len(SubSeq(p, a + 1, Len(p))) = Len(p) - a
         /\ \A i \in 1..(Len(p) - a) : SubSeq(p, a + 1, Len(p))[i] = p[a + i]
         /\ SubSeq(p, 1, a) \in Seq(N) /\ Len(SubSeq(p, 1, a)) = a
         /\ \A i \in 1..a : SubSeq(p, 1, a)[i] = p[i]
<1>1. SubSeq(p, a + 1, Len(p)) \in Seq(N) /\ Len(SubSeq(p, a + 1, Len(p))) = Len(p) - a
  OBVIOUS
<1>2. \A i \in 1..(Len(p) - a) : SubSeq(p, a + 1, Len(p))[i] = p[a + i]
  OBVIOUS
<1>3. SubSeq(p, 1, a) \in Seq(N) /\ Len(SubSeq(p, 1, a)) = a
  OBVIOUS
<1>4. \A i \in 1..a : SubSeq(p, 1, a)[i] = p[i]
  OBVIOUS
<1>5. QED BY <1>1, <1>2, <1>3, <1>4

(* Two sequences one after the other.                                      *)
LEMMA ConcatIs ==
  ASSUME NEW N, NEW s \in Seq(N), NEW t \in Seq(N)
  PROVE  /\ s \o t \in Seq(N) /\ Len(s \o t) = Len(s) + Len(t)
         /\ \A i \in 1..Len(s) : (s \o t)[i] = s[i]
         /\ \A i \in 1..Len(t) : (s \o t)[Len(s) + i] = t[i]
         /\ \A i \in 1..(Len(s) + Len(t)) : i \notin 1..Len(s) => (s \o t)[i] = t[i - Len(s)]
<1>1. s \o t \in Seq(N) /\ Len(s \o t) = Len(s) + Len(t)
  OBVIOUS
<1>2. \A i \in 1..Len(s) : (s \o t)[i] = s[i]
  OBVIOUS
<1>3. \A i \in 1..(Len(s) + Len(t)) : i \notin 1..Len(s) => (s \o t)[i] = t[i - Len(s)]
  OBVIOUS
<1>4. \A i \in 1..Len(t) : (s \o t)[Len(s) + i] = t[i]
  OBVIOUS
<1>5. QED BY <1>1, <1>2, <1>3, <1>4

(* A direct path is its own canonical path.                                *)
LEMMA DirectCanon == ASSUME NEW p, Direct(p) PROVE CanonicalPath(p) = p
BY DEF Direct, CanonicalPath

(* What CanonicalPath gives when a link stands on the path.                *)
LEMMA LinkedCanon ==
  ASSUME NEW p, ~Direct(p)
  PROVE  \E l \in DOMAIN AliasLinks :
           IsPrefix(l, p) /\ CanonicalPath(p) = AliasLinks[l] \o SubSeq(p, Len(l) + 1, Len(p))
<1> DEFINE on == {l \in DOMAIN AliasLinks : IsPrefix(l, p)}
           c == CHOOSE l \in on : TRUE
<1>1. on # {}
  BY DEF Direct
<1>2. c \in on
  BY <1>1
<1>3. CanonicalPath(p) = AliasLinks[c] \o SubSeq(p, Len(c) + 1, Len(p))
  BY <1>1 DEF CanonicalPath
<1> HIDE DEF c
<1>4. QED BY <1>2, <1>3

(* Canonical paths are clean and direct.                                   *)
LEMMA CanonIs ==
  ASSUME NEW p, CleanPath(p)
  PROVE  /\ CleanPath(CanonicalPath(p)) /\ Direct(CanonicalPath(p))
         /\ CanonicalPath(CanonicalPath(p)) = CanonicalPath(p)
<1>1. CleanPath(CanonicalPath(p)) /\ Direct(CanonicalPath(p))
  <2>1. CASE Direct(p)
    BY <2>1, DirectCanon
  <2>2. CASE ~Direct(p)
    <3>1. PICK l \in DOMAIN AliasLinks :
            IsPrefix(l, p) /\ CanonicalPath(p) = AliasLinks[l] \o SubSeq(p, Len(l) + 1, Len(p))
      BY <2>2, LinkedCanon
    <3> DEFINE k == AliasLinks[l]
               r == SubSeq(p, Len(l) + 1, Len(p))
    <3>2. CleanPath(l) /\ CleanPath(k) /\ \A m \in DOMAIN AliasLinks : ~IsPrefix(m, k) /\ ~IsPrefix(k, m)
      BY AliasPlaces
    <3>3. /\ p \in Seq(Names) /\ Len(p) \in Nat /\ \A i \in 1..Len(p) : p[i] # Up /\ p[i] \in Names
          /\ l \in Seq(Names) /\ Len(l) \in Nat
          /\ k \in Seq(Names) /\ Len(k) \in Nat /\ \A i \in 1..Len(k) : k[i] # Up /\ k[i] \in Names
      BY <3>2, CleanIs
    <3>4. Len(l) <= Len(p)
      BY <3>1 DEF IsPrefix
    <3>5. r \in Seq(Names) /\ Len(r) = Len(p) - Len(l) /\ \A i \in 1..(Len(p) - Len(l)) : r[i] = p[Len(l) + i]
      BY <3>3, <3>4, PartIs
    <3> HIDE DEF k, r
    <3>6. \A i \in 1..Len(r) : r[i] # Up
      <4>1. ASSUME NEW i \in 1..Len(r) PROVE r[i] # Up
        <5>1. i \in 1..(Len(p) - Len(l)) /\ Len(l) + i \in 1..Len(p)
          BY <3>3, <3>4, <3>5
        <5>2. QED BY <3>3, <3>5, <5>1
      <4>2. QED BY <4>1
    <3> DEFINE t == k \o r
    <3>a. k \in Seq(Names) /\ r \in Seq(Names)
      BY <3>3, <3>5
    <3>7. /\ t \in Seq(Names) /\ Len(t) = Len(k) + Len(r)
          /\ \A i \in 1..Len(k) : t[i] = k[i]
          /\ \A i \in 1..(Len(k) + Len(r)) : i \notin 1..Len(k) => t[i] = r[i - Len(k)]
      BY <3>a, ConcatIs
    <3> HIDE DEF t
    <3>8. CleanPath(t)
      <4>1. ASSUME NEW i \in DOMAIN t PROVE t[i] # Up
        <5>1. i \in 1..(Len(k) + Len(r))
          BY <3>7
        <5>2. CASE i \in 1..Len(k)
          BY <3>3, <3>7, <5>2
        <5>3. CASE i \notin 1..Len(k)
          <6>1. i - Len(k) \in 1..Len(r)
            BY <3>3, <3>5, <5>1, <5>3
          <6>2. QED BY <3>6, <3>7, <5>1, <5>3, <6>1
        <5>4. QED BY <5>2, <5>3
      <4>2. QED BY <3>7, <4>1 DEF CleanPath
    <3>9. ASSUME NEW m \in DOMAIN AliasLinks, IsPrefix(m, t) PROVE FALSE
      <4>1. m \in Seq(Names) /\ Len(m) \in Nat
        BY AliasPlaces, CleanIs
      <4>2. Len(m) <= Len(t) /\ \A i \in 1..Len(m) : m[i] = t[i]
        BY <3>7, <3>9, <4>1, PrefixIs
      <4>3. CASE Len(m) <= Len(k)
        <5>1. \A i \in 1..Len(m) : i \in 1..Len(k)
          BY <3>3, <4>1, <4>3
        <5>2. \A i \in 1..Len(m) : m[i] = k[i]
          BY <3>7, <4>2, <5>1
        <5>3. IsPrefix(m, k)
          BY <3>3, <4>1, <4>3, <5>2, PrefixIs
        <5>4. QED BY <3>2, <5>3
      <4>4. CASE Len(k) <= Len(m)
        <5>1. \A i \in 1..Len(k) : i \in 1..Len(m)
          BY <3>3, <4>1, <4>4
        <5>2. \A i \in 1..Len(k) : k[i] = m[i]
          BY <3>7, <4>2, <5>1
        <5>3. IsPrefix(k, m)
          BY <3>3, <4>1, <4>4, <5>2, PrefixIs
        <5>4. QED BY <3>2, <5>3
      <4>5. QED BY <3>3, <4>1, <4>3, <4>4
    <3>10. CanonicalPath(p) = t
      BY <3>1 DEF t, k, r
    <3>11. QED BY <3>8, <3>9, <3>10 DEF Direct
  <2>3. QED BY <2>1, <2>2
<1>2. QED BY <1>1, DirectCanon

(* So a path that CanonicalPath leaves alone is direct.                    *)
LEMMA UnlinkedDirect == ASSUME NEW p, CleanPath(p), Unlinked(p) PROVE Direct(p)
BY CanonIs DEF Unlinked

(* The directories above a clean and direct path are clean and direct.     *)
LEMMA PartClean ==
  ASSUME NEW p, CleanPath(p), NEW n \in Nat, n <= Len(p)
  PROVE  CleanPath(SubSeq(p, 1, n)) /\ (Direct(p) => Direct(SubSeq(p, 1, n)))
<1> DEFINE t == SubSeq(p, 1, n)
<1>1. p \in Seq(Names) /\ Len(p) \in Nat /\ \A i \in 1..Len(p) : p[i] # Up
  BY CleanIs
<1>2. t \in Seq(Names) /\ Len(t) = n /\ \A i \in 1..n : t[i] = p[i]
  BY <1>1, PartIs
<1> HIDE DEF t
<1>3. CleanPath(t)
  BY <1>1, <1>2 DEF CleanPath
<1>4. ASSUME NEW l \in DOMAIN AliasLinks, IsPrefix(l, t) PROVE IsPrefix(l, p)
  <2>1. l \in Seq(Names) /\ Len(l) \in Nat
    BY AliasPlaces, CleanIs
  <2>2. Len(l) <= Len(t) /\ \A i \in 1..Len(l) : l[i] = t[i]
    BY <1>2, <1>4, <2>1, PrefixIs
  <2>3. Len(l) <= Len(p) /\ \A i \in 1..Len(l) : l[i] = p[i]
    BY <1>1, <1>2, <2>1, <2>2
  <2>4. QED BY <1>1, <2>1, <2>3, PrefixIs
<1>5. QED BY <1>3, <1>4 DEF Direct, t

(* The directory of a clean path.                                          *)
LEMMA FrontClean ==
  ASSUME NEW p, CleanPath(p)
  PROVE  CleanPath(Front(p)) /\ (Direct(p) => Direct(Front(p)))
<1>1. p \in Seq(Names) /\ Len(p) \in Nat
  BY CleanIs
<1>2. CASE Len(p) = 0
  <2>1. p = <<>> /\ Front(p) = <<>>
    BY <1>1, <1>2 DEF Front
  <2>2. QED BY <2>1
<1>3. CASE Len(p) # 0
  <2>1. PICK n \in Nat : n = Len(p) - 1
    BY <1>1, <1>3
  <2>2. n <= Len(p) /\ Front(p) = SubSeq(p, 1, n)
    BY <1>1, <2>1 DEF Front
  <2>3. QED BY <2>1, <2>2, PartClean
<1>4. QED BY <1>2, <1>3

(* An unlinked path lies in an unlinked directory.                         *)
LEMMA UnlinkedFront ==
  ASSUME NEW p, CleanPath(p), Unlinked(p)
  PROVE  Direct(p) /\ CanonicalPath(Front(p)) = Front(p)
<1>1. Direct(p)
  BY UnlinkedDirect
<1>2. Direct(Front(p))
  BY <1>1, FrontClean
<1>3. QED BY <1>1, <1>2, DirectCanon

(* One part of a sequence of names after the other.                        *)
LEMMA PrefixOfConcat ==
  ASSUME NEW N, NEW l \in Seq(N), NEW s \in Seq(N), NEW t \in Seq(N)
  PROVE  /\ IsPrefix(l, s) => IsPrefix(l, s \o t)
         /\ IsPrefix(l, s \o t) => IsPrefix(l, s) \/ IsPrefix(s, l)
<1>0. Len(l) \in Nat /\ Len(s) \in Nat /\ Len(t) \in Nat
  OBVIOUS
<1> DEFINE c == s \o t
<1>1. c \in Seq(N) /\ Len(c) = Len(s) + Len(t) /\ \A i \in 1..Len(s) : c[i] = s[i]
  BY ConcatIs
<1> HIDE DEF c
<1>2. IsPrefix(l, s) <=> Len(l) <= Len(s) /\ \A i \in 1..Len(l) : l[i] = s[i]
  BY PrefixIs
<1>3. IsPrefix(s, l) <=> Len(s) <= Len(l) /\ \A i \in 1..Len(s) : s[i] = l[i]
  BY PrefixIs
<1>4. IsPrefix(l, c) <=> Len(l) <= Len(c) /\ \A i \in 1..Len(l) : l[i] = c[i]
  BY <1>1, PrefixIs
<1>5. IsPrefix(l, s) => IsPrefix(l, c)
  BY <1>0, <1>1, <1>2, <1>4
<1>6. ASSUME IsPrefix(l, c) PROVE IsPrefix(l, s) \/ IsPrefix(s, l)
  <2>1. CASE Len(l) <= Len(s)
    BY <1>0, <1>1, <1>2, <1>4, <1>6, <2>1
  <2>2. CASE Len(s) <= Len(l)
    BY <1>0, <1>1, <1>3, <1>4, <1>6, <2>2
  <2>3. QED BY <1>0, <2>1, <2>2
<1>7. QED BY <1>5, <1>6 DEF c

(* Two sequences of one length that agree everywhere.                      *)
LEMMA SameSeq ==
  ASSUME NEW N, NEW s \in Seq(N), NEW t \in Seq(N), Len(s) = Len(t),
         \A i \in 1..Len(s) : s[i] = t[i]
  PROVE  s = t
OBVIOUS

(* A part and a concatenation, as operators the provers take as they stand.*)
Below(p, n) == SubSeq(p, n + 1, Len(p))
Cat(s, t) == s \o t

(* What stands before a part that is followed by more.                     *)
LEMMA PartOfConcat ==
  ASSUME NEW k \in Seq(Names), NEW s \in Seq(Names), NEW t \in Seq(Names),
         NEW n \in Nat, n <= Len(s), NEW c, c = Cat(s, t)
  PROVE  Cat(k, Below(c, n)) = Cat(Cat(k, Below(s, n)), t)
<1>0. Len(k) \in Nat /\ Len(s) \in Nat /\ Len(t) \in Nat
  OBVIOUS
<1>1. /\ c \in Seq(Names) /\ Len(c) = Len(s) + Len(t)
      /\ \A i \in 1..Len(s) : c[i] = s[i]
      /\ \A i \in 1..(Len(s) + Len(t)) : i \notin 1..Len(s) => c[i] = t[i - Len(s)]
  BY ConcatIs DEF Cat
<1> DEFINE d == SubSeq(c, n + 1, Len(c))
           e == SubSeq(s, n + 1, Len(s))
<1>2. n <= Len(c)
  BY <1>0, <1>1
<1>3. d \in Seq(Names) /\ Len(d) = Len(c) - n /\ \A i \in 1..(Len(c) - n) : d[i] = c[n + i]
  BY <1>1, <1>2, PartIs
<1>4. e \in Seq(Names) /\ Len(e) = Len(s) - n /\ \A i \in 1..(Len(s) - n) : e[i] = s[n + i]
  BY PartIs
<1> HIDE DEF d, e
<1>5. d \in Seq(Names) /\ e \in Seq(Names)
  BY <1>3, <1>4
<1>a. Len(c) = Len(s) + Len(t) /\ Len(d) = Len(c) - n /\ Len(e) = Len(s) - n
  BY <1>1, <1>3, <1>4
<1> DEFINE x == k \o d
           y == k \o e
<1>6. /\ x \in Seq(Names) /\ Len(x) = Len(k) + Len(d) /\ \A i \in 1..Len(k) : x[i] = k[i]
      /\ \A i \in 1..(Len(k) + Len(d)) : i \notin 1..Len(k) => x[i] = d[i - Len(k)]
  BY <1>5, ConcatIs
<1>7. /\ y \in Seq(Names) /\ Len(y) = Len(k) + Len(e) /\ \A i \in 1..Len(k) : y[i] = k[i]
      /\ \A i \in 1..(Len(k) + Len(e)) : i \notin 1..Len(k) => y[i] = e[i - Len(k)]
  BY <1>5, ConcatIs
<1> HIDE DEF x, y
<1>8. y \in Seq(Names)
  BY <1>7
<1> DEFINE z == y \o t
<1>9. /\ z \in Seq(Names) /\ Len(z) = Len(y) + Len(t) /\ \A i \in 1..Len(y) : z[i] = y[i]
      /\ \A i \in 1..(Len(y) + Len(t)) : i \notin 1..Len(y) => z[i] = t[i - Len(y)]
  BY <1>8, ConcatIs
<1> HIDE DEF z
<1>10. PICK a \in Nat : a = Len(k)
  BY <1>0
<1>11. PICK b \in Nat : b = Len(e)
  BY <1>5
<1>12. PICK h \in Nat : h = Len(t)
  BY <1>0
<1>13. Len(s) = b + n /\ Len(c) = (b + n) + h
  BY <1>0, <1>a, <1>11, <1>12
<1>14. Len(d) = b + h
  <2>1. Len(d) = ((b + n) + h) - n
    BY <1>a, <1>13
  <2>2. QED BY <2>1
<1>15. Len(x) = (a + b) + h /\ Len(y) = a + b
  BY <1>6, <1>7, <1>10, <1>11, <1>14
<1>16. Len(z) = (a + b) + h
  BY <1>9, <1>12, <1>15
<1>17. \A i \in 1..a : x[i] = k[i] /\ y[i] = k[i]
  BY <1>6, <1>7, <1>10
<1>18. \A i \in 1..(b + h) : x[a + i] = d[i]
  <2>1. \A i \in 1..Len(d) : x[Len(k) + i] = d[i]
    BY <1>5, ConcatIs DEF x
  <2>2. QED BY <2>1, <1>10, <1>14
<1>19. \A i \in 1..(b + h) : d[i] = c[n + i]
  <2>1. Len(c) - n = b + h
    BY <1>13
  <2>2. QED BY <1>3, <2>1
<1>20. \A i \in 1..b : y[a + i] = e[i] /\ e[i] = s[n + i]
  <2>1. Len(s) - n = b
    BY <1>13
  <2>2. \A i \in 1..Len(e) : y[Len(k) + i] = e[i]
    BY <1>5, ConcatIs DEF y
  <2>3. QED BY <1>4, <1>10, <1>11, <2>1, <2>2
<1>21. \A i \in 1..(b + n) : c[i] = s[i]
  BY <1>1, <1>13
<1>22. \A i \in 1..h : c[(b + n) + i] = t[i]
  <2>1. \A i \in 1..Len(t) : c[Len(s) + i] = t[i]
    BY ConcatIs DEF Cat
  <2>2. QED BY <2>1, <1>12, <1>13
<1>23. \A i \in 1..(a + b) : z[i] = y[i]
  BY <1>9, <1>15
<1>24. \A i \in 1..h : z[(a + b) + i] = t[i]
  BY <1>9, <1>12, <1>15
<1>25. ASSUME NEW i \in 1..((a + b) + h) PROVE x[i] = z[i]
  <2>1. CASE i \in 1..a
    <3>1. i \in 1..(a + b)
      BY <2>1
    <3>2. QED BY <1>17, <1>23, <2>1, <3>1
  <2>2. CASE i > a /\ i <= a + b
    <3>1. PICK j \in 1..b : i = a + j
      BY <2>2
    <3>2. j \in 1..(b + h) /\ n + j \in 1..(b + n) /\ a + j \in 1..(a + b)
      BY <3>1
    <3>3. x[i] = d[j] /\ d[j] = c[n + j] /\ c[n + j] = s[n + j]
      BY <1>18, <1>19, <1>21, <3>1, <3>2
    <3>4. z[i] = y[i] /\ y[i] = e[j] /\ e[j] = s[n + j]
      BY <1>20, <1>23, <3>1, <3>2
    <3>5. QED BY <3>3, <3>4
  <2>3. CASE i > a + b
    <3>1. PICK j \in 1..h : i = (a + b) + j
      BY <2>3
    <3>2. b + j \in 1..(b + h) /\ i = a + (b + j) /\ n + (b + j) = (b + n) + j
      BY <3>1
    <3>3. x[i] = d[b + j] /\ d[b + j] = c[(b + n) + j]
      BY <1>18, <1>19, <3>2
    <3>4. c[(b + n) + j] = t[j] /\ z[i] = t[j]
      BY <1>22, <1>24, <3>1
    <3>5. QED BY <3>3, <3>4
  <2>4. QED BY <2>1, <2>2, <2>3
<1>26. x \in Seq(Names) /\ z \in Seq(Names) /\ Len(x) = Len(z) /\ \A i \in 1..Len(x) : x[i] = z[i]
  BY <1>6, <1>9, <1>15, <1>16, <1>25
<1>27. x = z
  BY <1>26, SameSeq
<1>28. QED BY <1>27 DEF x, y, z, d, e, Below, Cat

(* A path below root lies below the canonical path of root, where no link  *)
(* stands below that.                                                      *)
LEMMA CanonUnder ==
  ASSUME NEW root, CleanPath(root), NEW rest \in Seq(Names), Direct(CanonicalPath(root) \o rest)
  PROVE  CanonicalPath(root \o rest) = CanonicalPath(root) \o rest
<1>1. CASE Direct(root)
  BY <1>1, DirectCanon
<1>2. CASE ~Direct(root)
  <2>1. PICK l \in DOMAIN AliasLinks :
          IsPrefix(l, root) /\ CanonicalPath(root) = AliasLinks[l] \o SubSeq(root, Len(l) + 1, Len(root))
    BY <1>2, LinkedCanon
  <2>2. root \in Seq(Names) /\ Len(root) \in Nat /\ \A m \in DOMAIN AliasLinks : m \in Seq(Names) /\ Len(m) \in Nat
    BY CleanIs, AliasPlaces
  <2>3. AliasLinks[l] \in Seq(Names) /\ root \in Seq(Names) /\ l \in Seq(Names) /\ Len(l) \in Nat
    BY CleanIs, AliasPlaces
  <2>4. IsPrefix(l, root \o rest)
    BY <2>1, <2>3, PrefixOfConcat
  <2>5. PICK m \in DOMAIN AliasLinks :
          /\ IsPrefix(m, root \o rest)
          /\ CanonicalPath(root \o rest)
               = AliasLinks[m] \o SubSeq(root \o rest, Len(m) + 1, Len(root \o rest))
    <3>1. ~Direct(root \o rest)
      BY <2>4 DEF Direct
    <3>2. QED BY <3>1, LinkedCanon
  <2>6. m \in Seq(Names) /\ Len(m) \in Nat
    BY <2>2
  <2>7. IsPrefix(m, root) \/ IsPrefix(root, m)
    BY <2>3, <2>5, <2>6, PrefixOfConcat
  <2>8. IsPrefix(l, root) <=> Len(l) <= Len(root) /\ \A i \in 1..Len(l) : l[i] = root[i]
    BY <2>3, PrefixIs
  <2>9. IsPrefix(m, root) <=> Len(m) <= Len(root) /\ \A i \in 1..Len(m) : m[i] = root[i]
    BY <2>3, <2>6, PrefixIs
  <2>10. IsPrefix(root, m) <=> Len(root) <= Len(m) /\ \A i \in 1..Len(root) : root[i] = m[i]
    BY <2>3, <2>6, PrefixIs
  <2>11. /\ IsPrefix(l, m) <=> Len(l) <= Len(m) /\ \A i \in 1..Len(l) : l[i] = m[i]
         /\ IsPrefix(m, l) <=> Len(m) <= Len(l) /\ \A i \in 1..Len(m) : m[i] = l[i]
    BY <2>3, <2>6, PrefixIs
  <2>12. IsPrefix(l, m) \/ IsPrefix(m, l)
    <3>1. CASE IsPrefix(root, m)
      BY <2>1, <2>2, <2>3, <2>6, <2>8, <2>10, <2>11, <3>1
    <3>2. CASE IsPrefix(m, root)
      <4>1. CASE Len(l) <= Len(m)
        BY <2>1, <2>2, <2>3, <2>6, <2>8, <2>9, <2>11, <3>2, <4>1
      <4>2. CASE Len(m) <= Len(l)
        BY <2>1, <2>2, <2>3, <2>6, <2>8, <2>9, <2>11, <3>2, <4>2
      <4>3. QED BY <2>3, <2>6, <4>1, <4>2
    <3>3. QED BY <2>7, <3>1, <3>2
  <2>13. m = l
    BY <2>12, AliasPlaces
  <2>14. Len(l) <= Len(root)
    BY <2>1, <2>8
  <2>15. PICK n \in Nat : n = Len(l)
    BY <2>6, <2>13
  <2>16. PICK k \in Seq(Names) : k = AliasLinks[l]
    BY <2>3
  <2>17. PICK c : c = Cat(root, rest)
    OBVIOUS
  <2>18. n <= Len(root) /\ root \in Seq(Names)
    BY <2>2, <2>14, <2>15
  <2>19. Cat(k, Below(c, n)) = Cat(Cat(k, Below(root, n)), rest)
    BY <2>17, <2>18, PartOfConcat
  <2>20. CanonicalPath(root \o rest) = Cat(k, Below(c, n))
    BY <2>5, <2>13, <2>15, <2>16, <2>17 DEF Below, Cat
  <2>21. CanonicalPath(root) = Cat(k, Below(root, n))
    BY <2>1, <2>15, <2>16 DEF Below, Cat
  <2>22. QED BY <2>19, <2>20, <2>21 DEF Cat
<1>3. QED BY <1>1, <1>2

-----------------------------------------------------------------------------
(* AliasFiles: the arguments.  The least of a set of naturals.             *)
LEMMA NatLeast ==
  ASSUME NEW S, S \subseteq Nat, S # {}
  PROVE  \E m \in S : \A n \in S : m <= n
<1> DEFINE R == OpToRel(<, Nat)
<1>1. IsWellFoundedOn(R, Nat)
  BY NatLessThanWellFounded
<1>2. PICK x \in S : \A y \in S : ~(<<y, x>> \in R)
  <2> HIDE DEF R
  <2>1. QED BY <1>1, WFMin
<1>3. ASSUME NEW y \in S, y < x PROVE FALSE
  <2>1. x \in Nat /\ y \in Nat
    OBVIOUS
  <2>2. <<y, x>> \in R
    BY <1>3, <2>1 DEF OpToRel
  <2>3. QED BY <1>2, <2>2
<1>4. ASSUME NEW y \in S PROVE x <= y
  <2>1. x \in Nat /\ y \in Nat /\ ~(y < x)
    BY <1>3
  <2>2. QED BY <2>1
<1>5. QED BY <1>4

(* The leading --image arguments are a part of what was given ...          *)
LEMMA ControlIs ==
  ASSUME NEW r \in CreateRequests
  PROVE  Len(ControlArgs(r)) \in Nat /\ Len(ControlArgs(r)) <= Len(r.args)
<1>1. r.args \in Seq(AliasArgs) /\ Len(r.args) \in Nat
  BY AliasCommands
<1> DEFINE stops == {n \in 0..Len(r.args) :
                       n = Len(r.args) \/ r.class # "prepare" \/ r.args[n + 1].flag # "image"}
           k == CHOOSE n \in stops : \A m \in stops : n <= m
<1>2. Len(r.args) \in stops /\ stops \subseteq Nat
  BY <1>1
<1>3. k \in stops
  <2> HIDE DEF stops
  <2>1. \E n \in stops : \A m \in stops : n <= m
    BY <1>2, NatLeast
  <2>2. QED BY <2>1
<1>4. ControlArgs(r) = SubSeq(r.args, 1, k)
  BY DEF ControlArgs
<1>5. k \in Nat /\ k <= Len(r.args)
  BY <1>1, <1>3
<1> HIDE DEF k
<1>6. Len(SubSeq(r.args, 1, k)) = k
  BY <1>1, <1>5, PartIs
<1>7. QED BY <1>4, <1>5, <1>6

(* ... and so is the payload behind them.                                  *)
LEMMA PayloadIs ==
  ASSUME NEW r \in CreateRequests
  PROVE  /\ PayloadArgs(r) \in Seq(AliasArgs)
         /\ \A i \in DOMAIN PayloadArgs(r) : \E j \in DOMAIN r.args : PayloadArgs(r)[i] = r.args[j]
<1>1. r.args \in Seq(AliasArgs) /\ Len(r.args) \in Nat
  BY AliasCommands
<1>2. PICK k \in Nat : k = Len(ControlArgs(r)) /\ k <= Len(r.args)
  BY ControlIs
<1>3. PICK a \in Nat : a <= Len(r.args) /\ PayloadArgs(r) = SubSeq(r.args, a + 1, Len(r.args))
  <2>1. CASE k + 1 <= Len(r.args) /\ r.args[k + 1].flag = "--"
    <3>1. PayloadArgs(r) = SubSeq(r.args, (k + 1) + 1, Len(r.args))
      BY <1>2, <2>1 DEF PayloadArgs
    <3>2. k + 1 \in Nat /\ k + 1 <= Len(r.args)
      BY <2>1
    <3>3. QED BY <3>1, <3>2
  <2>2. CASE ~(k + 1 <= Len(r.args) /\ r.args[k + 1].flag = "--")
    <3>1. PayloadArgs(r) = SubSeq(r.args, k + 1, Len(r.args))
      BY <1>2, <2>2 DEF PayloadArgs
    <3>2. QED BY <1>2, <3>1
  <2>3. QED BY <2>1, <2>2
<1> DEFINE t == SubSeq(r.args, a + 1, Len(r.args))
<1>4. t \in Seq(AliasArgs) /\ Len(t) = Len(r.args) - a /\ \A i \in 1..(Len(r.args) - a) : t[i] = r.args[a + i]
  BY <1>1, <1>3, PartIs
<1> HIDE DEF t
<1>5. ASSUME NEW i \in DOMAIN t PROVE \E j \in DOMAIN r.args : t[i] = r.args[j]
  <2>1. i \in 1..Len(t)
    BY <1>4
  <2>2. PICK n \in Nat : n = Len(r.args)
    BY <1>1
  <2>3. i \in 1..(n - a) /\ a <= n
    BY <1>3, <1>4, <2>1, <2>2
  <2>4. a + i \in 1..n
    BY <2>3
  <2>5. t[i] = r.args[a + i] /\ a + i \in DOMAIN r.args
    BY <1>1, <1>4, <2>2, <2>3, <2>4
  <2>6. QED BY <2>5
<1>6. QED BY <1>3, <1>4, <1>5 DEF t

(* What a value is, and what it names.                                     *)
LEMMA ValueIs ==
  ASSUME NEW v \in PathValues
  PROVE  /\ v = [tag |-> v.tag, abs |-> v.abs, path |-> v.path, weight |-> v.weight]
         /\ v.tag \in STRING /\ v.abs \in BOOLEAN /\ v.path \in Seq(Names) /\ v.weight \in BOOLEAN
         /\ v.abs => CleanPath(v.path)
<1>1. v \in [tag : STRING, abs : BOOLEAN, path : Seq(Names), weight : BOOLEAN] /\ (v.abs => CleanPath(v.path))
  BY DEF PathValues
<1>2. QED BY <1>1

(* No path is clean too.                                                   *)
LEMMA NowhereClean == CleanPath(Nowhere)
BY DEF Nowhere, CleanPath

(* A path that resolves lies in the workspace and is canonical.            *)
LEMMA ResolveIs ==
  ASSUME NEW v \in PathValues, NEW base, CleanPath(base)
  PROVE  /\ CleanPath(ResolveValue(v, base))
         /\ ResolveValue(v, base) # Nowhere =>
              /\ InWorkspace(ResolveValue(v, base)) /\ Direct(ResolveValue(v, base))
              /\ CanonicalPath(ResolveValue(v, base)) = ResolveValue(v, base)
              /\ ResolveValue(v, base)
                   = CanonicalPath(IF v.abs THEN v.path ELSE JoinPath(CanonicalPath(base), v.path))
<1> DEFINE q == IF v.abs THEN v.path ELSE JoinPath(CanonicalPath(base), v.path)
           p == CanonicalPath(q)
<1>1. CleanPath(q)
  <2>1. CASE v.abs
    BY <2>1, ValueIs
  <2>2. CASE ~v.abs
    <3>1. CleanPath(CanonicalPath(base)) /\ v.path \in Seq(Names)
      BY CanonIs, ValueIs
    <3>2. QED BY <2>2, <3>1, JoinClean
  <2>3. QED BY <2>1, <2>2
<1>2. ResolveValue(v, base) = IF InWorkspace(p) THEN p ELSE Nowhere
  BY DEF ResolveValue
<1> HIDE DEF q
<1>3. CleanPath(p) /\ Direct(p) /\ CanonicalPath(p) = p
  BY <1>1, CanonIs
<1>4. CleanPath(Nowhere)
  BY NowhereClean
<1> HIDE DEF p
<1>5. QED BY <1>2, <1>3, <1>4 DEF p, q

(* A value that alias files hold as it was given, on either side.          *)
Verbatim(kind, v) ==
  \/ v.tag = "empty"
  \/ v.tag = "stdin" /\ ~v.weight
  \/ kind = "lb" /\ v.tag = "remote"

(* What the run side makes of a value that is left alone ...               *)
LEMMA RebasedSame ==
  ASSUME NEW kind, NEW v \in PathValues, NEW dir, Verbatim(kind, v)
  PROVE  rebaseAliasFilePath(kind, v, dir) = v
BY DEF Verbatim, rebaseAliasFilePath

(* ... when it is not left alone: an absolute path.                        *)
LEMMA RebasedIs ==
  ASSUME NEW kind, NEW v \in PathValues, NEW dir, ~Verbatim(kind, v), NEW w,
         w = rebaseAliasFilePath(kind, v, dir)
  PROVE  w.tag = "path" /\ w.abs /\ w.path = (IF v.abs THEN v.path ELSE JoinPath(dir, v.path))
<1>1. v \in [tag : STRING, abs : BOOLEAN, path : Seq(Names), weight : BOOLEAN]
  BY DEF PathValues
<1> DEFINE p == IF v.abs THEN v.path ELSE JoinPath(dir, v.path)
<1>2. w = [v EXCEPT !.tag = "path", !.abs = TRUE, !.path = p]
  BY DEF Verbatim, rebaseAliasFilePath
<1> HIDE DEF p
<1>3. w.tag = "path"
  BY <1>1, <1>2
<1>4. w.abs
  BY <1>1, <1>2
<1>5. w.path = p
  BY <1>1, <1>2
<1>6. QED BY <1>3, <1>4, <1>5 DEF p

(* A value that the create side leaves alone.                              *)
Unchanging(kind, v) == v.tag \in {"empty", "stdin"} \/ (kind = "lb" /\ v.tag = "remote")

(* What the create side makes of such a value ...                          *)
LEMMA RelativeSame ==
  ASSUME NEW kind, NEW v \in PathValues, NEW cwd, NEW dir, Unchanging(kind, v)
  PROVE  relativizeCreateValue(kind, v, cwd, dir) = v
BY DEF Unchanging, relativizeCreateValue

(* ... and of any other: a relative path, which is a value again.          *)
LEMMA RelativeIs ==
  ASSUME NEW kind, NEW v \in PathValues, NEW cwd, CleanPath(cwd), NEW dir, CleanPath(dir),
         ~Unchanging(kind, v), NEW w, w = relativizeCreateValue(kind, v, cwd, dir)
  PROVE  /\ w \in PathValues /\ w.tag = v.tag /\ ~w.abs
         /\ w.path = RelPath(CanonicalPath(dir), ResolveValue(v, cwd))
<1> DEFINE q == RelPath(CanonicalPath(dir), ResolveValue(v, cwd))
<1>1. v \in [tag : STRING, abs : BOOLEAN, path : Seq(Names), weight : BOOLEAN]
  BY DEF PathValues
<1>2. w = [v EXCEPT !.abs = FALSE, !.path = q]
  BY DEF Unchanging, relativizeCreateValue
<1>3. q \in Seq(Names)
  <2>1. CleanPath(CanonicalPath(dir)) /\ CleanPath(ResolveValue(v, cwd))
    BY CanonIs, ResolveIs
  <2>2. QED BY <2>1, RelIs DEF ClimbsTo
<1> HIDE DEF q
<1>4. w.tag = v.tag
  BY <1>1, <1>2
<1>5. ~w.abs
  BY <1>1, <1>2
<1>6. w.path = q
  BY <1>1, <1>2
<1>7. w \in [tag : STRING, abs : BOOLEAN, path : Seq(Names), weight : BOOLEAN]
  BY <1>1, <1>2, <1>3
<1>8. w \in PathValues
  BY <1>5, <1>7 DEF PathValues
<1>9. QED BY <1>4, <1>5, <1>6, <1>8 DEF q

(* A rebased path names the file it leads to, from wherever it is read.    *)
LEMMA RebasedNames ==
  ASSUME NEW kind, NEW w, w.tag = "path", w.abs, NEW cwd
  PROVE  ValueNames(kind, w, cwd)
           = IF kind = "pgbench" /\ w.path = DevStdin THEN DevStdin
             ELSE IF InWorkspace(CanonicalPath(w.path)) THEN CanonicalPath(w.path) ELSE Nowhere
<1>1. ResolveValue(w, cwd) = IF InWorkspace(CanonicalPath(w.path)) THEN CanonicalPath(w.path) ELSE Nowhere
  BY DEF ResolveValue
<1>2. IsStdin(kind, w) <=> kind = "pgbench" /\ w.path = DevStdin
  BY DEF IsStdin
<1>3. ~IsStdin(kind, w) => ~NamesNothing(kind, w)
  BY DEF NamesNothing
<1>4. QED BY <1>1, <1>2, <1>3 DEF ValueNames

(* Standard input is no file of the workspace, whatever it links to.       *)
LEMMA StdinOutside ==
  ASSUME NEW v \in PathValues, v.abs, v.path = DevStdin, NEW base, CleanPath(base)
  PROVE  ResolveValue(v, base) = Nowhere
<1>1. CleanPath(DevStdin)
  BY ValueIs
<1>2. CanonicalPath(CanonicalPath(DevStdin)) = CanonicalPath(DevStdin)
  BY <1>1, CanonIs
<1>3. ~InWorkspace(DevStdin)
  BY AliasPlaces
<1>4. ~InWorkspace(CanonicalPath(DevStdin))
  BY <1>2, <1>3 DEF InWorkspace
<1>5. QED BY <1>4 DEF ResolveValue

(* A value that the create side can make relative to the file.             *)
Relativizes(kind, v, cwd) == Unchanging(kind, v) \/ ResolveValue(v, cwd) # Nowhere

(* A value made relative on the create side and joined on the run side     *)
(* names what it named to its creator.                                     *)
LEMMA SameValue ==
  ASSUME NEW kind, NEW v \in PathValues, NEW cwd, CleanPath(cwd),
         NEW dir, CleanPath(dir), CanonicalPath(dir) = dir,
         ~(v.tag = "stdin" /\ v.weight),
         Relativizes(kind, v, cwd), NEW any
  PROVE  ValueNames(kind, rebaseAliasFilePath(kind, relativizeCreateValue(kind, v, cwd, dir), dir), any)
           = ValueNames(kind, v, cwd)
<1> DEFINE w == relativizeCreateValue(kind, v, cwd, dir)
           x == rebaseAliasFilePath(kind, w, dir)
           p == ResolveValue(v, cwd)
<1>1. CASE Unchanging(kind, v)
  <2>1. w = v
    BY <1>1, RelativeSame
  <2>2. Verbatim(kind, v)
    BY <1>1 DEF Verbatim, Unchanging
  <2>3. x = v
    BY <2>1, <2>2, RebasedSame
  <2>4. IsStdin(kind, v) \/ NamesNothing(kind, v)
    BY <1>1 DEF IsStdin, NamesNothing, Unchanging
  <2>5. ValueNames(kind, v, any) = ValueNames(kind, v, cwd)
    BY <2>4 DEF ValueNames
  <2>6. QED BY <2>3, <2>5
<1>2. CASE ~Unchanging(kind, v)
  <2>1. /\ w \in PathValues /\ w.tag = v.tag /\ ~w.abs
        /\ w.path = RelPath(CanonicalPath(dir), p)
    BY <1>2, RelativeIs
  <2>2. p # Nowhere
    BY <1>2 DEF Relativizes
  <2>3. CleanPath(p) /\ InWorkspace(p) /\ CanonicalPath(p) = p
    BY <2>2, ResolveIs
  <2> HIDE DEF w, p
  <2>4. ~Verbatim(kind, w)
    BY <1>2, <2>1 DEF Verbatim, Unchanging
  <2>5. x.tag = "path" /\ x.abs /\ x.path = JoinPath(dir, w.path)
    <3>1. w \in PathValues
      BY <2>1
    <3>2. x.tag = "path" /\ x.abs /\ x.path = IF w.abs THEN w.path ELSE JoinPath(dir, w.path)
      BY <2>4, <3>1, RebasedIs
    <3>3. QED BY <2>1, <3>2
  <2>6. x.path = p
    BY <2>1, <2>3, <2>5, JoinRel
  <2> HIDE DEF x
  <2>7. p # DevStdin
    BY <2>3, AliasPlaces
  <2>8. ValueNames(kind, x, any) = p
    BY <2>3, <2>5, <2>6, <2>7, RebasedNames
  <2>9. ~IsStdin(kind, v)
    <3>1. SUFFICES ASSUME v.abs, v.path = DevStdin PROVE FALSE
      BY <1>2 DEF IsStdin, Unchanging
    <3>2. QED BY <2>2, <3>1, StdinOutside DEF p
  <2>10. ~NamesNothing(kind, v)
    BY <1>2, <2>9 DEF NamesNothing, Unchanging
  <2>11. ValueNames(kind, v, cwd) = p
    BY <2>9, <2>10 DEF ValueNames, p
  <2>12. QED BY <2>8, <2>11 DEF x, w
<1>3. QED BY <1>1, <1>2

(* A value that `alias check` finds usable names, on the run side, a file  *)
(* that is there.                                                          *)
LEMMA UsableValue ==
  ASSUME NEW kind, NEW flag, NEW v \in PathValues, NEW dir, CleanPath(dir), CanonicalPath(dir) = dir,
         ~(v.tag = "stdin" /\ v.weight), ~Unusable(kind, flag, v, dir), NEW any, NEW f,
         f = ValueNames(kind, rebaseAliasFilePath(kind, v, dir), any), f \notin {Nowhere, DevStdin}
  PROVE  CanonicalPath(f) = f /\ PathExists(f)
<1> DEFINE x == rebaseAliasFilePath(kind, v, dir)
           p == ResolveValue(v, dir)
<1>1. ~Verbatim(kind, v)
  <2>1. SUFFICES ASSUME Verbatim(kind, v) PROVE FALSE
    OBVIOUS
  <2>2. x = v
    BY <2>1, RebasedSame
  <2>3. IsStdin(kind, v) \/ NamesNothing(kind, v)
    BY <2>1 DEF Verbatim, IsStdin, NamesNothing
  <2>4. f = ValueNames(kind, v, any)
    BY <2>2
  <2>5. f \in {Nowhere, DevStdin}
    BY <2>3, <2>4 DEF ValueNames
  <2>6. QED BY <2>5
<1>2. x.tag = "path" /\ x.abs /\ x.path = IF v.abs THEN v.path ELSE JoinPath(dir, v.path)
  BY <1>1, RebasedIs
<1>3. f = ValueNames(kind, x, any)
  OBVIOUS
<1> HIDE DEF x
<1>4. /\ ~(kind = "pgbench" /\ x.path = DevStdin)
      /\ f = CanonicalPath(x.path) /\ InWorkspace(CanonicalPath(x.path))
  BY <1>2, <1>3, RebasedNames
<1>5. ~NamesNothing(kind, v)
  <2>1. v.tag # "empty" /\ ~(kind = "lb" /\ v.tag = "remote") /\ v.tag # "stdin"
    BY <1>1 DEF Verbatim
  <2>2. ~IsStdin(kind, v)
    BY <1>2, <1>4, <2>1 DEF IsStdin
  <2>3. QED BY <2>1, <2>2 DEF NamesNothing
<1>6. p # Nowhere /\ PathExists(p)
  BY <1>5 DEF Unusable
<1>7. CanonicalPath(p) = p /\ p = CanonicalPath(IF v.abs THEN v.path ELSE JoinPath(CanonicalPath(dir), v.path))
  BY <1>6, ResolveIs
<1>8. f = p
  BY <1>2, <1>4, <1>7
<1>9. QED BY <1>6, <1>7, <1>8

(* An argument and its values.                                             *)
LEMMA ArgIs ==
  ASSUME NEW args \in Seq(AliasArgs), NEW i \in DOMAIN args
  PROVE  /\ args[i] \in [flag : STRING, values : Seq(PathValues)]
         /\ args[i].values \in Seq(PathValues)
         /\ \A j \in DOMAIN args[i].values : args[i].values[j] \in PathValues
<1>1. args[i] \in [flag : STRING, values : Seq(PathValues)]
  <2>1. args[i] \in AliasArgs
    OBVIOUS
  <2>2. QED BY <2>1 DEF AliasArgs
<1>2. args[i].values \in Seq(PathValues)
  BY <1>1
<1>3. QED BY <1>1, <1>2

(* The arguments A are args with their values made relative.               *)
Relativized(A, kind, args, cwd, dir) ==
  /\ A \in Seq(AliasArgs) /\ DOMAIN A = DOMAIN args
  /\ \A i \in DOMAIN args : A[i].flag = args[i].flag /\ DOMAIN A[i].values = DOMAIN args[i].values
  /\ \A i \in DOMAIN args : \A j \in DOMAIN args[i].values :
       args[i].flag \in FileFlags(kind) =>
         A[i].values[j] = relativizeCreateValue(kind, args[i].values[j], cwd, dir)

(* What `alias create` writes: the flags given, values made relative.      *)
LEMMA RelativeArgsIs ==
  ASSUME NEW kind, NEW args \in Seq(AliasArgs), NEW cwd, CleanPath(cwd), NEW dir, CleanPath(dir),
         NEW A, A = relativizeCreateArgs(kind, args, cwd, dir)
  PROVE  Relativized(A, kind, args, cwd, dir)
<1> DEFINE Made(i) == [j \in DOMAIN args[i].values |-> relativizeCreateValue(kind, args[i].values[j], cwd, dir)]
<1>1. A = [i \in DOMAIN args |-> IF args[i].flag \notin FileFlags(kind) THEN args[i]
                                 ELSE [args[i] EXCEPT !.values = Made(i)]]
  BY DEF relativizeCreateArgs, OnValues
<1>2. ASSUME NEW i \in DOMAIN args
      PROVE  /\ Made(i) \in Seq(PathValues) /\ DOMAIN Made(i) = DOMAIN args[i].values
             /\ \A j \in DOMAIN args[i].values :
                  Made(i)[j] = relativizeCreateValue(kind, args[i].values[j], cwd, dir)
  <2>1. args[i].values \in Seq(PathValues) /\ \A j \in DOMAIN args[i].values : args[i].values[j] \in PathValues
    BY ArgIs
  <2>2. ASSUME NEW j \in DOMAIN args[i].values
        PROVE  relativizeCreateValue(kind, args[i].values[j], cwd, dir) \in PathValues
    <3>1. PICK v \in PathValues : v = args[i].values[j]
      BY <2>1
    <3>2. CASE Unchanging(kind, v)
      BY <3>1, <3>2, RelativeSame
    <3>3. CASE ~Unchanging(kind, v)
      BY <3>1, <3>3, RelativeIs
    <3>4. QED BY <3>2, <3>3
  <2>3. PICK n \in Nat : DOMAIN args[i].values = 1..n
    BY <2>1
  <2>4. Made(i) \in [1..n -> PathValues]
    BY <2>2, <2>3
  <2>5. QED BY <2>3, <2>4
<1> HIDE DEF Made
<1>3. ASSUME NEW i \in DOMAIN args
      PROVE  /\ A[i] \in AliasArgs /\ A[i].flag = args[i].flag
             /\ DOMAIN A[i].values = DOMAIN args[i].values
             /\ args[i].flag \in FileFlags(kind) => A[i].values = Made(i)
  <2>1. args[i] \in [flag : STRING, values : Seq(PathValues)]
    BY ArgIs
  <2>2. CASE args[i].flag \notin FileFlags(kind)
    BY <1>1, <2>1, <2>2 DEF AliasArgs
  <2>3. CASE args[i].flag \in FileFlags(kind)
    <3>1. A[i] = [args[i] EXCEPT !.values = Made(i)]
      BY <1>1, <2>3
    <3>2. A[i] \in [flag : STRING, values : Seq(PathValues)] /\ A[i].flag = args[i].flag /\ A[i].values = Made(i)
      BY <1>2, <2>1, <3>1
    <3>3. QED BY <1>2, <3>2 DEF AliasArgs
  <2>4. QED BY <2>2, <2>3
<1>4. A \in Seq(AliasArgs) /\ DOMAIN A = DOMAIN args
  <2>1. PICK n \in Nat : DOMAIN args = 1..n
    OBVIOUS
  <2>2. A \in [1..n -> AliasArgs]
    BY <1>1, <1>3, <2>1
  <2>3. QED BY <2>1, <2>2
<1>5. ASSUME NEW i \in DOMAIN args, NEW j \in DOMAIN args[i].values, args[i].flag \in FileFlags(kind)
      PROVE  A[i].values[j] = relativizeCreateValue(kind, args[i].values[j], cwd, dir)
  BY <1>2, <1>3, <1>5
<1>6. QED BY <1>3, <1>4, <1>5 DEF Relativized

(* What a run of an alias reads.                                           *)
LEMMA RunFilesIs ==
  ASSUME NEW def, def.args \in Seq(AliasArgs), NEW p, NEW cwd
  PROVE  RunFiles(def, p, cwd)
           = [i \in DOMAIN def.args |->
                [j \in DOMAIN def.args[i].values |->
                   IF def.args[i].flag \in FileFlags(def.kind)
                   THEN ValueNames(def.kind, rebaseAliasFilePath(def.kind, def.args[i].values[j], Front(p)), cwd)
                   ELSE Nowhere]]
<1> DEFINE Made(i) == [j \in DOMAIN def.args[i].values |->
                         rebaseAliasFilePath(def.kind, def.args[i].values[j], Front(p))]
           B == [i \in DOMAIN def.args |-> IF def.args[i].flag \notin FileFlags(def.kind) THEN def.args[i]
                                           ELSE [def.args[i] EXCEPT !.values = Made(i)]]
<1>1. RunFiles(def, p, cwd) = NamedFiles(def.kind, B, cwd)
  BY DEF RunFiles, OnValues
<1>2. ASSUME NEW i \in DOMAIN def.args
      PROVE  /\ B[i].flag = def.args[i].flag /\ DOMAIN B[i].values = DOMAIN def.args[i].values
             /\ def.args[i].flag \in FileFlags(def.kind) => B[i].values = Made(i)
  <2>1. def.args[i] \in [flag : STRING, values : Seq(PathValues)]
    BY ArgIs
  <2> HIDE DEF Made
  <2>2. DOMAIN Made(i) = DOMAIN def.args[i].values
    BY DEF Made
  <2>3. QED BY <2>1, <2>2
<1>3. DOMAIN B = DOMAIN def.args
  OBVIOUS
<1> HIDE DEF B
<1>4. ASSUME NEW i \in DOMAIN def.args, NEW j \in DOMAIN def.args[i].values
      PROVE  (IF B[i].flag \in FileFlags(def.kind) THEN ValueNames(def.kind, B[i].values[j], cwd) ELSE Nowhere)
               = (IF def.args[i].flag \in FileFlags(def.kind)
                  THEN ValueNames(def.kind, rebaseAliasFilePath(def.kind, def.args[i].values[j], Front(p)), cwd)
                  ELSE Nowhere)
  BY <1>2
<1> DEFINE R(i) == [j \in DOMAIN def.args[i].values |->
                      IF def.args[i].flag \in FileFlags(def.kind)
                      THEN ValueNames(def.kind, rebaseAliasFilePath(def.kind, def.args[i].values[j], Front(p)), cwd)
                      ELSE Nowhere]
           Q(i) == [j \in DOMAIN B[i].values |->
                      IF B[i].flag \in FileFlags(def.kind) THEN ValueNames(def.kind, B[i].values[j], cwd)
                      ELSE Nowhere]
<1>5. ASSUME NEW i \in DOMAIN def.args PROVE Q(i) = R(i)
  BY <1>2, <1>4
<1>6. NamedFiles(def.kind, B, cwd) = [i \in DOMAIN B |-> Q(i)]
  BY DEF NamedFiles
<1> HIDE DEF Q, R
<1>7. NamedFiles(def.kind, B, cwd) = [i \in DOMAIN def.args |-> R(i)]
  BY <1>3, <1>5, <1>6
<1>8. QED BY <1>1, <1>7 DEF R

-----------------------------------------------------------------------------
(* AliasFiles: what the properties rest on.  A creator at work was asked   *)
(* for what it writes; a file it holds is empty until then; what lies on   *)
(* the disk lies where no link is met; and what was found goes on to hold. *)
Asked(c) ==
  LET r == creator[c].request
  IN  /\ r \in CreateRequests
      /\ Relativizable(r.kind, PayloadArgs(r), r.cwd)
      /\ creator[c].payload = CreatePayload(r, creator[c].target)

AskedInv ==
  \A c \in Creators : /\ CleanPath(creator[c].target)
                      /\ creator[c].step \notin {"idle", "refused"} => Asked(c)

WriteInv ==
  \A c \in Creators :
    /\ creator[c].step = "write" => aliasDisk[FileOf(c)] = AliasNode(NoDefinition)
    /\ creator[c].step = "undo" => aliasDisk[FileOf(c)].type = "broken"

ArgsGood(n) == n.type = "alias" => n.def.args \in Seq(AliasArgs)

DiskInv ==
  \A p \in DOMAIN aliasDisk : CleanPath(p) /\ Direct(p) /\ ArgsGood(aliasDisk[p])

RanAt(p) == /\ p \in DOMAIN aliasDisk
            /\ aliasDisk[p].type = "alias" /\ aliasDisk[p].def = look.ran /\ look.ran.args # <<>>

RanInv ==
  /\ look.step = "run" => \E t : look.found = {t}
  /\ look.step = "ran" => \A t \in look.found : RanAt(CanonicalPath(t.path))

(* A file that is there, or that its creator took back.                    *)
Accounted(f) ==
  /\ CanonicalPath(f) = f
  /\ \/ f \in DOMAIN aliasDisk
     \/ \E c \in Creators : creator[c].step = "refused" /\ FileOf(c) = f

RunAccounted(def, p, cwd) ==
  LET named == RunFiles(def, p, cwd)
  IN  \A i \in DOMAIN named : \A j \in DOMAIN named[i] :
        named[i][j] \notin {Nowhere, DevStdin} => Accounted(named[i][j])

CheckedInv ==
  look.step = "checked" =>
    \A v \in look.valid : Unlinked(v.path) /\ ~Weighted(v.def.args) =>
      RunAccounted(v.def, v.path, look.ask.cwd)

ListedAs(e, cwd) ==
  LET q == CanonicalPath(e.path)
  IN  /\ CleanPath(q) /\ Direct(q) /\ q # <<>> /\ InWorkspace(q) /\ Last(e.path) = Last(q)
      /\ e.class = classifyPath(q) /\ e.ref = invocationRef(q, cwd, e.class)

ListedInv ==
  look.step = "listed" =>
    look.ask \in Inspections /\ \A e \in look.found : ListedAs(e, look.ask.cwd)

LookTyped == DOMAIN look = {"step", "ask", "found", "valid", "ran"}

AliasIInv == /\ AliasInv /\ AskedInv /\ WriteInv /\ DiskInv
             /\ LookTyped /\ RanInv /\ CheckedInv /\ ListedInv

(* What a step of a creator may do to the disk and to the others.          *)
Effect(c) ==
  /\ look' = look /\ creator[c].step # "refused"
  /\ \A d \in Creators : d # c => creator'[d] = creator[d]
  /\ \A q \in DOMAIN aliasDisk :
       \/ q \in DOMAIN aliasDisk' /\ aliasDisk'[q] = aliasDisk[q]
       \/ q = FileOf(c) /\ creator[c].step = "write" /\ q \in DOMAIN aliasDisk'
       \/ q = FileOf(c) /\ creator[c].step = "undo" /\ creator'[c].step = "refused" /\ FileOf(c)' = q
  /\ \A q \in DOMAIN aliasDisk' :
       \/ q \in DOMAIN aliasDisk /\ aliasDisk'[q] = aliasDisk[q]
       \/ (q \in DOMAIN aliasDisk \/ (CleanPath(q) /\ Direct(q))) /\ ArgsGood(aliasDisk'[q])
  /\ creator'[c].step = "write" => aliasDisk'[FileOf(c)'] = AliasNode(NoDefinition)
  /\ creator'[c].step = "undo" => aliasDisk'[FileOf(c)'].type = "broken"

(* The request of a creator stays while it works.                          *)
LEMMA AskedMoves ==
  ASSUME AskedInv, CreatorTyped, NEW c \in Creators, NEW s, CreatorTo(c, s),
         creator[c].step \notin {"idle", "refused"}
  PROVE  AskedInv'
<1>1. /\ creator'[c] = [creator[c] EXCEPT !.step = s]
      /\ \A d \in Creators : d # c => creator'[d] = creator[d]
  BY DEF CreatorTyped, CreatorTo
<1>2. creator'[c] = [step |-> s, request |-> creator[c].request, target |-> creator[c].target,
                     payload |-> creator[c].payload]
  BY <1>1 DEF CreatorTyped
<1>3. ASSUME NEW d \in Creators
      PROVE  /\ CleanPath(creator'[d].target)
             /\ creator'[d].step \notin {"idle", "refused"} => Asked(d)'
  <2>1. CASE d = c
    <3>1. /\ creator'[c].target = creator[c].target /\ creator'[c].request = creator[c].request
          /\ creator'[c].payload = creator[c].payload
      BY <1>2
    <3>2. CleanPath(creator[c].target) /\ Asked(c)
      BY DEF AskedInv
    <3>3. Asked(c)'
      BY <3>1, <3>2 DEF Asked
    <3>4. QED BY <2>1, <3>1, <3>2, <3>3
  <2>2. CASE d # c
    <3>1. creator'[d] = creator[d]
      BY <1>1, <2>2
    <3>2. Asked(d) => Asked(d)'
      BY <3>1 DEF Asked
    <3>3. QED BY <3>1, <3>2 DEF AskedInv
  <2>3. QED BY <2>1, <2>2
<1>4. QED BY <1>3 DEF AskedInv

(* What is asked for is fit to be written.                                 *)
LEMMA AskedArgs ==
  ASSUME NEW c \in Creators, Asked(c), CleanPath(creator[c].target)
  PROVE  ArgsGood(AliasNode(creator[c].payload))
<1> DEFINE r == creator[c].request
           dir == Front(creator[c].target)
<1>1. r \in CreateRequests /\ creator[c].payload = CreatePayload(r, creator[c].target)
  BY DEF Asked
<1>2. CleanPath(r.cwd) /\ CleanPath(dir) /\ PayloadArgs(r) \in Seq(AliasArgs)
  BY <1>1, AliasCommands, FrontClean, PayloadIs
<1>3. creator[c].payload.args = relativizeCreateArgs(r.kind, PayloadArgs(r), r.cwd, dir)
  BY <1>1 DEF CreatePayload
<1> HIDE DEF r, dir
<1>4. creator[c].payload.args \in Seq(AliasArgs)
  <2>1. PICK args \in Seq(AliasArgs) : args = PayloadArgs(r)
    BY <1>2
  <2>2. PICK A : A = relativizeCreateArgs(r.kind, args, r.cwd, dir)
    OBVIOUS
  <2>3. A \in Seq(AliasArgs)
    <3>1. CleanPath(r.cwd) /\ CleanPath(dir)
      BY <1>2
    <3>2. QED BY <2>2, <3>1, RelativeArgsIs DEF Relativized
  <2>4. QED BY <1>3, <2>1, <2>2, <2>3
<1>5. AliasNode(creator[c].payload).def = creator[c].payload
  BY DEF AliasNode
<1>6. QED BY <1>4, <1>5 DEF ArgsGood

(* The last name of a path and the path without it.                        *)
LEMMA LastIs ==
  ASSUME NEW p \in Seq(Names), p # <<>>
  PROVE  /\ Len(p) \in Nat \ {0} /\ Last(p) = p[Len(p)] /\ Last(p) \in Names
         /\ Front(p) \in Seq(Names) /\ Len(Front(p)) = Len(p) - 1
         /\ \A i \in 1..(Len(p) - 1) : Front(p)[i] = p[i]
         /\ p = Append(Front(p), Last(p))
<1>1. Len(p) \in Nat \ {0} /\ Last(p) = p[Len(p)] /\ Last(p) \in Names
  BY DEF Last
<1>2. Len(p) # 0
  BY <1>1
<1>3. /\ Front(p) \in Seq(Names) /\ Len(Front(p)) = Len(p) - 1
      /\ \A i \in 1..(Len(p) - 1) : Front(p)[i] = p[i]
  BY <1>2, FrontIs DEF Front
<1> DEFINE q == Append(Front(p), Last(p))
<1>4. PICK k \in Nat : Len(p) = k + 1
  BY <1>1
<1>5. Front(p) \in Seq(Names) /\ Last(p) \in Names /\ Len(Front(p)) = k
  BY <1>1, <1>3, <1>4
<1>6. q \in Seq(Names) /\ Len(q) = k + 1 /\ q[k + 1] = Last(p) /\ \A i \in 1..k : q[i] = Front(p)[i]
  BY <1>5
<1> HIDE DEF q
<1>7. ASSUME NEW i \in 1..(k + 1) PROVE p[i] = q[i]
  <2>1. CASE i = k + 1
    BY <1>1, <1>4, <1>6, <2>1
  <2>2. CASE i \in 1..k
    <3>1. i \in 1..(Len(p) - 1)
      BY <1>4, <2>2
    <3>2. QED BY <1>3, <1>6, <2>2, <3>1
  <2>3. QED BY <1>4, <2>1, <2>2
<1>8. Len(p) = Len(q) /\ \A i \in 1..Len(p) : p[i] = q[i]
  BY <1>4, <1>6, <1>7
<1>9. p = q
  BY <1>6, <1>8, SameSeq
<1>10. QED BY <1>1, <1>3, <1>9 DEF q

(* One more at the end.                                                    *)
LEMMA AppendIs ==
  ASSUME NEW N, NEW s \in Seq(N), NEW x \in N
  PROVE  /\ Append(s, x) \in Seq(N) /\ Len(Append(s, x)) = Len(s) + 1
         /\ Append(s, x)[Len(s) + 1] = x /\ \A i \in 1..Len(s) : Append(s, x)[i] = s[i]
OBVIOUS

(* A name is a stem and a suffix.                                          *)
LEMMA NameIs ==
  ASSUME NEW n \in Names
  PROVE  /\ n = <<n[1], n[2]>>
         /\ \A x \in AliasSuffixes : <<n[1], x>> \in Names
<1> DEFINE S == STRING \cup {".."}
           T == AliasSuffixes \cup {"sql", "xml", "jar"}
<1>1. n \in S \X T
  BY DEF Names
<1>2. ASSUME NEW x \in T PROVE <<n[1], x>> \in S \X T
  <2> HIDE DEF S, T
  <2>1. QED BY <1>1
<1>3. n = <<n[1], n[2]>>
  <2> HIDE DEF S, T
  <2>1. QED BY <1>1
<1>4. QED BY <1>2, <1>3 DEF Names

(* A ref of no class has no suffix, so the file it names has a clean path. *)
LEMMA TargetClean ==
  ASSUME NEW r \in CreateRequests, classifyPath(r.ref) = ""
  PROVE  CleanPath(CreateTarget(r))
<1>1. CleanPath(r.cwd) /\ r.ref \in Seq(Names) /\ r.ref # <<>> /\ r.class \in {"prepare", "run"}
  BY AliasCommands
<1>2. Last(r.ref) \in Names /\ Front(r.ref) \in Seq(Names)
  BY <1>1, LastIs
<1>3. Last(r.ref)[2] = ""
  <2>1. Last(r.ref)[2] \notin {"prep", "PREP"} /\ Last(r.ref)[2] \notin {"run", "RUN"}
    BY DEF classifyPath
  <2>2. Last(r.ref)[2] \in AliasSuffixes
    BY AliasCommands
  <2>3. QED BY <2>1, <2>2 DEF AliasSuffixes
<1>4. AliasSuffix(r.class) \in AliasSuffixes
  BY DEF AliasSuffix, AliasSuffixes
<1> DEFINE n == <<Last(r.ref)[1], AliasSuffix(r.class)>>
<1>5. n \in Names
  BY <1>2, <1>4, NameIs
<1>6. WithSuffix(r.ref, r.class) = Append(Front(r.ref), n)
  BY <1>3 DEF WithSuffix
<1> HIDE DEF n
<1>7. WithSuffix(r.ref, r.class) \in Seq(Names)
  <2>1. PICK f \in Seq(Names) : f = Front(r.ref)
    BY <1>2
  <2>2. PICK m \in Names : m = n
    BY <1>5
  <2>3. Append(f, m) \in Seq(Names)
    BY AppendIs
  <2>4. QED BY <1>6, <2>1, <2>2, <2>3
<1>8. CleanPath(JoinPath(r.cwd, WithSuffix(r.ref, r.class)))
  BY <1>1, <1>7, JoinClean
<1>9. CleanPath(Nowhere)
  BY NowhereClean
<1>10. QED BY <1>8, <1>9 DEF CreateTarget, resolvePathWithinWorkspace

(* A request is taken or refused.                                          *)
LEMMA StartEffect ==
  ASSUME AliasIInv, NEW c \in Creators, StartCreate(c)
  PROVE  AskedInv' /\ Effect(c)
<1>1. creator[c].step = "idle" /\ aliasDisk' = aliasDisk /\ look' = look
  BY DEF StartCreate
<1>2. PICK r \in CreateRequests :
        creator' = [creator EXCEPT ![c] =
             IF CreateTarget(r) # Nowhere /\ ~PathExists(CreateTarget(r)) /\ CreateAccepted(r, CreateTarget(r))
             THEN [step |-> "mkdir", request |-> r, target |-> CreateTarget(r),
                   payload |-> CreatePayload(r, CreateTarget(r))]
             ELSE [IdleCreator EXCEPT !.step = "refused", !.request = r]]
  BY DEF StartCreate
<1>3. CreatorTyped
  BY DEF AliasIInv, AliasInv
<1>4. \A d \in Creators : d # c => creator'[d] = creator[d]
  BY <1>2, <1>3 DEF CreatorTyped
<1>5. /\ CleanPath(creator'[c].target) /\ creator'[c].step \in {"mkdir", "refused"}
      /\ creator'[c].step = "mkdir" => Asked(c)'
  <2>1. CASE CreateTarget(r) # Nowhere /\ ~PathExists(CreateTarget(r)) /\ CreateAccepted(r, CreateTarget(r))
    <3>1. creator'[c] = [step |-> "mkdir", request |-> r, target |-> CreateTarget(r),
                         payload |-> CreatePayload(r, CreateTarget(r))]
      BY <1>2, <1>3, <2>1 DEF CreatorTyped
    <3>2. /\ creator'[c].step = "mkdir" /\ creator'[c].request = r /\ creator'[c].target = CreateTarget(r)
          /\ creator'[c].payload = CreatePayload(r, CreateTarget(r))
      BY <3>1
    <3>3. classifyPath(r.ref) = "" /\ Relativizable(r.kind, PayloadArgs(r), r.cwd)
      BY <2>1 DEF CreateAccepted
    <3>4. CleanPath(CreateTarget(r))
      BY <3>3, TargetClean
    <3>5. Asked(c)'
      BY <3>2, <3>3 DEF Asked
    <3>6. QED BY <3>2, <3>4, <3>5
  <2>2. CASE ~(CreateTarget(r) # Nowhere /\ ~PathExists(CreateTarget(r)) /\ CreateAccepted(r, CreateTarget(r)))
    <3>1. creator'[c] = [IdleCreator EXCEPT !.step = "refused", !.request = r]
      BY <1>2, <1>3, <2>2 DEF CreatorTyped
    <3>2. creator'[c].step = "refused" /\ creator'[c].target = Nowhere
      BY <3>1 DEF IdleCreator
    <3>3. CleanPath(Nowhere)
      BY NowhereClean
    <3>4. QED BY <3>2, <3>3
  <2>3. QED BY <2>1, <2>2
<1>6. AskedInv'
  <2>1. ASSUME NEW d \in Creators
        PROVE  /\ CleanPath(creator'[d].target)
               /\ creator'[d].step \notin {"idle", "refused"} => Asked(d)'
    <3>1. CASE d = c
      BY <1>5, <3>1
    <3>2. CASE d # c
      <4>1. creator'[d] = creator[d]
        BY <1>4, <3>2
      <4>2. Asked(d) => Asked(d)'
        BY <4>1 DEF Asked
      <4>3. QED BY <4>1, <4>2 DEF AliasIInv, AskedInv
    <3>3. QED BY <3>1, <3>2
  <2>2. QED BY <2>1 DEF AskedInv
<1>7. Effect(c)
  BY <1>1, <1>4, <1>5 DEF Effect
<1>8. QED BY <1>6, <1>7

(* The directories above an alias are made where no link is met.           *)
LEMMA MakeDirEffect ==
  ASSUME AliasIInv, NEW c \in Creators, MakeAliasDir(c)
  PROVE  AskedInv' /\ Effect(c)
<1>1. creator[c].step = "mkdir" /\ look' = look
  BY DEF MakeAliasDir
<1>2. PICK s \in {"refused", "open"} : CreatorTo(c, s)
  <2>1. \E b : CreatorTo(c, IF b THEN "refused" ELSE "open")
    BY DEF MakeAliasDir
  <2>2. PICK b : CreatorTo(c, IF b THEN "refused" ELSE "open")
    BY <2>1
  <2>3. (IF b THEN "refused" ELSE "open") \in {"refused", "open"}
    OBVIOUS
  <2>4. QED BY <2>2, <2>3
<1>3. /\ creator'[c].step = s /\ \A d \in Creators : d # c => creator'[d] = creator[d]
  BY <1>2, CreatorMoves DEF AliasIInv, AliasInv
<1>4. AskedInv'
  BY <1>1, <1>2, AskedMoves DEF AliasIInv, AliasInv
<1> DEFINE dir == CanonicalPath(Front(creator[c].target))
           dirs == {SubSeq(dir, 1, n) : n \in 1..Len(dir)}
           fresh == dirs \ DOMAIN aliasDisk
           leaf(p) == IF p \in fresh THEN [type |-> "dir", def |-> NoDefinition] ELSE aliasDisk[p]
<1>5. aliasDisk' = aliasDisk \/ aliasDisk' = [p \in DOMAIN aliasDisk \cup fresh |-> leaf(p)]
  BY DEF MakeAliasDir
<1>6. \A p \in dirs : CleanPath(p) /\ Direct(p)
  <2>1. CleanPath(dir) /\ Direct(dir)
    <3>1. CleanPath(creator[c].target)
      BY DEF AliasIInv, AskedInv
    <3>2. QED BY <3>1, FrontClean, CanonIs
  <2> HIDE DEF dir
  <2>2. Len(dir) \in Nat
    BY <2>1, CleanIs
  <2>3. ASSUME NEW n \in 1..Len(dir) PROVE CleanPath(SubSeq(dir, 1, n)) /\ Direct(SubSeq(dir, 1, n))
    <3>1. n \in Nat /\ n <= Len(dir)
      BY <2>2
    <3>2. QED BY <2>1, <3>1, PartClean
  <2>4. QED BY <2>3
<1> HIDE DEF dirs
<1>7. /\ \A q \in DOMAIN aliasDisk : q \in DOMAIN aliasDisk' /\ aliasDisk'[q] = aliasDisk[q]
      /\ \A q \in DOMAIN aliasDisk' :
           \/ q \in DOMAIN aliasDisk /\ aliasDisk'[q] = aliasDisk[q]
           \/ CleanPath(q) /\ Direct(q) /\ ArgsGood(aliasDisk'[q])
  <2>1. CASE aliasDisk' = aliasDisk
    BY <2>1
  <2>2. CASE aliasDisk' = [p \in DOMAIN aliasDisk \cup fresh |-> leaf(p)]
    <3>1. \A q \in DOMAIN aliasDisk : q \in DOMAIN aliasDisk' /\ aliasDisk'[q] = aliasDisk[q]
      BY <2>2
    <3>2. ASSUME NEW q \in DOMAIN aliasDisk', q \notin DOMAIN aliasDisk
          PROVE  CleanPath(q) /\ Direct(q) /\ ArgsGood(aliasDisk'[q])
      <4>1. q \in fresh /\ aliasDisk'[q] = [type |-> "dir", def |-> NoDefinition]
        BY <2>2, <3>2
      <4>2. ArgsGood(aliasDisk'[q])
        BY <4>1 DEF ArgsGood
      <4>3. QED BY <1>6, <4>1, <4>2
    <3>3. QED BY <3>1, <3>2
  <2>3. QED BY <1>5, <2>1, <2>2
<1>8. Effect(c)
  BY <1>1, <1>3, <1>7 DEF Effect
<1>9. QED BY <1>4, <1>8

(* A file is created, written or broken.                                   *)
LEMMA WriterEffect ==
  ASSUME AliasIInv, NEW c \in Creators, NEW n, NEW s, CreatorTo(c, s), look' = look,
         aliasDisk' = OnDisk(FileOf(c), n), ArgsGood(n),
         \/ creator[c].step = "write" /\ s # "write"
         \/ creator[c].step = "open" /\ FileOf(c) \notin DOMAIN aliasDisk,
         s = "write" => n = AliasNode(NoDefinition), s = "undo" => n.type = "broken"
  PROVE  AskedInv' /\ Effect(c)
<1>1. /\ creator'[c].step = s /\ FileOf(c)' = FileOf(c)
      /\ \A d \in Creators : d # c => creator'[d] = creator[d]
  BY CreatorMoves DEF AliasIInv, AliasInv
<1>2. AskedInv'
  BY AskedMoves DEF AliasIInv, AliasInv
<1>3. CleanPath(FileOf(c)) /\ Direct(FileOf(c))
  BY CanonIs DEF AliasIInv, AskedInv, FileOf
<1>4. /\ DOMAIN aliasDisk' = DOMAIN aliasDisk \cup {FileOf(c)} /\ aliasDisk'[FileOf(c)] = n
      /\ \A q \in DOMAIN aliasDisk : q # FileOf(c) => aliasDisk'[q] = aliasDisk[q]
  BY DEF OnDisk
<1>5. ASSUME NEW q \in DOMAIN aliasDisk
      PROVE  \/ q \in DOMAIN aliasDisk' /\ aliasDisk'[q] = aliasDisk[q]
             \/ q = FileOf(c) /\ creator[c].step = "write" /\ q \in DOMAIN aliasDisk'
  BY <1>4
<1>6. ASSUME NEW q \in DOMAIN aliasDisk'
      PROVE  \/ q \in DOMAIN aliasDisk /\ aliasDisk'[q] = aliasDisk[q]
             \/ (q \in DOMAIN aliasDisk \/ (CleanPath(q) /\ Direct(q))) /\ ArgsGood(aliasDisk'[q])
  BY <1>3, <1>4
<1>7. creator[c].step # "refused"
  OBVIOUS
<1>8. QED BY <1>1, <1>2, <1>4, <1>5, <1>6, <1>7 DEF Effect

(* Nothing on the disk changes.                                            *)
LEMMA QuietEffect ==
  ASSUME AliasIInv, NEW c \in Creators, NEW s \in {"refused", "killed"}, CreatorTo(c, s),
         look' = look, aliasDisk' = aliasDisk, creator[c].step \notin {"idle", "refused"}
  PROVE  AskedInv' /\ Effect(c)
<1>1. creator'[c].step = s /\ \A d \in Creators : d # c => creator'[d] = creator[d]
  BY CreatorMoves DEF AliasIInv, AliasInv
<1>2. AskedInv'
  BY AskedMoves DEF AliasIInv, AliasInv
<1>3. QED BY <1>1, <1>2 DEF Effect

(* A file is taken back.                                                   *)
LEMMA RemoveEffect ==
  ASSUME AliasIInv, NEW c \in Creators, RemoveAlias(c)
  PROVE  AskedInv' /\ Effect(c)
<1>1. creator[c].step = "undo" /\ CreatorTo(c, "refused") /\ look' = look
  BY DEF RemoveAlias
<1>2. /\ creator'[c].step = "refused" /\ FileOf(c)' = FileOf(c)
      /\ \A d \in Creators : d # c => creator'[d] = creator[d]
  BY <1>1, CreatorMoves DEF AliasIInv, AliasInv
<1>3. AskedInv'
  BY <1>1, AskedMoves DEF AliasIInv, AliasInv
<1>4. /\ DOMAIN aliasDisk' = DOMAIN aliasDisk \ {FileOf(c)}
      /\ \A q \in DOMAIN aliasDisk' : aliasDisk'[q] = aliasDisk[q]
  BY DEF RemoveAlias, FileOf
<1>5. QED BY <1>1, <1>2, <1>3, <1>4 DEF Effect

(* Every step of a creator.                                                *)
LEMMA CreateEffect ==
  ASSUME AliasIInv, NEW c \in Creators, CreateStep(c)
  PROVE  AskedInv' /\ Effect(c)
<1>1. CASE StartCreate(c)
  BY <1>1, StartEffect
<1>2. CASE MakeAliasDir(c)
  BY <1>2, MakeDirEffect
<1>3. CASE OpenAlias(c)
  <2>1. creator[c].step = "open" /\ look' = look
    BY <1>3 DEF OpenAlias
  <2>2. CASE PathExists(creator[c].target)
    <3>1. CreatorTo(c, "refused") /\ aliasDisk' = aliasDisk
      BY <1>3, <2>2 DEF OpenAlias
    <3>2. QED BY <2>1, <3>1, QuietEffect
  <2>3. CASE ~PathExists(creator[c].target)
    <3>1. /\ CreatorTo(c, "write") /\ FileOf(c) \notin DOMAIN aliasDisk
          /\ aliasDisk' = OnDisk(FileOf(c), AliasNode(NoDefinition))
      BY <1>3, <2>3 DEF OpenAlias, FileOf, PathExists
    <3>2. ArgsGood(AliasNode(NoDefinition))
      <4>1. AliasNode(NoDefinition).def.args = <<>>
        BY DEF AliasNode, NoDefinition
      <4>2. <<>> \in Seq(AliasArgs)
        OBVIOUS
      <4>3. QED BY <4>1, <4>2 DEF ArgsGood
    <3>3. QED BY <2>1, <3>1, <3>2, WriterEffect
  <2>4. QED BY <2>2, <2>3
<1>4. CASE WriteAlias(c)
  <2>1. /\ creator[c].step = "write" /\ CreatorTo(c, "done") /\ look' = look
        /\ aliasDisk' = OnDisk(FileOf(c), AliasNode(creator[c].payload))
    BY <1>4 DEF WriteAlias, FileOf
  <2>2. CleanPath(creator[c].target) /\ Asked(c)
    BY <2>1 DEF AliasIInv, AskedInv
  <2>3. ArgsGood(AliasNode(creator[c].payload))
    BY <2>2, AskedArgs
  <2>4. QED BY <2>1, <2>3, WriterEffect
<1>5. CASE WriteAliasFails(c)
  <2> DEFINE n == [type |-> "broken", def |-> NoDefinition]
  <2>1. /\ creator[c].step = "write" /\ CreatorTo(c, "undo") /\ look' = look
        /\ aliasDisk' = OnDisk(FileOf(c), n)
    BY <1>5 DEF WriteAliasFails, FileOf
  <2>2. n.type = "broken" /\ ArgsGood(n)
    BY DEF ArgsGood
  <2> HIDE DEF n
  <2>3. QED BY <2>1, <2>2, WriterEffect
<1>6. CASE RemoveAlias(c)
  BY <1>6, RemoveEffect
<1>7. CASE KillCreator(c)
  <2>1. /\ CreatorTo(c, "killed") /\ aliasDisk' = aliasDisk /\ look' = look
        /\ creator[c].step \notin {"idle", "refused"}
    BY <1>7 DEF KillCreator
  <2>2. QED BY <2>1, QuietEffect
<1>8. QED BY <1>1, <1>2, <1>3, <1>4, <1>5, <1>6, <1>7 DEF CreateStep

(* What was found goes on to hold under any such step.                     *)
LEMMA EffectKeeps ==
  ASSUME AliasIInv, NEW c \in Creators, Effect(c)
  PROVE  WriteInv' /\ DiskInv' /\ LookTyped' /\ RanInv' /\ CheckedInv' /\ ListedInv'
<1>1. look' = look /\ creator[c].step # "refused" /\ \A d \in Creators : d # c => creator'[d] = creator[d]
  BY DEF Effect
<1>2. WriteInv'
  <2>1. ASSUME NEW d \in Creators, d # c, creator[d].step \in {"write", "undo"}
        PROVE  aliasDisk'[FileOf(d)] = aliasDisk[FileOf(d)]
    <3>1. FileOf(d) \in DOMAIN aliasDisk
      BY <2>1 DEF AliasIInv, AliasInv, HeldInv, Holding
    <3>2. ~(FileOf(d) = FileOf(c) /\ creator[c].step \in {"write", "undo"})
      BY <2>1 DEF AliasIInv, AliasInv, OwnInv, Holding
    <3>3. QED BY <3>1, <3>2 DEF Effect
  <2>2. ASSUME NEW d \in Creators
        PROVE  /\ creator'[d].step = "write" => aliasDisk'[FileOf(d)'] = AliasNode(NoDefinition)
               /\ creator'[d].step = "undo" => aliasDisk'[FileOf(d)'].type = "broken"
    <3>1. CASE d = c
      BY <3>1 DEF Effect
    <3>2. CASE d # c
      <4>1. creator'[d] = creator[d] /\ FileOf(d)' = FileOf(d)
        BY <1>1, <3>2 DEF FileOf
      <4>2. QED BY <2>1, <3>2, <4>1 DEF AliasIInv, WriteInv
    <3>3. QED BY <3>1, <3>2
  <2>3. QED BY <2>2 DEF WriteInv
<1>3. DiskInv'
  <2>1. ASSUME NEW q \in DOMAIN aliasDisk' PROVE CleanPath(q) /\ Direct(q) /\ ArgsGood(aliasDisk'[q])
    <3>1. CASE q \in DOMAIN aliasDisk /\ aliasDisk'[q] = aliasDisk[q]
      BY <3>1 DEF AliasIInv, DiskInv
    <3>2. CASE ~(q \in DOMAIN aliasDisk /\ aliasDisk'[q] = aliasDisk[q])
      <4>1. (q \in DOMAIN aliasDisk \/ (CleanPath(q) /\ Direct(q))) /\ ArgsGood(aliasDisk'[q])
        BY <3>2 DEF Effect
      <4>2. QED BY <4>1 DEF AliasIInv, DiskInv
    <3>3. QED BY <3>1, <3>2
  <2>2. QED BY <2>1 DEF DiskInv
<1>4. RanInv'
  <2>1. ASSUME NEW q, RanAt(q) PROVE RanAt(q)'
    <3>1. /\ q \in DOMAIN aliasDisk /\ aliasDisk[q].type = "alias" /\ aliasDisk[q].def = look.ran
          /\ look.ran.args # <<>>
      BY <2>1 DEF RanAt
    <3>2. ASSUME q = FileOf(c), creator[c].step = "write" PROVE FALSE
      <4>1. aliasDisk[q] = AliasNode(NoDefinition)
        BY <3>2 DEF AliasIInv, WriteInv
      <4>2. AliasNode(NoDefinition).def.args = <<>>
        BY DEF AliasNode, NoDefinition
      <4>3. QED BY <3>1, <4>1, <4>2
    <3>3. ASSUME q = FileOf(c), creator[c].step = "undo" PROVE FALSE
      <4>1. aliasDisk[q].type = "broken"
        BY <3>3 DEF AliasIInv, WriteInv
      <4>2. QED BY <3>1, <4>1
    <3>4. q \in DOMAIN aliasDisk' /\ aliasDisk'[q] = aliasDisk[q]
      BY <3>1, <3>2, <3>3 DEF Effect
    <3>5. QED BY <1>1, <3>1, <3>4 DEF RanAt
  <2>2. QED BY <1>1, <2>1 DEF AliasIInv, RanInv
<1>5. CheckedInv'
  <2>1. ASSUME NEW f, Accounted(f) PROVE Accounted(f)'
    <3>1. CASE f \in DOMAIN aliasDisk
      <4>1. f \in DOMAIN aliasDisk' \/ (creator'[c].step = "refused" /\ FileOf(c)' = f)
        BY <3>1 DEF Effect
      <4>2. QED BY <2>1, <4>1 DEF Accounted
    <3>2. CASE \E d \in Creators : creator[d].step = "refused" /\ FileOf(d) = f
      <4>1. PICK d \in Creators : creator[d].step = "refused" /\ FileOf(d) = f
        BY <3>2
      <4>2. creator'[d] = creator[d] /\ FileOf(d)' = FileOf(d)
        BY <1>1, <4>1 DEF FileOf
      <4>3. QED BY <2>1, <4>1, <4>2 DEF Accounted
    <3>3. QED BY <2>1, <3>1, <3>2 DEF Accounted
  <2>2. ASSUME NEW def, NEW p, NEW cwd, RunAccounted(def, p, cwd) PROVE RunAccounted(def, p, cwd)'
    BY <2>1, <2>2 DEF RunAccounted
  <2>3. QED BY <1>1, <2>2 DEF AliasIInv, CheckedInv
<1>6. ListedInv'
  BY <1>1 DEF AliasIInv, ListedInv
<1>7. LookTyped'
  BY <1>1 DEF AliasIInv, LookTyped
<1>8. QED BY <1>2, <1>3, <1>4, <1>5, <1>6, <1>7

(* What comes behind a prefix.                                             *)
LEMMA LastOfConcat ==
  ASSUME NEW s \in Seq(Names), NEW t \in Seq(Names), t # <<>>
  PROVE  s \o t \in Seq(Names) /\ s \o t # <<>> /\ Last(s \o t) = Last(t)
<1>1. Len(s) \in Nat /\ Len(t) \in Nat \ {0}
  OBVIOUS
<1> DEFINE c == s \o t
<1>2. c \in Seq(Names) /\ Len(c) = Len(s) + Len(t) /\ \A i \in 1..Len(t) : c[Len(s) + i] = t[i]
  BY ConcatIs
<1> HIDE DEF c
<1>3. c[Len(c)] = t[Len(t)]
  BY <1>1, <1>2
<1>4. Len(c) # 0
  BY <1>1, <1>2
<1>5. c # <<>>
  BY <1>4
<1>6. QED BY <1>2, <1>3, <1>5 DEF Last, c

(* A path below another is that one and a rest with the same last name.    *)
LEMMA PrefixSplit ==
  ASSUME NEW k \in Seq(Names), NEW q \in Seq(Names), IsPrefix(k, q), k # q,
         NEW rest, rest = SubSeq(q, Len(k) + 1, Len(q))
  PROVE  rest \in Seq(Names) /\ rest # <<>> /\ k \o rest = q /\ Last(rest) = Last(q)
<1>1. PICK n \in Nat : n = Len(k)
  OBVIOUS
<1>2. PICK m \in Nat : m = Len(q)
  OBVIOUS
<1>3. n <= m /\ \A i \in 1..n : k[i] = q[i]
  BY <1>1, <1>2, PrefixIs
<1>4. n # m
  BY <1>1, <1>2, <1>3, SameSeq
<1>5. PICK h \in Nat \ {0} : m = n + h
  BY <1>3, <1>4
<1>6. rest \in Seq(Names) /\ Len(rest) = h /\ \A i \in 1..h : rest[i] = q[n + i]
  <2>1. rest = SubSeq(q, n + 1, Len(q))
    BY <1>1
  <2>2. n <= Len(q) /\ Len(q) - n = h
    BY <1>2, <1>5
  <2> DEFINE p == SubSeq(q, n + 1, Len(q))
  <2>3. p \in Seq(Names) /\ Len(p) = Len(q) - n /\ \A i \in 1..(Len(q) - n) : p[i] = q[n + i]
    BY <2>2, PartIs
  <2> HIDE DEF p
  <2>4. p \in Seq(Names) /\ Len(p) = h /\ \A i \in 1..h : p[i] = q[n + i]
    BY <2>2, <2>3
  <2>5. QED BY <2>1, <2>4 DEF p
<1>7. rest # <<>>
  BY <1>6
<1> DEFINE c == k \o rest
<1>8. rest \in Seq(Names)
  BY <1>6
<1>9. /\ c \in Seq(Names) /\ Len(c) = Len(k) + Len(rest) /\ \A i \in 1..Len(k) : c[i] = k[i]
      /\ \A i \in 1..Len(rest) : c[Len(k) + i] = rest[i]
  BY <1>8, ConcatIs
<1> HIDE DEF c
<1>10. Len(c) = m
  BY <1>1, <1>5, <1>6, <1>9
<1>11. ASSUME NEW i \in 1..m PROVE c[i] = q[i]
  <2>1. CASE i \in 1..n
    BY <1>1, <1>3, <1>9, <2>1
  <2>2. CASE i \notin 1..n
    <3>1. PICK j \in 1..h : i = n + j
      BY <1>5, <2>2
    <3>2. QED BY <1>1, <1>6, <1>9, <3>1
  <2>3. QED BY <2>1, <2>2
<1>12. c = q
  BY <1>2, <1>9, <1>10, <1>11, SameSeq
<1>13. Last(c) = Last(rest)
  BY <1>7, <1>8, LastOfConcat DEF c
<1>14. QED BY <1>7, <1>8, <1>12, <1>13 DEF c

(* Where a listing starts.                                                 *)
LEMMA ScanRootIs ==
  ASSUME NEW a \in Inspections, ScanRoot(a) # Nowhere
  PROVE  CleanPath(ScanRoot(a)) /\ InWorkspace(ScanRoot(a))
<1>1. CleanPath(a.cwd) /\ a.path \in Seq(Names) /\ CleanPath(AliasRoot)
  BY AliasCommands, AliasPlaces
<1>2. CASE a.from = "workspace"
  <2>1. CanonicalPath(AliasRoot) \in Seq(Names)
    BY <1>1, CanonIs, CleanIs
  <2>2. InWorkspace(AliasRoot)
    BY <2>1, PrefixIs DEF InWorkspace
  <2>3. ScanRoot(a) = AliasRoot
    BY <1>2 DEF ScanRoot
  <2>4. QED BY <1>1, <2>2, <2>3
<1>3. CASE a.from = "cwd"
  <2>1. ScanRoot(a) = a.cwd /\ InWorkspace(a.cwd)
    BY <1>3 DEF ScanRoot
  <2>2. QED BY <1>1, <2>1
<1>4. CASE a.from \notin {"workspace", "cwd"}
  <2>1. ScanRoot(a) = JoinPath(a.cwd, a.path) /\ InWorkspace(JoinPath(a.cwd, a.path))
    BY <1>4 DEF ScanRoot
  <2>2. QED BY <1>1, <2>1, JoinClean
<1>5. QED BY <1>2, <1>3, <1>4

(* A prefix of a prefix.                                                   *)
LEMMA PrefixTrans ==
  ASSUME NEW s \in Seq(Names), NEW t \in Seq(Names), NEW u \in Seq(Names),
         IsPrefix(s, t), IsPrefix(t, u)
  PROVE  IsPrefix(s, u)
<1>1. Len(s) <= Len(t) /\ \A i \in 1..Len(s) : s[i] = t[i]
  BY PrefixIs
<1>2. Len(t) <= Len(u) /\ \A i \in 1..Len(t) : t[i] = u[i]
  BY PrefixIs
<1>3. Len(s) \in Nat /\ Len(t) \in Nat /\ Len(u) \in Nat
  OBVIOUS
<1>4. Len(s) <= Len(u) /\ \A i \in 1..Len(s) : s[i] = u[i]
  BY <1>1, <1>2, <1>3
<1>5. QED BY <1>4, PrefixIs

(* What a listing says of a file.                                          *)
LEMMA ScannedIs ==
  ASSUME DiskInv, NEW a \in Inspections, ScanRoot(a) # Nowhere, NEW e \in Scanned(a)
  PROVE  ListedAs(e, a.cwd)
<1> DEFINE root == ScanRoot(a)
           k == CanonicalPath(root)
           Rest(q) == SubSeq(q, Len(k) + 1, Len(q))
<1>1. PICK q \in DOMAIN aliasDisk :
        /\ IsPrefix(k, q) /\ k # q
        /\ e = [class |-> classifyPath(q), path |-> root \o Rest(q),
                ref |-> invocationRef(q, a.cwd, classifyPath(q)),
                status |-> IF aliasDisk[q].type = "alias" THEN "ok" ELSE "invalid",
                kind |-> aliasDisk[q].def.kind]
  BY DEF Scanned, IsStrictPrefix
<1>2. CleanPath(root) /\ InWorkspace(root)
  BY ScanRootIs
<1>3. CleanPath(q) /\ Direct(q) /\ CanonicalPath(q) = q /\ q \in Seq(Names)
  BY DirectCanon, CleanIs DEF DiskInv
<1>4. k \in Seq(Names) /\ CleanPath(k) /\ root \in Seq(Names)
  BY <1>2, CanonIs, CleanIs
<1>5. PICK rest : rest = Rest(q)
  OBVIOUS
<1>6. IsPrefix(CanonicalPath(AliasRoot), k)
  BY <1>2 DEF InWorkspace
<1>7. e.class = classifyPath(q) /\ e.path = root \o rest /\ e.ref = invocationRef(q, a.cwd, e.class)
  BY <1>1, <1>5
<1> HIDE DEF root
<1>8. rest \in Seq(Names) /\ rest # <<>> /\ k \o rest = q /\ Last(rest) = Last(q)
  <2>1. rest = SubSeq(q, Len(k) + 1, Len(q)) /\ k \in Seq(Names) /\ q \in Seq(Names) /\ IsPrefix(k, q) /\ k # q
    BY <1>1, <1>3, <1>4, <1>5
  <2> HIDE DEF k
  <2>2. QED BY <2>1, PrefixSplit
<1>9. CanonicalPath(e.path) = q
  <2>1. Direct(CanonicalPath(root) \o rest) /\ rest \in Seq(Names)
    BY <1>3, <1>8
  <2>2. CanonicalPath(root \o rest) = CanonicalPath(root) \o rest
    BY <1>2, <2>1, CanonUnder
  <2>3. QED BY <1>7, <1>8, <2>2
<1>10. Last(e.path) = Last(q)
  BY <1>4, <1>7, <1>8, LastOfConcat
<1>11. q # <<>>
  BY <1>4, <1>8, LastOfConcat
<1>12. InWorkspace(q)
  <2>1. CanonicalPath(AliasRoot) \in Seq(Names)
    BY AliasPlaces, CanonIs, CleanIs
  <2>2. IsPrefix(CanonicalPath(AliasRoot), q)
    <3> HIDE DEF k
    <3>1. IsPrefix(k, q)
      BY <1>1 DEF k
    <3>2. QED BY <1>3, <1>4, <1>6, <2>1, <3>1, PrefixTrans
  <2>3. QED BY <1>3, <2>2 DEF InWorkspace
<1>13. QED BY <1>3, <1>7, <1>9, <1>10, <1>11, <1>12 DEF ListedAs

(* Listing, or naming a file by its ref.                                   *)
LEMMA FindKeeps ==
  ASSUME AliasIInv, FindAliases
  PROVE  LookTyped' /\ RanInv' /\ CheckedInv' /\ ListedInv'
<1>0. DOMAIN look = {"step", "ask", "found", "valid", "ran"}
  BY DEF AliasIInv, LookTyped
<1>1. PICK a \in Inspections :
        IF a.op = "ls" \/ (a.op = "check" /\ a.ref = <<>>)
        THEN /\ ScanRoot(a) = Nowhere \/ PathExists(ScanRoot(a))
             /\ look' = [look EXCEPT
                  !.ask = a,
                  !.step = IF ScanRoot(a) = Nowhere THEN "refused"
                           ELSE IF a.op = "ls" THEN "listed" ELSE "check",
                  !.found = IF ScanRoot(a) = Nowhere THEN {} ELSE Scanned(a)]
        ELSE LET t == ResolveTarget(a.cwd, a.ref, a.exact, a.class)
             IN  look' = [look EXCEPT
                   !.ask = a,
                   !.step = IF t = NoTarget THEN "refused" ELSE a.op,
                   !.found = IF t = NoTarget THEN {}
                             ELSE {[class |-> t.class, path |-> t.path,
                                    ref |-> a.ref, status |-> "ok", kind |-> ""]}]
  BY DEF FindAliases
<1>2. a.op \in {"ls", "check", "run"}
  BY AliasCommands
<1>3. PICK s, f : look' = [look EXCEPT !.ask = a, !.step = s, !.found = f]
  <2>1. CASE a.op = "ls" \/ (a.op = "check" /\ a.ref = <<>>)
    BY <1>1, <2>1
  <2>2. CASE ~(a.op = "ls" \/ (a.op = "check" /\ a.ref = <<>>))
    BY <1>1, <2>2
  <2>3. QED BY <2>1, <2>2
<1>4. DOMAIN look' = DOMAIN look
  BY <1>3
<1>5. LookTyped'
  BY <1>0, <1>4 DEF LookTyped
<1>6. /\ look'.ask = a
      /\ \/ look'.step \in {"refused", "check"}
         \/ look'.step = "listed" /\ ScanRoot(a) # Nowhere /\ look'.found = Scanned(a)
         \/ look'.step = "run" /\ \E t : look'.found = {t}
  <2>1. CASE a.op = "ls" \/ (a.op = "check" /\ a.ref = <<>>)
    <3>1. look' = [look EXCEPT
                  !.ask = a,
                  !.step = IF ScanRoot(a) = Nowhere THEN "refused"
                           ELSE IF a.op = "ls" THEN "listed" ELSE "check",
                  !.found = IF ScanRoot(a) = Nowhere THEN {} ELSE Scanned(a)]
      BY <1>1, <2>1
    <3>2. /\ look'.ask = a
          /\ look'.step = IF ScanRoot(a) = Nowhere THEN "refused"
                          ELSE IF a.op = "ls" THEN "listed" ELSE "check"
          /\ look'.found = IF ScanRoot(a) = Nowhere THEN {} ELSE Scanned(a)
      BY <1>0, <3>1
    <3>3. QED BY <3>2
  <2>2. CASE ~(a.op = "ls" \/ (a.op = "check" /\ a.ref = <<>>))
    <3>1. PICK t : look' = [look EXCEPT
                   !.ask = a,
                   !.step = IF t = NoTarget THEN "refused" ELSE a.op,
                   !.found = IF t = NoTarget THEN {}
                             ELSE {[class |-> t.class, path |-> t.path,
                                    ref |-> a.ref, status |-> "ok", kind |-> ""]}]
      BY <1>1, <2>2
    <3>2. /\ look'.ask = a
          /\ look'.step = IF t = NoTarget THEN "refused" ELSE a.op
          /\ look'.found = IF t = NoTarget THEN {}
                             ELSE {[class |-> t.class, path |-> t.path,
                                    ref |-> a.ref, status |-> "ok", kind |-> ""]}
      BY <1>0, <3>1
    <3>3. QED BY <1>2, <2>2, <3>2
  <2>3. QED BY <2>1, <2>2
<1>7. RanInv' /\ CheckedInv'
  BY <1>6 DEF RanInv, CheckedInv
<1>8. ListedInv'
  <2>1. ASSUME look'.step = "listed" PROVE \A e \in look'.found : ListedAs(e, a.cwd)
    <3>1. ScanRoot(a) # Nowhere /\ look'.found = Scanned(a)
      BY <1>6, <2>1
    <3>2. QED BY <3>1, ScannedIs DEF AliasIInv
  <2>2. QED BY <1>6, <2>1 DEF ListedInv
<1>9. QED BY <1>5, <1>7, <1>8

(* A file that passes the check runs, from the directory it lies in.       *)
LEMMA CheckKeeps ==
  ASSUME AliasIInv, CheckAliases
  PROVE  LookTyped' /\ RanInv' /\ CheckedInv' /\ ListedInv'
<1>0. DOMAIN look = {"step", "ask", "found", "valid", "ran"}
  BY DEF AliasIInv, LookTyped
<1> DEFINE V == {[path |-> t.path, def |-> NodeAt(t.path).def] : t \in {t \in look.found : CheckTarget(t)}}
<1>1. look' = [look EXCEPT !.step = "checked", !.valid = V] /\ UNCHANGED <<aliasDisk, creator>>
  BY DEF CheckAliases
<1> HIDE DEF V
<1>2. DOMAIN look' = DOMAIN look /\ look'.step = "checked" /\ look'.valid = V /\ look'.ask = look.ask
  BY <1>0, <1>1
<1>3. LookTyped' /\ RanInv' /\ ListedInv'
  BY <1>0, <1>2 DEF LookTyped, RanInv, ListedInv
<1>4. ASSUME NEW v \in V, Unlinked(v.path), ~Weighted(v.def.args), NEW cwd
      PROVE  RunAccounted(v.def, v.path, cwd)
  <2>1. PICK t \in look.found : CheckTarget(t) /\ v = [path |-> t.path, def |-> NodeAt(t.path).def]
    BY <1>4 DEF V
  <2>2. v.path = t.path /\ v.def = NodeAt(t.path).def
    BY <2>1
  <2>3. /\ CanonicalPath(v.path) \in DOMAIN aliasDisk /\ aliasDisk[CanonicalPath(v.path)].type = "alias"
        /\ ArgsValid(v.def.kind, v.def.args, Front(v.path))
    BY <2>1, <2>2 DEF CheckTarget, LoadTarget, IsPlain, PathExists, NodeAt
  <2>4. v.path \in DOMAIN aliasDisk /\ v.def = aliasDisk[v.path] .def /\ aliasDisk[v.path].type = "alias"
    BY <1>4, <2>2, <2>3 DEF Unlinked, NodeAt
  <2>5. CleanPath(v.path) /\ v.def.args \in Seq(AliasArgs)
    BY <2>4 DEF AliasIInv, DiskInv, ArgsGood
  <2> DEFINE def == v.def
             dir == Front(v.path)
             named == RunFiles(def, v.path, cwd)
  <2>6. CleanPath(dir) /\ CanonicalPath(dir) = dir
    BY <1>4, <2>5, UnlinkedFront, FrontClean
  <2> HIDE DEF def
  <2>7. named = [i \in DOMAIN def.args |->
                   [j \in DOMAIN def.args[i].values |->
                      IF def.args[i].flag \in FileFlags(def.kind)
                      THEN ValueNames(def.kind, rebaseAliasFilePath(def.kind, def.args[i].values[j], dir), cwd)
                      ELSE Nowhere]]
    <3>1. def.args \in Seq(AliasArgs)
      BY <2>5 DEF def
    <3>2. QED BY <3>1, RunFilesIs
  <2> HIDE DEF named, dir
  <2>8. ASSUME NEW i \in DOMAIN named, NEW j \in DOMAIN named[i], named[i][j] \notin {Nowhere, DevStdin}
        PROVE  Accounted(named[i][j])
    <3>1. i \in DOMAIN def.args /\ j \in DOMAIN def.args[i].values
      BY <2>7
    <3>2. PICK w : w = def.args[i].values[j]
      OBVIOUS
    <3>3. w \in PathValues
      BY <2>5, <3>1, <3>2, ArgIs DEF def
    <3>4. /\ def.args[i].flag \in FileFlags(def.kind)
          /\ named[i][j] = ValueNames(def.kind, rebaseAliasFilePath(def.kind, w, dir), cwd)
      BY <2>7, <2>8, <3>1, <3>2
    <3>5. ~(w.tag = "stdin" /\ w.weight)
      BY <1>4, <3>1, <3>2 DEF Weighted, def
    <3>6. ~Unusable(def.kind, def.args[i].flag, w, dir)
      BY <2>3, <3>1, <3>2, <3>4 DEF ArgsValid, def, dir
    <3>7. CanonicalPath(named[i][j]) = named[i][j] /\ PathExists(named[i][j])
      BY <2>6, <2>8, <3>3, <3>4, <3>5, <3>6, UsableValue
    <3>8. QED BY <3>7 DEF Accounted, PathExists
  <2>9. QED BY <2>8 DEF RunAccounted, named, def
<1>5. CheckedInv'
  <2>1. ASSUME NEW def, NEW p, NEW cwd, RunAccounted(def, p, cwd) PROVE RunAccounted(def, p, cwd)'
    BY <1>1, <2>1 DEF RunAccounted, Accounted, FileOf
  <2>2. QED BY <1>2, <1>4, <2>1 DEF CheckedInv
<1>6. QED BY <1>3, <1>5

(* A file that loads is what the run goes on with.                         *)
LEMMA LoadKeeps ==
  ASSUME AliasIInv, LoadAliasFile
  PROVE  LookTyped' /\ RanInv' /\ CheckedInv' /\ ListedInv'
<1>0. DOMAIN look = {"step", "ask", "found", "valid", "ran"}
  BY DEF AliasIInv, LookTyped
<1>1. look.step = "run" /\ UNCHANGED <<aliasDisk, creator>>
  BY DEF LoadAliasFile
<1>2. PICK t \in look.found :
        look' = IF LoadTarget(t.path, t.class)
                THEN [look EXCEPT !.step = "ran", !.ran = NodeAt(t.path).def]
                ELSE [look EXCEPT !.step = "refused"]
  BY DEF LoadAliasFile
<1>3. look.found = {t}
  BY <1>1 DEF AliasIInv, RanInv
<1>4. CASE LoadTarget(t.path, t.class)
  <2>1. look' = [look EXCEPT !.step = "ran", !.ran = NodeAt(t.path).def]
    BY <1>2, <1>4
  <2>2. /\ DOMAIN look' = DOMAIN look /\ look'.step = "ran" /\ look'.found = look.found
        /\ look'.ran = NodeAt(t.path).def
    BY <1>0, <2>1
  <2>3. /\ CanonicalPath(t.path) \in DOMAIN aliasDisk /\ aliasDisk[CanonicalPath(t.path)].type = "alias"
        /\ NodeAt(t.path).def.args # <<>> /\ NodeAt(t.path).def = aliasDisk[CanonicalPath(t.path)].def
    BY <1>4 DEF LoadTarget, IsPlain, PathExists, NodeAt
  <2>4. RanAt(CanonicalPath(t.path))'
    BY <1>1, <2>2, <2>3 DEF RanAt
  <2>5. RanInv'
    BY <1>3, <2>2, <2>4 DEF RanInv
  <2>6. QED BY <1>0, <2>2, <2>5 DEF LookTyped, CheckedInv, ListedInv
<1>5. CASE ~LoadTarget(t.path, t.class)
  <2>1. look' = [look EXCEPT !.step = "refused"]
    BY <1>2, <1>5
  <2>2. DOMAIN look' = DOMAIN look /\ look'.step = "refused"
    BY <1>0, <2>1
  <2>3. QED BY <1>0, <2>2 DEF LookTyped, RanInv, CheckedInv, ListedInv
<1>6. QED BY <1>4, <1>5

(* The whole invariant, step by step.                                      *)
LEMMA AliasIInvInit == ASSUME AliasInit PROVE AliasIInv
<1>1. /\ aliasDisk = AliasTree /\ look = NoLook /\ \A c \in Creators : creator[c] = IdleCreator
  BY DEF AliasInit
<1>2. AliasInv
  BY AliasInvInit
<1>3. AskedInv /\ WriteInv
  <2>1. \A c \in Creators : creator[c].step = "idle" /\ creator[c].target = Nowhere
    BY <1>1 DEF IdleCreator
  <2>2. QED BY <2>1, NowhereClean DEF AskedInv, WriteInv
<1>4. DiskInv
  <2>1. ASSUME NEW p \in DOMAIN aliasDisk PROVE CleanPath(p) /\ Direct(p) /\ ArgsGood(aliasDisk[p])
    <3>1. CleanPath(p) /\ CanonicalPath(p) = p
      BY <1>1, AliasPlaces
    <3>2. Direct(p)
      BY <3>1, UnlinkedDirect DEF Unlinked
    <3>3. ArgsGood(aliasDisk[p])
      BY <1>1, AliasCommands DEF ArgsGood
    <3>4. QED BY <3>1, <3>2, <3>3
  <2>2. QED BY <2>1 DEF DiskInv
<1>5. look.step = "idle" /\ LookTyped
  BY <1>1 DEF NoLook, LookTyped
<1>6. RanInv /\ CheckedInv /\ ListedInv
  BY <1>5 DEF RanInv, CheckedInv, ListedInv
<1>7. QED BY <1>2, <1>3, <1>4, <1>5, <1>6 DEF AliasIInv

(* No step of a creator or of a reader breaks it.                          *)
LEMMA AliasIInvNext == ASSUME AliasIInv, [AliasNext]_aliasVars PROVE AliasIInv'
<1>1. AliasInv'
  BY AliasNextKeeps DEF AliasIInv
<1>2. CASE \E c \in Creators : CreateStep(c)
  <2>1. PICK c \in Creators : CreateStep(c)
    BY <1>2
  <2>2. AskedInv' /\ Effect(c)
    BY <2>1, CreateEffect
  <2>3. QED BY <1>1, <2>2, EffectKeeps DEF AliasIInv
<1>3. ASSUME UNCHANGED <<aliasDisk, creator>> PROVE AskedInv' /\ WriteInv' /\ DiskInv'
  BY <1>3 DEF AliasIInv, AskedInv, Asked, WriteInv, FileOf, DiskInv
<1>4. CASE FindAliases
  BY <1>1, <1>3, <1>4, FindKeeps DEF AliasIInv, FindAliases
<1>5. CASE CheckAliases
  BY <1>1, <1>3, <1>5, CheckKeeps DEF AliasIInv, CheckAliases
<1>6. CASE LoadAliasFile
  BY <1>1, <1>3, <1>6, LoadKeeps DEF AliasIInv, LoadAliasFile
<1>7. CASE LookAgain
  <2>1. look' = NoLook /\ UNCHANGED <<aliasDisk, creator>>
    BY <1>7 DEF LookAgain
  <2>2. look'.step = "idle" /\ LookTyped'
    BY <2>1 DEF NoLook, LookTyped
  <2>3. RanInv' /\ CheckedInv' /\ ListedInv'
    BY <2>2 DEF RanInv, CheckedInv, ListedInv
  <2>4. QED BY <1>1, <1>3, <2>1, <2>2, <2>3 DEF AliasIInv
<1>8. CASE UNCHANGED aliasVars
  <2>1. UNCHANGED <<aliasDisk, creator, look>>
    BY <1>8 DEF aliasVars
  <2>2. LookTyped' /\ RanInv' /\ ListedInv'
    BY <2>1 DEF AliasIInv, LookTyped, RanInv, RanAt, ListedInv
  <2>3. CheckedInv'
    <3>1. ASSUME NEW def, NEW p, NEW cwd, RunAccounted(def, p, cwd) PROVE RunAccounted(def, p, cwd)'
      BY <2>1, <3>1 DEF RunAccounted, Accounted, FileOf
    <3>2. QED BY <2>1, <3>1 DEF AliasIInv, CheckedInv
  <2>4. QED BY <1>1, <1>3, <2>1, <2>2, <2>3 DEF AliasIInv
<1>9. QED BY <1>2, <1>4, <1>5, <1>6, <1>7, <1>8 DEF AliasNext

-----------------------------------------------------------------------------
(* AliasFiles: the invariant says what the commands promise.               *)
(* The arguments A, read from a file in dir, name what args named in cwd.  *)
RowsAgree(A, kind, args, cwd, dir, any) ==
  /\ A \in Seq(AliasArgs) /\ DOMAIN A = DOMAIN args
  /\ \A i \in DOMAIN args : A[i].flag = args[i].flag /\ DOMAIN A[i].values = DOMAIN args[i].values
  /\ \A i \in DOMAIN args : \A j \in DOMAIN args[i].values :
       args[i].flag \in FileFlags(kind) =>
         ValueNames(kind, rebaseAliasFilePath(kind, A[i].values[j], dir), any)
           = ValueNames(kind, args[i].values[j], cwd)

(* Arguments made relative to a directory name, from there, the same files.*)
LEMMA SameRows ==
  ASSUME NEW kind, NEW args, args \in Seq(AliasArgs), NEW cwd, CleanPath(cwd),
         NEW dir, CleanPath(dir), CanonicalPath(dir) = dir,
         ~Weighted(args), Relativizable(kind, args, cwd),
         NEW A, A = relativizeCreateArgs(kind, args, cwd, dir), NEW any
  PROVE  RowsAgree(A, kind, args, cwd, dir, any)
<1>0. Relativized(A, kind, args, cwd, dir)
  BY RelativeArgsIs
<1>1. /\ A \in Seq(AliasArgs) /\ DOMAIN A = DOMAIN args
      /\ \A i \in DOMAIN args : A[i].flag = args[i].flag /\ DOMAIN A[i].values = DOMAIN args[i].values
      /\ \A i \in DOMAIN args : \A j \in DOMAIN args[i].values :
           args[i].flag \in FileFlags(kind) =>
             A[i].values[j] = relativizeCreateValue(kind, args[i].values[j], cwd, dir)
  BY <1>0 DEF Relativized
<1>2. ASSUME NEW i \in DOMAIN args, NEW j \in DOMAIN args[i].values, args[i].flag \in FileFlags(kind)
      PROVE  ValueNames(kind, rebaseAliasFilePath(kind, A[i].values[j], dir), any)
               = ValueNames(kind, args[i].values[j], cwd)
  <2>1. PICK v : v = args[i].values[j] /\ v \in PathValues
    BY ArgIs
  <2>2. A[i].values[j] = relativizeCreateValue(kind, v, cwd, dir)
    BY <1>1, <1>2, <2>1
  <2>3. ~(v.tag = "stdin" /\ v.weight)
    BY <2>1 DEF Weighted
  <2>4. Unchanging(kind, v) \/ ResolveValue(v, cwd) # Nowhere
    BY <1>2, <2>1 DEF Relativizable, Unchanging
  <2>5. ValueNames(kind, rebaseAliasFilePath(kind, relativizeCreateValue(kind, v, cwd, dir), dir), any)
          = ValueNames(kind, v, cwd)
    <3>1. v \in PathValues
      BY <2>1
    <3>2. Relativizes(kind, v, cwd)
      BY <2>4 DEF Relativizes
    <3>3. QED BY <2>3, <3>1, <3>2, SameValue
  <2>6. QED BY <2>1, <2>2, <2>5
<1>3. QED BY <1>1, <1>2 DEF RowsAgree

(* So a run of the alias reads what its creator named.                     *)
LEMMA SameNames ==
  ASSUME NEW kind, NEW args, args \in Seq(AliasArgs), NEW cwd, CleanPath(cwd),
         NEW p, CleanPath(Front(p)), CanonicalPath(Front(p)) = Front(p),
         ~Weighted(args), Relativizable(kind, args, cwd),
         NEW def, def.kind = kind, def.args = relativizeCreateArgs(kind, args, cwd, Front(p)), NEW any
  PROVE  RunFiles(def, p, any) = NamedFiles(kind, args, cwd)
<1>1. PICK A : A = def.args
  OBVIOUS
<1>2. /\ A \in Seq(AliasArgs) /\ DOMAIN A = DOMAIN args
      /\ \A i \in DOMAIN args : A[i].flag = args[i].flag /\ DOMAIN A[i].values = DOMAIN args[i].values
      /\ \A i \in DOMAIN args : \A j \in DOMAIN args[i].values :
           args[i].flag \in FileFlags(kind) =>
             ValueNames(kind, rebaseAliasFilePath(kind, A[i].values[j], Front(p)), any)
               = ValueNames(kind, args[i].values[j], cwd)
  <2>1. A = relativizeCreateArgs(kind, args, cwd, Front(p))
    BY <1>1
  <2>2. RowsAgree(A, kind, args, cwd, Front(p), any)
    BY <2>1, SameRows
  <2>3. QED BY <2>2 DEF RowsAgree
<1> DEFINE Ran(i) == [j \in DOMAIN A[i].values |->
                        IF A[i].flag \in FileFlags(kind)
                        THEN ValueNames(kind, rebaseAliasFilePath(kind, A[i].values[j], Front(p)), any)
                        ELSE Nowhere]
           Given(i) == [j \in DOMAIN args[i].values |->
                          IF args[i].flag \in FileFlags(kind)
                          THEN ValueNames(kind, args[i].values[j], cwd) ELSE Nowhere]
<1>3. RunFiles(def, p, any) = [i \in DOMAIN A |-> Ran(i)]
  <2>1. def.args \in Seq(AliasArgs)
    BY <1>1, <1>2
  <2>2. QED BY <1>1, <2>1, RunFilesIs
<1>4. NamedFiles(kind, args, cwd) = [i \in DOMAIN args |-> Given(i)]
  BY DEF NamedFiles
<1>5. ASSUME NEW i \in DOMAIN args PROVE Ran(i) = Given(i)
  BY <1>2
<1> HIDE DEF Ran, Given
<1>6. QED BY <1>2, <1>3, <1>4, <1>5

(* What is written is what was asked for.                                  *)
LEMMA MeansTheSame == ASSUME AliasIInv PROVE AliasMeansTheSame
<1>1. SUFFICES ASSUME NEW c \in Creators, look.step = "ran", creator[c].step = "done",
                      \E t \in look.found : t.path = creator[c].target /\ Unlinked(t.path),
                      ~Weighted(creator[c].request.args)
               PROVE  RunFiles(look.ran, creator[c].target, look.ask.cwd)
                        = NamedFiles(creator[c].request.kind, PayloadArgs(creator[c].request),
                                     creator[c].request.cwd)
  BY DEF AliasMeansTheSame
<1>2. PICK r, p, q : r = creator[c].request /\ p = creator[c].target /\ q = creator[c].payload
  OBVIOUS
<1>3. /\ CleanPath(p) /\ r \in CreateRequests /\ Relativizable(r.kind, PayloadArgs(r), r.cwd)
      /\ q = CreatePayload(r, p)
  BY <1>1, <1>2 DEF AliasIInv, AskedInv, Asked
<1>4. CanonicalPath(p) = p
  BY <1>1, <1>2 DEF Unlinked
<1>5. look.ran = q
  <2>1. aliasDisk[CanonicalPath(p)] = AliasNode(q)
    BY <1>1, <1>2 DEF AliasIInv, AliasInv, HeldInv, FileOf, Holding
  <2>2. RanAt(CanonicalPath(p))
    BY <1>1, <1>2 DEF AliasIInv, RanInv
  <2>3. aliasDisk[CanonicalPath(p)].def = look.ran
    BY <2>2 DEF RanAt
  <2>4. QED BY <2>1, <2>3 DEF AliasNode
<1>6. CleanPath(Front(p)) /\ CanonicalPath(Front(p)) = Front(p)
  BY <1>3, <1>4, FrontClean, UnlinkedFront DEF Unlinked
<1>7. PICK args : args = PayloadArgs(r)
  OBVIOUS
<1>8. args \in Seq(AliasArgs) /\ \A i \in DOMAIN args : \E j \in DOMAIN r.args : args[i] = r.args[j]
  BY <1>3, <1>7, PayloadIs
<1>9. ~Weighted(args)
  BY <1>1, <1>2, <1>8 DEF Weighted
<1>10. q.kind = r.kind /\ q.args = relativizeCreateArgs(r.kind, args, r.cwd, Front(p))
  BY <1>3, <1>7 DEF CreatePayload
<1>11. CleanPath(r.cwd)
  BY <1>3, AliasCommands
<1>12. RunFiles(q, p, look.ask.cwd) = NamedFiles(r.kind, args, r.cwd)
  BY <1>3, <1>6, <1>7, <1>8, <1>9, <1>10, <1>11, SameNames
<1>13. QED BY <1>2, <1>5, <1>7, <1>12

(* What was accounted for is there, or its creator took it back.           *)
LEMMA CheckedRuns == ASSUME AliasIInv PROVE CheckedAliasRuns
<1>1. SUFFICES ASSUME look.step = "checked", NEW v \in look.valid, Unlinked(v.path), ~Weighted(v.def.args)
               PROVE  \A i \in DOMAIN RunFiles(v.def, v.path, look.ask.cwd) :
                        \A j \in DOMAIN RunFiles(v.def, v.path, look.ask.cwd)[i] :
                          RunFiles(v.def, v.path, look.ask.cwd)[i][j] \notin {Nowhere, DevStdin} =>
                            \/ PathExists(RunFiles(v.def, v.path, look.ask.cwd)[i][j])
                            \/ \E c \in Creators :
                                 /\ creator[c].step = "refused"
                                 /\ CanonicalPath(creator[c].target) = RunFiles(v.def, v.path, look.ask.cwd)[i][j]
  BY DEF CheckedAliasRuns
<1>2. RunAccounted(v.def, v.path, look.ask.cwd)
  BY <1>1 DEF AliasIInv, CheckedInv
<1>3. ASSUME NEW f, Accounted(f)
      PROVE  PathExists(f) \/ \E c \in Creators : creator[c].step = "refused" /\ CanonicalPath(creator[c].target) = f
  BY <1>3 DEF Accounted, PathExists, FileOf
<1>4. QED BY <1>2, <1>3 DEF RunAccounted

(* A relative path ends as its target does, unless that lies above.        *)
LEMMA RelLast ==
  ASSUME NEW base, NEW q, CleanPath(base), CleanPath(q), q # <<>>, ~IsPrefix(q, base),
         NEW rel, rel = RelPath(base, q)
  PROVE  rel \in Seq(Names) /\ rel # <<>> /\ Last(rel) = Last(q)
<1>1. base \in Seq(Names) /\ q \in Seq(Names)
  BY CleanIs
<1>2. PICK b \in Nat : b = Len(base)
  BY <1>1
<1>3. PICK n \in Nat : n = Len(q)
  BY <1>1
<1>4. PICK m : ClimbsTo(rel, base, q, m)
  BY RelIs
<1>5. /\ m \in 0..b /\ m <= n /\ \A i \in 1..m : base[i] = q[i]
      /\ rel \in Seq(Names) /\ Len(rel) = (b - m) + (n - m)
      /\ \A i \in 1..(n - m) : rel[(b - m) + i] = q[m + i]
  BY <1>2, <1>3, <1>4 DEF ClimbsTo
<1>6. m < n
  <2>1. SUFFICES ASSUME m = n PROVE FALSE
    BY <1>5
  <2>2. Len(q) <= Len(base) /\ \A i \in 1..Len(q) : q[i] = base[i]
    BY <1>2, <1>3, <1>5, <2>1
  <2>3. QED BY <1>1, <2>2, PrefixIs
<1>7. PICK k \in Nat : n = m + (k + 1)
  <2>1. (n - m) - 1 \in Nat /\ n = m + (((n - m) - 1) + 1)
    BY <1>5, <1>6
  <2>2. QED BY <2>1
<1>8. Len(rel) = (b - m) + (k + 1) /\ rel[(b - m) + (k + 1)] = q[n] /\ Len(rel) # 0
  <2>1. k + 1 \in 1..(n - m) /\ n - m = k + 1 /\ b - m >= 0
    BY <1>5, <1>7
  <2>2. rel[(b - m) + (k + 1)] = q[m + (k + 1)]
    BY <1>5, <2>1
  <2>3. QED BY <1>5, <1>7, <2>1, <2>2
<1>9. Last(rel) = rel[Len(rel)] /\ Last(q) = q[Len(q)]
  BY DEF Last
<1>10. QED BY <1>3, <1>5, <1>8, <1>9

(* What is appended comes last.                                            *)
LEMMA AppendEnds ==
  ASSUME NEW f \in Seq(Names), NEW n \in Names
  PROVE  /\ Append(f, n) \in Seq(Names) /\ Append(f, n) # <<>>
         /\ Last(Append(f, n)) = n /\ Front(Append(f, n)) = f
<1>1. PICK k \in Nat : k = Len(f)
  OBVIOUS
<1>2. PICK s : s = Append(f, n)
  OBVIOUS
<1>3. s \in Seq(Names) /\ Len(s) = k + 1 /\ s[k + 1] = n /\ \A i \in 1..k : s[i] = f[i]
  BY <1>1, <1>2, AppendIs
<1>4. s # <<>>
  BY <1>3
<1>5. Last(s) = n
  BY <1>3 DEF Last
<1>6. Front(s) \in Seq(Names) /\ Len(Front(s)) = k /\ \A i \in 1..k : Front(s)[i] = s[i]
  <2>1. k = Len(s) - 1
    BY <1>3
  <2>2. QED BY <1>3, <1>4, <2>1, LastIs
<1>7. Front(s) = f
  <2>1. Len(Front(s)) = Len(f) /\ \A i \in 1..Len(Front(s)) : Front(s)[i] = f[i]
    BY <1>1, <1>3, <1>6
  <2>2. QED BY <1>6, <2>1, SameSeq
<1>8. QED BY <1>2, <1>3, <1>4, <1>5, <1>7

(* The suffix that a listing takes away is the one a ref is given back.    *)
LEMMA ShownRef ==
  ASSUME NEW rel \in Seq(Names), rel # <<>>, NEW class, Last(rel)[2] = AliasSuffix(class),
         NEW ref, ref = Append(Front(rel), <<Last(rel)[1], "">>)
  PROVE  WithSuffix(ref, class) = rel
<1>1. PICK f, l : f = Front(rel) /\ l = Last(rel)
  OBVIOUS
<1>2. f \in Seq(Names) /\ l \in Names /\ rel = Append(f, l)
  BY <1>1, LastIs
<1>3. l = <<l[1], l[2]>> /\ <<l[1], "">> \in Names
  BY <1>2, NameIs DEF AliasSuffixes
<1>4. PICK n : n = <<l[1], "">>
  OBVIOUS
<1>5. n \in Names /\ n[1] = l[1] /\ n[2] = ""
  BY <1>3, <1>4
<1>6. ref = Append(f, n)
  BY <1>1, <1>4
<1>7. Last(ref) = n /\ Front(ref) = f
  BY <1>2, <1>5, <1>6, AppendEnds
<1>8. WithSuffix(ref, class) = Append(f, <<l[1], AliasSuffix(class)>>)
  BY <1>5, <1>7 DEF WithSuffix
<1>9. <<l[1], AliasSuffix(class)>> = l
  BY <1>1, <1>3
<1>10. QED BY <1>2, <1>8, <1>9

(* A ref of a class, when its file is there.                               *)
LEMMA StemIs ==
  ASSUME NEW cwd, NEW ref, NEW class \in {"prepare", "run"}, NEW q, q # Nowhere,
         StemTarget(cwd, ref, class) = q, NEW t, t = resolveStemTarget(cwd, ref, class)
  PROVE  t.class = class /\ t.path = q
<1> DEFINE both == {c \in {"prepare", "run"} : class \in {"", c} /\ StemTarget(cwd, ref, c) # Nowhere}
           d == CHOOSE c \in both : TRUE
<1>1. both = {class}
  BY DEF both
<1>2. t = [class |-> d, path |-> StemTarget(cwd, ref, d)]
  BY <1>1 DEF resolveStemTarget
<1>3. d = class
  <2> HIDE DEF both
  <2>1. QED BY <1>1
<1> HIDE DEF d
<1>4. t = [class |-> class, path |-> q]
  BY <1>2, <1>3
<1>5. QED BY <1>4

(* No file lies where a directory stands that a command was given.         *)
LEMMA NoFileAbove ==
  ASSUME KeptInv, NEW cwd, CleanPath(cwd), GivenIn(cwd),
         NEW q, CleanPath(q), CanonicalPath(q) = q, q # <<>>, InWorkspace(q), IsPlain(q)
  PROVE  ~IsPrefix(q, CanonicalPath(cwd))
<1>1. SUFFICES ASSUME IsPrefix(q, CanonicalPath(cwd)) PROVE FALSE
  OBVIOUS
<1>2. PICK dir : dir = CanonicalPath(cwd)
  OBVIOUS
<1>3. dir \in Seq(Names) /\ q \in Seq(Names)
  BY <1>2, CanonIs, CleanIs
<1>4. PICK n \in Nat : n = Len(q)
  BY <1>3
<1>5. n <= Len(dir) /\ q = SubSeq(dir, 1, n) /\ n # 0
  <2>1. SubSeq(q, 1, n) = q
    BY <1>3, <1>4
  <2>2. n <= Len(dir) /\ SubSeq(q, 1, n) = SubSeq(dir, 1, n)
    BY <1>1, <1>2, <1>4 DEF IsPrefix
  <2>3. n # 0
    BY <1>3, <1>4
  <2>4. QED BY <2>1, <2>2, <2>3
<1>6. n \in 1..Len(dir)
  BY <1>3, <1>4, <1>5
<1>7. IsPrefix(CanonicalPath(AliasRoot), q)
  BY DEF InWorkspace
<1>8. q \in DOMAIN AliasTree /\ AliasTree[q].type = "dir"
  BY <1>2, <1>5, <1>6, <1>7 DEF GivenIn
<1>9. aliasDisk[q].type = "dir"
  BY <1>8 DEF KeptInv
<1>10. QED BY <1>9 DEF IsPlain, NodeAt

(* What a listing shows leads back to what it was shown for.               *)
LEMMA ListedResolves == ASSUME AliasIInv PROVE ListedRefResolves
<1>1. SUFFICES ASSUME look.step = "listed", Unlinked(look.ask.cwd), NEW e \in look.found,
                      Last(e.path)[2] = AliasSuffix(e.class), IsPlain(e.path),
                      NEW t, t = ResolveTarget(look.ask.cwd, e.ref, FALSE, e.class)
               PROVE  t.class = e.class /\ CanonicalPath(t.path) = CanonicalPath(e.path)
  BY DEF ListedRefResolves
<1>2. PICK cwd, q, class, ref : /\ cwd = look.ask.cwd /\ q = CanonicalPath(e.path)
                                /\ class = e.class /\ ref = e.ref
  OBVIOUS
<1>3. ListedAs(e, cwd) /\ look.ask \in Inspections
  BY <1>1, <1>2 DEF AliasIInv, ListedInv
<1>4. /\ CleanPath(q) /\ Direct(q) /\ q # <<>> /\ InWorkspace(q)
      /\ class = classifyPath(q) /\ ref = invocationRef(q, cwd, class) /\ Last(q)[2] = AliasSuffix(class)
  BY <1>1, <1>2, <1>3 DEF ListedAs
<1>5. CleanPath(cwd) /\ GivenIn(cwd) /\ CanonicalPath(cwd) = cwd
  BY <1>1, <1>2, <1>3, AliasCommands DEF Unlinked
<1>6. CanonicalPath(q) = q
  BY <1>4, DirectCanon
<1>7. IsPlain(q)
  BY <1>1, <1>2, <1>6 DEF IsPlain, PathExists, NodeAt
<1>8. class \in {"prepare", "run"}
  <2>1. Last(q)[2] \in {"prep", "run"}
    BY <1>4 DEF AliasSuffix
  <2>2. QED BY <1>4, <2>1 DEF classifyPath
<1>9. PICK rel : rel = RelPath(cwd, q)
  OBVIOUS
<1>10. ~IsPrefix(q, cwd)
  <2>1. KeptInv
    BY DEF AliasIInv, AliasInv
  <2>2. ~IsPrefix(q, CanonicalPath(cwd))
    BY <1>4, <1>5, <1>6, <1>7, <2>1, NoFileAbove
  <2>3. QED BY <1>5, <2>2
<1>11. rel \in Seq(Names) /\ rel # <<>> /\ Last(rel) = Last(q)
  BY <1>4, <1>5, <1>9, <1>10, RelLast
<1>12. ref = Append(Front(rel), <<Last(rel)[1], "">>)
  BY <1>4, <1>5, <1>6, <1>9, <1>11 DEF invocationRef
<1>13. WithSuffix(ref, class) = rel
  BY <1>4, <1>11, <1>12, ShownRef
<1>14. JoinPath(cwd, rel) = q
  BY <1>4, <1>5, <1>9, JoinRel
<1>15. StemTarget(cwd, ref, class) = q
  BY <1>4, <1>7, <1>13, <1>14 DEF StemTarget, resolvePathWithinWorkspace, Nowhere
<1>16. t.class = class /\ t.path = q
  <2>1. t = resolveStemTarget(cwd, ref, class)
    BY <1>1, <1>2 DEF ResolveTarget
  <2>2. q # Nowhere
    BY <1>4 DEF Nowhere
  <2>3. QED BY <1>8, <1>15, <2>1, <2>2, StemIs
<1>17. QED BY <1>2, <1>6, <1>16

(* The four promises of the alias commands.                                *)
LEMMA AliasIInvSafe == ASSUME AliasIInv PROVE AliasFilesSafe
<1>1. CreateExclusive
  BY DEF AliasIInv, AliasInv, HeldInv, KeptInv, MadeInv, CreateExclusive, Holding, FileOf, PathExists, NodeAt
<1>2. QED BY <1>1, MeansTheSame, CheckedRuns, ListedResolves DEF AliasFilesSafe

(* CommandSafe of every execution: the stages of a command leave nothing   *)
(* behind (app/runner.go), and of the alias commands (app/alias_*.go,      *)
(* alias/*.go): wherever it is run from, an alias reads the files its      *)
(* creator named; what `alias check` calls valid runs; what `alias ls`     *)
(* shows finds its file; and a create that succeeded owns its file.        *)
THEOREM CommandsAreSafe == Spec => []CommandSafe
<1>1. CliInv /\ AliasIInv => CommandSafe
  BY CliInvSafe, AliasIInvSafe DEF CommandSafe
<1>2. Init => CliInv /\ AliasIInv
  BY CliInvInit, CommandInit, AliasIInvInit
<1>3. CliInv /\ AliasIInv /\ [Next]_storeVars => CliInv' /\ AliasIInv'
  BY CommandStep, CliNextKeeps, AliasIInvNext
<1>4. QED BY <1>1, <1>2, <1>3, PTL DEF Spec
=============================================================================

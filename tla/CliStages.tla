----------------------------- MODULE CliStages -----------------------------
(***************************************************************************)
(* One invocation of the command line client: `prepare`, `plan`,           *)
(* `cache explain`, `run`, or `prepare ... run` in one command line.  The  *)
(* command acquires resources on its way (a detached git worktree or a     *)
(* staged copy of the files of a git ref, a job in the engine, an          *)
(* instance) and every return path has to release the ones it owns.        *)
(*                                                                         *)
(* The command is sequential; the engine, which reads the files of the     *)
(* job, and git, in which the ref may move, are the other actors.          *)
(***************************************************************************)
EXTENDS Integers, FiniteSets

CONSTANT MaxRefMoves    \* how often the git ref is moved under the command

VARIABLES
  inv,        \* the parsed invocation
  step,       \* where the command is
  tree,       \* the detached worktree: "none", "open", "gone"
  staged,     \* the staged copy of the files of a blob ref
  head,       \* the commit the git ref names now
  commit,     \* the commit recorded as ResolvedCommit
  reads,      \* the commits the inputs of the stage were read from
  job,        \* the engine's job: "none", "running", "ended"
  instance,   \* the instance the prepare stage made: "none", "ready", "gone"
  ran,        \* what the run stage ran against: "no", "prepared", "given"
  artifact,   \* the provenance file: "none", "succeeded", "failed"
  outcome,    \* the error, if any, and whether prepare was "handled"
  faults      \* what went wrong outside: "lost", "removal", "deletion"

stageVars == <<inv, step, tree, staged, head, commit, reads, job, instance, ran,
             artifact, outcome, faults>>

refVars == <<tree, staged, head, commit, reads>>
workVars == <<job, instance, ran, artifact>>

(* What the parsers accept: a kept worktree needs a worktree ref, and only *)
(* `prepare` is followed by a run stage.                                   *)
Invocations ==
  {i \in [cmd: {"prepare", "plan", "cache", "run"}, then: BOOLEAN,
          class: {"raw", "alias"}, kind: {"psql", "lb", "other"},
          ref: {"none", "worktree", "blob"}, keep: BOOLEAN,
          watch: {"default", "watch", "no"}, prov: BOOLEAN,
          runKind: {"psql", "alias", "other"}] :
     /\ i.keep => i.ref = "worktree"
     /\ i.then => i.cmd = "prepare"
     /\ i.cmd = "run" => i.kind = "psql" /\ i.watch = "default" /\ ~i.prov
     /\ i.cmd # "run" /\ ~i.then => i.runKind = "psql"
     /\ i.class = "alias" => i.kind # "other"}

validatePrepareRefWatch(i) == i.ref # "none" => i.watch # "no"

(* `cache explain` wraps a prepare stage that neither runs nor is recorded. *)
runCache(i) == i.watch = "default" /\ ~i.prov

(* Refusals of the dispatcher and of the argument parsers: before any      *)
(* resource is taken.                                                      *)
Dispatchable(i) ==
  /\ i.then => i.ref = "none" /\ ~i.prov
  /\ i.cmd = "cache" => runCache(i)
  /\ i.cmd = "plan" /\ i.class = "alias" => i.watch = "default"
  /\ validatePrepareRefWatch(i)

(* Mutant of AllowControls: the prompt stays. *)
AllowControlsAlways == TRUE

(* The interactive controls (detach, stop) are off when the inputs of the  *)
(* job are files the command will remove.                                  *)
AllowControls == inv.ref = "none"

CliStart(i) ==
  /\ inv = i
  /\ step = "dispatch"
  /\ tree = "none" /\ staged = "none"
  /\ head = 0 /\ commit = 0 /\ reads = {}
  /\ job = "none" /\ instance = "none" /\ ran = "no" /\ artifact = "none"
  /\ outcome = [err |-> FALSE, handled |-> FALSE]
  /\ faults = {}
CliInit == \E i \in Invocations : CliStart(i)

Fail == outcome' = [outcome EXCEPT !.err = TRUE]
StageGoto(s) == step' = s

(* runner.run up to the switch on the command name. *)
Dispatch ==
  /\ step = "dispatch"
  /\ \/ /\ Dispatchable(inv)
        /\ StageGoto(CASE inv.cmd = "run" -> "run"
                  [] inv.class = "raw" -> "check"
                  [] inv.ref = "none" -> "load"
                  [] OTHER -> "resolve")
        /\ UNCHANGED outcome
     \/ StageGoto("done") /\ Fail    \* refused, or context, token, arguments
  /\ UNCHANGED <<inv, refVars, workVars, faults>>

(* refctx.Resolve first asks git which commit the ref names ... *)
ResolveCommit ==
  /\ step = "resolve"
  /\ \/ StageGoto("checkout") /\ commit' = head /\ UNCHANGED outcome
     \/ StageGoto("unwind") /\ Fail /\ UNCHANGED commit
  /\ UNCHANGED <<inv, tree, staged, head, reads, workVars, faults>>

(* The step that waits for the ref context: the alias, or the binding. *)
AfterCheckout ==
  CASE inv.cmd = "run" /\ inv.runKind = "alias" -> "runload"
    [] inv.cmd = "run" -> "runbind"
    [] inv.class = "alias" -> "load"
    [] OTHER -> "bind"

(* ... and then checks out the ref by its name; a failed checkout, or a    *)
(* missing directory, removes what was made.                               *)
Checkout ==
  /\ step = "checkout"
  /\ \/ /\ StageGoto(AfterCheckout) /\ UNCHANGED outcome
        /\ IF inv.ref = "worktree"
             THEN tree' = "open" /\ reads' = {head}
             ELSE UNCHANGED <<tree, reads>>
     \/ /\ StageGoto("unwind") /\ Fail
        /\ tree' = IF inv.ref = "worktree" /\ inv.keep THEN "open" ELSE tree
        /\ UNCHANGED reads
  /\ UNCHANGED <<inv, staged, head, commit, workVars, faults>>

(* Mutant of Released: only an error cleans up. *)
ReleasedOnError(err) ==
  /\ tree' = IF err /\ tree = "open" /\ ~inv.keep THEN "gone" ELSE tree
  /\ staged' = IF err /\ staged = "open" THEN "gone" ELSE staged
  /\ outcome' = [outcome EXCEPT !.err = err]
  /\ UNCHANGED faults

(* Context.Cleanup and the removal of the staged files: a removal that     *)
(* fails is an error of the command.                                       *)
Released(err) ==
  LET owned == (tree = "open" /\ ~inv.keep) \/ staged = "open"
  IN \/ /\ tree' = IF tree = "open" /\ ~inv.keep THEN "gone" ELSE tree
        /\ staged' = IF staged = "open" THEN "gone" ELSE staged
        /\ outcome' = [outcome EXCEPT !.err = err]
        /\ UNCHANGED faults
     \/ /\ owned
        /\ faults' = faults \cup {"removal"}
        /\ outcome' = [outcome EXCEPT !.err = TRUE]
        /\ UNCHANGED <<tree, staged>>

FailReleased ==
  /\ Released(TRUE)
  /\ StageGoto("unwind")
  /\ UNCHANGED <<inv, head, commit, reads, workVars>>

(* The alias is found and loaded from the file system of the ref. *)
LoadAlias ==
  /\ step = "load"
  /\ \/ StageGoto("check") /\ UNCHANGED <<inv, refVars, workVars, outcome, faults>>
     \/ FailReleased

(* The checks buildStageRuntime makes before it looks at the ref: these    *)
(* returns know nothing of the worktree an alias was loaded from.          *)
CheckStage ==
  /\ step = "check"
  /\ \/ /\ ~(inv.cmd = "plan" /\ inv.watch # "default")
        /\ StageGoto(IF inv.class = "raw" /\ inv.ref # "none" THEN "resolve" ELSE "bind")
        /\ UNCHANGED outcome
     \/ StageGoto("done") /\ Fail    \* plan watched, no lb command, no image
  /\ UNCHANGED <<inv, refVars, workVars, faults>>

(* The files of a blob ref are read by the name of the ref and copied to a *)
(* staging directory; a copy that fails removes itself.                    *)
materializeRefFiles ==
  /\ inv.ref = "blob"
  /\ staged' = "open"
  /\ reads' = reads \cup {head}

(* Binding the inputs: files are used where they lie, unless the ref is    *)
(* served from git objects.  Without a file nothing is staged.             *)
Bound ==
  /\ StageGoto(IF inv.prov \/ inv.cmd = "cache" THEN "trace" ELSE "stage")
  /\ \/ materializeRefFiles
     \/ UNCHANGED <<staged, reads>>
  /\ UNCHANGED <<inv, tree, head, commit, workVars, outcome, faults>>

BindPsql ==
  /\ step = "bind" /\ inv.kind = "psql"
  /\ Bound \/ FailReleased    \* arguments, inputs, conversion, source sync

BindLiquibase ==
  /\ step = "bind" /\ inv.kind = "lb"
  /\ Bound \/ FailReleased    \* configuration too

BindUnknown ==
  /\ step = "bind" /\ inv.kind = "other"
  /\ FailReleased

(* collectPrepareTrace reads the inputs once more, and the engine explains *)
(* the cache decision.                                                     *)
TraceInputs ==
  /\ step = "trace"
  /\ \/ /\ StageGoto(IF inv.cmd = "cache" THEN "finish" ELSE "stage")
        /\ reads' = IF inv.ref = "blob" THEN reads \cup {head} ELSE reads
        /\ UNCHANGED <<inv, tree, staged, head, commit, workVars, outcome, faults>>
     \/ FailReleased

AfterStage == IF inv.prov THEN "write" ELSE "finish"

\* The engine's plan_only job ends by itself and holds nothing; it is left out.
RunPlanStage ==
  /\ step = "stage" /\ inv.cmd = "plan"
  /\ StageGoto(AfterStage)
  /\ \/ Fail
     \/ UNCHANGED outcome
  /\ UNCHANGED <<inv, refVars, workVars, faults>>

(* Submitting the job; `--no-watch` stops here. *)
SubmitPrepare ==
  /\ step = "stage" /\ inv.cmd = "prepare"
  /\ \/ /\ job' = "running"
        /\ IF inv.watch = "no"
             THEN outcome' = [outcome EXCEPT !.handled = TRUE] /\ StageGoto(AfterStage)
             ELSE UNCHANGED outcome /\ StageGoto("wait")
     \/ StageGoto(AfterStage) /\ Fail /\ UNCHANGED job
  /\ UNCHANGED <<inv, refVars, instance, ran, artifact, faults>>

(* The watch ends with the job, is detached, or is lost with the job alive. *)
WatchPrepare ==
  /\ step = "wait"
  /\ StageGoto(AfterStage)
  /\ \/ /\ job = "ended"
        /\ outcome' = [outcome EXCEPT !.err = (instance # "ready")]
        /\ UNCHANGED faults
     \/ /\ AllowControls
        /\ outcome' = [outcome EXCEPT !.handled = TRUE]
        /\ UNCHANGED faults
     \/ /\ Fail
        /\ faults' = faults \cup {"lost"}
  /\ UNCHANGED <<inv, refVars, workVars>>

(* The engine runs the job, reading its files, until it ends. *)
JobEnds ==
  /\ job = "running"
  /\ job' = "ended"
  /\ instance' \in {"none", "ready"}
  /\ UNCHANGED <<inv, step, refVars, ran, artifact, outcome, faults>>

WriteProvenance ==
  /\ step = "write"
  /\ StageGoto("finish")
  /\ \/ /\ artifact' = IF outcome.err THEN "failed" ELSE "succeeded"
        /\ UNCHANGED outcome
     \/ Fail /\ UNCHANGED artifact
  /\ UNCHANGED <<inv, refVars, job, instance, ran, faults>>

(* finishPrepareCleanup; a composite command goes on with what it prepared *)
(* unless the stage was handled.                                           *)
FinishStage ==
  /\ step = "finish"
  /\ Released(outcome.err)
  /\ StageGoto(IF inv.then /\ ~outcome'.err /\ ~outcome.handled THEN "run" ELSE "done")
  /\ UNCHANGED <<inv, head, commit, reads, workVars>>

(* The run stage.  A kind nobody knows is refused by the switch of         *)
(* runner.run, where the removal of the prepared instance is not           *)
(* registered; every later return passes it.                               *)
StartRun ==
  /\ step = "run"
  /\ \/ inv.runKind = "other" /\ StageGoto("done") /\ Fail
     \/ /\ inv.runKind # "other"
        /\ \/ /\ StageGoto(CASE inv.runKind = "psql" -> "runcheck"
                       [] inv.ref = "none" -> "runload"
                       [] OTHER -> "resolve")
              /\ UNCHANGED outcome
           \/ StageGoto("unwind") /\ Fail      \* arguments of the run stage
  /\ UNCHANGED <<inv, refVars, workVars, faults>>

LoadRunAlias ==
  /\ step = "runload"
  /\ \/ StageGoto("runcheck") /\ UNCHANGED <<inv, refVars, workVars, outcome, faults>>
     \/ FailReleased

(* One instance, given or prepared, a known kind, no connection arguments. *)
CheckRun ==
  /\ step = "runcheck"
  /\ \/ /\ StageGoto(IF inv.runKind = "psql" /\ inv.ref # "none" THEN "resolve" ELSE "runbind")
        /\ UNCHANGED <<inv, refVars, workVars, outcome, faults>>
     \/ FailReleased

BindRun ==
  /\ step = "runbind"
  /\ \/ /\ StageGoto("exec")
        /\ reads' = IF inv.ref = "blob" THEN reads \cup {head} ELSE reads
        /\ UNCHANGED <<inv, tree, staged, head, commit, workVars, outcome, faults>>
     \/ FailReleased

(* RunRun against the prepared instance, or the one that was given. *)
ExecRun ==
  /\ step = "exec"
  /\ ran' = IF inv.then THEN "prepared" ELSE "given"
  /\ \E failed \in BOOLEAN : Released(failed)
  /\ StageGoto("unwind")
  /\ UNCHANGED <<inv, head, commit, reads, job, instance, artifact>>

(* The deferred cleanupPreparedInstance: a failure is only printed. *)
Unwind ==
  /\ step = "unwind"
  /\ StageGoto("done")
  /\ IF inv.then /\ instance = "ready"
       THEN \/ instance' = "gone" /\ UNCHANGED faults
            \/ faults' = faults \cup {"deletion"} /\ UNCHANGED instance
       ELSE UNCHANGED <<instance, faults>>
  /\ UNCHANGED <<inv, refVars, job, ran, artifact, outcome>>

(* Somebody moves the branch the ref names. *)
MoveRef ==
  /\ head < MaxRefMoves /\ step # "done" /\ inv.ref # "none"
  /\ head' = head + 1
  /\ UNCHANGED <<inv, step, tree, staged, commit, reads, workVars, outcome, faults>>

CliDone ==
  /\ step = "done" /\ job # "running"
  /\ UNCHANGED stageVars

CliNext ==
  \/ Dispatch \/ ResolveCommit \/ Checkout \/ LoadAlias \/ CheckStage
  \/ BindPsql \/ BindLiquibase \/ BindUnknown \/ TraceInputs \/ RunPlanStage \/ SubmitPrepare \/ WatchPrepare
  \/ WriteProvenance \/ FinishStage \/ StartRun \/ LoadRunAlias \/ CheckRun
  \/ BindRun \/ ExecRun \/ Unwind
  \/ JobEnds \/ MoveRef \/ CliDone

-----------------------------------------------------------------------------
(* A command that reports success has left neither a worktree (unless it   *)
(* was to be kept) nor staged files behind.                                *)
SuccessIsClean ==
  step = "done" /\ ~outcome.err =>
    (tree = "open" => inv.keep) /\ staged # "open"

(* The files of a job are not removed while the engine still works on the  *)
(* job, unless the command lost it: neither `--no-watch` nor the detach    *)
(* prompt ends a command whose files are its own.                          *)
InputsOutliveJob ==
  job = "running" /\ (tree = "gone" \/ staged = "gone") => "lost" \in faults

(* The instance of a composite command is gone when the command is, unless *)
(* the prepare stage was handled or lost, the removal failed, or the run   *)
(* kind is one nobody knows; the run stage never runs without it.          *)
PreparedIsRemoved ==
  /\ step = "done" /\ inv.then /\ instance = "ready" =>
       \/ outcome.handled \/ faults # {}
       \/ inv.runKind = "other"
  /\ ran = "prepared" => instance # "none" /\ ~outcome.handled

(* A command that was to leave a provenance file and succeeds has written  *)
(* one, and the file tells success only of a stage that succeeded.         *)
ProvenanceTells ==
  /\ step = "done" /\ inv.prov /\ ~outcome.err => artifact = "succeeded"
  /\ artifact = "succeeded" /\ inv.cmd = "prepare" => job # "none"
  /\ artifact = "failed" => outcome.err

(* The inputs of a worktree stage come from one commit. *)
WorktreeIsOneCommit ==
  inv.ref = "worktree" => Cardinality(reads) <= 1

CliStagesSafe ==
  SuccessIsClean /\ InputsOutliveJob /\ PreparedIsRemoved /\ ProvenanceTells
    /\ WorktreeIsOneCommit

(* docs/architecture/ref-flow.md: "`worktree` mode removes the temporary   *)
(* worktree after the command succeeds or fails, unless                    *)
(* `--ref-keep-worktree` was requested."                                   *)
WorktreeRemoved ==
  step = "done" /\ tree = "open" => inv.keep \/ "removal" \in faults
=============================================================================

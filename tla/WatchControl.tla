---------------------------- MODULE WatchControl ----------------------------
(***************************************************************************)
(* The CLI attached to a prepare job: RunPrepare, RunPlan and RunWatch of  *)
(* cli/commands_prepare.go.  It streams the job's events, reconnects and   *)
(* resumes where it was, and when the user interrupts it asks whether to   *)
(* stop the job, to detach from it or to go on.                            *)
(*                                                                         *)
(* The goroutine that waits for an interrupt lives as long as one stream.  *)
(* When the stream ends both of its channels may be ready, and then it may *)
(* take a signal nobody looks at any more.                                 *)
(***************************************************************************)
EXTENDS Integers, Sequences

CONSTANTS MaxJobEvents,    \* bound: log events of the job
          MaxSignals,      \* bound: interrupts
          MaxStreamDrops   \* bound: streams that break

VARIABLES
  jobStatus,   \* "running", "succeeded", "failed" or "deleted"
  jobEvents,   \* its events, "log" or "status"
  stopped,     \* a cancel request reached the engine
  watch,       \* the CLI
  signals,     \* interrupts in the channel, which holds two
  lingering,   \* goroutines of ended streams that have not seen their end
  sent, drops

watchVars == <<jobStatus, jobEvents, stopped, watch, signals, lingering, sent, drops>>
jobVars == <<jobStatus, jobEvents, stopped>>
watchEnv == <<lingering, sent, drops>>

Attached == [mode : {"prepare", "plan", "watch"}, id : {"exact", "prefix", "ambiguous"}]

WatchInit ==
  /\ jobStatus = "running" /\ jobEvents = <<>> /\ stopped = FALSE
  /\ \E a \in Attached :
       watch = [mode |-> a.mode, id |-> a.id,
                at |-> IF a.mode = "watch" THEN "resolve" ELSE "connect",
                resume |-> 0, cur |-> 0, fired |-> FALSE,
                shown |-> <<>>, confirmed |-> FALSE, outcome |-> ""]
  /\ \/ watch.mode = "watch" \/ watch.id = "exact"
  /\ signals = 0 /\ lingering = 0 /\ sent = 0 /\ drops = 0

(* allowControls; a plan is never asked about. *)
controlsEnabled == watch.mode # "plan"
WatchTo(next) == watch' = [watch EXCEPT !.at = next]
ReturnWith(outcome) == watch' = [watch EXCEPT !.at = "done", !.outcome = outcome]
Terminal == jobStatus \in {"succeeded", "failed", "deleted"}

-----------------------------------------------------------------------------
(* The job: its row becomes terminal first, the status event follows. *)
JobLogs ==
  /\ jobStatus = "running" /\ Len(jobEvents) < MaxJobEvents
  /\ \E e \in {"log", "status"} : jobEvents' = Append(jobEvents, e)
  /\ UNCHANGED <<jobStatus, stopped, watch, signals, watchEnv>>

\* The watcher takes the first terminal status as final, and so is it here; that a
\* cancel may overwrite one is PrepareJobs!CancelledStays.
JobFinishes ==
  /\ jobStatus = "running"
  /\ jobStatus' \in (IF stopped THEN {"failed"} ELSE {"succeeded", "failed"})
  /\ UNCHANGED <<jobEvents, stopped, watch, signals, watchEnv>>

Announced == jobEvents # <<>> /\ jobEvents[Len(jobEvents)] = "end"

JobAnnounces ==
  /\ jobStatus \in {"succeeded", "failed"} /\ ~Announced
  /\ jobEvents' = Append(jobEvents, "end")
  /\ UNCHANGED <<jobStatus, stopped, watch, signals, watchEnv>>

JobIsDeleted ==
  /\ jobStatus \in {"succeeded", "failed"} /\ Announced
  /\ jobStatus' = "deleted"
  /\ UNCHANGED <<jobEvents, stopped, watch, signals, watchEnv>>

-----------------------------------------------------------------------------
(* RunWatch: the id may be the prefix of one job. *)
resolvePrepareJobByPrefix ==
  /\ watch.at = "resolve"
  /\ CASE watch.id = "ambiguous" \/ jobStatus = "deleted" -> ReturnWith("error")
       [] jobStatus \in {"succeeded", "failed"} -> ReturnWith(jobStatus)
       [] OTHER -> WatchTo("connect")
  /\ UNCHANGED <<jobVars, signals, watchEnv>>

(* StreamPrepareEvents from resumeIndex on: the engine answers with the    *)
(* part asked for, or with the whole; a failure to connect ends the watch. *)
StreamPrepareEvents ==
  /\ watch.at = "connect"
  /\ \/ /\ jobStatus # "deleted"
        /\ \E from \in {0, watch.resume} :
             watch' = [watch EXCEPT !.at = "stream", !.cur = from, !.fired = FALSE]
        /\ UNCHANGED drops
     \/ /\ jobStatus = "deleted" /\ ReturnWith("error") /\ UNCHANGED drops
     \/ /\ drops < MaxStreamDrops /\ drops' = drops + 1
        /\ ReturnWith("error")
  /\ UNCHANGED <<jobVars, signals, lingering, sent>>

(* Mutant of ReadEvent: events before resumeIndex are shown again. *)
ReadEventAgain ==
  /\ watch.at = "stream" /\ watch.cur < Len(jobEvents)
  /\ LET e == jobEvents[watch.cur + 1]
         w == [watch EXCEPT !.cur = @ + 1, !.resume = watch.cur + 1,
                            !.shown = Append(@, watch.cur + 1)]
     IN watch' = IF e \in {"status", "end"} /\ jobStatus \in {"succeeded", "failed"}
                   THEN [w EXCEPT !.at = "done", !.outcome = jobStatus]
                 ELSE IF e \in {"status", "end"} /\ jobStatus = "deleted"
                   THEN [w EXCEPT !.at = "done", !.outcome = "error"]
                 ELSE w
  /\ UNCHANGED <<jobVars, signals, watchEnv>>

(* Mutant of ReadEvent: a status event is shown like any other. *)
ReadEventIgnores ==
  /\ watch.at = "stream" /\ watch.cur < Len(jobEvents)
  /\ LET skip == [watch EXCEPT !.cur = @ + 1]
         w == [watch EXCEPT !.cur = @ + 1, !.resume = watch.cur + 1,
                            !.shown = Append(@, watch.cur + 1)]
     IN watch' = IF watch.cur < watch.resume THEN skip ELSE w
  /\ UNCHANGED <<jobVars, signals, watchEnv>>

(* One line of the stream: what was shown before is skipped, a status      *)
(* event makes the CLI ask for the job.                                    *)
ReadEvent ==
  /\ watch.at = "stream" /\ watch.cur < Len(jobEvents)
  /\ LET e == jobEvents[watch.cur + 1]
         skip == [watch EXCEPT !.cur = @ + 1]
         w == [watch EXCEPT !.cur = @ + 1, !.resume = watch.cur + 1,
                            !.shown = Append(@, watch.cur + 1)]
     IN watch' = IF watch.cur < watch.resume THEN skip
                 ELSE IF e \in {"status", "end"} /\ jobStatus \in {"succeeded", "failed"}
                   THEN [w EXCEPT !.at = "done", !.outcome = jobStatus]
                 ELSE IF e \in {"status", "end"} /\ jobStatus = "deleted"
                   THEN [w EXCEPT !.at = "done", !.outcome = "error"]
                 ELSE w
  /\ UNCHANGED <<jobVars, signals, watchEnv>>

(* The stream breaks, or the engine ends it after the last event. *)
StreamEnds ==
  /\ watch.at = "stream"
  /\ \/ drops < MaxStreamDrops /\ drops' = drops + 1
     \/ Announced /\ watch.cur = Len(jobEvents) /\ UNCHANGED drops
     \/ jobStatus = "deleted" /\ UNCHANGED drops
  /\ WatchTo("ended")
  /\ UNCHANGED <<jobVars, signals, lingering, sent>>

-----------------------------------------------------------------------------
(* The user interrupts; without controls the process ends. *)
Interrupt ==
  /\ sent < MaxSignals /\ sent' = sent + 1
  /\ watch.at \notin {"done", "resolve"}
  /\ IF controlsEnabled
       THEN signals' = (IF signals < 2 THEN signals + 1 ELSE 2) /\ UNCHANGED watch
       ELSE ReturnWith("killed") /\ UNCHANGED signals
  /\ UNCHANGED <<jobVars, lingering, drops>>

(* The goroutine of the stream takes a signal and cancels the stream. *)
CancelStream ==
  /\ watch.at = "stream" /\ controlsEnabled /\ signals > 0
  /\ signals' = signals - 1
  /\ watch' = [watch EXCEPT !.fired = TRUE, !.at = "ended"]
  /\ UNCHANGED <<jobVars, watchEnv>>

(* The goroutine of an ended stream ends, perhaps with a signal. *)
LingererEnds ==
  /\ lingering > 0 /\ lingering' = lingering - 1
  /\ signals' \in {signals, IF signals > 0 THEN signals - 1 ELSE 0}
  /\ UNCHANGED <<jobVars, watch, sent, drops>>

(* cleanupInterrupt, and the turn to the next stream or to the prompt. *)
AfterStream ==
  /\ watch.at = "ended"
  /\ lingering' = IF controlsEnabled /\ ~watch.fired THEN lingering + 1 ELSE lingering
  /\ WatchTo(IF watch.fired THEN "action" ELSE "connect")
  /\ UNCHANGED <<jobVars, signals, sent, drops>>

(* handlePrepareControlAction asks for the job before it asks the user. *)
ControlAction ==
  /\ watch.at = "action"
  /\ CASE jobStatus = "deleted" -> ReturnWith("error") /\ UNCHANGED signals
       [] jobStatus \in {"succeeded", "failed"} -> ReturnWith(jobStatus) /\ UNCHANGED signals
       [] OTHER -> WatchTo("prompt") /\ signals' = 0
  /\ UNCHANGED <<jobVars, watchEnv>>

(* promptPrepareControl: a key; Ctrl+C, Esc, Enter and a signal go on. *)
PromptKey ==
  /\ watch.at = "prompt"
  /\ \/ /\ signals > 0 /\ signals' = signals - 1 /\ WatchTo("connect")
     \/ /\ signals = 0 /\ UNCHANGED signals
        /\ \/ WatchTo("connect")
           \/ ReturnWith("detached")
           \/ WatchTo("confirm")
           \/ UNCHANGED watch
  /\ UNCHANGED <<jobVars, watchEnv>>

(* Mutant of confirmPrepareStop: Enter confirms. *)
confirmPrepareStopDefault ==
  /\ watch.at = "confirm"
  /\ \/ signals > 0 /\ signals' = signals - 1 /\ WatchTo("connect")
     \/ /\ signals = 0 /\ UNCHANGED signals
        /\ \/ watch' = [watch EXCEPT !.at = "cancel"]
           \/ watch' = [watch EXCEPT !.at = "cancel", !.confirmed = TRUE]
  /\ UNCHANGED <<jobVars, watchEnv>>

(* Only y stops the job. *)
confirmPrepareStop ==
  /\ watch.at = "confirm"
  /\ \/ signals > 0 /\ signals' = signals - 1 /\ WatchTo("connect")
     \/ /\ signals = 0 /\ UNCHANGED signals
        /\ \/ WatchTo("connect")
           \/ watch' = [watch EXCEPT !.at = "cancel", !.confirmed = TRUE]
           \/ UNCHANGED watch
  /\ UNCHANGED <<jobVars, watchEnv>>

(* CancelPrepareJob: the answer is the job as it is by then; it may be     *)
(* lost, and the job is cancelled all the same.                            *)
CancelPrepareJob ==
  /\ watch.at = "cancel"
  /\ stopped' = (stopped \/ jobStatus = "running")
  /\ \/ /\ CASE jobStatus = "deleted" -> ReturnWith("error")
             [] jobStatus \in {"succeeded", "failed"} -> ReturnWith(jobStatus)
             [] OTHER -> WatchTo("connect")
        /\ UNCHANGED drops
     \/ /\ drops < MaxStreamDrops /\ drops' = drops + 1
        /\ ReturnWith("error")
  /\ UNCHANGED <<jobStatus, jobEvents, signals, lingering, sent>>

WatchOver == watch.at = "done" /\ lingering = 0 /\ UNCHANGED watchVars

WatchStep ==
  \/ resolvePrepareJobByPrefix \/ StreamPrepareEvents \/ ReadEvent \/ StreamEnds
  \/ CancelStream \/ AfterStream \/ ControlAction \/ CancelPrepareJob
WatchNext ==
  \/ JobLogs \/ JobFinishes \/ JobAnnounces \/ JobIsDeleted
  \/ WatchStep \/ Interrupt \/ LingererEnds \/ PromptKey \/ confirmPrepareStop
  \/ WatchOver

(* The job runs and announces its end; the CLI runs; the user answers the  *)
(* prompt with a key that means something.                                 *)
AnswerPrompt == PromptKey /\ watch' # watch
AnswerConfirm == confirmPrepareStop /\ watch' # watch
WatchProgress == WatchStep \/ LingererEnds \/ AnswerPrompt \/ AnswerConfirm

-----------------------------------------------------------------------------
(* What the CLI returns is how the job ended. *)
OutcomeTrue ==
  watch.outcome \in {"succeeded", "failed"} => jobStatus \in {watch.outcome, "deleted"}

(* Every event is shown once and in order, over reconnections, whether the *)
(* engine answers with a part or with the whole.                           *)
ShownOnce ==
  /\ watch.shown = [i \in 1..Len(watch.shown) |-> i]
  /\ watch.resume = Len(watch.shown)

(* The job is cancelled only when the user has confirmed it, and never     *)
(* after a detach that follows no confirmation.                            *)
StopConfirmed == stopped => watch.confirmed

WatchSafe == OutcomeTrue /\ ShownOnce /\ StopConfirmed

(* A CLI that watches a job that ends returns. *)
WatchDone == watch.at = "done"
WatchReturns == []<>WatchDone
=============================================================================

------------------------- MODULE PrepareJobsProofs -------------------------
(***************************************************************************)
(* Proofs about PrepareJobs: with scripts that are hashed when they are    *)
(* executed, names of states tell the truth about their contents, for any  *)
(* number of steps, versions and restarts.                                 *)
(***************************************************************************)
EXTENDS PrepareJobs, SequenceTheorems, TLAPS

\* Truthful states stay truthful when read back.
LEMMA ContentTruthful ==
  ASSUME SealTruthful, NEW id, Present(id)
  PROVE  Content(id) = id
<1>1. CASE id = <<>>
  BY <1>1 DEF Content
<1>2. CASE id # <<>>
  <2>1. PICK s \in cache : s.id = id
    BY <1>2 DEF Present, Named
  <2>2. (CHOOSE t \in cache : t.id = id) \in cache /\ (CHOOSE t \in cache : t.id = id).id = id
    BY <2>1
  <2> QED BY <1>2, <2>2 DEF Content, SealTruthful
<1> QED BY <1>1, <1>2

\* The runtime a step is given holds the input's contents.
LEMMA RuntimeTruthful ==
  ASSUME SealTruthful, NEW id, Holds(id) \/ Present(id)
  PROVE  EnsureRuntime(id).id = id /\ EnsureRuntime(id).data = id
<1>1. CASE Holds(id)
  BY <1>1 DEF EnsureRuntime, Holds, SealTruthful
<1>2. CASE ~Holds(id)
  BY <1>2, ContentTruthful DEF EnsureRuntime
<1> QED BY <1>1, <1>2

\* A psql step seals what it has hashed.
LEMMA ExecuteTruthful ==
  ASSUME Kind = "psql", SealTruthful, Execute
  PROVE  SealTruthful'
<1> DEFINE input == plan[pos].in
           id == Append(input, StepHash)
           built == [id |-> id, data |-> Append(EnsureRuntime(input).data, source[pos - 1])]
<1>1. made' = made
  BY DEF Execute
<1>2. CASE id \in Named
  BY <1>1, <1>2 DEF Execute, SealTruthful
<1>3. CASE id \notin Named
  <2>1. Holds(input) \/ Present(input)
    BY <1>3 DEF Execute
  <2>2. EnsureRuntime(input).data = input
    BY <2>1, RuntimeTruthful
  <2>3. built.id = built.data
    BY <2>2 DEF StepHash
  <2>4. cache' = cache \cup {built} /\ rt' = built
    BY <1>3 DEF Execute
  <2> HIDE DEF built
  <2> QED BY <1>1, <2>3, <2>4 DEF SealTruthful
<1> QED BY <1>2, <1>3

\* The instance is published from the state it is recorded for.
LEMMA PublishTruthful ==
  ASSUME SealTruthful, Publish
  PROVE  SealTruthful'
<1>1. cache' = cache
  BY DEF Publish
<1>2. CASE made # Nothing
  BY <1>1, <1>2 DEF Publish, SealTruthful
<1>3. CASE made = Nothing
  <2>1. (Holds(out) \/ Present(out)) /\ made' = EnsureRuntime(out) /\ rt' = EnsureRuntime(out)
    BY <1>3 DEF Publish
  <2>2. EnsureRuntime(out).id = EnsureRuntime(out).data
    BY <2>1, RuntimeTruthful
  <2> QED BY <1>1, <2>1, <2>2 DEF SealTruthful
<1> QED BY <1>2, <1>3

\* Every step keeps the names truthful.
LEMMA TruthStep ==
  ASSUME Kind = "psql", SealTruthful, [Next]_vars
  PROVE  SealTruthful'
<1>1. CASE Execute
  BY <1>1, ExecuteTruthful
<1>2. CASE Publish
  BY <1>2, PublishTruthful
<1>3. CASE Spawn \/ RestoreFails \/ Load \/ Mark \/ LoadTasks \/ Plan \/ Replace \/ Insert \/ PlanDone
  BY <1>3 DEF Spawn, RestoreFails, Load, Mark, LoadTasks, Plan, Replace, Insert, PlanDone, WriteEnd,
              SealTruthful, stored
<1>4. CASE Skip \/ FoundFailed \/ TakeCached \/ Begin \/ EndOfList \/ AwaitLock \/ TaskFails \/ Finish
           \/ Fails \/ Succeed \/ FailJob
  BY <1>4 DEF Skip, FoundFailed, TakeCached, Begin, EndOfList, AwaitLock, TaskFails, Finish, Fails,
              Succeed, FailJob, WriteEnd, SealTruthful, stored
<1>5. CASE Close \/ Unregister \/ Crash
  BY <1>5 DEF Close, Unregister, Crash, SealTruthful, stored
<1>6. CASE Submit \/ CancelRead \/ CancelRunner \/ CancelFail \/ DeleteRead \/ DeleteKill
           \/ DeleteWait \/ DeleteRow \/ Trim \/ Edit
  BY <1>6 DEF Submit, CancelRead, CancelRunner, CancelFail, DeleteRead, DeleteKill,
              DeleteWait, DeleteRow, Trim, Edit, SealTruthful, stored, runner
<1>7. CASE UNCHANGED vars
  BY <1>7 DEF vars, SealTruthful
<1> QED BY <1>1, <1>2, <1>3, <1>4, <1>5, <1>6, <1>7 DEF Next, RunnerStep

\* For psql jobs no state, runtime or instance ever holds anything else than
\* its name says, whatever is edited, cancelled, deleted or restarted when.
THEOREM StatesAreTruthful == Kind = "psql" => (Spec => []SealTruthful)
<1> SUFFICES ASSUME Kind = "psql" PROVE Spec => []SealTruthful
  OBVIOUS
<1>1. Init => SealTruthful
  BY DEF Init, SealTruthful
<1>2. SealTruthful /\ [Next]_vars => SealTruthful'
  BY TruthStep
<1> QED BY <1>1, <1>2, PTL DEF Spec

-----------------------------------------------------------------------------
\* The inductive invariant of the task list.  It relates the rows, the runner's
\* list, the place the runner is at and the state it has come to.

\* A list of tasks, every step of which extends its input by one script.
ListOK(ts) ==
  /\ ts \in Seq(Task) /\ Len(ts) <= Full
  /\ \A i \in 1 .. Len(ts) : i \in Executes => Len(ts[i].in) = i - 2 /\ Len(ts[i].out) = i - 1

InOrder(ts) ==
  \A i, j \in 1 .. Len(ts) : i < j /\ ts[j].status # "queued" => ts[i].status = "succeeded"

ListInv ==
  /\ ListOK(tasks) /\ InOrder(tasks) /\ ListOK(plan) /\ InOrder(plan) /\ out \in States
  /\ row = "gone" => tasks = <<>>

\* The signature is stored before the first task.
SignInv ==
  /\ tasks # <<>> \/ pc \in {"replace", "insert"} => sign # <<>>
  /\ Kind = "lb" /\ sign # <<>> => DOMAIN sign = 1 .. Full

\* While a list is replaced.
InsertInv ==
  /\ pc \in {"replace", "insert"} =>
       /\ Len(plan) = Full /\ pos = 1 /\ Len(out) = Steps
       /\ \A i \in 1 .. Full : plan[i].status = "queued"
  /\ pc = "insert" => Len(tasks) < Full /\ \A i \in 1 .. Len(tasks) : tasks[i] = plan[i]
  /\ pc = "plandone" => planOnly

InLoop == pc \in {"loop", "run", "finish", "instance"}

\* While the list is worked through: what is behind the runner has succeeded,
\* what is ahead of it is as it was loaded.
LoopInv ==
  InLoop =>
    /\ Len(plan) \in {Steps + 1, Full} /\ pos <= Len(plan) + 1
    /\ pc \in {"run", "finish"} => pos <= Len(plan)
    /\ pc = "run" => pos \in Executes
    /\ pc = "instance" => pos \in {Full, Len(plan) + 1}
    /\ pc # "loop" /\ pos <= Len(plan) => plan[pos].status \in {"queued", "running"}
    /\ row # "gone" =>
         /\ Len(tasks) = Len(plan)
         /\ \A i \in 1 .. Len(plan) : i < pos => tasks[i].status = "succeeded"
         /\ \A i \in 1 .. Len(plan) : i > pos \/ (i = pos /\ pc = "loop") =>
              tasks[i].status = plan[i].status
         /\ pc # "loop" /\ pos <= Len(plan) => tasks[pos].status = "running"

\* The state the runner has come to when it looks at position p: the last one
\* of the list, unless it has taken or built the one before p.
OutAt(p) ==
  \/ Len(out) = Steps
  \/ /\ p \in 3 .. Full /\ Len(out) = p - 2
     /\ \A j \in 1 .. Len(plan) : p <= j => plan[j].status # "succeeded"

OutInv ==
  /\ pc \in {"loop", "run", "instance"} => OutAt(pos)
  /\ pc = "finish" /\ pos < Full => OutAt(pos + 1)

\* Sealed states, the runtime and the instance have as many scripts applied as
\* their names say; the instance has all of them.
MadeInv ==
  /\ \A s \in cache : Len(s.data) = Len(s.id)
  /\ rt # Nothing => Len(rt.data) = Len(rt.id)
  /\ made # Nothing => Len(made.data) = Steps
  /\ pc = "finish" /\ pos = Full => made # Nothing

AllSucceeded == \A i \in 1 .. Len(tasks) : tasks[i].status = "succeeded"

EndInv ==
  /\ pc = "succeed" => (row # "gone" => AllSucceeded) /\ (planOnly \/ made # Nothing)
  /\ row = "succeeded" => pc \in {"close", "closed", "none"} /\ AllSucceeded
                           /\ (planOnly \/ made # Nothing)

JobInv == TypeOK /\ ListInv /\ SignInv /\ InsertInv /\ LoopInv /\ OutInv /\ MadeInv /\ EndInv

-----------------------------------------------------------------------------
\* us is ts with status st at place p.
Rewritten(ts, us, p, st) ==
  /\ ListOK(us) /\ Len(us) = Len(ts) /\ us[p].status = st
  /\ \A i \in 1 .. Len(ts) : i # p => us[i] = ts[i]

\* A list in which one task has got another status is still a list of tasks.
LEMMA SetStatus ==
  ASSUME NEW ts, ListOK(ts), NEW p \in 1 .. Len(ts),
         NEW st \in {"queued", "running", "succeeded", "failed"},
         NEW us, us = [ts EXCEPT ![p].status = st]
  PROVE  Rewritten(ts, us, p, st)
<1>1. ts \in Seq(Task)
  BY DEF ListOK
<1>2. ts[p] \in Task
  BY <1>1
<1>3. [ts[p] EXCEPT !.status = st] \in Task
  BY <1>2 DEF Task
<1>4. us = [ts EXCEPT ![p] = [ts[p] EXCEPT !.status = st]]
  OBVIOUS
<1>5. us \in Seq(Task) /\ Len(us) = Len(ts)
  BY <1>1, <1>3, <1>4
<1>6. /\ us[p].status = st /\ us[p].in = ts[p].in /\ us[p].out = ts[p].out
      /\ \A i \in 1 .. Len(ts) : i # p => us[i] = ts[i]
  BY <1>1, <1>2, <1>4 DEF Task
<1>7. \A i \in 1 .. Len(us) : us[i].in = ts[i].in /\ us[i].out = ts[i].out
  BY <1>5, <1>6
<1> QED BY <1>5, <1>6, <1>7 DEF ListOK, Rewritten

\* It is also in order when everything before the task has succeeded and, unless
\* the task has succeeded too, everything after it is queued.
LEMMA SetStatusInOrder ==
  ASSUME NEW ts, ListOK(ts), InOrder(ts), NEW p \in 1 .. Len(ts),
         NEW st \in {"queued", "running", "succeeded", "failed"},
         \A i \in 1 .. Len(ts) : i < p => ts[i].status = "succeeded",
         ts[p].status # "succeeded",
         NEW us, us = [ts EXCEPT ![p].status = st]
  PROVE  InOrder(us)
<1>1. /\ Len(us) = Len(ts) /\ us[p].status = st
      /\ \A i \in 1 .. Len(ts) : i # p => us[i] = ts[i]
  BY SetStatus DEF Rewritten
<1>2. \A j \in 1 .. Len(ts) : p < j => ts[j].status = "queued"
  BY DEF InOrder
<1>3. Len(ts) \in Nat
  BY DEF ListOK
<1> SUFFICES ASSUME NEW i \in 1 .. Len(us), NEW j \in 1 .. Len(us), i < j, us[j].status # "queued"
             PROVE  us[i].status = "succeeded"
  BY DEF InOrder
<1>4. j <= p
  BY <1>1, <1>2, <1>3
<1>5. i < p
  BY <1>3, <1>4
<1> QED BY <1>1, <1>5

\* A sealed state or the base has contents, as long as their name.
LEMMA ContentTyped ==
  ASSUME TypeOK, MadeInv, NEW id \in States, Present(id)
  PROVE  Content(id) \in States /\ Len(Content(id)) = Len(id)
<1>1. CASE id = <<>>
  BY <1>1 DEF Content, States
<1>2. CASE id # <<>>
  <2>1. PICK s \in cache : s.id = id
    BY <1>2 DEF Present, Named
  <2>2. (CHOOSE t \in cache : t.id = id) \in cache /\ (CHOOSE t \in cache : t.id = id).id = id
    BY <2>1
  <2>3. (CHOOSE t \in cache : t.id = id) \in [id : States, data : States]
    BY <2>2 DEF TypeOK
  <2> QED BY <1>2, <2>2, <2>3 DEF Content, MadeInv
<1> QED BY <1>1, <1>2

\* So has the runtime a step is given.
LEMMA RuntimeTyped ==
  ASSUME TypeOK, MadeInv, NEW id \in States, Holds(id) \/ Present(id)
  PROVE  /\ EnsureRuntime(id) \in [id : States, data : States]
         /\ EnsureRuntime(id).id = id
         /\ Len(EnsureRuntime(id).data) = Len(id)
<1>1. CASE Holds(id)
  <2>1. rt \in [id : States, data : States]
    BY <1>1 DEF Holds, TypeOK
  <2> QED BY <1>1, <2>1 DEF EnsureRuntime, Holds, MadeInv
<1>2. CASE ~Holds(id)
  BY <1>2, ContentTyped DEF EnsureRuntime
<1> QED BY <1>1, <1>2

\* A function on 1 .. n is a sequence of length n.
LEMMA SeqOfFunction ==
  ASSUME NEW S, NEW n \in Nat, NEW f \in [1 .. n -> S]
  PROVE  f \in Seq(S) /\ Len(f) = n
<1>1. f \in Seq(S)
  BY SeqDef
<1> QED BY <1>1, LenProperties

\* The scripts form a sequence, and so does every beginning of them.
LEMMA SourcePrefix ==
  ASSUME TypeOK, NEW n \in 0 .. Steps
  PROVE  /\ SubSeq(source, 1, n) \in States /\ Len(SubSeq(source, 1, n)) = n
         /\ source \in States /\ Len(source) = Steps
<1>1. \A i \in 1 .. n : source[i] \in Versions
  BY JobsAssumption DEF TypeOK
<1>2. SubSeq(source, 1, n) \in Seq(Versions) /\ Len(SubSeq(source, 1, n)) = n
  BY <1>1, SubSeqProperties, JobsAssumption
<1>3. source \in Seq(Versions) /\ Len(source) = Steps
  BY SeqOfFunction, JobsAssumption DEF TypeOK
<1> QED BY <1>2, <1>3 DEF States

\* buildPlan makes a list of tasks, all queued.
LEMMA PlanOK ==
  ASSUME TypeOK
  PROVE  /\ ListOK(PlanOf(source)) /\ Len(PlanOf(source)) = Full
         /\ \A i \in 1 .. Full : PlanOf(source)[i].status = "queued"
<1> DEFINE P == PlanOf(source)
<1>1. Full \in Nat /\ Full = Steps + 2
  BY JobsAssumption DEF Full
<1>2. ASSUME NEW i \in 1 .. Full
      PROVE  /\ P[i] \in Task /\ P[i].status = "queued"
             /\ i \in Executes => Len(P[i].in) = i - 2 /\ Len(P[i].out) = i - 1
  <2>1. CASE i \in Executes
    <3>1. i - 2 \in 0 .. Steps /\ i - 1 \in 0 .. Steps
      BY <2>1, JobsAssumption DEF Executes
    <3>2. /\ SubSeq(source, 1, i - 2) \in States /\ Len(SubSeq(source, 1, i - 2)) = i - 2
          /\ SubSeq(source, 1, i - 1) \in States /\ Len(SubSeq(source, 1, i - 1)) = i - 1
      BY <3>1, SourcePrefix
    <3>3. P[i] = [status |-> "queued", in |-> SubSeq(source, 1, i - 2), out |-> SubSeq(source, 1, i - 1),
                  cached |-> SubSeq(source, 1, i - 1) \in Named]
      BY <2>1 DEF PlanOf
    <3> QED BY <3>2, <3>3 DEF Task
  <2>2. CASE i \notin Executes
    <3>1. P[i] = [status |-> "queued", in |-> <<>>, out |-> <<>>, cached |-> FALSE]
      BY <2>2 DEF PlanOf
    <3> QED BY <2>2, <3>1 DEF Task, States
  <2> QED BY <2>1, <2>2
<1>3. P \in [1 .. Full -> Task]
  BY <1>2 DEF PlanOf
<1>4. P \in Seq(Task) /\ Len(P) = Full
  BY <1>1, <1>3, SeqOfFunction
<1> HIDE DEF P
<1>5. ListOK(P)
  BY <1>1, <1>2, <1>4 DEF ListOK
<1> QED BY <1>2, <1>4, <1>5 DEF P

\* Recovery puts a running step back or takes it for done; either keeps the order.
LEMMA RecoveredOK ==
  ASSUME NEW ts, ListOK(ts), InOrder(ts)
  PROVE  ListOK(Recovered(ts)) /\ InOrder(Recovered(ts)) /\ Len(Recovered(ts)) = Len(ts)
<1> DEFINE R == Recovered(ts)
<1>1. ts \in Seq(Task) /\ Len(ts) \in Nat /\ DOMAIN ts = 1 .. Len(ts)
  BY DEF ListOK
<1>2. ASSUME NEW i \in 1 .. Len(ts)
      PROVE  /\ R[i] \in Task /\ R[i].in = ts[i].in /\ R[i].out = ts[i].out
             /\ ts[i].status # "running" => R[i] = ts[i]
  <2>1. ts[i] \in Task
    BY <1>1
  <2>2. CASE i \in Executes /\ ts[i].status = "running"
    <3>1. R[i] = [ts[i] EXCEPT !.status = IF ts[i].out \in Named THEN "succeeded" ELSE "queued"]
      BY <1>1, <2>2 DEF Recovered
    <3> QED BY <2>1, <2>2, <3>1 DEF Task
  <2>3. CASE ~(i \in Executes /\ ts[i].status = "running")
    <3>1. R[i] = ts[i]
      BY <1>1, <2>3 DEF Recovered
    <3> QED BY <2>1, <3>1
  <2> QED BY <2>2, <2>3
<1>3. R \in [1 .. Len(ts) -> Task]
  BY <1>1, <1>2 DEF Recovered
<1>4. R \in Seq(Task) /\ Len(R) = Len(ts)
  BY <1>1, <1>3, SeqOfFunction
<1> HIDE DEF R
<1>5. ListOK(R)
  BY <1>2, <1>4 DEF ListOK
<1>6. InOrder(R)
  <2> SUFFICES ASSUME NEW i \in 1 .. Len(ts), NEW j \in 1 .. Len(ts), i < j, R[j].status # "queued"
               PROVE  R[i].status = "succeeded"
    BY <1>4 DEF InOrder
  <2>1. ts[j].status # "queued"
    BY <1>2
  <2>2. ts[i].status = "succeeded"
    BY <2>1 DEF InOrder
  <2> QED BY <1>2, <2>2
<1> QED BY <1>4, <1>5, <1>6 DEF R

\* A step runs at the place of an execute task and extends its input.
LEMMA StepName ==
  ASSUME JobInv, pc = "run"
  PROVE  /\ pos \in Executes /\ pos \in 1 .. Len(plan) /\ plan[pos] \in Task
         /\ Append(plan[pos].in, StepHash) \in States
         /\ Len(Append(plan[pos].in, StepHash)) = pos - 1
         /\ source[pos - 1] \in Versions
<1>1. pos \in Executes /\ pos \in 1 .. Len(plan)
  BY DEF JobInv, LoopInv, InLoop, TypeOK
<1>2. plan[pos] \in Task /\ Len(plan[pos].in) = pos - 2 /\ Len(plan[pos].out) = pos - 1
  BY <1>1 DEF JobInv, ListInv, ListOK
<1>3. pos - 1 \in 1 .. Steps
  BY <1>1, JobsAssumption DEF Executes
<1>4. source[pos - 1] \in Versions
  BY <1>3 DEF JobInv, TypeOK
<1>5. plan[pos].out[pos - 1] \in Versions
  BY <1>2, <1>3 DEF Task, States
<1>6. StepHash \in Versions
  BY <1>4, <1>5 DEF StepHash
<1>7. plan[pos].in \in Seq(Versions)
  BY <1>2 DEF Task, States
<1> QED BY <1>1, <1>2, <1>3, <1>4, <1>6, <1>7 DEF States

\* What Execute does to the stored list.
LEMMA ExecuteTasks ==
  ASSUME JobInv, Execute
  PROVE  /\ row = "gone" => tasks' = tasks
         /\ row # "gone" => /\ ListOK(tasks') /\ Len(tasks') = Len(tasks)
                            /\ \A i \in 1 .. Len(tasks) : tasks'[i].status = tasks[i].status
<1> DEFINE id == Append(plan[pos].in, StepHash)
<1>1. CASE row = "gone"
  BY <1>1 DEF Execute
<1>2. CASE row # "gone"
  <2>1. pc = "run"
    BY DEF Execute
  <2>2. id \in States /\ Len(id) = pos - 1 /\ pos \in 1 .. Len(plan)
    BY <2>1, StepName
  <2>3. Len(tasks) = Len(plan)
    BY <1>2, <2>1 DEF JobInv, LoopInv, InLoop
  <2>4. tasks \in Seq(Task) /\ Len(tasks) \in Nat
    BY DEF JobInv, ListInv, ListOK
  <2>5. tasks[pos] \in Task
    BY <2>2, <2>3, <2>4
  <2> DEFINE hit == id \in Named
             t == [[tasks[pos] EXCEPT !.out = id] EXCEPT !.cached = hit]
  <2>6. hit \in BOOLEAN /\ tasks' = [tasks EXCEPT ![pos].out = id, ![pos].cached = hit]
    BY <1>2 DEF Execute
  <2> HIDE DEF id, hit
  <2>7. t \in Task /\ t.status = tasks[pos].status /\ t.in = tasks[pos].in /\ t.out = id
    BY <2>2, <2>5, <2>6 DEF Task
  <2>8. tasks' = [tasks EXCEPT ![pos] = t]
    BY <2>2, <2>3, <2>4, <2>6
  <2> HIDE DEF t
  <2>9. tasks' \in Seq(Task) /\ Len(tasks') = Len(tasks)
    BY <2>2, <2>3, <2>4, <2>7, <2>8
  <2>10. tasks'[pos] = t /\ \A i \in 1 .. Len(tasks) : i # pos => tasks'[i] = tasks[i]
    BY <2>2, <2>3, <2>4, <2>8
  <2>11. ListOK(tasks')
    BY <2>2, <2>7, <2>9, <2>10 DEF JobInv, ListInv, ListOK
  <2> QED BY <1>2, <2>7, <2>9, <2>10, <2>11
<1> QED BY <1>1, <1>2

\* What the stored list is when the runner writes a status at its place.
LEMMA AtPlace ==
  ASSUME JobInv, row # "gone", InLoop, pos <= Len(plan)
  PROVE  /\ pos \in 1 .. Len(tasks) /\ Len(tasks) = Len(plan)
         /\ plan[pos].status # "succeeded" => tasks[pos].status # "succeeded"
         /\ \A i \in 1 .. Len(tasks) : i < pos => tasks[i].status = "succeeded"
<1>1. Len(tasks) = Len(plan) /\ pos \in 1 .. Len(tasks)
  BY DEF JobInv, LoopInv, TypeOK
<1>2. \A i \in 1 .. Len(tasks) : i < pos => tasks[i].status = "succeeded"
  BY <1>1 DEF JobInv, LoopInv
<1>3. CASE pc = "loop"
  <2>1. tasks[pos].status = plan[pos].status
    BY <1>1, <1>3 DEF JobInv, LoopInv
  <2> QED BY <1>1, <1>2, <2>1
<1>4. CASE pc # "loop"
  <2>1. tasks[pos].status = "running"
    BY <1>1, <1>4 DEF JobInv, LoopInv
  <2> QED BY <1>1, <1>2, <2>1
<1> QED BY <1>3, <1>4

\* A status written at the runner's place keeps the stored list in order.
LEMMA WriteStatus ==
  ASSUME JobInv, row # "gone", InLoop, pos <= Len(plan), plan[pos].status # "succeeded",
         NEW st \in {"queued", "running", "succeeded", "failed"},
         tasks' = [tasks EXCEPT ![pos].status = st]
  PROVE  Rewritten(tasks, tasks', pos, st) /\ InOrder(tasks')
<1>1. ListOK(tasks) /\ InOrder(tasks)
  BY DEF JobInv, ListInv
<1>2. /\ pos \in 1 .. Len(tasks) /\ tasks[pos].status # "succeeded"
      /\ \A i \in 1 .. Len(tasks) : i < pos => tasks[i].status = "succeeded"
  BY AtPlace
<1>3. Rewritten(tasks, tasks', pos, st)
  BY <1>1, <1>2, SetStatus
<1>4. InOrder(tasks')
  BY <1>1, <1>2, SetStatusInOrder
<1> QED BY <1>3, <1>4

\* Everything of the invariant but the types.
Rest == ListInv /\ SignInv /\ InsertInv /\ LoopInv /\ OutInv /\ MadeInv /\ EndInv

\* The steps that leave the list, the place and the states alone: the runner
\* stays where it is or leaves the loop, and a row that becomes succeeded has
\* the right to it.
LEMMA QuietStep ==
  ASSUME JobInv, UNCHANGED <<tasks, plan, pos, out, sign, cache, made, planOnly>>,
         rt' \in {rt, Nothing}, (row' = "gone") <=> (row = "gone"),
         \/ pc' = pc
         \/ pc' \in {"none", "spawn", "load", "mark", "tasks", "plan", "waiting", "fail", "refuse", "close", "closed"},
         row' = "succeeded" => /\ pc' \in {"close", "closed", "none"}
                               /\ AllSucceeded /\ (planOnly \/ made # Nothing)
  PROVE  Rest'
<1>1. ListInv'
  BY DEF JobInv, ListInv
<1>2. SignInv'
  BY DEF JobInv, SignInv
<1>3. InsertInv'
  BY DEF JobInv, InsertInv
<1>4. LoopInv'
  BY DEF JobInv, LoopInv, InLoop
<1>5. OutInv'
  BY DEF JobInv, OutInv, OutAt
<1>6. MadeInv'
  BY DEF JobInv, MadeInv
<1>7. EndInv'
  BY DEF JobInv, EndInv, AllSucceeded
<1> QED BY <1>1, <1>2, <1>3, <1>4, <1>5, <1>6, <1>7 DEF Rest

\* They are the beginning and the end of the runner and the requests.
LEMMA QuietActions ==
  ASSUME JobInv,
         \/ Submit \/ Spawn \/ RestoreFails \/ Load \/ Mark \/ FoundFailed \/ AwaitLock \/ Fails
         \/ Succeed \/ FailJob \/ Close \/ Unregister
         \/ CancelRead \/ CancelRunner \/ CancelFail \/ DeleteRead \/ DeleteKill \/ DeleteWait
         \/ Edit \/ UNCHANGED vars
  PROVE  Rest'
<1> USE DEF stored, runner
<1>1. CASE Submit
  BY <1>1, QuietStep DEF Submit
<1>2. CASE Spawn
  BY <1>2, QuietStep DEF Spawn, JobInv, EndInv
<1>3. CASE RestoreFails
  BY <1>3, QuietStep DEF RestoreFails, WriteEnd, SetRow, JobInv, EndInv
<1>4. CASE Load
  BY <1>4, QuietStep DEF Load, JobInv, EndInv
<1>5. CASE Mark
  BY <1>5, QuietStep DEF Mark, SetRow, JobInv, EndInv
<1>6. CASE FoundFailed \/ AwaitLock \/ Fails
  BY <1>6, QuietStep DEF FoundFailed, AwaitLock, Fails, JobInv, EndInv
<1>7. CASE Succeed
  BY <1>7, QuietStep DEF Succeed, WriteEnd, SetRow, JobInv, EndInv
<1>8. CASE FailJob
  BY <1>8, QuietStep DEF FailJob, WriteEnd, SetRow, JobInv, EndInv
<1>9. CASE Close \/ Unregister
  BY <1>9, QuietStep DEF Close, Unregister, JobInv, EndInv
<1>10. CASE CancelRead \/ CancelRunner
  BY <1>10, QuietStep DEF CancelRead, CancelRunner, JobInv, EndInv
<1>11. CASE CancelFail
  BY <1>11, QuietStep DEF CancelFail, SetRow, JobInv, EndInv
<1>12. CASE DeleteRead \/ DeleteKill \/ DeleteWait
  BY <1>12, QuietStep DEF DeleteRead, DeleteKill, DeleteWait, JobInv, EndInv
<1>13. CASE Edit
  BY <1>13, QuietStep DEF Edit, JobInv, EndInv
<1>14. CASE UNCHANGED vars
  BY <1>14, QuietStep DEF vars, JobInv, EndInv
<1> QED BY <1>1, <1>2, <1>3, <1>4, <1>5, <1>6, <1>7, <1>8, <1>9, <1>10, <1>11, <1>12, <1>13, <1>14

\* A restart forgets the runner and keeps the rows.
LEMMA CrashStep ==
  ASSUME JobInv, Crash
  PROVE  Rest'
<1> USE DEF stored
<1>1. ListOK(<<>>) /\ InOrder(<<>>) /\ <<>> \in States
  BY JobsAssumption DEF ListOK, InOrder, Full, States
<1>2. ListInv'
  BY <1>1 DEF Crash, JobInv, ListInv
<1>3. SignInv' /\ InsertInv' /\ LoopInv' /\ OutInv'
  BY DEF Crash, JobInv, SignInv, InsertInv, LoopInv, InLoop, OutInv
<1>4. MadeInv'
  BY DEF Crash, JobInv, MadeInv
<1>5. EndInv'
  BY DEF Crash, JobInv, EndInv, AllSucceeded
<1> QED BY <1>2, <1>3, <1>4, <1>5 DEF Rest

\* A deleted row takes its tasks with it, wherever the runner is.
LEMMA DeleteStep ==
  ASSUME JobInv, DeleteRow \/ Trim
  PROVE  Rest'
<1>1. /\ row' = "gone" /\ tasks' = <<>>
      /\ UNCHANGED <<sign, cache, made, pc, plan, pos, out, rt, planOnly>>
  BY DEF DeleteRow, Trim, runner
<1>2. ListOK(<<>>) /\ InOrder(<<>>) /\ Len(<<>>) = 0
  BY JobsAssumption DEF ListOK, InOrder, Full
<1>3. ListInv'
  BY <1>1, <1>2 DEF JobInv, ListInv
<1>4. SignInv'
  BY <1>1 DEF JobInv, SignInv
<1>5. InsertInv'
  BY <1>1, <1>2, JobsAssumption DEF JobInv, InsertInv, Full
<1>6. LoopInv' /\ OutInv'
  BY <1>1 DEF JobInv, LoopInv, InLoop, OutInv, OutAt
<1>7. MadeInv' /\ EndInv'
  BY <1>1 DEF JobInv, MadeInv, EndInv
<1> QED BY <1>3, <1>4, <1>5, <1>6, <1>7 DEF Rest

\* A list that is loaded has all its steps: a shorter one is noticed, by the
\* number of the steps of a psql job and by the signature of a Liquibase job.
LEMMA LoadedWhole ==
  ASSUME JobInv, tasks # <<>>, ValidChain(tasks), ~Drifted(tasks)
  PROVE  Len(tasks) \in {Steps + 1, Full}
<1> DEFINE n == Len(tasks)
<1>1. n \in Nat /\ n <= Full /\ DOMAIN tasks = 1 .. n
  BY DEF JobInv, ListInv, ListOK
<1>2. PICK i \in DOMAIN tasks : i \in Executes
  BY DEF ValidChain
<1>3. n >= 2
  BY <1>1, <1>2, JobsAssumption DEF Executes
<1>4. CASE Kind = "psql"
  <2>1. Steps > 1 => n - 1 \notin 1 .. Steps - 1
    BY <1>4 DEF Drifted, ShapeDrift
  <2> HIDE DEF n
  <2>2. n \in {Steps + 1, Full}
    BY <1>1, <1>3, <2>1, JobsAssumption DEF Full
  <2> QED BY <2>2 DEF n
<1>5. CASE Kind = "lb"
  <2>1. sign # <<>> /\ DOMAIN sign = 1 .. Full
    BY <1>5 DEF JobInv, SignInv
  <2>2. sign = [j \in DOMAIN tasks |-> <<tasks[j].in, tasks[j].out>>]
    BY <1>5, <2>1 DEF Drifted, Signature
  <2>3. 1 .. n = 1 .. Full
    BY <1>1, <2>1, <2>2
  <2>4. Full \in 1 .. Full /\ Full \in Nat
    BY JobsAssumption DEF Full
  <2> HIDE DEF n
  <2>5. Full \in 1 .. n
    BY <2>3, <2>4
  <2>6. n = Full
    BY <1>1, <2>4, <2>5
  <2> QED BY <2>6 DEF n
<1> QED BY <1>4, <1>5, JobsAssumption

\* The state such a list ends in has all scripts applied.
LEMMA LastOutWhole ==
  ASSUME JobInv, Len(tasks) \in {Steps + 1, Full}
  PROVE  LastOut(tasks) \in States /\ Len(LastOut(tasks)) = Steps
<1> DEFINE ex == {i \in DOMAIN tasks : i \in Executes}
           last == CHOOSE i \in ex : \A j \in ex : j <= i
<1>1. tasks \in Seq(Task) /\ DOMAIN tasks = 1 .. Len(tasks)
  BY DEF JobInv, ListInv, ListOK
<1>2. Steps + 1 \in ex /\ \A j \in ex : j <= Steps + 1
  <2> DEFINE n == Len(tasks)
  <2>1. n \in {Steps + 1, Steps + 2} /\ DOMAIN tasks = 1 .. n
    BY <1>1 DEF Full
  <2> HIDE DEF n
  <2>2. Steps + 1 \in 1 .. n /\ Steps + 1 \in Executes
    BY <2>1, JobsAssumption DEF Executes
  <2>3. \A j \in Executes : j <= Steps + 1
    BY JobsAssumption DEF Executes
  <2> QED BY <2>1, <2>2, <2>3
<1>3. \A i \in ex : i \in Int
  BY <1>1
<1>4. last = Steps + 1
  <2>1. last \in ex /\ \A j \in ex : j <= last
    BY <1>2
  <2> HIDE DEF last, ex
  <2> QED BY <1>2, <1>3, <2>1, JobsAssumption
<1>5. LastOut(tasks) = tasks[Steps + 1].out
  BY <1>2, <1>4 DEF LastOut
<1>6. tasks[Steps + 1] \in Task /\ Len(tasks[Steps + 1].out) = Steps
  <2>1. Steps + 1 \in 1 .. Len(tasks) /\ Steps + 1 \in Executes
    BY <1>1, <1>2
  <2>2. Len(tasks[Steps + 1].out) = (Steps + 1) - 1
    BY <2>1 DEF JobInv, ListInv, ListOK
  <2>3. tasks[Steps + 1] \in Task
    BY <1>1, <2>1, ElementOfSeq
  <2>4. (Steps + 1) - 1 = Steps
    BY JobsAssumption
  <2> QED BY <2>2, <2>3, <2>4
<1> QED BY <1>5, <1>6 DEF Task

\* The runner loads the stored list, or goes on to plan, or refuses the list.
LEMMA LoadTasksStep ==
  ASSUME JobInv, LoadTasks
  PROVE  Rest'
<1>1. CASE UNCHANGED <<tasks, plan, out, pos>> /\ pc' \in {"plan", "refuse"}
  BY <1>1, QuietStep DEF LoadTasks, JobInv, EndInv
<1>2. CASE /\ tasks # <<>> /\ ValidChain(tasks) /\ ~Drifted(tasks)
           /\ tasks' = Recovered(tasks) /\ plan' = tasks' /\ out' = LastOut(tasks) /\ pos' = 1
           /\ pc' = IF planOnly THEN "plandone" ELSE "loop"
  <2>1. Len(tasks) \in {Steps + 1, Full}
    BY <1>2, LoadedWhole
  <2>2. out' \in States /\ Len(out') = Steps
    BY <1>2, <2>1, LastOutWhole
  <2>3. ListOK(tasks') /\ InOrder(tasks') /\ Len(tasks') = Len(tasks)
    BY <1>2, RecoveredOK DEF JobInv, ListInv
  <2>4. UNCHANGED <<row, sign, cache, made, rt, planOnly>> /\ pc = "tasks" /\ row # "gone"
    BY <1>2 DEF LoadTasks, JobInv, ListInv
  <2>5. ListInv'
    BY <1>2, <2>2, <2>3, <2>4 DEF JobInv, ListInv
  <2>6. SignInv'
    BY <1>2, <2>4 DEF JobInv, SignInv
  <2>7. InsertInv'
    BY <1>2, <2>4 DEF JobInv, InsertInv
  <2>8. LoopInv'
    <3>1. Len(tasks') \in Nat /\ Len(tasks') \in {Steps + 1, Full}
      BY <2>1, <2>3, JobsAssumption DEF Full
    <3> QED BY <1>2, <3>1 DEF LoopInv, InLoop
  <2>9. OutInv'
    BY <1>2, <2>2, JobsAssumption DEF OutInv, OutAt
  <2>10. MadeInv'
    BY <1>2, <2>4, JobsAssumption DEF JobInv, MadeInv, Full
  <2>11. EndInv'
    BY <1>2, <2>4 DEF JobInv, EndInv
  <2> QED BY <2>5, <2>6, <2>7, <2>8, <2>9, <2>10, <2>11 DEF Rest
<1> QED BY <1>1, <1>2 DEF LoadTasks

\* buildPlan replaces the runner's list and the signature.
LEMMA PlanStep ==
  ASSUME JobInv, Plan
  PROVE  Rest'
<1>1. /\ pc = "plan" /\ pc' = "replace" /\ plan' = PlanOf(source) /\ out' = source /\ pos' = 1
      /\ sign' = Signature(plan') /\ UNCHANGED <<row, tasks, cache, made, rt, planOnly>>
  BY DEF Plan
<1>2. /\ ListOK(plan') /\ Len(plan') = Full
      /\ \A i \in 1 .. Full : plan'[i].status = "queued"
  BY <1>1, PlanOK DEF JobInv
<1>3. InOrder(plan')
  BY <1>2 DEF InOrder
<1>4. out' \in States /\ Len(out') = Steps
  BY <1>1, SourcePrefix, JobsAssumption DEF JobInv
<1>5. sign' # <<>> /\ (Kind = "lb" => DOMAIN sign' = 1 .. Full)
  <2>1. Full \in Nat /\ 1 \in 1 .. Full /\ 1 \in 1 .. Steps
    BY JobsAssumption DEF Full
  <2>2. CASE Kind = "psql"
    <3>1. sign' = source /\ Len(source) = Steps
      BY <1>1, <2>2, SourcePrefix, JobsAssumption DEF Signature, JobInv
    <3> QED BY <2>2, <3>1, JobsAssumption
  <2>3. CASE Kind = "lb"
    <3>1. sign' = [i \in DOMAIN plan' |-> <<plan'[i].in, plan'[i].out>>]
      BY <1>1, <2>3 DEF Signature
    <3>2. DOMAIN plan' = 1 .. Full
      BY <1>2 DEF ListOK
    <3>3. DOMAIN sign' = 1 .. Full
      BY <3>1, <3>2
    <3>4. DOMAIN << >> = {}
      OBVIOUS
    <3> QED BY <2>1, <3>3, <3>4
  <2> QED BY <2>2, <2>3, JobsAssumption
<1>6. ListInv'
  BY <1>1, <1>2, <1>3, <1>4 DEF JobInv, ListInv
<1>7. SignInv' /\ LoopInv' /\ OutInv'
  BY <1>1, <1>5 DEF SignInv, LoopInv, InLoop, OutInv
<1>8. InsertInv'
  BY <1>1, <1>2, <1>4 DEF InsertInv
<1>9. MadeInv' /\ EndInv'
  BY <1>1 DEF JobInv, MadeInv, EndInv, AllSucceeded
<1> QED BY <1>6, <1>7, <1>8, <1>9 DEF Rest

\* ReplaceTasks deletes the rows ...
LEMMA ReplaceStep ==
  ASSUME JobInv, Replace
  PROVE  Rest'
<1>1. /\ pc = "replace" /\ pc' = "insert" /\ tasks' = <<>>
      /\ UNCHANGED <<row, sign, cache, made, plan, pos, out, rt, planOnly>>
  BY DEF Replace
<1>2. ListOK(<<>>) /\ InOrder(<<>>) /\ Len(<<>>) = 0 /\ 0 < Full
  BY JobsAssumption DEF ListOK, InOrder, Full
<1>3. ListInv'
  BY <1>1, <1>2 DEF JobInv, ListInv
<1>4. SignInv' /\ LoopInv' /\ OutInv'
  BY <1>1 DEF JobInv, SignInv, LoopInv, InLoop, OutInv
<1>5. InsertInv'
  BY <1>1, <1>2 DEF JobInv, InsertInv
<1>6. MadeInv' /\ EndInv'
  BY <1>1 DEF JobInv, MadeInv, EndInv
<1> QED BY <1>3, <1>4, <1>5, <1>6 DEF Rest

\* ... and inserts them again, in order; a full list is gone through.
LEMMA InsertStep ==
  ASSUME JobInv, Insert
  PROVE  Rest'
<1> DEFINE n == Len(tasks)
<1>1. /\ pc = "insert" /\ row # "gone" /\ tasks' = Append(tasks, plan[n + 1])
      /\ pc' = IF Len(tasks') < Full THEN "insert" ELSE IF planOnly THEN "plandone" ELSE "loop"
      /\ UNCHANGED <<row, sign, cache, made, plan, pos, out, rt, planOnly>>
  BY DEF Insert
<1>2. /\ Len(plan) = Full /\ pos = 1 /\ Len(out) = Steps /\ n < Full
      /\ \A i \in 1 .. Full : plan[i].status = "queued"
      /\ \A i \in 1 .. n : tasks[i] = plan[i]
  BY <1>1 DEF JobInv, InsertInv
<1>3. tasks \in Seq(Task) /\ plan \in Seq(Task) /\ n \in Nat /\ Full \in Nat
  BY JobsAssumption DEF JobInv, ListInv, ListOK, Full
<1>4. n + 1 \in 1 .. Full /\ plan[n + 1] \in Task
  <2>1. n + 1 \in 1 .. Full
    BY <1>2, <1>3
  <2> QED BY <1>2, <1>3, <2>1, ElementOfSeq
<1>5. /\ tasks' \in Seq(Task) /\ Len(tasks') = n + 1
      /\ \A i \in 1 .. n : tasks'[i] = tasks[i]
      /\ tasks'[n + 1] = plan[n + 1]
  BY <1>1, <1>3, <1>4, AppendProperties
<1> HIDE DEF n
<1>6. \A i \in 1 .. n + 1 : tasks'[i] = plan[i]
  BY <1>2, <1>3, <1>5
<1>7. ListOK(tasks')
  <2>1. Len(tasks') <= Full
    BY <1>2, <1>3, <1>5
  <2>2. \A i \in 1 .. Full : i \in Executes => Len(plan[i].in) = i - 2 /\ Len(plan[i].out) = i - 1
    BY <1>2 DEF JobInv, ListInv, ListOK
  <2>3. \A i \in 1 .. n + 1 : i \in 1 .. Full
    BY <1>3, <1>4
  <2> QED BY <1>5, <1>6, <2>1, <2>2, <2>3 DEF ListOK
<1>8. InOrder(tasks')
  BY <1>2, <1>3, <1>4, <1>5, <1>6 DEF InOrder
<1>9. ListInv'
  BY <1>1, <1>7, <1>8 DEF JobInv, ListInv
<1>10. SignInv'
  BY <1>1 DEF JobInv, SignInv
<1>11. InsertInv'
  BY <1>1, <1>2, <1>5, <1>6 DEF InsertInv
<1>12. LoopInv'
  <2>1. CASE pc' = "loop"
    <3>1. Len(tasks') = Full
      BY <1>1, <1>2, <1>3, <1>5, <2>1
    <3> QED BY <1>1, <1>2, <1>3, <1>5, <1>6, <2>1, <3>1 DEF LoopInv, InLoop
  <2>2. CASE pc' # "loop"
    BY <1>1, <2>2 DEF LoopInv, InLoop
  <2> QED BY <2>1, <2>2
<1>13. OutInv'
  BY <1>1, <1>2 DEF OutInv, OutAt
<1>14. MadeInv' /\ EndInv'
  BY <1>1 DEF JobInv, MadeInv, EndInv
<1> QED BY <1>9, <1>10, <1>11, <1>12, <1>13, <1>14 DEF Rest

\* A plan-only job marks its whole list.
LEMMA PlanDoneStep ==
  ASSUME JobInv, PlanDone
  PROVE  Rest'
<1>1. /\ pc = "plandone" /\ pc' = "succeed" /\ row # "gone"
      /\ tasks' = [i \in DOMAIN tasks |-> [tasks[i] EXCEPT !.status = "succeeded"]]
      /\ UNCHANGED <<row, sign, cache, made, plan, pos, out, rt, planOnly>>
  BY DEF PlanDone
<1>2. tasks \in Seq(Task) /\ Len(tasks) \in Nat /\ DOMAIN tasks = 1 .. Len(tasks)
  BY DEF JobInv, ListInv, ListOK
<1>3. ASSUME NEW i \in 1 .. Len(tasks)
      PROVE  /\ tasks'[i] \in Task /\ tasks'[i].status = "succeeded"
             /\ tasks'[i].in = tasks[i].in /\ tasks'[i].out = tasks[i].out
  <2>1. tasks[i] \in Task
    BY <1>2
  <2>2. tasks'[i] = [tasks[i] EXCEPT !.status = "succeeded"]
    BY <1>1, <1>2
  <2> QED BY <2>1, <2>2 DEF Task
<1>4. tasks' \in Seq(Task) /\ Len(tasks') = Len(tasks)
  <2>1. tasks' \in [1 .. Len(tasks) -> Task]
    BY <1>1, <1>2, <1>3
  <2> QED BY <1>2, <2>1, SeqOfFunction
<1>5. ListOK(tasks') /\ InOrder(tasks')
  <2>1. InOrder(tasks')
    BY <1>3, <1>4 DEF InOrder
  <2>2. ListOK(tasks)
    BY DEF JobInv, ListInv
  <2>3. ListOK(tasks')
    BY <1>3, <1>4, <2>2 DEF ListOK
  <2> QED BY <2>1, <2>3
<1>6. ListInv'
  BY <1>1, <1>5 DEF JobInv, ListInv
<1>7. SignInv'
  <2>1. tasks' # <<>> => tasks # <<>>
    BY <1>2, <1>4
  <2> QED BY <1>1, <2>1 DEF JobInv, SignInv
<1>8. InsertInv' /\ LoopInv' /\ OutInv' /\ MadeInv'
  BY <1>1 DEF JobInv, InsertInv, LoopInv, InLoop, OutInv, MadeInv
<1>9. EndInv'
  BY <1>1, <1>3, <1>4 DEF JobInv, InsertInv, EndInv, AllSucceeded
<1> QED BY <1>6, <1>7, <1>8, <1>9 DEF Rest

\* Nothing after a task that has not succeeded has been begun.
LEMMA LaterQueued ==
  ASSUME JobInv, pos \in 1 .. Len(plan), plan[pos].status # "succeeded"
  PROVE  \A j \in 1 .. Len(plan) : pos < j => plan[j].status = "queued"
BY DEF JobInv, ListInv, InOrder

\* What holds in the loop at the runner's place.
LEMMA LoopFacts ==
  ASSUME JobInv, InLoop
  PROVE  /\ Len(plan) \in {Steps + 1, Full} /\ Len(plan) \in Nat /\ Full = Steps + 2 /\ Full \in Nat
         /\ pos \in Nat \ {0} /\ pos <= Len(plan) + 1 /\ row # "succeeded"
         /\ plan \in Seq(Task) /\ tasks \in Seq(Task)
<1>1. Full = Steps + 2 /\ Full \in Nat
  BY JobsAssumption DEF Full
<1>2. pos \in Nat \ {0}
  BY <1>1 DEF JobInv, TypeOK
<1>3. row # "succeeded"
  BY DEF JobInv, EndInv, InLoop
<1> QED BY <1>1, <1>2, <1>3 DEF JobInv, ListInv, ListOK, LoopInv

\* The list and the signature after a status is written.
LEMMA WrittenList ==
  ASSUME JobInv, Rewritten(tasks, tasks', pos, tasks'[pos].status), InOrder(tasks'), row # "gone",
         Len(tasks) # 0, UNCHANGED <<row, plan, sign>>, out' \in States, pc' \notin {"replace", "insert"}
  PROVE  ListInv' /\ SignInv'
<1>1. ListInv'
  BY DEF JobInv, ListInv, Rewritten
<1>2. tasks # <<>>
  OBVIOUS
<1>3. SignInv'
  BY <1>2 DEF JobInv, SignInv
<1> QED BY <1>1, <1>3

\* A finished task is passed over.
LEMMA SkipStep ==
  ASSUME JobInv, Skip
  PROVE  Rest'
<1>1. /\ pc = "loop" /\ pos <= Len(plan) /\ plan[pos].status = "succeeded" /\ pos' = pos + 1
      /\ UNCHANGED <<row, tasks, sign, cache, made, pc, plan, out, rt, planOnly>>
  BY DEF Skip, stored
<1>2. InLoop
  BY <1>1 DEF InLoop
<1>3. /\ Len(plan) \in {Steps + 1, Full} /\ Len(plan) \in Nat /\ Full = Steps + 2 /\ Full \in Nat
      /\ pos \in Nat \ {0}
  BY <1>2, LoopFacts
<1>4. ListInv' /\ SignInv' /\ InsertInv' /\ EndInv'
  BY <1>1 DEF JobInv, ListInv, SignInv, InsertInv, EndInv, AllSucceeded
<1>5. LoopInv'
  <2>1. row # "gone" => tasks[pos].status = "succeeded"
    BY <1>1, <1>2, <1>3 DEF JobInv, LoopInv
  <2> QED BY <1>1, <1>2, <1>3, <2>1 DEF JobInv, LoopInv, InLoop
<1>6. Len(out) = Steps
  BY <1>1, <1>3 DEF JobInv, OutInv, OutAt
<1>7. OutInv' /\ MadeInv'
  BY <1>1, <1>6 DEF JobInv, OutInv, OutAt, MadeInv
<1> QED BY <1>4, <1>5, <1>7 DEF Rest

\* A step whose planned state is sealed is taken from the cache.
LEMMA TakeCachedStep ==
  ASSUME JobInv, TakeCached
  PROVE  Rest'
<1>1. /\ pc = "loop" /\ pos <= Len(plan) /\ plan[pos].status \in {"queued", "running"} /\ pos \in Executes
      /\ row # "gone" /\ tasks' = [tasks EXCEPT ![pos].status = "succeeded"]
      /\ out' = plan[pos].out /\ pos' = pos + 1
      /\ UNCHANGED <<row, sign, cache, made, pc, plan, rt, planOnly>>
  BY DEF TakeCached, StillCached, SetTask
<1>2. InLoop
  BY <1>1 DEF InLoop
<1>3. /\ Len(plan) \in {Steps + 1, Full} /\ Len(plan) \in Nat /\ Full = Steps + 2 /\ Full \in Nat
      /\ pos \in Nat \ {0} /\ plan \in Seq(Task)
  BY <1>2, LoopFacts
<1>4. Rewritten(tasks, tasks', pos, "succeeded") /\ InOrder(tasks')
  BY <1>1, <1>2, WriteStatus
<1>5. plan[pos] \in Task /\ Len(plan[pos].out) = pos - 1
  BY <1>1, <1>3 DEF JobInv, ListInv, ListOK
<1>6. Len(tasks) = Len(plan)
  BY <1>1, <1>2, AtPlace
<1>7. ListInv' /\ SignInv'
  <2>1. tasks'[pos].status = "succeeded"
    BY <1>4 DEF Rewritten
  <2> QED BY <1>1, <1>3, <1>4, <1>5, <1>6, <2>1, WrittenList DEF Task
<1>8. InsertInv' /\ EndInv'
  BY <1>1, <1>2, LoopFacts DEF InsertInv, EndInv
<1>9. LoopInv'
  BY <1>1, <1>2, <1>3, <1>4, <1>6 DEF JobInv, LoopInv, InLoop, Rewritten
<1>10. \A j \in 1 .. Len(plan) : pos < j => plan[j].status = "queued"
  BY <1>1, <1>3, LaterQueued
<1>11. OutInv'
  <2>1. pos + 1 \in 3 .. Full /\ Len(out') = (pos + 1) - 2
    BY <1>1, <1>3, <1>5, JobsAssumption DEF Executes
  <2> QED BY <1>1, <1>3, <1>10, <2>1 DEF OutInv, OutAt
<1>12. MadeInv'
  BY <1>1 DEF JobInv, MadeInv
<1> QED BY <1>7, <1>8, <1>9, <1>11, <1>12 DEF Rest

\* A task is begun.
LEMMA BeginStep ==
  ASSUME JobInv, Begin
  PROVE  Rest'
<1>1. /\ pc = "loop" /\ pos <= Len(plan) /\ plan[pos].status \in {"queued", "running"}
      /\ row # "gone" /\ tasks' = [tasks EXCEPT ![pos].status = "running"]
      /\ pc' = IF pos = 1 THEN "finish" ELSE IF pos = Full THEN "instance" ELSE "run"
      /\ UNCHANGED <<row, sign, cache, made, plan, pos, out, rt, planOnly>>
  BY DEF Begin, SetTask
<1>2. InLoop
  BY <1>1 DEF InLoop
<1>3. /\ Len(plan) \in {Steps + 1, Full} /\ Len(plan) \in Nat /\ Full = Steps + 2 /\ Full \in Nat
      /\ pos \in Nat \ {0}
  BY <1>2, LoopFacts
<1>4. Rewritten(tasks, tasks', pos, "running") /\ InOrder(tasks')
  BY <1>1, <1>2, WriteStatus
<1>5. Len(tasks) = Len(plan)
  BY <1>1, <1>2, AtPlace
<1>6. ListInv' /\ SignInv'
  <2>1. tasks'[pos].status = "running" /\ out \in States
    BY <1>4 DEF Rewritten, JobInv, ListInv
  <2> QED BY <1>1, <1>3, <1>4, <1>5, <2>1, WrittenList
<1>7. InsertInv' /\ EndInv'
  BY <1>1, <1>2, LoopFacts DEF InsertInv, EndInv
<1>8. LoopInv'
  <2>1. pc' = "run" => pos \in Executes
    BY <1>1, <1>3, JobsAssumption DEF Executes
  <2> QED BY <1>1, <1>2, <1>3, <1>4, <1>5, <2>1 DEF JobInv, LoopInv, InLoop, Rewritten
<1>9. OutInv'
  BY <1>1, <1>3 DEF JobInv, OutInv, OutAt
<1>10. MadeInv'
  BY <1>1, <1>3, JobsAssumption DEF JobInv, MadeInv
<1> QED BY <1>6, <1>7, <1>8, <1>9, <1>10 DEF Rest

\* The end of a list without prepare-instance.
LEMMA EndOfListStep ==
  ASSUME JobInv, EndOfList
  PROVE  Rest'
<1>1. /\ pc = "loop" /\ pos > Len(plan) /\ pc' \in {"fail", "instance"}
      /\ UNCHANGED <<row, tasks, sign, cache, made, plan, pos, out, rt, planOnly>>
  BY DEF EndOfList, stored
<1>2. InLoop
  BY <1>1 DEF InLoop
<1>3. /\ Len(plan) \in Nat /\ pos \in Nat \ {0} /\ pos <= Len(plan) + 1
  BY <1>2, LoopFacts
<1>4. ListInv' /\ SignInv' /\ InsertInv'
  BY <1>1 DEF JobInv, ListInv, SignInv, InsertInv
<1>5. LoopInv'
  BY <1>1, <1>2, <1>3 DEF JobInv, LoopInv, InLoop
<1>6. OutInv' /\ MadeInv'
  BY <1>1 DEF JobInv, OutInv, OutAt, MadeInv
<1>7. EndInv'
  BY <1>1, <1>2, LoopFacts DEF EndInv
<1> QED BY <1>4, <1>5, <1>6, <1>7 DEF Rest

\* A step is built or found; it leads to a state of its length.
LEMMA ExecuteStep ==
  ASSUME JobInv, Execute
  PROVE  Rest'
<1> DEFINE input == plan[pos].in
           id == Append(input, StepHash)
           built == [id |-> id, data |-> Append(EnsureRuntime(input).data, source[pos - 1])]
<1>1. /\ pc = "run" /\ pc' = "finish" /\ out' = id
      /\ UNCHANGED <<row, sign, made, plan, pos, planOnly>>
  BY DEF Execute
<1>2. InLoop
  BY <1>1 DEF InLoop
<1>3. /\ Len(plan) \in {Steps + 1, Full} /\ Len(plan) \in Nat /\ Full = Steps + 2 /\ Full \in Nat
      /\ pos \in Nat \ {0} /\ row # "succeeded"
  BY <1>2, LoopFacts
<1>4. /\ pos \in Executes /\ pos \in 1 .. Len(plan) /\ plan[pos] \in Task
      /\ id \in States /\ Len(id) = pos - 1 /\ source[pos - 1] \in Versions
  BY <1>1, StepName
<1>5. plan[pos].status # "succeeded"
  BY <1>1, <1>2, <1>4 DEF JobInv, LoopInv
<1>6. MadeInv'
  <2>1. CASE id \in Named
    <3>1. cache' = cache /\ rt' = Nothing
      BY <2>1 DEF Execute
    <3> QED BY <1>1, <1>3, <1>4, <3>1, JobsAssumption DEF JobInv, MadeInv, Executes
  <2>2. CASE id \notin Named
    <3>1. (Holds(input) \/ Present(input)) /\ cache' = cache \cup {built} /\ rt' = built
      BY <2>2 DEF Execute
    <3>2. input \in States /\ Len(input) = pos - 2
      BY <1>4 DEF Task, JobInv, ListInv, ListOK
    <3>3. EnsureRuntime(input) \in [id : States, data : States] /\ Len(EnsureRuntime(input).data) = Len(input)
      BY <3>1, <3>2, RuntimeTyped DEF JobInv
    <3>4. Len(Append(EnsureRuntime(input).data, source[pos - 1])) = pos - 1
      BY <1>3, <1>4, <3>2, <3>3 DEF States
    <3>5. Len(built.data) = Len(built.id)
      BY <1>4, <3>4
    <3> HIDE DEF built
    <3> QED BY <1>1, <1>3, <1>4, <3>1, <3>5, JobsAssumption DEF JobInv, MadeInv, Executes
  <2> QED BY <2>1, <2>2
<1> HIDE DEF id
<1>7. /\ row = "gone" => tasks' = tasks
      /\ row # "gone" => /\ ListOK(tasks') /\ Len(tasks') = Len(tasks)
                         /\ \A i \in 1 .. Len(tasks) : tasks'[i].status = tasks[i].status
  BY ExecuteTasks
<1>8. ListInv'
  <2>1. CASE row = "gone"
    BY <1>1, <1>4, <1>7, <2>1 DEF JobInv, ListInv
  <2>2. CASE row # "gone"
    <3>1. InOrder(tasks')
      BY <1>7, <2>2 DEF JobInv, ListInv, InOrder
    <3> QED BY <1>1, <1>4, <1>7, <2>2, <3>1 DEF JobInv, ListInv
  <2> QED BY <2>1, <2>2
<1>9. SignInv'
  <2>1. CASE row = "gone"
    BY <1>1, <1>7, <2>1 DEF JobInv, SignInv
  <2>2. CASE row # "gone"
    <3>1. Len(tasks) = Len(plan)
      BY <1>2, <2>2 DEF JobInv, LoopInv
    <3>2. tasks # <<>>
      BY <1>4, <3>1
    <3> QED BY <1>1, <3>2 DEF JobInv, SignInv
  <2> QED BY <2>1, <2>2
<1>10. InsertInv' /\ EndInv'
  BY <1>1, <1>3 DEF InsertInv, EndInv
<1>11. LoopInv'
  BY <1>1, <1>2, <1>3, <1>4, <1>7 DEF JobInv, LoopInv, InLoop
<1>12. OutInv'
  <2>1. \A j \in 1 .. Len(plan) : pos < j => plan[j].status = "queued"
    BY <1>4, <1>5, LaterQueued
  <2>2. pos + 1 \in 3 .. Full /\ Len(out') = (pos + 1) - 2
    BY <1>1, <1>3, <1>4, JobsAssumption DEF Executes
  <2> QED BY <1>1, <1>3, <2>1, <2>2 DEF OutInv, OutAt
<1> QED BY <1>6, <1>8, <1>9, <1>10, <1>11, <1>12 DEF Rest

\* A task that fails is the last one begun.
LEMMA TaskFailsStep ==
  ASSUME JobInv, TaskFails
  PROVE  Rest'
<1>0. CASE pc = "waiting"
  BY <1>0, QuietStep DEF TaskFails, JobInv, EndInv
<1> SUFFICES ASSUME pc # "waiting" PROVE Rest'
  BY <1>0
<1>1. /\ pc \in {"run", "instance"} /\ pc' = "fail"
      /\ tasks' = tasks \/ (row # "gone" /\ ~(pos > Len(tasks)) /\ tasks' = [tasks EXCEPT ![pos].status = "failed"])
      /\ UNCHANGED <<row, sign, cache, made, plan, pos, out, rt, planOnly>>
  BY DEF TaskFails
<1>2. InLoop
  BY <1>1 DEF InLoop
<1>3. row # "succeeded" /\ pos \in Nat \ {0} /\ Len(plan) \in Nat
  BY <1>2, LoopFacts
<1>4. ListInv' /\ SignInv'
  <2>1. CASE tasks' = tasks
    BY <1>1, <2>1 DEF JobInv, ListInv, SignInv
  <2>2. CASE row # "gone" /\ ~(pos > Len(tasks)) /\ tasks' = [tasks EXCEPT ![pos].status = "failed"]
    <3>1. Len(tasks) = Len(plan)
      BY <1>2, <2>2 DEF JobInv, LoopInv
    <3>2. pos <= Len(plan)
      BY <1>3, <2>2, <3>1
    <3>3. plan[pos].status # "succeeded"
      BY <1>1, <1>2, <3>2 DEF JobInv, LoopInv
    <3>4. Rewritten(tasks, tasks', pos, "failed") /\ InOrder(tasks')
      BY <1>2, <2>2, <3>2, <3>3, WriteStatus
    <3>5. tasks'[pos].status = "failed" /\ out \in States
      BY <3>4 DEF Rewritten, JobInv, ListInv
    <3> QED BY <1>1, <1>3, <2>2, <3>1, <3>2, <3>4, <3>5, WrittenList
  <2> QED BY <1>1, <2>1, <2>2
<1>5. InsertInv' /\ EndInv' /\ LoopInv' /\ OutInv' /\ MadeInv'
  BY <1>1, <1>3 DEF JobInv, InsertInv, EndInv, LoopInv, InLoop, OutInv, MadeInv
<1> QED BY <1>4, <1>5 DEF Rest

\* A task is marked succeeded; the last one ends the job.
LEMMA FinishStep ==
  ASSUME JobInv, Finish
  PROVE  Rest'
<1>1. /\ pc = "finish" /\ row # "gone" /\ tasks' = [tasks EXCEPT ![pos].status = "succeeded"]
      /\ IF pos = Full THEN pc' = "succeed" /\ pos' = pos ELSE pc' = "loop" /\ pos' = pos + 1
      /\ UNCHANGED <<row, sign, cache, made, plan, out, rt, planOnly>>
  BY DEF Finish, SetTask
<1>2. InLoop
  BY <1>1 DEF InLoop
<1>3. /\ Len(plan) \in {Steps + 1, Full} /\ Len(plan) \in Nat /\ Full = Steps + 2 /\ Full \in Nat
      /\ pos \in Nat \ {0} /\ row # "succeeded"
  BY <1>2, LoopFacts
<1>4. pos <= Len(plan) /\ plan[pos].status # "succeeded"
  BY <1>1, <1>2 DEF JobInv, LoopInv
<1>5. Rewritten(tasks, tasks', pos, "succeeded") /\ InOrder(tasks')
  BY <1>1, <1>2, <1>4, WriteStatus
<1>6. Len(tasks) = Len(plan) /\ \A i \in 1 .. Len(tasks) : i < pos => tasks[i].status = "succeeded"
  BY <1>1, <1>2, <1>4, AtPlace
<1>7. ListInv' /\ SignInv'
  <2>1. tasks'[pos].status = "succeeded" /\ out \in States
    BY <1>5 DEF Rewritten, JobInv, ListInv
  <2> QED BY <1>1, <1>3, <1>4, <1>5, <1>6, <2>1, WrittenList
<1>8. CASE pos = Full
  <2>1. AllSucceeded'
    <3> SUFFICES ASSUME NEW i \in 1 .. Len(tasks') PROVE tasks'[i].status = "succeeded"
      BY DEF AllSucceeded
    <3>1. Len(tasks') = Len(tasks) /\ tasks'[pos].status = "succeeded"
          /\ \A k \in 1 .. Len(tasks) : k # pos => tasks'[k] = tasks[k]
      BY <1>5 DEF Rewritten
    <3>2. i = pos \/ i < pos
      BY <1>3, <1>4, <1>6, <1>8, <3>1, JobsAssumption
    <3> QED BY <1>6, <3>1, <3>2
  <2>2. made # Nothing
    BY <1>1, <1>8 DEF JobInv, MadeInv
  <2>3. EndInv'
    BY <1>1, <1>3, <1>8, <2>1, <2>2 DEF EndInv
  <2>4. InsertInv' /\ LoopInv' /\ OutInv' /\ MadeInv'
    BY <1>1, <1>8 DEF JobInv, InsertInv, LoopInv, InLoop, OutInv, MadeInv
  <2> QED BY <1>7, <2>3, <2>4 DEF Rest
<1>9. CASE pos # Full
  <2>1. InsertInv' /\ EndInv' /\ MadeInv'
    BY <1>1, <1>3, <1>9 DEF JobInv, InsertInv, EndInv, MadeInv
  <2>2. LoopInv'
    BY <1>1, <1>2, <1>3, <1>4, <1>5, <1>6, <1>9 DEF JobInv, LoopInv, InLoop, Rewritten
  <2>3. OutInv'
    <3>1. pos < Full /\ pos' = pos + 1 /\ pc' = "loop"
      BY <1>1, <1>3, <1>4, <1>9, JobsAssumption
    <3>2. OutAt(pos + 1)
      BY <1>1, <3>1 DEF JobInv, OutInv
    <3> QED BY <1>1, <3>1, <3>2 DEF OutInv, OutAt
  <2> QED BY <1>7, <2>1, <2>2, <2>3 DEF Rest
<1> QED BY <1>8, <1>9

\* The instance is made of the last state.
LEMMA PublishStep ==
  ASSUME JobInv, Publish
  PROVE  Rest'
<1>1. /\ pc = "instance" /\ pc' = IF pos <= Len(plan) THEN "finish" ELSE "succeed"
      /\ UNCHANGED <<row, tasks, sign, cache, plan, pos, out, planOnly>>
  BY DEF Publish
<1>2. InLoop
  BY <1>1 DEF InLoop
<1>3. /\ Len(plan) \in {Steps + 1, Full} /\ Len(plan) \in Nat /\ Full = Steps + 2 /\ Full \in Nat
      /\ pos \in Nat \ {0} /\ row # "succeeded"
  BY <1>2, LoopFacts
<1>4. pos \in {Full, Len(plan) + 1}
  BY <1>1, <1>2 DEF JobInv, LoopInv
<1>5. out \in States /\ Len(out) = Steps
  BY <1>1, <1>3, <1>4, JobsAssumption DEF JobInv, ListInv, OutInv, OutAt
<1>6. made' # Nothing /\ MadeInv'
  <2>1. CASE made # Nothing
    <3>1. made' = made /\ rt' = rt
      BY <2>1 DEF Publish
    <3> QED BY <1>1, <2>1, <3>1 DEF JobInv, MadeInv
  <2>2. CASE made = Nothing
    <3>1. (Holds(out) \/ Present(out)) /\ made' = EnsureRuntime(out) /\ rt' = EnsureRuntime(out)
      BY <2>2 DEF Publish
    <3>2. /\ EnsureRuntime(out) \in [id : States, data : States]
          /\ EnsureRuntime(out).id = out /\ Len(EnsureRuntime(out).data) = Len(out)
      BY <1>5, <3>1, RuntimeTyped DEF JobInv
    <3>3. made' # Nothing
      BY <3>1, <3>2, JobsAssumption DEF States
    <3> QED BY <1>1, <1>5, <3>1, <3>2, <3>3 DEF JobInv, MadeInv
  <2> QED BY <2>1, <2>2
<1>7. ListInv' /\ SignInv' /\ InsertInv'
  BY <1>1 DEF JobInv, ListInv, SignInv, InsertInv
<1>8. LoopInv'
  BY <1>1, <1>2, <1>3 DEF JobInv, LoopInv, InLoop
<1>9. OutInv'
  BY <1>1, <1>3, <1>4 DEF OutInv, OutAt
<1>10. EndInv'
  <2>1. pos > Len(plan) /\ row # "gone" => AllSucceeded
    <3> SUFFICES ASSUME pos > Len(plan), row # "gone", NEW i \in 1 .. Len(tasks)
                 PROVE  tasks[i].status = "succeeded"
      BY DEF AllSucceeded
    <3>1. Len(tasks) = Len(plan)
      BY <1>2 DEF JobInv, LoopInv
    <3>2. i \in 1 .. Len(plan) /\ i < pos
      BY <1>3, <3>1
    <3> QED BY <1>2, <3>2 DEF JobInv, LoopInv
  <2> QED BY <1>1, <1>3, <1>6, <2>1 DEF EndInv, AllSucceeded
<1> QED BY <1>6, <1>7, <1>8, <1>9, <1>10 DEF Rest

\* Every step but the types.
LEMMA RestStep ==
  ASSUME JobInv, [Next]_vars
  PROVE  Rest'
BY QuietActions, CrashStep, DeleteStep, LoadTasksStep, PlanStep, ReplaceStep, InsertStep, PlanDoneStep,
   SkipStep, TakeCachedStep, BeginStep, EndOfListStep, ExecuteStep, TaskFailsStep, FinishStep, PublishStep
   DEF Next, RunnerStep

\* The flags of the job.
FlagsOK ==
  /\ planOnly \in BOOLEAN /\ registered \in BOOLEAN /\ cancelled \in BOOLEAN /\ forced \in BOOLEAN
  /\ unsaved \in BOOLEAN /\ lockLeft \in BOOLEAN

\* Every step keeps the flags.
LEMMA FlagsStep ==
  ASSUME FlagsOK, [Next]_vars
  PROVE  FlagsOK'
<1> USE DEF FlagsOK, stored, runner
<1>1. CASE Submit \/ Spawn \/ RestoreFails \/ Load \/ Mark \/ LoadTasks \/ Plan \/ Replace \/ Insert \/ PlanDone
  BY <1>1 DEF Submit, Spawn, RestoreFails, Load, Mark, LoadTasks, Plan, Replace, Insert, PlanDone, WriteEnd
<1>2. CASE Skip \/ FoundFailed \/ TakeCached \/ Begin \/ EndOfList \/ Execute \/ AwaitLock \/ TaskFails \/ Finish
  BY <1>2 DEF Skip, FoundFailed, TakeCached, Begin, EndOfList, Execute, AwaitLock, TaskFails, Finish
<1>3. CASE Publish \/ Fails \/ Succeed \/ FailJob \/ Close \/ Unregister
  BY <1>3 DEF Publish, Fails, Succeed, FailJob, Close, Unregister, WriteEnd
<1>4. CASE CancelRead \/ CancelRunner \/ CancelFail \/ DeleteRead \/ DeleteKill \/ DeleteWait \/ DeleteRow
  BY <1>4 DEF CancelRead, CancelRunner, CancelFail, DeleteRead, DeleteKill, DeleteWait, DeleteRow
<1>5. CASE Trim \/ Edit \/ Crash \/ UNCHANGED vars
  BY <1>5 DEF Trim, Edit, Crash, vars
<1> QED BY <1>1, <1>2, <1>3, <1>4, <1>5 DEF Next, RunnerStep

\* The places of the runner and of the requests, and the row.
PlacesOK ==
  /\ row \in {"absent", "queued", "running", "succeeded", "failed", "gone"}
  /\ why \in {"none", "cancelled", "error", "chain"}
  /\ pc \in {"none", "spawn", "load", "mark", "tasks", "plan", "replace", "insert", "loop", "run",
             "waiting", "finish", "instance", "plandone", "succeed", "fail", "refuse", "close", "closed"}
  /\ cpc \in {"idle", "lookup", "fail"}
  /\ dpc \in {"idle", "kill", "wait", "row"}
  /\ crashes \in Nat

\* Every step keeps the places.
LEMMA PlacesStep ==
  ASSUME PlacesOK, [Next]_vars
  PROVE  PlacesOK'
<1> USE DEF PlacesOK, stored, runner
<1>1. CASE Submit \/ Spawn \/ RestoreFails \/ Load \/ Mark
  BY <1>1 DEF Submit, Spawn, RestoreFails, Load, Mark, WriteEnd, SetRow
<1>2. CASE LoadTasks \/ Plan \/ Replace \/ Insert \/ PlanDone
  BY <1>2 DEF LoadTasks, Plan, Replace, Insert, PlanDone
<1>3. CASE Skip \/ FoundFailed \/ TakeCached \/ Begin \/ EndOfList
  BY <1>3 DEF Skip, FoundFailed, TakeCached, Begin, EndOfList
<1>4. CASE Execute \/ AwaitLock \/ TaskFails \/ Finish \/ Publish \/ Fails
  BY <1>4 DEF Execute, AwaitLock, TaskFails, Finish, Publish, Fails
<1>5. CASE Succeed \/ FailJob \/ Close \/ Unregister
  <2>1. CASE Succeed
    BY <2>1 DEF Succeed, WriteEnd, SetRow
  <2>2. CASE FailJob
    BY <2>2 DEF FailJob, WriteEnd, SetRow
  <2>3. CASE Close \/ Unregister
    BY <2>3 DEF Close, Unregister
  <2> QED BY <1>5, <2>1, <2>2, <2>3
<1>6. CASE CancelRead \/ CancelRunner \/ CancelFail
  BY <1>6 DEF CancelRead, CancelRunner, CancelFail, SetRow
<1>7. CASE DeleteRead \/ DeleteKill \/ DeleteWait \/ DeleteRow \/ Trim
  BY <1>7 DEF DeleteRead, DeleteKill, DeleteWait, DeleteRow, Trim
<1>8. CASE Edit \/ Crash \/ UNCHANGED vars
  <2>1. CASE Crash
    <3>1. /\ row' = row /\ why' = why /\ pc' \in {"spawn", "none"}
          /\ cpc' = "idle" /\ dpc' = "idle" /\ crashes' = crashes + 1
      BY <2>1 DEF Crash
    <3> QED BY <3>1
  <2>2. CASE Edit \/ UNCHANGED vars
    BY <2>2 DEF Edit, vars
  <2> QED BY <1>8, <2>1, <2>2
<1> QED BY <1>1, <1>2, <1>3, <1>4, <1>5, <1>6, <1>7, <1>8 DEF Next, RunnerStep

\* The states, the scripts and the runner's place in the list.
DataOK ==
  /\ cache \subseteq [id : States, data : States]
  /\ made \in [id : States, data : States] \cup {Nothing}
  /\ rt \in [id : States, data : States] \cup {Nothing}
  /\ source \in [1 .. Steps -> Versions]
  /\ pos \in 1 .. Full + 1

\* Every step keeps the states, scripts and place in the list.
LEMMA DataStep ==
  ASSUME JobInv, [Next]_vars
  PROVE  DataOK'
<1> USE DEF DataOK, stored, runner
<1>1. DataOK /\ Full \in Nat
  BY JobsAssumption DEF JobInv, TypeOK, Full
<1>2. CASE Execute
  <2> DEFINE input == plan[pos].in
             id == Append(input, StepHash)
             built == [id |-> id, data |-> Append(EnsureRuntime(input).data, source[pos - 1])]
  <2>1. UNCHANGED <<made, source, pos>> /\ pc = "run"
    BY <1>2 DEF Execute
  <2>2. CASE id \in Named
    <3>1. cache' = cache /\ rt' = Nothing
      BY <1>2, <2>2 DEF Execute
    <3> QED BY <1>1, <2>1, <3>1
  <2>3. CASE id \notin Named
    <3>1. (Holds(input) \/ Present(input)) /\ cache' = cache \cup {built} /\ rt' = built
      BY <1>2, <2>3 DEF Execute
    <3>2. plan[pos] \in Task /\ id \in States /\ source[pos - 1] \in Versions
      BY <2>1, StepName
    <3>3. EnsureRuntime(input) \in [id : States, data : States]
      BY <3>1, <3>2, RuntimeTyped DEF JobInv, Task
    <3>4. built \in [id : States, data : States]
      BY <3>2, <3>3 DEF States
    <3> HIDE DEF built
    <3> QED BY <1>1, <2>1, <3>1, <3>4
  <2> QED BY <2>2, <2>3
<1>3. CASE Publish
  <2>1. UNCHANGED <<cache, source, pos>>
    BY <1>3 DEF Publish
  <2>2. CASE made # Nothing
    <3>1. made' = made /\ rt' = rt
      BY <1>3, <2>2 DEF Publish
    <3> QED BY <1>1, <2>1, <3>1
  <2>3. CASE made = Nothing
    <3>1. (Holds(out) \/ Present(out)) /\ made' = EnsureRuntime(out) /\ rt' = EnsureRuntime(out)
      BY <1>3, <2>3 DEF Publish
    <3>2. EnsureRuntime(out) \in [id : States, data : States]
      BY <3>1, RuntimeTyped DEF JobInv, ListInv
    <3> QED BY <1>1, <2>1, <3>1, <3>2
  <2> QED BY <2>2, <2>3
<1>4. CASE Skip \/ TakeCached \/ Finish
  <2>1. UNCHANGED <<cache, made, rt, source>> /\ pos' \in {pos, pos + 1} /\ InLoop
    BY <1>4 DEF Skip, TakeCached, Finish, InLoop
  <2>2. Len(plan) \in {Steps + 1, Full} /\ Full = Steps + 2 /\ pos <= Len(plan)
    BY <1>4, <2>1, LoopFacts DEF Skip, TakeCached, Finish, JobInv, LoopInv
  <2>3. pos' \in 1 .. Full + 1
    BY <1>1, <2>1, <2>2, JobsAssumption
  <2> QED BY <1>1, <2>1, <2>3
<1>5. CASE Submit \/ Spawn \/ RestoreFails \/ Load \/ Mark \/ LoadTasks \/ Plan \/ Replace \/ Insert \/ PlanDone
  BY <1>1, <1>5 DEF Submit, Spawn, RestoreFails, Load, Mark, LoadTasks, Plan, Replace, Insert, PlanDone
<1>6. CASE FoundFailed \/ Begin \/ EndOfList \/ AwaitLock \/ TaskFails \/ Fails
  BY <1>1, <1>6 DEF FoundFailed, Begin, EndOfList, AwaitLock, TaskFails, Fails
<1>7. CASE Succeed \/ FailJob \/ Close \/ Unregister
  BY <1>1, <1>7 DEF Succeed, FailJob, Close, Unregister, WriteEnd
<1>8. CASE CancelRead \/ CancelRunner \/ CancelFail \/ DeleteRead \/ DeleteKill \/ DeleteWait \/ DeleteRow
  BY <1>1, <1>8 DEF CancelRead, CancelRunner, CancelFail, DeleteRead, DeleteKill, DeleteWait, DeleteRow
<1>9. CASE Trim \/ Edit \/ Crash \/ UNCHANGED vars
  <2>1. CASE Crash
    <3>1. UNCHANGED <<cache, made, source>> /\ pos' = 1 /\ rt' = Nothing
      BY <2>1 DEF Crash
    <3> QED BY <1>1, <3>1, JobsAssumption DEF Full
  <2>2. CASE Trim \/ Edit \/ UNCHANGED vars
    BY <1>1, <2>2 DEF Trim, Edit, vars
  <2> QED BY <1>9, <2>1, <2>2
<1> QED BY <1>2, <1>3, <1>4, <1>5, <1>6, <1>7, <1>8, <1>9 DEF Next, RunnerStep

\* The first state.
LEMMA JobInit == Init => JobInv
<1> SUFFICES ASSUME Init PROVE JobInv
  OBVIOUS
<1>1. Full \in Nat /\ 1 \in 1 .. Full + 1
  BY JobsAssumption DEF Full
<1>2. ListOK(<<>>) /\ InOrder(<<>>) /\ <<>> \in States /\ <<>> \in Seq(Task) /\ Len(<<>>) = 0
  BY <1>1 DEF ListOK, InOrder, States
<1>3. PICK k \in 0 .. Steps :
        cache = {[id |-> SubSeq(source, 1, i), data |-> SubSeq(source, 1, i)] : i \in 1 .. k}
  BY DEF Init
<1>4. ASSUME NEW i \in 1 .. k
      PROVE  SubSeq(source, 1, i) \in States
  <2>1. \A j \in 1 .. i : source[j] \in Versions
    BY <1>3, JobsAssumption DEF Init
  <2> QED BY <2>1, SubSeqProperties DEF States
<1>5. ASSUME NEW s \in cache
      PROVE  s \in [id : States, data : States] /\ s.id = s.data
  <2>1. PICK i \in 1 .. k : s = [id |-> SubSeq(source, 1, i), data |-> SubSeq(source, 1, i)]
    BY <1>3
  <2>2. SubSeq(source, 1, i) \in States
    BY <1>4
  <2> QED BY <2>1, <2>2
<1>6. FlagsOK /\ PlacesOK
  BY DEF Init, FlagsOK, PlacesOK
<1>7. DataOK
  BY <1>1, <1>5 DEF Init, DataOK
<1>8. TypeOK
  BY <1>1, <1>2, <1>6, <1>7 DEF Init, TypeOK, FlagsOK, PlacesOK, DataOK
<1>9. ListInv /\ SignInv /\ InsertInv /\ LoopInv /\ OutInv
  BY <1>2 DEF Init, ListInv, SignInv, InsertInv, LoopInv, InLoop, OutInv
<1>10. MadeInv /\ EndInv
  BY <1>5 DEF Init, MadeInv, EndInv
<1> QED BY <1>8, <1>9, <1>10 DEF JobInv

\* The task list, the runner's place in it and the states it has come to stay
\* in step, for any number of steps, versions and restarts, with both kinds of
\* job and every interleaving of edits, cancels and deletes.
THEOREM JobInvariant == Spec => []JobInv
<1>1. JobInv /\ [Next]_vars => JobInv'
  <2> SUFFICES ASSUME JobInv, [Next]_vars PROVE JobInv'
    OBVIOUS
  <2>1. Rest'
    BY RestStep
  <2>2. FlagsOK /\ PlacesOK
    BY DEF JobInv, TypeOK, FlagsOK, PlacesOK
  <2>3. FlagsOK' /\ PlacesOK' /\ DataOK'
    BY <2>2, FlagsStep, PlacesStep, DataStep
  <2>4. TypeOK'
    BY <2>1, <2>3 DEF Rest, ListInv, ListOK, TypeOK, FlagsOK, PlacesOK, DataOK
  <2> QED BY <2>1, <2>4 DEF Rest, JobInv
<1> QED BY <1>1, JobInit, PTL DEF Spec

\* No task is begun before all tasks before it have succeeded.
THEOREM OrderIsKept == Spec => []TasksInOrder
<1>1. JobInv => TasksInOrder
  <2> SUFFICES ASSUME JobInv, NEW j \in DOMAIN tasks, tasks[j].status # "queued", NEW i \in 1 .. j - 1
               PROVE  tasks[i].status = "succeeded"
    BY DEF TasksInOrder
  <2>1. InOrder(tasks) /\ DOMAIN tasks = 1 .. Len(tasks) /\ Len(tasks) \in Nat
    BY DEF JobInv, ListInv, ListOK
  <2>2. i \in 1 .. Len(tasks) /\ j \in 1 .. Len(tasks) /\ i < j
    BY <2>1
  <2> QED BY <2>1, <2>2 DEF InOrder
<1> QED BY <1>1, JobInvariant, PTL

\* A job that is reported as succeeded has finished its whole list and, unless
\* it was only planned, has an instance with every script applied.
THEOREM SuccessIsWhole == Spec => []SucceededWhole
<1>1. JobInv => SucceededWhole
  <2> SUFFICES ASSUME JobInv, row = "succeeded"
               PROVE  /\ \A i \in DOMAIN tasks : tasks[i].status = "succeeded"
                      /\ planOnly \/ (made # Nothing /\ Len(made.data) = Steps)
    BY DEF SucceededWhole
  <2>1. DOMAIN tasks = 1 .. Len(tasks)
    BY DEF JobInv, ListInv, ListOK
  <2> QED BY <2>1 DEF JobInv, EndInv, AllSucceeded, MadeInv
<1> QED BY <1>1, JobInvariant, PTL
=============================================================================

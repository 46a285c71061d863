----------------------------- MODULE PsqlInputs -----------------------------
(* The files behind a psql prepare.  The CLI (inputset/psql) normalises the    *)
(* arguments and reports the closure of included files; the engine             *)
(* (prepare/psql*.go) validates them, splits them into steps, hashes the       *)
(* expanded text of each step and runs psql on it inside a container.          *)
(* A path is a sequence of names below the workspace; the spellings of a flag  *)
(* (-f x, --file=x, -fx) are one argument [k, given].                          *)
EXTENDS Integers, SequencesExt

CONSTANTS
    PsqlRequests,     \* [args, cwd, stdin, fs]: the invocations that are checked
    PsqlEdits         \* contents an editor may put into a file before the run

VARIABLES
    pqReq, pqPc,
    pqArgs,     \* arguments the CLI sent
    pqPrep,     \* what preparePsqlArgs returned
    pqPlan,     \* digests of the steps when the plan was made
    pqRun,      \* per executed step: [args, digest, text]
    pqEdits

psqlVars == <<pqReq, pqPc, pqArgs, pqPrep, pqPlan, pqRun, pqEdits>>

Dir(path) == SubSeq(path, 1, Len(path) - 1)
NotOK == [ok |-> FALSE, text |-> <<>>, files |-> {}]

(* The engine's side. *)

isConnectionFlag(a) == a.k = "connection"

\* checkOnErrorStop: the variable given as ON_ERROR_STOP, =0 or =1.
BadVar(a) == a.k = "var" /\ a.given \in {"stop", "stop=0"}

\* addFileInput and handleCommandFlag; "-f -" is the argument "stdin".
InputsOf(stdin, a) ==
    CASE a.k = "stdin" /\ stdin # <<>> -> <<[kind |-> "stdin", value |-> stdin]>>
      [] a.k = "file" -> <<[kind |-> "file", value |-> a.given]>>
      [] a.k = "command" -> <<[kind |-> "command", value |-> a.given]>>
      [] OTHER -> <<>>

\* Shared flags are those seen so far; an input ends a step.
buildPsqlSteps(args, stdin) ==
    LET Add(acc, a) ==
          IF a.k \in {"file", "stdin", "command"}
          THEN [acc EXCEPT !.steps = Append(@, [args |-> acc.shared, inputs |-> InputsOf(stdin, a)])]
          ELSE [acc EXCEPT !.shared = Append(@, a)]
        all == FoldLeft(Add, [shared |-> <<>>, steps |-> <<>>], args)
    IN  IF all.steps = <<>> THEN <<[args |-> all.shared, inputs |-> <<>>]>> ELSE all.steps

FilesGiven(args) == SelectSeq(args, LAMBDA a : a.k = "file")

preparePsqlArgs(fs, args, stdin) ==
    LET has(P(_)) == \E i \in 1..Len(args) : P(args[i])
        usesStdin == has(LAMBDA a : a.k = "stdin")
        files == FilesGiven(args)
        normalized == args \o (IF has(LAMBDA a : a.k = "X") THEN <<>> ELSE <<[k |-> "X", given |-> <<>>]>>)
                           \o (IF has(LAMBDA a : a.k = "var" /\ a.given = "stop=1") THEN <<>>
                               ELSE <<[k |-> "var", given |-> "stop=1"]>>)
        rejected == \/ has(isConnectionFlag) \/ has(BadVar) \/ has(LAMBDA a : a.k = "word")
                    \/ usesStdin # (stdin # <<>>)
                    \/ \E i \in 1..Len(files) : files[i].given \notin DOMAIN fs
    IN  [ok |-> ~rejected,
         inputs |-> FlattenSeq([i \in 1..Len(args) |-> InputsOf(stdin, args[i])]),
         steps |-> IF rejected THEN <<>> ELSE buildPsqlSteps(normalized, stdin),
         files |-> [i \in 1..Len(files) |-> files[i].given],
         workDir |-> IF files = <<>> THEN <<"engine">> ELSE Dir(files[1].given)]

\* Mutant of resolveIncludePath.
resolveIncludePathFlat(line, workDir, current) == workDir \o line.given

\* Plain includes resolve from the working directory, relative ones from the file.
resolveIncludePath(line, workDir, current) ==
    (IF line.k = "ir" /\ current # <<>> THEN Dir(current) ELSE workDir) \o line.given

RECURSIVE expandFile(_, _, _, _)
expandContent(fs, workDir, lines, current, stack) ==
    LET Add(acc, line) ==
          IF ~acc.ok THEN acc
          ELSE IF line.k = "sql" THEN [acc EXCEPT !.text = Append(@, line.given)]
          ELSE LET inner == expandFile(fs, workDir, resolveIncludePath(line, workDir, current), stack)
               IN  IF ~inner.ok THEN NotOK
                   ELSE [ok |-> TRUE, text |-> acc.text \o <<"|">> \o inner.text \o <<"|">>,
                         files |-> acc.files \cup inner.files]
    IN  FoldLeft(Add, [ok |-> TRUE, text |-> <<>>, files |-> {}], lines)

expandFile(fs, workDir, path, stack) ==
    IF path \in stack \/ path \notin DOMAIN fs THEN NotOK
    ELSE LET inner == expandContent(fs, workDir, fs[path], path, stack \cup {path})
         IN  [inner EXCEPT !.files = IF inner.ok THEN @ \cup {path} ELSE @]

\* The text whose hash names the state; a boundary separates the inputs.
computePsqlContentDigest(fs, inputs, workDir) ==
    LET One(acc, input) ==
          LET inner == IF input.kind = "file" THEN expandFile(fs, workDir, input.value, {})
                       ELSE expandContent(fs, workDir, input.value, <<>>, {})
          IN  IF ~acc.ok \/ ~inner.ok THEN NotOK
              ELSE [ok |-> TRUE, text |-> acc.text \o inner.text, files |-> acc.files \cup inner.files]
    IN  FoldLeft(One, [ok |-> TRUE, text |-> <<>>, files |-> {}], inputs)

\* commonDir of the files given, mounted read-only into the container.
scriptMountForFiles(files) ==
    LET dirs == {Dir(files[i]) : i \in 1..Len(files)}
        common == {p \in UNION {{SubSeq(d, 1, n) : n \in 0..Len(d)} : d \in dirs} :
                     \A d \in dirs : IsPrefix(p, d)}
    IN  IF files = <<>> THEN <<"none">>
        ELSE CHOOSE p \in common : \A q \in common : Len(q) <= Len(p)

\* The directory psql is started in: that of the step's own file.
rewritePsqlFileArgs(step, files) ==
    IF files # <<>> /\ step.inputs # <<>> /\ step.inputs[1].kind = "file"
    THEN Dir(step.inputs[1].value) ELSE <<"container">>

\* psql itself: it sees what is mounted, reads the step's input and its includes.
psql(fs, step, files) ==
    LET mount == scriptMountForFiles(files)
        visible == [p \in {q \in DOMAIN fs : IsPrefix(mount, q)} |-> fs[p]]
    IN  computePsqlContentDigest(visible, step.inputs, rewritePsqlFileArgs(step, files))

(* The CLI's side. *)

\* Relative file arguments are resolved from the working directory.
NormalizeArgs(args, cwd) ==
    [i \in 1..Len(args) |->
        IF args[i].k = "relative" THEN [k |-> "file", given |-> cwd \o args[i].given] ELSE args[i]]

RECURSIVE collect(_, _, _, _)
collectContent(fs, base, lines, current, st) ==
    LET Add(acc, line) ==
          IF line.k = "sql" THEN acc
          ELSE collect(fs, base, (IF line.k = "ir" /\ current # <<>> THEN Dir(current) ELSE base) \o line.given, acc)
    IN  FoldLeft(Add, st, lines)

\* The tracker: a file on the stack is an error, one seen before is skipped.
collect(fs, base, path, st) ==
    IF ~st.ok \/ path \in st.stack \/ path \notin DOMAIN fs THEN [st EXCEPT !.ok = FALSE]
    ELSE IF path \in ToSet(st.order) THEN st
    ELSE LET inner == collectContent(fs, base, fs[path], path,
                          [st EXCEPT !.order = Append(@, path), !.stack = @ \cup {path}])
         IN  [inner EXCEPT !.stack = st.stack]

CollectInvocationInputs(fs, args, stdin, base) ==
    LET sources == FlattenSeq([i \in 1..Len(args) |-> InputsOf(stdin, args[i])])
        One(st, s) == IF s.kind = "file" THEN collect(fs, base, s.value, st)
                      ELSE collectContent(fs, base, s.value, <<>>, st)
    IN  FoldLeft(One, [ok |-> TRUE, order |-> <<>>, stack |-> {}], sources)

-----------------------------------------------------------------------------

PsqlStart(request) ==
    /\ pqReq = request /\ pqPc = "cli" /\ pqArgs = <<>> /\ pqPrep = [ok |-> FALSE]
    /\ pqPlan = <<>> /\ pqRun = <<>> /\ pqEdits = 0
PsqlInit == \E request \in PsqlRequests : PsqlStart(request)

\* normalizePsqlArgs of the CLI; stdin is read only for "-f -".
SendPrepare ==
    /\ pqPc = "cli" /\ pqArgs' = NormalizeArgs(pqReq.args, pqReq.cwd) /\ pqPc' = "engine"
    /\ UNCHANGED <<pqReq, pqPrep, pqPlan, pqRun, pqEdits>>

SentStdin == IF \E i \in 1..Len(pqArgs) : pqArgs[i].k = "stdin"
             THEN pqReq.stdin ELSE <<>>

AcceptPsql ==
    /\ pqPc = "engine"
    /\ pqPrep' = preparePsqlArgs(pqReq.fs, pqArgs, SentStdin)
    /\ pqPc' = IF pqPrep'.ok THEN "plan" ELSE "rejected"
    /\ UNCHANGED <<pqReq, pqArgs, pqPlan, pqRun, pqEdits>>

buildPlanPsql ==
    /\ pqPc = "plan"
    /\ pqPlan' = [i \in 1..Len(pqPrep.steps) |->
                    computePsqlContentDigest(pqReq.fs, pqPrep.steps[i].inputs, pqPrep.workDir)]
    /\ pqPc' = IF \A i \in 1..Len(pqPlan') : pqPlan'[i].ok THEN "run" ELSE "rejected"
    /\ UNCHANGED <<pqReq, pqArgs, pqPrep, pqRun, pqEdits>>

\* Someone saves a file between two steps.
EditScript ==
    /\ pqPc = "run" /\ pqEdits = 0 /\ pqEdits' = 1
    /\ \E p \in DOMAIN pqReq.fs, c \in PsqlEdits : pqReq' = [pqReq EXCEPT !.fs[p] = c]
    /\ UNCHANGED <<pqPc, pqArgs, pqPrep, pqPlan, pqRun>>

\* The digest is taken again, under the locks psql then runs under.
executePsqlStep ==
    /\ pqPc = "run" /\ Len(pqRun) < Len(pqPrep.steps)
    /\ LET step == pqPrep.steps[Len(pqRun) + 1]
           digest == computePsqlContentDigest(pqReq.fs, step.inputs, pqPrep.workDir)
           out == psql(pqReq.fs, step, pqPrep.files)
       IN  /\ pqRun' = IF digest.ok
                       THEN Append(pqRun, [args |-> step.args, digest |-> digest, out |-> out])
                       ELSE pqRun
           /\ pqPc' = IF digest.ok /\ out.ok THEN "run" ELSE "failed"
    /\ UNCHANGED <<pqReq, pqArgs, pqPrep, pqPlan, pqEdits>>

PsqlOver ==
    /\ pqPc \in {"rejected", "failed"} \/ (pqPc = "run" /\ Len(pqRun) = Len(pqPrep.steps))
    /\ UNCHANGED psqlVars

PsqlNext == SendPrepare \/ AcceptPsql \/ buildPlanPsql \/ EditScript \/ executePsqlStep \/ PsqlOver

(* The steps carry exactly the inputs of the request, in its order: the two    *)
(* parsers of preparePsqlArgs and buildPsqlSteps agree.                        *)
StepsCarryInputs ==
    pqPrep.ok => FlattenSeq([i \in 1..Len(pqPrep.steps) |-> pqPrep.steps[i].inputs]) = pqPrep.inputs
(* What a step hashed is what psql read, also when a file was saved after the  *)
(* plan was made, for files in the directory of the first one.                 *)
HashedIsExecuted ==
    \A i \in 1..Len(pqRun) :
        LET step == pqPrep.steps[i] IN
        /\ pqRun[i].out.ok
        /\ step.inputs # <<>> /\ step.inputs[1].kind = "file"
        /\ Dir(step.inputs[1].value) = pqPrep.workDir
        => pqRun[i].digest = pqRun[i].out
(* The closure the CLI reports for provenance is the one the engine hashed,    *)
(* when both resolve plain includes from one directory.                        *)
ReportedIsHashed ==
    pqPc = "run" /\ pqEdits = 0 /\ pqReq.cwd = pqPrep.workDir =>
        LET seen == CollectInvocationInputs(pqReq.fs, pqArgs, SentStdin, pqReq.cwd)
        IN  seen.ok /\ ToSet(seen.order) = UNION {pqPlan[i].files : i \in 1..Len(pqPlan)}

(* The files of a psql prepare: the three parts above.                         *)
PsqlInputsSafe == StepsCarryInputs /\ HashedIsExecuted /\ ReportedIsHashed

(* Every psql that runs has the two enforced defaults, -X and ON_ERROR_STOP=1  *)
(* (docs/user-guides/sqlrs-prepare-psql.md).                                   *)
EnforcedDefaults ==
    \A i \in 1..Len(pqRun) :
        /\ \E j \in 1..Len(pqRun[i].args) : pqRun[i].args[j].k = "X"
        /\ \E j \in 1..Len(pqRun[i].args) : pqRun[i].args[j].k = "var" /\ pqRun[i].args[j].given = "stop=1"
=============================================================================

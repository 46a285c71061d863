--------------------------- MODULE LiquibaseInputs ---------------------------
(* The files and the command line of a Liquibase prepare.  The CLI             *)
(* (inputset/liquibase) checks and normalises the arguments and walks the      *)
(* changelog graph; the engine (prepare/liquibase*.go) validates them again,   *)
(* maps their paths for the executable it will start, plans with updateSQL     *)
(* and applies one changeset per task with update-count.                       *)
(* A path is a sequence of names below the workspace root; a reference is      *)
(* [k, p] with k one of abs, rel, remote, empty and, once mapped, mnt or win.  *)
EXTENDS Integers, SequencesExt

CONSTANTS
    LbRequests     \* [args, cwd, fs, mode]: the invocations that are checked

VARIABLES lqReq, lqPc,
    lqArgs,         \* arguments the CLI sent
    lqPrep,         \* what prepareLiquibaseArgs returned
    lqPlan,         \* changesets that updateSQL listed
    lqDone          \* changesets in the database, in the order they were applied

lbVars == <<lqReq, lqPc, lqArgs, lqPrep, lqPlan, lqDone>>

ParentDir(path) == SubSeq(path, 1, Len(path) - 1)
IsFolder(fs, p) == \E q \in DOMAIN fs : Len(q) > Len(p) /\ IsPrefix(p, q)
Stat(fs, p) == p \in DOMAIN fs \/ IsFolder(fs, p)
PathKinds == {"changelog", "defaults", "search"}

(* The CLI's side. *)

\* ResolvePath: relative to the base directory, and never outside the workspace.
ResolvePath(ref, base) == [k |-> "abs", p |-> IF ref.k = "rel" THEN base \o ref.p ELSE ref.p]
Outside(ref) == ref.k = "abs" /\ ref.p # <<>> /\ ref.p[1] = "outside"

rewriteValue(ref, base) == IF ref.k = "remote" THEN ref ELSE ResolvePath(ref, base)
Refused(ref) == ref.k = "empty" \/ Outside(ref)

\* All spellings of a flag are one argument [k, given]; given of a path flag is a sequence
\* of references, <<>> when the value is missing.
NormalizeLiquibaseArgs(args, base) ==
    LET bad == \E i \in 1..Len(args) :
                 args[i].k \in PathKinds
                   /\ (args[i].given = <<>> \/ \E j \in 1..Len(args[i].given) : Refused(args[i].given[j]))
    IN  [ok |-> ~bad,
         args |-> [i \in 1..Len(args) |->
                     IF args[i].k \in PathKinds
                     THEN [args[i] EXCEPT !.given = [j \in 1..Len(@) |-> rewriteValue(@[j], base)]]
                     ELSE args[i]]]

\* ValidateArgs of `alias check`: is there an issue.
validateLocalArg(fs, ref, base, requireFile) ==
    \/ Refused(ref)
    \/ /\ ref.k # "remote"
       /\ LET p == ResolvePath(ref, base).p IN ~Stat(fs, p) \/ (requireFile /\ IsFolder(fs, p))

ValidateArgs(fs, args, base) ==
    \E i \in 1..Len(args) :
        /\ args[i].k \in PathKinds
        /\ \/ args[i].given = <<>>
           \/ \E j \in 1..Len(args[i].given) : validateLocalArg(fs, args[i].given[j], base, args[i].k # "search")

LocalPaths(arg) == LET local == SelectSeq(arg.given, LAMBDA r : r.k # "remote")
                   IN  [j \in 1..Len(local) |-> local[j].p]
\* collectDeclared: the files named, in order, and the search path.
collectDeclared(args) ==
    LET of(kinds) == SelectSeq(args, LAMBDA a : a.k \in kinds)
        paths(kinds) == LET as == of(kinds) IN FlattenSeq([i \in 1..Len(as) |->
                            [j \in 1..Len(LocalPaths(as[i])) |-> [k |-> as[i].k, p |-> LocalPaths(as[i])[j]]]])
    IN  [files |-> paths({"changelog", "defaults"}), search |-> paths({"search"})]

\* Relative to the changelog unless it says false; otherwise the first search path
\* that has the file, and the root when none has.
resolveChangelogRef(fs, search, dir, ref) ==
    IF ref.rel THEN dir \o ref.p
    ELSE LET hits == SelectSeq(search, LAMBDA base : Stat(fs, base.p \o ref.p))
         IN  IF hits = <<>> THEN ref.p ELSE hits[1].p \o ref.p

\* Mutant of addLeaf.
addLeafAgain(fs, path, st) ==
    IF ~st.ok \/ ~Stat(fs, path) THEN [st EXCEPT !.ok = FALSE] ELSE [st EXCEPT !.order = Append(@, path)]

\* tracker.addLeaf: what is listed once is not listed again.
addLeaf(fs, path, st) ==
    IF ~st.ok \/ path \in ToSet(st.order) THEN st
    ELSE IF ~Stat(fs, path) THEN [st EXCEPT !.ok = FALSE] ELSE [st EXCEPT !.order = Append(@, path)]

\* The changelogs of a directory, not of its subdirectories, by name.
FolderFiles(fs, dir) ==
    SetToSortSeq({p \in DOMAIN fs : p # <<>> /\ ParentDir(p) = dir /\ fs[p].kind # "other"},
                 LAMBDA a, b : fs[a].name < fs[b].name)

\* The local references of a changelog, which says in any format what it includes:
\* files first, then directories, then the files of its changesets.
parseChangelogRefs(file) ==
    LET of(k) == SelectSeq(file.refs, LAMBDA r : r.k = k) IN of("include") \o of("all") \o of("file")

\* tracker.collect.  A changelog met again is skipped, so a cycle ends.
RECURSIVE collectChangelog(_, _, _, _)
collectChangelog(fs, search, path, st) ==
    IF ~st.ok \/ path \in ToSet(st.order) THEN st
    ELSE IF path \notin DOMAIN fs \/ fs[path].kind = "broken" THEN [st EXCEPT !.ok = FALSE]
    ELSE LET Next(ref) == resolveChangelogRef(fs, search, ParentDir(path), ref)
             One(acc, ref) ==
                 CASE ref.k = "include" -> collectChangelog(fs, search, Next(ref), acc)
                   [] ref.k = "all" ->
                        LET dir == Next(ref) IN
                        IF IsFolder(fs, dir)
                        THEN FoldLeft(LAMBDA a, p : collectChangelog(fs, search, p, a), acc, FolderFiles(fs, dir))
                        ELSE [acc EXCEPT !.ok = FALSE]
                   [] OTHER -> addLeaf(fs, Next(ref), acc)
         IN  FoldLeft(One, [st EXCEPT !.order = Append(@, path)], parseChangelogRefs(fs[path]))

collectInputSet(fs, args) ==
    LET declared == collectDeclared(args)
        One(st, f) == IF f.k = "changelog" THEN collectChangelog(fs, declared.search, f.p, st)
                      ELSE addLeaf(fs, f.p, st)
        all == FoldLeft(One, [ok |-> TRUE, order |-> <<>>], declared.files)
    IN  \* buildInputSet reads every file: a directory in the list is an error.
        [all EXCEPT !.ok = @ /\ \A p \in ToSet(all.order) : p \in DOMAIN fs]

(* The engine's side. *)

isLiquibaseConnectionFlag(a) == a.k = "connection"
isLiquibaseRuntimeFlag(a) == a.k = "runtime"

\* normalizeHostPath: a local path must exist, unless Windows is to resolve it.
PathMissing(fs, mode, ref) == mode # "windows" /\ ref.k # "remote" /\ ~Stat(fs, ref.p)
\* rewriteSinglePath: for a container a path is mounted once and named after its mount.
Mounted(mounts, p) == IF \E n \in 1..Len(mounts) : mounts[n] = p THEN mounts ELSE Append(mounts, p)
MountOf(mounts, p) == CHOOSE n \in 1..Len(mounts) : mounts[n] = p
normalizePathFlag(mode, mounts, refs) ==
    LET all == IF mode # "container" THEN mounts
               ELSE FoldLeft(LAMBDA m, r : IF r.k = "remote" THEN m ELSE Mounted(m, r.p), mounts, refs)
    IN  [mounts |-> all,
         given |-> [j \in 1..Len(refs) |->
                  IF mode # "container" \/ refs[j].k = "remote" THEN refs[j]
                  ELSE [k |-> "mnt", p |-> <<MountOf(all, refs[j].p)>>]]]

\* The files to lock while Liquibase reads them.
collectLiquibasePaths(args) ==
    FlattenSeq([i \in 1..Len(args) |->
        IF args[i].k \in {"changelog", "defaults"}
        THEN [j \in 1..Len(LocalPaths(args[i])) |-> [k |-> args[i].k, p |-> LocalPaths(args[i])[j]]]
        ELSE <<>>])

\* Path flags and flags before the command go first; the first bare word is the
\* command and must be an update.
prepareLiquibaseArgs(fs, args, cwd, mode) ==
    LET Add(acc, a) ==
          CASE a.k \in PathKinds ->
                 LET n == normalizePathFlag(mode, acc.mounts, a.given) IN
                 [acc EXCEPT !.pre = Append(@, [a EXCEPT !.given = n.given]), !.mounts = n.mounts]
            [] a.k = "flag" /\ acc.command = "" -> [acc EXCEPT !.pre = Append(@, a)]
            [] a.k = "flag" -> [acc EXCEPT !.post = Append(@, a)]
            [] a.k = "word" -> [acc EXCEPT !.post = Append(@, a),
                                           !.command = IF @ = "" THEN a.given ELSE @]
            [] OTHER -> acc
        all == FoldLeft(Add, [pre |-> <<>>, post |-> <<>>, mounts |-> <<>>, command |-> ""], args)
        rejected == \/ \E i \in 1..Len(args) : isLiquibaseConnectionFlag(args[i]) \/ isLiquibaseRuntimeFlag(args[i])
                    \/ \E i \in 1..Len(args) :
                         args[i].k \in PathKinds
                           /\ \E j \in 1..Len(args[i].given) : PathMissing(fs, mode, args[i].given[j])
                    \/ all.command \notin {"update", "update-count"}
    IN  [ok |-> ~rejected, args |-> all.pre \o all.post,
         mounts |-> IF mode = "container" /\ all.mounts = <<>> THEN <<cwd>> ELSE all.mounts,
         lockPaths |-> collectLiquibasePaths(args)]

\* mapLiquibaseArgs for a Windows executable started from WSL.
mapLiquibaseArgs(args, mode) ==
    [i \in 1..Len(args) |->
        IF mode = "windows" /\ args[i].k \in PathKinds
        THEN [args[i] EXCEPT !.given = [j \in 1..Len(@) |->
               IF @[j].k = "remote" THEN @[j] ELSE [@[j] EXCEPT !.k = "win"]]]
        ELSE args[i]]

\* Files below the working directory are named relative to it; search paths are not.
relativizeLiquibaseHostFileArgs(args, workDir) ==
    LET rel(r) == IF r.k = "abs" /\ IsPrefix(workDir, r.p) /\ r.p # workDir
                  THEN [k |-> "rel", p |-> SubSeq(r.p, Len(workDir) + 1, Len(r.p))] ELSE r
    IN  [i \in 1..Len(args) |->
            IF args[i].k \in {"changelog", "defaults"}
            THEN [args[i] EXCEPT !.given = [j \in 1..Len(@) |-> rel(@[j])]] ELSE args[i]]

\* The first bare word is replaced, or the command is appended.
replaceLiquibaseCommand(args, command) ==
    LET words == {i \in 1..Len(args) : args[i].k = "word"}
    IN  IF words = {} THEN Append(args, [k |-> "word", given |-> command])
        ELSE [args EXCEPT ![CHOOSE i \in words : \A j \in words : i <= j].given = command]

\* The command line of updateSQL and, with a count, of update-count.
LiquibaseArgs(command) ==
    LET mapped == mapLiquibaseArgs(lqPrep.args, lqReq.mode)
        placed == IF lqReq.mode = "windows" THEN mapped
                  ELSE relativizeLiquibaseHostFileArgs(mapped, lqReq.cwd)
    IN  <<[k |-> "connection", given |-> "engine"]>> \o replaceLiquibaseCommand(placed, command)

applyLiquibaseTaskArgs == Append(LiquibaseArgs("update-count"), [k |-> "flag", given |-> "count"])

\* Liquibase: the command line and the directory it is started in name host files.
HostPath(ref) ==
    CASE ref.k = "rel" -> lqReq.cwd \o ref.p
      [] ref.k = "mnt" -> lqPrep.mounts[ref.p[1]]
      [] OTHER -> ref.p
Opened(args) ==
    FlattenSeq([i \in 1..Len(args) |->
        IF args[i].k \in PathKinds
        THEN LET local == SelectSeq(args[i].given, LAMBDA r : r.k # "remote")
             IN  [j \in 1..Len(local) |-> [k |-> args[i].k, p |-> HostPath(local[j])]]
        ELSE <<>>])
\* The changesets of a changelog, in the order of the files that hold them.
Changesets(fs, opened) ==
    LET search == SelectSeq(opened, LAMBDA o : o.k = "search")
        logs == SelectSeq(opened, LAMBDA o : o.k = "changelog")
        all == FoldLeft(LAMBDA st, o : collectChangelog(fs, search, o.p, st), [ok |-> TRUE, order |-> <<>>], logs)
    IN  SelectSeq(all.order, LAMBDA p : p \in DOMAIN fs /\ fs[p].kind = "sql")
\* What updateSQL prints: some lines, then for a changeset its header, its SQL and
\* the row it adds to DATABASECHANGELOG.
UpdateSQL(prelude, changesets) ==
    prelude \o FlattenSeq([i \in 1..Len(changesets) |->
        <<[k |-> "header", given |-> changesets[i]], [k |-> "sql", given |-> changesets[i]],
          [k |-> "row", given |-> changesets[i]]>>])

\* A header ends the changeset before it; without a checksum its SQL names it.
parseLiquibaseUpdateSQL(lines) ==
    LET heads == {i \in 1..Len(lines) : lines[i].k = "header"}
        LastLine(i) == CHOOSE n \in i..Len(lines) :
                         \A m \in i + 1..Len(lines) : (m <= n) <=> ~\E h \in heads : i < h /\ h <= m
        Body(i) == SubSeq(lines, i + 1, LastLine(i))
        Rows(i) == SelectSeq(Body(i), LAMBDA l : l.k = "row")
        order == SetToSortSeq(heads, <)
    IN  [ok |-> heads # {} \/ lines = <<>>,
         changesets |-> [n \in 1..Len(order) |->
             [id |-> lines[order[n]].given,
              hash |-> IF Rows(order[n]) = <<>> THEN Body(order[n]) ELSE <<Last(Rows(order[n]))>>]]]

\* A count given twice is refused, and so is a word that is no command.
Understood(args) ==
    /\ Len(SelectSeq(args, LAMBDA a : a.k = "word")) = 1
    /\ Len(SelectSeq(args, LAMBDA a : a.k = "flag" /\ a.given = "count")) <= 1

-----------------------------------------------------------------------------

LbStart(request) ==
    /\ lqReq = request /\ lqPc = "cli"
    /\ lqArgs = <<>> /\ lqPrep = [ok |-> FALSE] /\ lqPlan = <<>> /\ lqDone = <<>>
LbInit == \E request \in LbRequests : LbStart(request)

\* normalizeLiquibaseArgs of the CLI.
SendLiquibase ==
    /\ lqPc = "cli"
    /\ LET n == NormalizeLiquibaseArgs(lqReq.args, lqReq.cwd) IN
       /\ lqArgs' = IF n.ok THEN n.args ELSE <<>>
       /\ lqPc' = IF n.ok THEN "engine" ELSE "refused"
    /\ UNCHANGED <<lqReq, lqPrep, lqPlan, lqDone>>

AcceptLiquibase ==
    /\ lqPc = "engine"
    /\ lqPrep' = prepareLiquibaseArgs(lqReq.fs, lqArgs, lqReq.cwd, lqReq.mode)
    /\ lqPc' = IF lqPrep'.ok THEN "plan" ELSE "rejected"
    /\ UNCHANGED <<lqReq, lqArgs, lqPlan, lqDone>>

\* planLiquibaseChangesets and buildPlanLiquibase: a task for every changeset listed,
\* and one task that runs nothing new when the output is blank.
buildPlanLiquibase ==
    /\ lqPc = "plan"
    /\ \E prelude \in {<<>>, <<[k |-> "sql", given |-> <<>>]>>} :
         LET out == parseLiquibaseUpdateSQL(
                        UpdateSQL(prelude, Changesets(lqReq.fs, Opened(LiquibaseArgs("updateSQL")))))
         IN  IF Understood(LiquibaseArgs("updateSQL")) /\ out.ok
             THEN lqPlan' = out.changesets /\ lqPc' = "run"
             ELSE lqPc' = "rejected" /\ UNCHANGED lqPlan
    /\ UNCHANGED <<lqReq, lqArgs, lqPrep, lqDone>>

\* update-count --count 1 applies the first changeset that is not in the database.
executeLiquibaseStep ==
    /\ lqPc = "run" /\ Len(lqDone) < Len(lqPlan)
    /\ LET todo == SelectSeq(Changesets(lqReq.fs, Opened(applyLiquibaseTaskArgs)),
                             LAMBDA c : c \notin ToSet(lqDone))
       IN  IF Understood(applyLiquibaseTaskArgs)
           THEN lqDone' = lqDone \o SubSeq(todo, 1, 1) /\ lqPc' = IF todo = <<>> THEN "failed" ELSE "run"
           ELSE lqPc' = "failed" /\ UNCHANGED lqDone
    /\ UNCHANGED <<lqReq, lqArgs, lqPrep, lqPlan>>

LbOver ==
    /\ lqPc \in {"refused", "rejected", "failed"} \/ (lqPc = "run" /\ Len(lqDone) >= Len(lqPlan))
    /\ UNCHANGED lbVars

LbNext == SendLiquibase \/ AcceptLiquibase \/ buildPlanLiquibase \/ executeLiquibaseStep \/ LbOver

(* The walk of the changelog graph is exact: it lists every file that the      *)
(* declared ones reach, each once, and stops on a graph with cycles.           *)
Reaches(fs, search, p) ==
    IF p \notin DOMAIN fs THEN {}
    ELSE UNION {LET q == resolveChangelogRef(fs, search, ParentDir(p), r)
                IN  IF r.k = "all" THEN ToSet(FolderFiles(fs, q)) ELSE {q} : r \in ToSet(fs[p].refs)}
ClosureExact ==
    lqPc = "engine" =>
        LET set == collectInputSet(lqReq.fs, lqArgs)
            declared == collectDeclared(lqArgs)
            walked == {p \in ToSet(set.order) : p \in DOMAIN lqReq.fs}
        IN  set.ok =>
              /\ Cardinality(ToSet(set.order)) = Len(set.order)
              /\ {f.p : f \in ToSet(declared.files)} \subseteq walked
              /\ \A p \in walked : Reaches(lqReq.fs, declared.search, p) \subseteq walked
              /\ \A p \in walked : (\E f \in ToSet(declared.files) : f.p = p)
                                   \/ \E q \in walked : p \in Reaches(lqReq.fs, declared.search, q)
(* Arguments that `alias check` passes are not refused for their paths, by the *)
(* CLI or by the engine.                                                       *)
CheckedIsAccepted ==
    ~ValidateArgs(lqReq.fs, lqReq.args, lqReq.cwd) =>
        /\ lqPc # "refused"
        /\ lqPc = "engine" =>
             \A i \in 1..Len(lqArgs) :
                 lqArgs[i].k \in PathKinds => \A r \in ToSet(lqArgs[i].given) : r.k = "remote" \/ Stat(lqReq.fs, r.p)
(* However Liquibase is started, its command line names the very files the     *)
(* CLI resolved, after mapping, mounting and making them relative; it holds    *)
(* one command, and the files locked are the declared ones.                    *)
SameFilesOpened ==
    lqPc \in {"plan", "run"} =>
        LET args == LiquibaseArgs("updateSQL")
            sent == collectDeclared(lqArgs)
        IN  /\ ToSet(Opened(args)) = ToSet(sent.files) \cup ToSet(sent.search)
            /\ SelectSeq(Opened(args), LAMBDA o : o.k # "search") = sent.files
            /\ SelectSeq(Opened(args), LAMBDA o : o.k = "search") = sent.search
            /\ lqPrep.lockPaths = sent.files
            /\ \E i \in 1..Len(args) : args[i].k = "word" /\ args[i].given = "updateSQL"
(* A task applies the changeset the plan named for it, though update-count is  *)
(* told only how many to apply, and distinct changesets have distinct hashes.  *)
TaskAppliesItsChangeset ==
    /\ IsPrefix(lqDone, [i \in 1..Len(lqPlan) |-> lqPlan[i].id])
    /\ \A i, j \in 1..Len(lqPlan) : lqPlan[i].hash = lqPlan[j].hash => i = j

(* The four parts above.                                                       *)
LiquibaseInputsSafe == ClosureExact /\ CheckedIsAccepted /\ SameFilesOpened /\ TaskAppliesItsChangeset
=============================================================================

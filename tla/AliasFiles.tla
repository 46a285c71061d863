----------------------------- MODULE AliasFiles -----------------------------
(* The alias files of a workspace, as the CLI creates, lists, checks and    *)
(* runs them (frontend/cli-go/internal/alias, app/alias_*.go).              *)
(*                                                                          *)
(* `sqlrs alias create` turns a command line, whose paths are relative to   *)
(* the caller's directory, into a file whose paths are relative to the      *)
(* file; `sqlrs run` and `sqlrs prepare` later read that file from another  *)
(* directory.  Several commands may work on one workspace at once, and one  *)
(* of them may die between creating its file and writing it.                *)
(*                                                                          *)
(* A name is a pair <<stem, suffix>>, the suffix being the ending of alias  *)
(* files it has, if any; a path is the sequence of the names from the root  *)
(* of the file system; a relative path may hold "..".                       *)
EXTENDS Integers, SequencesExt

CONSTANTS
  Creators,        \* the `alias create` commands
  CreateRequests,  \* what they may be asked: [cwd, ref, class, kind, args]
  Inspections,     \* the commands that read aliases:
                   \* [op, cwd, from, depth, classes, ref, exact, class]
  AliasRoot,       \* the workspace root
  AliasLinks,      \* symbolic links to directories: path -> path
  AliasTree,       \* the files at first: canonical path -> node
  MaxAliasKills    \* how many creators may be killed

VARIABLES
  aliasDisk,       \* canonical path -> node
  creator,         \* Creators -> [step, request, target, payload]
  look,            \* the command that reads: [step, ask, found, answer]
  aliasKills

aliasVars == <<aliasDisk, creator, look, aliasKills>>

-----------------------------------------------------------------------------
(* Paths.                                                                   *)

Up == <<"..", "">>

(* The suffixes of aliases are recognised in any case, here lower or upper; *)
(* where only they matter, another suffix is a part of the stem.  (".." is  *)
(* a string, which the provers have to be told.)                            *)
AliasSuffixes == {"", "prep", "run", "PREP", "RUN"}
Names == (STRING \cup {".."}) \X (AliasSuffixes \cup {"sql", "xml", "jar"})
CleanPath(p) == p \in Seq(Names) /\ \A i \in DOMAIN p : p[i] # Up

(* filepath.Join followed by Clean: ".." takes a name away, lexically.      *)
Enter(p, n) == IF n = Up THEN SubSeq(p, 1, Len(p) - 1) ELSE Append(p, n)
JoinPath(base, rel) ==
  LET walk[n \in 0..Len(rel)] == IF n = 0 THEN base ELSE Enter(walk[n - 1], rel[n])
  IN  walk[Len(rel)]

(* Mutant of RelPath: the names that differ are not climbed over. *)
RelPathFlat(base, target) ==
  LET shared == {n \in 0..Len(base) : n <= Len(target)
                   /\ SubSeq(base, 1, n) = SubSeq(target, 1, n)}
      most == CHOOSE n \in shared : \A m \in shared : m <= n
  IN  SubSeq(target, most + 1, Len(target))

(* filepath.Rel: climb to the deepest common directory, then descend.       *)
RelPath(base, target) ==
  LET shared == {n \in 0..Len(base) : n <= Len(target)
                   /\ SubSeq(base, 1, n) = SubSeq(target, 1, n)}
      most == CHOOSE n \in shared : \A m \in shared : m <= n
  IN  [i \in 1..(Len(base) - most) |-> Up]
        \o SubSeq(target, most + 1, Len(target))

(* EvalSymlinks on the longest existing prefix; one link on a path.         *)
CanonicalPath(p) ==
  LET on == {l \in DOMAIN AliasLinks : IsPrefix(l, p)}
  IN  IF on = {} THEN p
      ELSE LET l == CHOOSE l \in on : TRUE
           IN  AliasLinks[l] \o SubSeq(p, Len(l) + 1, Len(p))

InWorkspace(p) == IsPrefix(CanonicalPath(AliasRoot), CanonicalPath(p))

(* os.Stat follows the links.                                               *)
PathExists(p) == CanonicalPath(p) \in DOMAIN aliasDisk
NodeAt(p) == aliasDisk[CanonicalPath(p)]
IsPlain(p) == PathExists(p) /\ NodeAt(p).type # "dir"

Nowhere == <<>>

(* A path kept lexically when it names a place inside the workspace.        *)
resolvePathWithinWorkspace(path, abs, cwd) ==
  LET p == IF abs THEN path ELSE JoinPath(cwd, path)
  IN  IF InWorkspace(p) THEN p ELSE Nowhere

(* inputset.ResolvePath: the base and the result are made canonical first.  *)
ResolveValue(v, base) ==
  LET p == CanonicalPath(IF v.abs THEN v.path
                         ELSE JoinPath(CanonicalPath(base), v.path))
  IN  IF InWorkspace(p) THEN p ELSE Nowhere

-----------------------------------------------------------------------------
(* Classes, refs and definitions.                                           *)

AliasSuffix(class) == IF class = "prepare" THEN "prep" ELSE "run"

classifyPath(p) ==
  CASE Last(p)[2] \in {"prep", "PREP"} -> "prepare"
    [] Last(p)[2] \in {"run", "RUN"} -> "run"
    [] OTHER -> ""

(* A suffix the ref has already becomes a part of the stem.                 *)
WithSuffix(ref, class) ==
  LET stem == IF Last(ref)[2] = "" THEN Last(ref)[1] ELSE Last(ref)[1] \o "." \o Last(ref)[2]
  IN  Append(Front(ref), <<stem, AliasSuffix(class)>>)

(* Mutant of invocationRef: the name of the file alone. *)
invocationRefBase(p, cwd, class) == << <<Last(p)[1], "">> >>

(* How the caller would name the file: relative to its directory, without   *)
(* the suffix, which is taken away only in its usual case.                  *)
invocationRef(p, cwd, class) ==
  LET rel == RelPath(CanonicalPath(cwd), CanonicalPath(p))
  IN  IF Last(rel)[2] = AliasSuffix(class)
      THEN Append(Front(rel), <<Last(rel)[1], "">>) ELSE rel

NoDefinition == [kind |-> "", image |-> "", args |-> <<>>]
AliasNode(def) == [type |-> "alias", def |-> def]

AliasKinds(class) == IF class = "prepare" THEN {"psql", "lb"}
                     ELSE {"psql", "pgbench"}

(* LoadTarget: the file is read, its kind known, its arguments present; an  *)
(* image is for prepare only.                                               *)
LoadTarget(p, class) ==
  /\ IsPlain(p)
  /\ NodeAt(p).type = "alias"
  /\ LET def == NodeAt(p).def
     IN  /\ def.kind \in AliasKinds(class)
         /\ class = "run" => def.image = ""
         /\ def.args # <<>>

-----------------------------------------------------------------------------
(* Resolving a ref.                                                         *)

StemTarget(cwd, ref, class) ==
  LET p == resolvePathWithinWorkspace(WithSuffix(ref, class), FALSE, cwd)
  IN  IF p # Nowhere /\ IsPlain(p) THEN p ELSE Nowhere

NoTarget == [class |-> "", path |-> Nowhere]

resolveStemTarget(cwd, ref, class) ==
  LET both == {c \in {"prepare", "run"} : /\ class \in {"", c}
                                          /\ StemTarget(cwd, ref, c) # Nowhere}
  IN  IF \E c \in both : both = {c}
      THEN LET c == CHOOSE c \in both : TRUE
           IN  [class |-> c, path |-> StemTarget(cwd, ref, c)]
      ELSE NoTarget

resolveExactTarget(cwd, ref, class) ==
  LET p == resolvePathWithinWorkspace(ref, FALSE, cwd)
      inferred == classifyPath(p)
  IN  IF \/ p = Nowhere
         \/ ~IsPlain(p)
         \/ class = "" /\ inferred = ""
         \/ class # "" /\ inferred \notin {"", class}
      THEN NoTarget
      ELSE [class |-> IF class = "" THEN inferred ELSE class, path |-> p]

ResolveTarget(cwd, ref, exact, class) ==
  IF exact THEN resolveExactTarget(cwd, ref, class)
  ELSE resolveStemTarget(cwd, ref, class)

-----------------------------------------------------------------------------
(* The arguments that name files.  An argument is [flag, values]; a value   *)
(* [tag, abs, path, weight] is a path, "-", empty, or a remote reference.   *)

FileFlags(kind) == IF kind = "lb" THEN {"changelog", "search"} ELSE {"file"}
DevStdin == << <<"dev", "">>, <<"stdin", "">> >>

(* SplitPgbenchFileArgValue: pgbench takes "-" with a weight too.           *)
IsStdin(kind, v) ==
  \/ v.tag = "stdin" /\ (kind = "pgbench" \/ ~v.weight)
  \/ kind = "pgbench" /\ v.tag = "path" /\ v.abs /\ v.path = DevStdin

(* An argument names nothing on this disk.                                  *)
NamesNothing(kind, v) ==
  IsStdin(kind, v) \/ v.tag = "empty" \/ (kind = "lb" /\ v.tag = "remote")

Unusable(kind, flag, v, base) ==
  \/ v.tag = "empty"
  \/ /\ ~NamesNothing(kind, v)
     /\ LET p == ResolveValue(v, base)
        IN  \/ p = Nowhere
            \/ ~PathExists(p)
            \/ flag # "search" /\ NodeAt(p).type = "dir"

(* ValidateArgs of the three input kinds: no issue is found.                *)
ArgsValid(kind, args, base) ==
  LET bearing == {i \in DOMAIN args : args[i].flag \in FileFlags(kind)}
  IN  /\ \A i \in bearing :
           /\ args[i].values # <<>>
           /\ \A j \in DOMAIN args[i].values :
                ~Unusable(kind, args[i].flag, args[i].values[j], base)
      /\ kind = "pgbench" => \A i, j \in bearing : i = j

(* f applied to every value of every argument that names files.             *)
OnValues(kind, args, f(_)) ==
  [i \in DOMAIN args |->
     IF args[i].flag \notin FileFlags(kind) THEN args[i]
     ELSE [args[i] EXCEPT !.values = [j \in DOMAIN @ |-> f(@[j])]]]

(* relativizeCreatePathArg and its callers.                                 *)
relativizeCreateValue(kind, v, cwd, aliasDir) ==
  IF v.tag \in {"empty", "stdin"} \/ (kind = "lb" /\ v.tag = "remote") THEN v
  ELSE [v EXCEPT !.abs = FALSE,
          !.path = RelPath(CanonicalPath(aliasDir), ResolveValue(v, cwd))]

(* /dev/stdin passes the validation of pgbench but is no workspace path.    *)
Relativizable(kind, args, cwd) ==
  \A i \in DOMAIN args : args[i].flag \in FileFlags(kind) =>
    \A j \in DOMAIN args[i].values :
      LET v == args[i].values[j]
      IN  \/ v.tag \in {"empty", "stdin"}
          \/ kind = "lb" /\ v.tag = "remote"
          \/ ResolveValue(v, cwd) # Nowhere

(* Mutant of rebaseAliasFilePath: the path is left to the caller's directory. *)
RebaseNot(kind, v, dir) == v

(* The run side: an argument read from an alias file is joined, lexically,  *)
(* to the directory of that file.  Only a bare "-" is left alone.           *)
rebaseAliasFilePath(kind, v, dir) ==
  IF \/ v.tag = "empty"
     \/ v.tag = "stdin" /\ ~v.weight
     \/ kind = "lb" /\ v.tag = "remote"
  THEN v
  ELSE [v EXCEPT !.tag = "path", !.abs = TRUE,
          !.path = IF v.abs THEN v.path ELSE JoinPath(dir, v.path)]

(* What a value names when the command reads it from the directory base.    *)
ValueNames(kind, v, base) ==
  CASE IsStdin(kind, v) -> DevStdin
    [] ~IsStdin(kind, v) /\ NamesNothing(kind, v) -> Nowhere
    [] OTHER -> ResolveValue(v, base)

NamedFiles(kind, args, base) ==
  [i \in DOMAIN args |->
     [j \in DOMAIN args[i].values |->
        IF args[i].flag \in FileFlags(kind)
        THEN ValueNames(kind, args[i].values[j], base) ELSE Nowhere]]

(* The files a run of the alias at p reads, started from cwd.               *)
RunFiles(def, p, cwd) ==
  LET Rebased(v) == rebaseAliasFilePath(def.kind, v, Front(p))
  IN  NamedFiles(def.kind, OnValues(def.kind, def.args, Rebased), cwd)

-----------------------------------------------------------------------------
(* What the constants are.                                                  *)

(* Where things lie.  A path meets one link at most, since no link stands   *)
(* on the way to the target of one or below it, and standard input is not a *)
(* file of the workspace.                                                   *)
ASSUME AliasPlaces ==
  /\ CleanPath(AliasRoot) /\ ~InWorkspace(DevStdin)
  /\ \A l \in DOMAIN AliasLinks : CleanPath(l) /\ CleanPath(AliasLinks[l])
  /\ \A l, m \in DOMAIN AliasLinks :
       /\ ~IsPrefix(m, AliasLinks[l]) /\ ~IsPrefix(AliasLinks[l], m)
       /\ IsPrefix(l, m) => l = m
  /\ \A p \in DOMAIN AliasTree : CleanPath(p) /\ CanonicalPath(p) = p

(* Absolute paths are clean, as filepath.Clean leaves them.                 *)
PathValues == {v \in [tag : STRING, abs : BOOLEAN, path : Seq(Names), weight : BOOLEAN] :
                 v.abs => CleanPath(v.path)}
AliasArgs == [flag : STRING, values : Seq(PathValues)]

(* The directories of the workspace a command is given in exist.            *)
GivenIn(cwd) ==
  LET dir == CanonicalPath(cwd)
  IN  \A n \in 1..Len(dir) :
        IsPrefix(CanonicalPath(AliasRoot), SubSeq(dir, 1, n)) =>
          /\ SubSeq(dir, 1, n) \in DOMAIN AliasTree
          /\ AliasTree[SubSeq(dir, 1, n)].type = "dir"

ASSUME AliasCommands ==
  /\ \A r \in CreateRequests :
       /\ CleanPath(r.cwd) /\ r.ref \in Seq(Names) /\ r.ref # <<>>
       /\ Last(r.ref)[2] \in AliasSuffixes
       /\ r.class \in {"prepare", "run"} /\ r.args \in Seq(AliasArgs)
  /\ \A a \in Inspections : /\ CleanPath(a.cwd) /\ a.path \in Seq(Names) /\ GivenIn(a.cwd)
                            /\ a.op \in {"ls", "check", "run"}
  /\ \A p \in DOMAIN AliasTree :
       AliasTree[p].type = "alias" => AliasTree[p].def.args \in Seq(AliasArgs)

-----------------------------------------------------------------------------
(* alias create.                                                            *)

(* splitCreateArgs: the leading --image of a prepare, then the payload.     *)
ControlArgs(r) ==
  LET stops == {n \in 0..Len(r.args) :
                  n = Len(r.args) \/ r.class # "prepare"
                    \/ r.args[n + 1].flag # "image"}
  IN  SubSeq(r.args, 1, CHOOSE n \in stops : \A m \in stops : n <= m)

PayloadArgs(r) ==
  LET n == Len(ControlArgs(r)) + 1
      m == IF n <= Len(r.args) /\ r.args[n].flag = "--" THEN n + 1 ELSE n
  IN  SubSeq(r.args, m, Len(r.args))

ImageOf(r) == LET c == ControlArgs(r)
              IN  IF c = <<>> THEN "" ELSE Last(c).values[1].tag

(* Every refusal before the disk is touched, the existence test apart.      *)
CreateAccepted(r, target) ==
  /\ target # Nowhere
  /\ classifyPath(r.ref) = "" /\ ~r.dotted
  /\ \A i \in DOMAIN ControlArgs(r) : ControlArgs(r)[i].values # <<>>
  /\ PayloadArgs(r) # <<>>
  /\ \A i \in DOMAIN PayloadArgs(r) :
       PayloadArgs(r)[i].flag \notin {"image", "watch", "instance"}
  /\ r.kind \in AliasKinds(r.class)
  /\ ArgsValid(r.kind, PayloadArgs(r), r.cwd)
  /\ Relativizable(r.kind, PayloadArgs(r), r.cwd)

CreateTarget(r) ==
  resolvePathWithinWorkspace(WithSuffix(r.ref, r.class), FALSE, r.cwd)

(* relativizePsqlCreateArgs and its siblings for pgbench and Liquibase.     *)
relativizeCreateArgs(kind, args, cwd, aliasDir) ==
  LET Relative(v) == relativizeCreateValue(kind, v, cwd, aliasDir)
  IN  OnValues(kind, args, Relative)

CreatePayload(r, target) ==
  [kind |-> r.kind, image |-> ImageOf(r),
   args |-> relativizeCreateArgs(r.kind, PayloadArgs(r), r.cwd, Front(target))]

NoRequest == [cwd |-> <<>>, ref |-> <<>>, dotted |-> FALSE, class |-> "",
              kind |-> "", args |-> <<>>]
IdleCreator == [step |-> "idle", request |-> NoRequest, target |-> Nowhere,
                payload |-> NoDefinition]

CreatorTo(c, s) == creator' = [creator EXCEPT ![c].step = s]

(* The request is read, the target resolved and found free, the arguments   *)
(* validated and rewritten: all that happens before the first write.        *)
StartCreate(c) ==
  /\ creator[c].step = "idle"
  /\ \E r \in CreateRequests :
       LET t == CreateTarget(r)
       IN  creator' = [creator EXCEPT ![c] =
             IF t # Nowhere /\ ~PathExists(t) /\ CreateAccepted(r, t)
             THEN [step |-> "mkdir", request |-> r, target |-> t,
                   payload |-> CreatePayload(r, t)]
             ELSE [IdleCreator EXCEPT !.step = "refused", !.request = r]]
  /\ UNCHANGED <<aliasDisk, look, aliasKills>>

(* os.MkdirAll: fails where a file is in the way.                           *)
MakeAliasDir(c) ==
  /\ creator[c].step = "mkdir"
  /\ LET dir == CanonicalPath(Front(creator[c].target))
         dirs == {SubSeq(dir, 1, n) : n \in 1..Len(dir)}
         new == dirs \ DOMAIN aliasDisk
         blocked == \E d \in dirs \ new : aliasDisk[d].type # "dir"
     IN  /\ CreatorTo(c, IF blocked THEN "refused" ELSE "open")
         /\ aliasDisk' = IF blocked THEN aliasDisk
                         ELSE [p \in DOMAIN aliasDisk \cup new |->
                                 IF p \in new
                                 THEN [type |-> "dir", def |-> NoDefinition]
                                 ELSE aliasDisk[p]]
  /\ UNCHANGED <<look, aliasKills>>

OnDisk(p, node) == [q \in DOMAIN aliasDisk \cup {p} |->
                      IF q = p THEN node ELSE aliasDisk[q]]

(* Mutant of OpenAlias: an existing file is opened as well. *)
OpenAliasAnyway(c) ==
  /\ creator[c].step = "open"
  /\ CreatorTo(c, "write")
  /\ aliasDisk' = OnDisk(CanonicalPath(creator[c].target),
                         AliasNode(NoDefinition))
  /\ UNCHANGED <<look, aliasKills>>

(* O_CREATE|O_EXCL: the test and the creation are one step of the kernel.   *)
OpenAlias(c) ==
  /\ creator[c].step = "open"
  /\ IF PathExists(creator[c].target)
     THEN CreatorTo(c, "refused") /\ UNCHANGED aliasDisk
     ELSE /\ CreatorTo(c, "write")
          /\ aliasDisk' = OnDisk(CanonicalPath(creator[c].target),
                                 AliasNode(NoDefinition))
  /\ UNCHANGED <<look, aliasKills>>

WriteAlias(c) ==
  /\ creator[c].step = "write"
  /\ aliasDisk' = OnDisk(CanonicalPath(creator[c].target),
                         AliasNode(creator[c].payload))
  /\ CreatorTo(c, "done")
  /\ UNCHANGED <<look, aliasKills>>

(* The write fails after a part of it: the file is closed, then removed.    *)
WriteAliasFails(c) ==
  /\ creator[c].step = "write"
  /\ aliasDisk' = OnDisk(CanonicalPath(creator[c].target),
                         [type |-> "broken", def |-> NoDefinition])
  /\ CreatorTo(c, "undo")
  /\ UNCHANGED <<look, aliasKills>>

RemoveAlias(c) ==
  /\ creator[c].step = "undo"
  /\ aliasDisk' = [p \in DOMAIN aliasDisk
                         \ {CanonicalPath(creator[c].target)} |-> aliasDisk[p]]
  /\ CreatorTo(c, "refused")
  /\ UNCHANGED <<look, aliasKills>>

KillCreator(c) ==
  /\ creator[c].step \in {"mkdir", "open", "write", "undo"}
  /\ aliasKills < MaxAliasKills
  /\ aliasKills' = aliasKills + 1
  /\ CreatorTo(c, "killed")
  /\ UNCHANGED <<aliasDisk, look>>

CreateStep(c) == \/ StartCreate(c) \/ MakeAliasDir(c) \/ OpenAlias(c)
                 \/ WriteAlias(c) \/ WriteAliasFails(c) \/ RemoveAlias(c)
                 \/ KillCreator(c)

-----------------------------------------------------------------------------
(* alias ls, alias check and the commands that run an alias.                *)

NoAsk == [op |-> "", cwd |-> <<>>, from |-> "cwd", path |-> <<>>,
          depth |-> "recursive", classes |-> {}, ref |-> <<>>,
          exact |-> FALSE, class |-> ""]
NoLook == [step |-> "idle", ask |-> NoAsk, found |-> {}, valid |-> {},
           ran |-> NoDefinition]

(* normalizeScanRequest.                                                    *)
ScanRoot(a) ==
  CASE a.from = "workspace" -> AliasRoot
    [] a.from = "cwd" -> IF InWorkspace(a.cwd) THEN a.cwd ELSE Nowhere
    [] OTHER -> LET p == JoinPath(a.cwd, a.path)
                IN  IF InWorkspace(a.cwd) /\ InWorkspace(p) THEN p ELSE Nowhere

Levels(depth, rest) ==
  CASE depth = "self" -> Len(rest) = 1
    [] depth = "children" -> Len(rest) <= 2
    [] OTHER -> TRUE

(* walkDirectory and readInventoryKind: a link is no directory to it, and   *)
(* .sqlrs is passed over.  Only the kind is read.                           *)
Scanned(a) ==
  LET root == ScanRoot(a)
      under == {q \in DOMAIN aliasDisk :
                  /\ IsStrictPrefix(CanonicalPath(root), q)
                  /\ aliasDisk[q].type # "dir"}
      Rest(q) == SubSeq(q, Len(CanonicalPath(root)) + 1, Len(q))
      classes == IF a.classes = {} THEN {"prepare", "run"} ELSE a.classes
  IN  {[class |-> classifyPath(q), path |-> root \o Rest(q),
        ref |-> invocationRef(q, a.cwd, classifyPath(q)),
        status |-> IF aliasDisk[q].type = "alias" THEN "ok" ELSE "invalid",
        kind |-> aliasDisk[q].def.kind] :
          q \in {q \in under :
                   /\ classifyPath(q) \in classes
                   /\ Levels(a.depth, Rest(q))
                   /\ \A i \in 1..(Len(Rest(q)) - 1) :
                        Rest(q)[i] # <<".sqlrs", "">>}}

(* The first half: what the command works on.                               *)
FindAliases ==
  /\ look.step = "idle"
  /\ \E a \in Inspections :
       IF a.op = "ls" \/ (a.op = "check" /\ a.ref = <<>>)
       THEN /\ ScanRoot(a) = Nowhere \/ PathExists(ScanRoot(a))
            /\ look' = [look EXCEPT
                 !.ask = a,
                 !.step = IF ScanRoot(a) = Nowhere THEN "refused"
                          ELSE IF a.op = "ls" THEN "listed" ELSE "check",
                 !.found = IF ScanRoot(a) = Nowhere THEN {} ELSE Scanned(a)]
       ELSE LET t == ResolveTarget(a.cwd, a.ref, a.exact, a.class)
            IN  look' = [look EXCEPT
                  !.ask = a,
                  !.step = IF t = NoTarget THEN "refused" ELSE a.op,
                  !.found = IF t = NoTarget THEN {}
                            ELSE {[class |-> t.class, path |-> t.path,
                                   ref |-> a.ref, status |-> "ok",
                                   kind |-> ""]}]
  /\ UNCHANGED <<aliasDisk, creator, aliasKills>>

(* Mutant of CheckTarget: the arguments are not looked at. *)
CheckTargetShallow(t) == LoadTarget(t.path, t.class)

(* CheckTarget: the arguments resolve from the directory of the file.       *)
CheckTarget(t) ==
  /\ LoadTarget(t.path, t.class)
  /\ ArgsValid(NodeAt(t.path).def.kind, NodeAt(t.path).def.args, Front(t.path))

CheckAliases ==
  /\ look.step = "check"
  /\ look' = [look EXCEPT
       !.step = "checked",
       !.valid = {[path |-> t.path, def |-> NodeAt(t.path).def] :
                    t \in {t \in look.found : CheckTarget(t)}}]
  /\ UNCHANGED <<aliasDisk, creator, aliasKills>>

(* prepare and run: the file found is loaded, its paths rebased.            *)
LoadAliasFile ==
  /\ look.step = "run"
  /\ \E t \in look.found :
       look' = IF LoadTarget(t.path, t.class)
               THEN [look EXCEPT !.step = "ran", !.ran = NodeAt(t.path).def]
               ELSE [look EXCEPT !.step = "refused"]
  /\ UNCHANGED <<aliasDisk, creator, aliasKills>>

(* The command ends and another may be given.                               *)
LookAgain ==
  /\ look.step \in {"listed", "checked", "ran", "refused"}
  /\ look' = NoLook
  /\ UNCHANGED <<aliasDisk, creator, aliasKills>>

-----------------------------------------------------------------------------
AliasInit ==
  /\ aliasDisk = AliasTree
  /\ creator = [c \in Creators |-> IdleCreator]
  /\ look = NoLook
  /\ aliasKills = 0

AliasNext == \/ \E c \in Creators : CreateStep(c)
             \/ FindAliases \/ CheckAliases \/ LoadAliasFile \/ LookAgain

-----------------------------------------------------------------------------
Unlinked(p) == CanonicalPath(p) = p
Weighted(args) == \E i \in DOMAIN args : \E j \in DOMAIN args[i].values :
  args[i].values[j].tag = "stdin" /\ args[i].values[j].weight

(* Wherever it is run from, an alias reads the files its creator named from *)
(* its own directory: create.go makes the paths relative, the run side      *)
(* joins them again.  Two cases are left out, in which it does not hold:    *)
(* an alias reached through a symbolic link, and pgbench's "-" with a       *)
(* weight.                                                                  *)
AliasMeansTheSame ==
  \A c \in Creators :
    LET r == creator[c].request
    IN  /\ look.step = "ran"
        /\ creator[c].step = "done"
        /\ \E t \in look.found : t.path = creator[c].target /\ Unlinked(t.path)
        /\ ~Weighted(r.args)
        => RunFiles(look.ran, creator[c].target, look.ask.cwd)
             = NamedFiles(r.kind, PayloadArgs(r), r.cwd)

(* An alias `alias check` called valid names files that a run of it finds,  *)
(* except one that its creator failed to write and took back since.         *)
CheckedAliasRuns ==
  look.step = "checked" =>
    \A v \in look.valid : Unlinked(v.path) /\ ~Weighted(v.def.args) =>
      LET files == RunFiles(v.def, v.path, look.ask.cwd)
      IN  \A i \in DOMAIN files : \A j \in DOMAIN files[i] :
            files[i][j] \notin {Nowhere, DevStdin} =>
              \/ PathExists(files[i][j])
              \/ \E c \in Creators : /\ creator[c].step = "refused"
                                     /\ CanonicalPath(creator[c].target) = files[i][j]

(* The ref `alias ls` shows finds the file it shows it for, as long as the  *)
(* file is there and its suffix is spelled in lower case.                   *)
ListedRefResolves ==
  look.step = "listed" /\ Unlinked(look.ask.cwd) =>
    \A e \in look.found :
      Last(e.path)[2] = AliasSuffix(e.class) /\ IsPlain(e.path) =>
        LET t == ResolveTarget(look.ask.cwd, e.ref, FALSE, e.class)
        IN  t.class = e.class /\ CanonicalPath(t.path) = CanonicalPath(e.path)

(* A create that succeeded owns its file, whoever else was at work; no file *)
(* of before is changed, and nothing half-written outlives a creator that   *)
(* was not killed.                                                          *)
CreateExclusive ==
  /\ \A p \in DOMAIN AliasTree : /\ p \in DOMAIN aliasDisk
                                 /\ aliasDisk[p] = AliasTree[p]
  /\ \A c \in Creators : creator[c].step = "done" =>
       /\ PathExists(creator[c].target)
       /\ NodeAt(creator[c].target) = AliasNode(creator[c].payload)
  /\ \A p \in DOMAIN aliasDisk \ DOMAIN AliasTree :
       aliasDisk[p].type # "dir" =>
         \E c \in Creators : /\ creator[c].step \in {"write", "undo", "done",
                                                     "killed"}
                             /\ CanonicalPath(creator[c].target) = p

AliasFilesSafe == /\ AliasMeansTheSame /\ CheckedAliasRuns
                  /\ ListedRefResolves /\ CreateExclusive
=============================================================================

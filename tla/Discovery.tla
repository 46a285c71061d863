----------------------------- MODULE Discovery ------------------------------
(* `sqlrs discover` (frontend/cli-go/internal/discover): the analyzers look *)
(* at the workspace and suggest commands; the user runs some of them, in    *)
(* any order, and asks again.  The aliases the commands create are those of *)
(* AliasFiles, whose paths and whose validation are used here.              *)
EXTENDS AliasFiles, FiniteSets

CONSTANTS
  FileMarks,      \* which hints the path and the text of a file hold
  FileIncludes,   \* the files a script or a changelog includes
  FileOrder,      \* the workspace's files in the order of their names
  DiscoverDirs,   \* where `discover` may be started
  Artifacts,      \* local files to be ignored: {[dir, entry]}
  SettingsKinds,  \* what .vscode/settings.json may hold at first
  MaxDiscoveries  \* how often discover is asked

VARIABLES
  disc,           \* [step, cwd, left, coverage, validated, findings, failed]
  ignored,        \* {[dir, entry]}: the lines of the .gitignore files
  settings,       \* .vscode/settings.json
  followed,       \* directories from which every suggestion was followed
  asked           \* how many discoveries were started

discoverVars == <<aliasDisk, creator, look, aliasKills,
                  disc, ignored, settings, followed, asked>>

SkippedDirs == {".sqlrs", ".git", "node_modules", "vendor"}
Analyzers == <<"aliases", "gitignore", "vscode", "prepare-shaping">>

-----------------------------------------------------------------------------
(* walkDiscoverFiles: the files with a known extension.                     *)
DiscoverFiles ==
  {p \in DOMAIN aliasDisk :
     /\ aliasDisk[p].type = "file"
     /\ Last(p)[2] \in {"sql", "xml", "jar"}
     /\ \A i \in 1..(Len(p) - 1) : p[i][1] \notin SkippedDirs}

Points(p, mark, n) == IF mark \in FileMarks[p] THEN n ELSE 0

(* scorePrepareLiquibase, scorePreparePsql, scoreRunPgbench, scoreRunPsql.  *)
LiquibaseScore(p) ==
  IF Last(p)[2] = "jar" THEN Points(p, "lbpath", 45)
  ELSE Points(p, "lbpath", 40) + Points(p, "lbtext", 30)
         + Points(p, "lbinclude", 10)

PreparePsqlScore(p) ==
  IF Last(p)[2] # "sql" THEN 0
  ELSE Points(p, "setup", 40) + Points(p, "ddl", 30) + Points(p, "include", 10)

PgbenchScore(p) ==
  IF Last(p)[2] # "sql" THEN 0
  ELSE Points(p, "bench", 40) + Points(p, "load", 30)

RunPsqlScore(p) ==
  IF Last(p)[2] # "sql" THEN 0
  ELSE Points(p, "query", 40) + Points(p, "select", 30)
         + Points(p, "write", 5)

ScoresOf(p) == << [class |-> "prepare", kind |-> "lb",
                   score |-> LiquibaseScore(p)],
                  [class |-> "prepare", kind |-> "psql",
                   score |-> PreparePsqlScore(p)],
                  [class |-> "run", kind |-> "pgbench",
                   score |-> PgbenchScore(p)],
                  [class |-> "run", kind |-> "psql",
                   score |-> RunPsqlScore(p)] >>

(* proposeCandidate: the best score, the earlier kind among equals.         *)
Proposed(p) == \E i \in 1..4 : ScoresOf(p)[i].score > 0
proposeCandidate(p) ==
  LET s == ScoresOf(p)
      best == {i \in 1..4 : \A j \in 1..4 : s[j].score <= s[i].score}
  IN  s[CHOOSE i \in best : \A j \in best : i <= j]

(* The directories above one of Liquibase's usual layouts.                  *)
liquibaseRootHint(rel) ==
  LET At(marker) == {i \in 2..(Len(rel) - 1) : /\ rel[i][1] = marker[1]
                                               /\ rel[i + 1][1] = marker[2]}
      Before(marker) == LET i == CHOOSE i \in At(marker) :
                                   \A j \in At(marker) : i <= j
                        IN  SubSeq(rel, 1, i - 1)
      first == <<"config", "liquibase">>
      second == <<"db", "changelog">>
  IN  CASE At(first) # {} -> Before(first)
        [] At(first) = {} /\ At(second) # {} -> Before(second)
        [] OTHER -> <<>>

(* The ref offered for a file: its directory, or its stem where that is the *)
(* caller's directory or one above it.                                      *)
suggestedAliasRef(rel) ==
  LET dir == Front(rel)
      stem == <<Last(rel)[1], "">>
  IN  IF \A i \in DOMAIN dir : dir[i] = Up THEN Append(dir, stem) ELSE dir

RefFor(kind, rel) ==
  IF kind = "lb" /\ liquibaseRootHint(rel) # <<>> THEN liquibaseRootHint(rel)
  ELSE suggestedAliasRef(rel)

(* buildCreateCommand: the arguments name the file from the caller's        *)
(* directory.                                                               *)
PathValue(path) == [tag |-> "path", abs |-> FALSE, path |-> path,
                    weight |-> FALSE]
CreateArgs(kind, rel) ==
  IF kind # "lb"
  THEN << [flag |-> "file", values |-> <<PathValue(rel)>>] >>
  ELSE (IF liquibaseRootHint(rel) = <<>> THEN <<>>
        ELSE << [flag |-> "search",
                 values |-> <<PathValue(liquibaseRootHint(rel))>>] >>)
       \o << [flag |-> "changelog", values |-> <<PathValue(rel)>>] >>

CommandFor(p, cwd) ==
  LET rel == RelPath(cwd, p)
      best == proposeCandidate(p)
  IN  [cwd |-> cwd, ref |-> RefFor(best.kind, rel), dotted |-> FALSE,
       class |-> best.class, kind |-> best.kind,
       args |-> CreateArgs(best.kind, rel)]

(* What a script reaches through its includes, itself among it.             *)
IncludedFrom(p) ==
  LET reach[n \in 0..Len(FileOrder)] ==
        IF n = 0 THEN {p}
        ELSE reach[n - 1] \cup UNION {FileIncludes[q] : q \in reach[n - 1]}
  IN  reach[Len(FileOrder)]

(* Collect fails on a missing file and on a script that includes itself.    *)
Collectable(p) ==
  \A q \in IncludedFrom(p) :
    /\ PathExists(q)
    /\ \A s \in FileIncludes[q] : q \notin IncludedFrom(s)

(* validateCandidate.                                                       *)
Validated(p, cwd) ==
  [file |-> p, command |-> CommandFor(p, cwd),
   score |-> proposeCandidate(p).score, valid |-> Collectable(p),
   closure |-> CASE ~Collectable(p) -> {}
                 [] proposeCandidate(p).kind = "pgbench" -> {p}
                 [] OTHER -> IncludedFrom(p)]

(* rankValidatedCandidates: by score, then by name.                         *)
Position(p) == CHOOSE i \in DOMAIN FileOrder : FileOrder[i] = p
RankedBefore(c, d) ==
  c.score > d.score \/ (c.score = d.score /\ Position(c.file) < Position(d.file))

(* Mutant of Inbound: a candidate counts as included by itself. *)
InboundSelf(all, c) == c.closure # {} /\ \E o \in all : c.file \in o.closure

(* inboundEdges: another candidate includes this one.                       *)
Inbound(all, c) ==
  c.closure # {} /\ \E o \in all : o.file # c.file /\ c.file \in o.closure

(* Mutant of AliasFindings: two files may be offered under one name. *)
AliasFindingsTwice(all, coverage) ==
  {c \in all : /\ ~Inbound(all, c)
               /\ CreateTarget(c.command) \notin coverage}

(* selectAliasFindings: in the order of rank, the first of an alias path    *)
(* stands for the others, and a path that is taken is not offered.          *)
AliasFindings(all, coverage) ==
  {c \in all :
     /\ ~Inbound(all, c)
     /\ CreateTarget(c.command) \notin coverage
     /\ \A d \in all : /\ ~Inbound(all, d)
                       /\ CreateTarget(d.command) = CreateTarget(c.command)
                       => d = c \/ RankedBefore(c, d)}

(* loadAliasCoverage: every alias file, and the files it reads.             *)
AliasPaths == {p \in DOMAIN aliasDisk : /\ aliasDisk[p].type # "dir"
                                        /\ classifyPath(p) # ""}
CoveredBy(p) ==
  LET def == aliasDisk[p].def
      files == NamedFiles(def.kind, def.args, Front(p))
      named == UNION {{files[i][j] : j \in DOMAIN files[i]} :
                        i \in DOMAIN files}
  IN  IF def.kind \notin AliasKinds(classifyPath(p)) THEN {}
      ELSE UNION {IncludedFrom(q) : q \in named \cap DOMAIN FileIncludes}
LoadedCoverage == AliasPaths \cup UNION {CoveredBy(p) : p \in AliasPaths}

-----------------------------------------------------------------------------
NoDiscovery == [step |-> "idle", cwd |-> <<>>, left |-> <<>>, coverage |-> {},
                validated |-> {}, findings |-> {}, advice |-> {},
                splits |-> {}, failed |-> FALSE]

dcOther == <<creator, look, aliasKills>>
DiscTo(s) == disc' = [disc EXCEPT !.step = s]

(* Analyze: the analyzers run one after another, in a fixed order.          *)
StartDiscover ==
  /\ disc.step = "idle" /\ asked < MaxDiscoveries
  /\ \E cwd \in DiscoverDirs :
       disc' = [NoDiscovery EXCEPT !.step = "analyze", !.cwd = cwd,
                                   !.left = Analyzers]
  /\ asked' = asked + 1
  /\ UNCHANGED <<aliasDisk, ignored, settings, followed, dcOther>>

NextAnalyzer(name) == /\ disc.step = "analyze"
                      /\ disc.left # <<>>
                      /\ Head(disc.left) = name

(* The aliases analyzer reads the existing aliases first ...                *)
LoadCoverage ==
  /\ NextAnalyzer("aliases")
  /\ disc' = [disc EXCEPT !.step = "walk", !.coverage = LoadedCoverage]
  /\ UNCHANGED <<aliasDisk, ignored, settings, followed, asked, dcOther>>

(* ... then walks, scores and validates ...                                 *)
ProposeAliases ==
  /\ disc.step = "walk"
  /\ disc' = [disc EXCEPT
       !.step = "select",
       !.validated = {Validated(p, disc.cwd) :
                        p \in {p \in DiscoverFiles : Proposed(p)}}]
  /\ UNCHANGED <<aliasDisk, ignored, settings, followed, asked, dcOther>>

(* ... and selects.  A candidate that is not suppressed and whose alias     *)
(* would lie outside the workspace fails the analyzer as a whole.           *)
SelectAliases ==
  /\ disc.step = "select"
  /\ LET outside == \E c \in disc.validated :
                      /\ ~Inbound(disc.validated, c)
                      /\ CreateTarget(c.command) = Nowhere
     IN  disc' = [disc EXCEPT
           !.step = "analyze", !.left = Tail(@), !.failed = outside,
           !.findings = IF outside THEN {}
                        ELSE AliasFindings(disc.validated, disc.coverage)]
  /\ UNCHANGED <<aliasDisk, ignored, settings, followed, asked, dcOther>>

(* AnalyzeGitignore: an artifact whose own directory does not ignore it.    *)
AnalyzeGitignore ==
  /\ NextAnalyzer("gitignore")
  /\ disc' = [disc EXCEPT !.left = Tail(@),
                          !.advice = @ \cup (Artifacts \ ignored)]
  /\ UNCHANGED <<aliasDisk, ignored, settings, followed, asked, dcOther>>

SettingsAdvice == [dir |-> AliasRoot, entry |-> "settings"]

(* AnalyzeVSCode: a file that is no JSON is only pointed at; JSON null is   *)
(* taken for complete.                                                      *)
AnalyzeVSCode ==
  /\ NextAnalyzer("vscode")
  /\ disc' = [disc EXCEPT
       !.left = Tail(@),
       !.advice = IF settings \in {"absent", "empty", "other"}
                  THEN @ \cup {SettingsAdvice} ELSE @]
  /\ UNCHANGED <<aliasDisk, ignored, settings, followed, asked, dcOther>>

(* AnalyzePrepareShaping: directories that mix stable and volatile inputs.  *)
AnalyzePrepareShaping ==
  /\ NextAnalyzer("prepare-shaping")
  /\ disc' = [disc EXCEPT
       !.left = Tail(@),
       !.splits = {Front(p) : p \in {p \in DiscoverFiles :
                     /\ "stable" \in FileMarks[p]
                     /\ \E q \in DiscoverFiles :
                          Front(q) = Front(p) /\ "volatile" \in FileMarks[q]}}]
  /\ UNCHANGED <<aliasDisk, ignored, settings, followed, asked, dcOther>>

ReportDiscovery ==
  /\ disc.step = "analyze" /\ disc.left = <<>>
  /\ DiscTo("report")
  /\ UNCHANGED <<aliasDisk, ignored, settings, followed, asked, dcOther>>

(* The user runs a suggested `alias create`, in the directory of before.    *)
FollowAlias ==
  /\ disc.step = "report"
  /\ \E f \in disc.findings :
       LET t == CreateTarget(f.command)
       IN  /\ aliasDisk' = IF PathExists(t) \/ ~CreateAccepted(f.command, t)
                           THEN aliasDisk
                           ELSE OnDisk(t, AliasNode(CreatePayload(f.command, t)))
           /\ disc' = [disc EXCEPT !.findings = @ \ {f}]
  /\ UNCHANGED <<ignored, settings, followed, asked, dcOther>>

(* The suggested commands add the line, or write the merged settings.       *)
FollowAdvice ==
  /\ disc.step = "report"
  /\ \E a \in disc.advice :
       /\ disc' = [disc EXCEPT !.advice = @ \ {a}]
       /\ IF a = SettingsAdvice
          THEN settings' = "mapped" /\ UNCHANGED ignored
          ELSE ignored' = ignored \cup {a} /\ UNCHANGED settings
  /\ UNCHANGED <<aliasDisk, followed, asked, dcOther>>

EndDiscovery ==
  /\ disc.step = "report"
  /\ disc' = NoDiscovery
  /\ followed' = IF disc.findings = {} /\ disc.advice = {} /\ ~disc.failed
                 THEN followed \cup {disc.cwd} ELSE followed
  /\ UNCHANGED <<aliasDisk, ignored, settings, asked, dcOther>>

(* Somebody else creates an alias meanwhile.                                *)
OtherCreates ==
  /\ asked > 0
  /\ \E r \in CreateRequests :
       LET t == CreateTarget(r)
       IN  /\ t # Nowhere /\ ~PathExists(t)
           /\ PathExists(Front(t)) /\ CreateAccepted(r, t)
           /\ aliasDisk' = OnDisk(CanonicalPath(t),
                                  AliasNode(CreatePayload(r, t)))
  /\ UNCHANGED <<disc, ignored, settings, followed, asked, dcOther>>

DiscoverInit ==
  /\ AliasInit
  /\ disc = NoDiscovery
  /\ ignored = {}
  /\ settings \in SettingsKinds
  /\ followed = {}
  /\ asked = 0

DiscoverRests == disc.step = "idle" /\ asked = MaxDiscoveries
                 /\ UNCHANGED discoverVars

DiscoverNext ==
  \/ StartDiscover \/ LoadCoverage \/ ProposeAliases \/ SelectAliases
  \/ AnalyzeGitignore \/ AnalyzeVSCode
  \/ AnalyzePrepareShaping \/ ReportDiscovery
  \/ FollowAlias \/ FollowAdvice \/ EndDiscovery \/ OtherCreates
  \/ DiscoverRests

-----------------------------------------------------------------------------
Selected == disc.step \in {"analyze", "report"} /\ disc.validated # {}
            /\ ~disc.failed /\ "aliases" \notin {disc.left[i] :
                                                   i \in DOMAIN disc.left}

(* A suggested command is one `alias create` accepts, and no two of them    *)
(* create the same file: discover and create derive the path and the        *)
(* arguments on their own.                                                  *)
SuggestionsApply ==
  \A f \in disc.findings :
    /\ f.valid => CreateAccepted(f.command, CreateTarget(f.command))
    /\ \A g \in disc.findings :
         CreateTarget(f.command) = CreateTarget(g.command) => f = g

(* Of the files worth an alias none is lost: each is read by a candidate    *)
(* whose alias is offered or exists.                                        *)
NoRootLost ==
  Selected =>
    \A c \in disc.validated : c.valid =>
      \E d \in disc.validated :
        /\ c.file \in d.closure
        /\ LET t == CreateTarget(d.command)
           IN  \/ t \in disc.coverage
               \/ PathExists(t)
               \/ \E f \in disc.findings : CreateTarget(f.command) = t

(* Who follows every suggestion gets no further one from that directory.    *)
DiscoverSettles ==
  disc.step = "report" /\ disc.cwd \in followed =>
    disc.findings = {} /\ disc.advice = {}

(* Discovery from inside the workspace does not fail.                       *)
DiscoverWorks == disc.failed => ~InWorkspace(disc.cwd)

DiscoverySafe == /\ SuggestionsApply /\ NoRootLost
                 /\ DiscoverSettles /\ DiscoverWorks

(* docs/user-guides/sqlrs-discover.md:73 promises to "suppress suggestions  *)
(* already covered by repo-tracked alias files": no file an alias on disk   *)
(* already reads is suggested again.                                        *)
CoveredNotSuggested ==
  \A f \in disc.findings : f.file \notin disc.coverage
=============================================================================

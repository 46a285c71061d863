----------------------------- MODULE AliasCases -----------------------------
(***************************************************************************)
(* A workspace w with a directory d/e, a link l to it and aliases of every *)
(* state, and the requests that AliasFiles is checked with.                *)
(***************************************************************************)
EXTENDS AliasFiles

Word(s) == <<s, "">>
Script(up) == [i \in 1..up |-> Up] \o <<Word("s.sql")>>
In(dir, stem, suffix) == Append(dir, <<stem, suffix>>)

Workspace == <<Word("w")>>
DirD == Append(Workspace, Word("d"))
DirE == Append(DirD, Word("e"))
LinkL == Append(Workspace, Word("l"))
Outside == <<Word("x")>>
LinkTargets == [p \in {LinkL} |-> DirE]

PathArg(path) == [tag |-> "path", abs |-> FALSE, path |-> path, weight |-> FALSE]
TextArg(text, weighted) == [tag |-> text, abs |-> FALSE, path |-> <<>>, weight |-> weighted]
Arg(flag, values) == [flag |-> flag, values |-> values]
FileArg(value) == Arg("file", <<value>>)

OldAlias == AliasNode([kind |-> "psql", image |-> "", args |-> <<FileArg(PathArg(Script(0)))>>])
Folders == {Workspace, DirD, DirE}
Scripts == {In(Workspace, "s.sql", ""), In(DirE, "t.sql", "")}
Broken == In(Workspace, "b", "run")
OldAliases == {In(Workspace, "a", "run"), In(DirD, "old", "RUN"), In(DirE, "a", "run")}
Files ==
  [p \in Folders \cup Scripts \cup OldAliases \cup {Broken} |->
     CASE p \in Folders -> [type |-> "dir", def |-> NoDefinition]
       [] p \in Scripts -> [type |-> "file", def |-> NoDefinition]
       [] p \in OldAliases -> OldAlias
       [] p = Broken -> [type |-> "broken", def |-> NoDefinition]]

Create(cwd, ref, class, kind, args) ==
  [cwd |-> cwd, ref |-> ref, dotted |-> FALSE, class |-> class, kind |-> kind, args |-> args]
Pgbench(cwd, ref, values) == Create(cwd, ref, "run", "pgbench", [i \in DOMAIN values |-> FileArg(values[i])])
CreateCases == {
  Create(Workspace, <<Word("a")>>, "prepare", "psql",
         <<Arg("image", <<TextArg("pg17", FALSE)>>), Arg("--", <<>>), Arg("other", <<>>),
           FileArg(PathArg(Script(0))), FileArg(TextArg("stdin", FALSE))>>),
  Create(Workspace, <<Word("d"), Word("a")>>, "prepare", "lb",
         <<Arg("changelog", <<PathArg(Script(0))>>),
           Arg("search", <<PathArg(<<Word("d"), Word("e")>>), TextArg("remote", FALSE)>>)>>),
  Create(DirD, <<Word("a")>>, "prepare", "psql", <<FileArg(PathArg(Script(1)))>>),
  Pgbench(DirE, <<Up, Word("n"), Word("p")>>, <<[PathArg(<<Word("t.sql")>>) EXCEPT !.weight = TRUE]>>),
  Pgbench(LinkL, <<Word("q")>>, <<PathArg(Script(2))>>),
  Pgbench(Workspace, <<Word("q")>>, <<TextArg("stdin", TRUE)>>),
  Pgbench(Workspace, <<Word("q")>>, <<[PathArg(DevStdin) EXCEPT !.abs = TRUE]>>),
  Pgbench(Workspace, <<Word("q")>>, <<PathArg(Script(0)), PathArg(Script(0))>>),
  Create(Workspace, <<Word("s"), Word("q")>>, "run", "psql", <<FileArg(PathArg(Script(0))), Arg("image", <<>>)>>),
  Create(Workspace, <<Word("s.sql"), Word("q")>>, "run", "psql", <<FileArg(PathArg(Script(0)))>>),
  Create(DirD, <<Up, Word("z")>>, "run", "psql", <<FileArg(PathArg(Script(0)))>>),
  Create(DirD, <<Up, Up, Word("z")>>, "run", "psql", <<FileArg(PathArg(Script(1)))>>),
  Create(DirD, << <<"z", "prep">> >>, "run", "psql", <<FileArg(PathArg(Script(1)))>>) }

Inspection(op, cwd, from, depth, classes, ref, exact, class) ==
  [op |-> op, cwd |-> cwd, from |-> from, path |-> IF from = "path" THEN <<Word("e")>> ELSE <<>>,
   depth |-> depth, classes |-> classes, ref |-> ref, exact |-> exact, class |-> class]
List(cwd, from, depth, classes) == Inspection("ls", cwd, from, depth, classes, <<>>, FALSE, "")
ListLink == [List(Workspace, "path", "recursive", {}) EXCEPT !.path = <<Word("l")>>]
Check(ref, class) == Inspection("check", Workspace, "cwd", "", {}, ref, FALSE, class)
Run(cwd, ref, exact, class) == Inspection("run", cwd, "cwd", "", {}, ref, exact, class)
InspectCases ==
  {List(cwd, "workspace", "recursive", {}) : cwd \in {DirD, LinkL, Outside}}
  \cup {List(Workspace, "cwd", depth, {"run"}) : depth \in {"self", "children"}}
  \cup {List(cwd, "path", "recursive", {}) : cwd \in {DirD, Outside}}
  \cup {ListLink, Inspection("check", DirD, "workspace", "recursive", {}, <<>>, FALSE, "")}
  \cup {Check(<<Word("a")>>, class) : class \in {"run", ""}}
  \cup {Run(Workspace, ref, FALSE, class) :
          ref \in {<<Word("a")>>, <<Word("d"), Word("n"), Word("p")>>}, class \in {"prepare", "run"}}
  \cup {Run(DirD, << <<"old", "RUN">> >>, TRUE, class) : class \in {"", "prepare"}}
  \cup {Run(DirD, <<Word("a")>>, FALSE, "prepare"), Run(LinkL, <<Word("q")>>, FALSE, "run")}
=============================================================================

--------------------------- MODULE DiscoveryCases ---------------------------
(***************************************************************************)
(* A workspace w with scripts that include each other, scripts in d and a  *)
(* Liquibase changelog in x/db/changelog, which Discovery is checked with. *)
(***************************************************************************)
EXTENDS Discovery

Word(s) == <<s, "">>
In(dir, stem, suffix) == Append(dir, <<stem, suffix>>)
Workspace == <<Word("w")>>
DirD == Append(Workspace, Word("d"))
DirX == Append(Workspace, Word("x"))
DirDb == Append(DirX, Word("db"))
DirLog == Append(DirDb, Word("changelog"))
NoLinks == [p \in {} |-> p]

Schema == In(DirD, "a", "sql")      \* includes the tables
Tables == In(DirD, "b", "sql")
Other == In(DirD, "c", "sql")
Setup == In(Workspace, "s", "sql")  \* includes itself
Bench == In(Workspace, "t", "sql")
Changelog == In(DirLog, "m", "xml")
Order == <<Schema, Tables, Other, Setup, Bench, Changelog>>
Folders == {Workspace, DirD, DirX, DirDb, DirLog}
Files == [p \in Folders \cup ToSet(Order) |->
            [type |-> IF p \in Folders THEN "dir" ELSE "file", def |-> NoDefinition]]

MarksOf ==
         (Schema :> {"setup", "ddl", "include", "stable"}) @@ (Tables :> {"ddl", "write"})
         @@ (Other :> {"ddl", "volatile"}) @@ (Setup :> {"setup", "include"})
         @@ (Bench :> {"bench", "select", "query"}) @@ (Changelog :> {"lbpath", "lbtext"})
Includes == [p \in ToSet(Order) |->
               CASE p = Schema -> {Tables} [] p = Setup -> {Setup} [] OTHER -> {}]

Create(cwd, ref, path) ==
  [cwd |-> cwd, ref |-> <<Word(ref)>>, dotted |-> FALSE, class |-> "prepare", kind |-> "psql",
   args |-> <<[flag |-> "file", values |-> <<PathValue(path)>>]>>]
CreateCases == {Create(DirD, "own", << <<"a", "sql">> >>), Create(Workspace, "d", <<Word("d"), <<"b", "sql">> >>)}
Coverage == {[dir |-> DirD, entry |-> "coverage"]}
Directories == {Workspace, DirD, <<Word("o")>>}
=============================================================================

----------------------------- MODULE InputCases -----------------------------
(***************************************************************************)
(* Small file trees and argument lists that PsqlInputs and LiquibaseInputs *)
(* are checked with.                                                       *)
(***************************************************************************)
EXTENDS PsqlInputs, LiquibaseInputs

UpTo(n, S) == UNION {[1..k -> S] : k \in 0..n}

(* psql: scripts a, c, d/b and d/c that include each other. *)
Sql(text) == [k |-> "sql", given |-> text]
Inc(path) == [k |-> "i", given |-> path]
IncRel(path) == [k |-> "ir", given |-> path]
PsqlArg(kind, value) == [k |-> kind, given |-> value]
PsqlTree(a, c, b, dc) == (<<"a">> :> a) @@ (<<"c">> :> c) @@ (<<"d", "b">> :> b) @@ (<<"d", "c">> :> dc)
PsqlTrees == {
  PsqlTree(<<Inc(<<"c">>), Sql("1")>>, <<Sql("2")>>, <<IncRel(<<"c">>)>>, <<Sql("3")>>),
  PsqlTree(<<IncRel(<<"d", "b">>), IncRel(<<"c">>)>>, <<Sql("2")>>, <<IncRel(<<"c">>), Inc(<<"c">>)>>, <<Sql("3")>>),
  PsqlTree(<<Inc(<<"c">>)>>, <<IncRel(<<"a">>)>>, <<Inc(<<"b">>)>>, <<Sql("3")>>) }
PsqlAlphabet ==
  {PsqlArg(kind, <<>>) : kind \in {"X", "flag", "connection", "word", "stdin"}}
  \cup {PsqlArg("var", value) : value \in {"stop=1", "stop=0"}}
  \cup {PsqlArg("file", path) : path \in {<<"a">>, <<"d", "b">>, <<"e">>}}
  \cup {PsqlArg("relative", <<"c">>)}
  \cup {PsqlArg("command", <<line>>) : line \in {Sql("4"), Inc(<<"c">>)}}
PsqlCases ==
  [args : UpTo(2, PsqlAlphabet), cwd : {<<>>, <<"d">>}, stdin : {<<>>, <<IncRel(<<"c">>)>>}, fs : PsqlTrees]
PsqlEditCases == {<<Sql("5")>>}

(* Liquibase: changelogs m and s/m, scripts s/x, s/y and z. *)
Ref(kind, path) == [k |-> kind, p |-> path]
LbArg(kind, value) == [k |-> kind, given |-> value]
LbInclude(path, relative) == [k |-> "include", p |-> path, rel |-> relative]
LbIncludeAll(path) == [k |-> "all", p |-> path, rel |-> TRUE]
LbFile(path, relative) == [k |-> "file", p |-> path, rel |-> relative]
LbNode(kind, n, refs) == [kind |-> kind, name |-> n, refs |-> refs]
LbTree(m, sm, y) ==
  (<<"m">> :> LbNode("log", 1, m)) @@ (<<"s", "m">> :> LbNode("log", 2, sm))
  @@ (<<"s", "x">> :> LbNode("sql", 3, <<>>)) @@ (<<"s", "y">> :> LbNode(y, 4, <<>>))
  @@ (<<"z">> :> LbNode("sql", 5, <<>>))
LbTrees == {
  LbTree(<<LbInclude(<<"s", "m">>, TRUE), LbFile(<<"z">>, TRUE)>>, <<LbInclude(<<"x">>, TRUE),
         LbInclude(<<"m">>, FALSE)>>, "other"),
  LbTree(<<LbIncludeAll(<<"s">>), LbInclude(<<"z">>, FALSE)>>, <<LbInclude(<<"y">>, TRUE)>>, "sql"),
  LbTree(<<LbInclude(<<"x">>, FALSE)>>, <<LbFile(<<"s">>, FALSE)>>, "broken"),
  LbTree(<<LbInclude(<<"m">>, FALSE), LbIncludeAll(<<"s">>)>>, <<>>, "broken") }
LbLog == {LbArg("changelog", <<Ref(kind, <<"m">>)>>) : kind \in {"rel", "abs"}}
LbUpdate == LbArg("word", "update")
LbAlphabet ==
  LbLog \cup {LbArg("changelog", <<r>>) : r \in {Ref("remote", <<>>), Ref("abs", <<"outside">>), Ref("rel", <<"q">>)}}
  \cup {LbArg("defaults", r) : r \in {<<>>, <<Ref("abs", <<"z">>)>>, <<Ref("abs", <<"s">>)>>}}
  \cup {LbArg("search", r) : r \in {<<Ref("abs", <<"s">>), Ref("remote", <<>>)>>, <<Ref("empty", <<>>)>>}}
  \cup {LbArg("flag", v) : v \in {"log", "count"}} \cup {LbUpdate, LbArg("word", "rollback")}
  \cup {LbArg("connection", "user"), LbArg("runtime", "user"), LbArg("empty", "")}
LbCases ==
  [args : UpTo(1, LbAlphabet) \cup {<<a, b>> : a \in LbAlphabet, b \in LbLog \cup {LbUpdate}}
          \cup {<<a, c, b, LbUpdate>> : a \in LbAlphabet, b \in LbAlphabet, c \in LbLog}
          \cup {<<c, LbUpdate, b, d>> : b \in LbAlphabet, c \in LbLog,
                     d \in {LbArg("word", "tag"), LbArg("flag", "count")}},
   cwd : {<<>>, <<"s">>}, fs : LbTrees, mode : {"host", "container", "windows"}]
=============================================================================

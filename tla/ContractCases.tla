--------------------------- MODULE ContractCases ----------------------------
(***************************************************************************)
(* Small documents, values, schemas and environments that the modules of   *)
(* the runtime contract library are checked with.                          *)
(***************************************************************************)
EXTENDS Composition, CanonicalValues, IdentityEnvelope, ExecutionEnv

AtMost(n, S) == UNION {[1..k -> S] : k \in 0..n}

(* Composition: three names, recipes on each other, steps inline and used. *)
RecipeNames == {"a", "b", "c"}
Transform(t) == [type |-> "transform", transform |-> t]
Inline(t) == [use |-> "", transform |-> t]
Use(name) == [use |-> name, transform |-> 0]
Recipe(base, steps) == [type |-> "recipe", base |-> base, steps |-> steps]
StepLists == {<<>>, <<Inline(1)>>, <<Use("c")>>, <<Use("b")>>, <<Inline(1), Use("c")>>,
              <<Use("c"), Inline(2), Inline(1)>>}
Entries(bases) == {NoAlias, Transform(2)} \cup {Recipe(b, s) : b \in bases, s \in StepLists}
Documents ==
  {("a" :> x) @@ ("b" :> y) @@ ("c" :> z) :
     x \in Entries({"factory", "a", "b", "c"}), y \in Entries({"factory", "a", "c"}),
     z \in {NoAlias, Transform(1), Recipe("b", <<>>), Recipe("factory", <<Use("a")>>)}}
NoEntries == [n \in RecipeNames |-> NoAlias]
WrongEntries == {[type |-> "unknown"], Recipe("both", <<>>), Recipe("", <<>>),
                 Recipe("factory", <<[use |-> "c", transform |-> 1]>>)}
DocumentPairs ==
  {<<[NoEntries EXCEPT !["a"] = d], NoEntries>> : d \in WrongEntries}
  \cup Documents \X {NoEntries}
  \cup {d \in Documents : d["b"] = Transform(2)} \X {[NoEntries EXCEPT !["a"] = Transform(1)]}

(* CanonicalValues: trees of depth up to three, some beyond the limits. *)
LeafTrees == {NullTree} \cup {StringTree(s) : s \in {<<>>, <<1>>, <<2>>, <<1, 2>>, <<1, 1, 1>>}}
FewLeafTrees == {NullTree, StringTree(<<>>), StringTree(<<2>>)}
MapKeys == {<<>>, <<1>>, <<2>>, <<1, 2>>}
Collections(n, S) == {Tree(t, <<>>, <<>>, m) : t \in {ListTag, SetTag}, m \in AtMost(n, S)}
Maps(n, S) == UNION {{Tree(MapTag, <<>>, k, m) : k \in [1..l -> MapKeys], m \in [1..l -> S]} : l \in 0..n}
Pairs == {Tree(t, <<>>, <<>>, m) : t \in {ListTag, SetTag}, m \in {<<>>, <<NullTree>>, <<StringTree(<<2>>), NullTree>>}}
         \cup {Tree(MapTag, <<>>, <<k>>, <<v>>) : k \in {<<>>, <<1>>}, v \in FewLeafTrees}
Values ==
  LeafTrees \cup Collections(2, LeafTrees) \cup Collections(3, FewLeafTrees) \cup Maps(2, FewLeafTrees)
  \cup Collections(2, Pairs \cup {StringTree(<<1>>)}) \cup Maps(1, Pairs)
  \cup Collections(1, Collections(1, Pairs))

(* IdentityEnvelope: schemas, of which the last three are refused. *)
Schemas == {
  <<FieldDefinition("locator", "semantic", "text", TRUE, "public"),
    FieldDefinition("token", "semantic", "secret-reference", FALSE, "public")>>,
  <<FieldDefinition("locator", "semantic", "canonical-value", TRUE, "protected"),
    FieldDefinition("plan", "operational", "text", FALSE, "public")>>,
  <<FieldDefinition("plan", "semantic", "text", TRUE, "public"),
    FieldDefinition("plan", "semantic", "text", TRUE, "public")>>,
  <<FieldDefinition("extension.input.0", "semantic", "text", TRUE, "public")>>,
  <<FieldDefinition("plan", "operational", "text", TRUE, "public")>>}
Extensions == {<<>>, <<"file">>, <<"file", "file">>, <<"image", "file">>}

(* ExecutionEnv: a host and an image environment, each varied in one place. *)
Path(root, of, relative) == [root |-> root, of |-> of, relative |-> relative]
PathPart(p) == Part("path", <<>>, "", "", p, "native")
Secret(name) == Part("secret", <<>>, name, "", NoPath, "")
Service(name, field) == Part("service", <<>>, name, field, NoPath, "")
ServiceOf(name, transport, secret) ==
  [name |-> name, transport |-> transport, database |-> "d", user |-> "u", secret |-> secret,
   profile |-> IF secret = "" THEN "" ELSE "v1"]
SecretOf(name, purpose, service) ==
  [name |-> name, purpose |-> purpose, service |-> service, reference |-> IF purpose = "semantic" THEN "r" ELSE ""]
Mount(name, target, kind, input, secret, readonly) ==
  [name |-> name, target |-> target, kind |-> kind, input |-> input, secret |-> secret, readonly |-> readonly]
Input(name, profile, executable) == [name |-> name, profile |-> profile, executable |-> executable]
Runtime(kind, of, os, database) == [kind |-> kind, identity |-> of, os |-> os, database |-> database]
Variable(name, value) == [name |-> name, value |-> value]
Host ==
  [runtime |-> Runtime("host", "host-bundle", "linux", ""),
   user |-> "u", network |-> "services", workdir |-> Path("workspace", "", ""),
   argv |-> <<<<PathPart(Path("tool", "", "ok"))>>, <<Literal(<<1, 2>>), Service("db", "host")>>>>,
   environment |-> <<Variable("path", <<Literal(<<1>>)>>), Variable("PW", <<Secret("key")>>)>>,
   inputs |-> <<Input("in", "file", FALSE), Input("tr", "tree", FALSE)>>,
   mounts |-> <<Mount("m", Path("workspace", "", "ok"), "input", "in", "", TRUE),
                Mount("n", Path("workspace", "", ""), "input", "tr", "", FALSE)>>,
   services |-> <<ServiceOf("db", "tcp", "auth"), ServiceOf("x", "unix", "")>>,
   secrets |-> <<SecretOf("auth", "authentication", "db"), SecretOf("key", "semantic", "")>>]
Image ==
  [Host EXCEPT
   !.runtime = Runtime("database-container", "image-manifest", "windows", "db"),
   !.network = "none", !.workdir = Path("mount", "n", "ok"),
   !.argv = <<<<Literal(<<1, 2>>)>>, <<PathPart(Path("socket", "x", ""))>>>>,
   !.mounts = <<Mount("m", Path("image:c", "", "ok"), "secret", "", "key", TRUE),
                Mount("n", Path("image:c", "", ""), "input", "tr", "", FALSE)>>,
   !.inputs = <<Input("tr", "tree", FALSE)>>, !.environment = <<>>]
Variants(v) ==
  {v}
  \cup {[v EXCEPT !.runtime = Runtime(kind, of, os, db)] :
          kind \in {"host", "oci", "database-container"}, of \in {"host-executable", "host-bundle", "image-manifest"},
          os \in {"linux", "windows"}, db \in {"", "db"}}
  \cup {[v EXCEPT !.network = n] : n \in {"none", "services", "local-context"}}
  \cup {[v EXCEPT !.workdir = Path(root, of, relative)] :
          root \in {"tool", "workspace", "image", "image:c", "mount", "socket", "socket-directory", "credential-file"},
          of \in {"m", "n", "db", "x"}, relative \in {"", "ok", "unsound"}}
  \cup {[v EXCEPT !.argv[2] = w] :
          w \in {<<>>, <<Secret("key")>>, <<Secret("auth")>>, <<Literal(<<1>>), Literal(<<1, 2>>)>>,
                 <<Service("x", "port")>>, <<Service("db", "user")>>,
                 <<PathPart(Path("mount", "m", ""))>>, <<PathPart(Path("credential-file", "db", ""))>>}}
  \cup {[v EXCEPT !.argv = a] : a \in {<<>>, <<<<Literal(<<>>)>>>>, <<<<Literal(<<1>>), Literal(<<2>>)>>>>}}
  \cup {[v EXCEPT !.environment = e] :
          e \in {<<Variable("path", <<>>), Variable("PATH", <<>>)>>, <<Variable("PW", <<Secret("auth")>>)>>}}
  \cup {[v EXCEPT !.services = s] :
          s \in {<<>>, <<ServiceOf("db", "tcp", "")>>,
                  <<ServiceOf("db", "tcp", "auth"), ServiceOf("x", "unix", "auth")>>,
                 <<ServiceOf("db", "tcp", "key")>>, <<ServiceOf("db", "tcp", "auth")>>}}
  \cup {[v EXCEPT !.secrets = s] :
          s \in {<<>>, <<SecretOf("auth", "authentication", "x"), SecretOf("key", "semantic", "")>>,
                 <<SecretOf("auth", "semantic", "")>>, <<SecretOf("key", "semantic", "")>>}}
  \cup {[v EXCEPT !.mounts = m] :
          m \in {<<>>, Reverse(v.mounts),
                  [i \in DOMAIN v.mounts |-> [v.mounts[i] EXCEPT !.target = Path("workspace", "", "")]]}}
  \cup {[v EXCEPT !.mounts[1].kind = k] : k \in {"input", "scratch", "secret"}}
  \cup {[v EXCEPT !.mounts[1].secret = k] : k \in {"auth", "key"}}
  \cup {[v EXCEPT !.inputs = i] :
          i \in {<<Input("tr", "tree", TRUE)>>, <<Input("tr", "file", TRUE)>>,
                  v.inputs \o <<Input("zz", "file", FALSE)>>}}
Environments == Variants(Host) \cup Variants(Image)
=============================================================================

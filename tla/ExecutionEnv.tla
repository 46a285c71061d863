---------------------------- MODULE ExecutionEnv ----------------------------
(***************************************************************************)
(* The execution environment of a transform (runtime contract library,     *)
(* schemas/sqlrs): what a tool runs with, as a caller describes it, is     *)
(* checked, put into normal form and encoded as a canonical identity;      *)
(* another process reads the identity back and builds it again before it   *)
(* trusts it.                                                              *)
(*                                                                         *)
(* A name, a digest and an identifier are model values; their patterns are *)
(* left out.  A path is a root, what the root refers to, and a relative    *)
(* part that is empty, sound or not.  A literal is a sequence of cells.    *)
(***************************************************************************)
EXTENDS Integers, SequencesExt

CONSTANTS
  ExecInputs,       \* the environments callers describe
  MaxExecMembers,   \* MaxCanonicalCollectionMembers
  MaxLiteral,       \* MaxCanonicalStringBytes
  MaxExecText       \* MaxCanonicalValueBytes

VARIABLES
  described,  \* an environment
  twin,       \* the same environment, presented differently, or another one
  encoded,    \* the identity on its way to a reader
  view        \* what the reader got out of it

execVars == <<described, twin, encoded, view>>

NoPath == [root |-> "", of |-> "", relative |-> ""]
Part(kind, literal, of, field, path, format) ==
  [kind |-> kind, literal |-> literal, of |-> of, field |-> field, path |-> path,
   format |-> format]
Literal(cells) == Part("literal", cells, "", "", NoPath, "")

Named(list, name) == {i \in DOMAIN list : list[i].name = name}
The(list, name) == list[CHOOSE i \in DOMAIN list : list[i].name = name]
Distinct(list) == \A i, j \in DOMAIN list : i # j => list[i].name # list[j].name

(* executionPreflight: sizes are bounded before anything is copied, sorted *)
(* or merged.                                                              *)
Words(v) == v.argv \o [i \in DOMAIN v.environment |-> v.environment[i].value]
Cells(word) == FoldLeft(LAMBDA n, p : n + Len(p.literal), 0, word)
executionPreflight(v) ==
  /\ \A n \in {Len(v.argv), Len(v.environment), Len(v.inputs), Len(v.mounts),
               Len(v.services), Len(v.secrets)} : n <= MaxExecMembers
  /\ \A i \in DOMAIN Words(v) :
        /\ Len(Words(v)[i]) <= MaxExecMembers
        /\ \A j \in DOMAIN Words(v)[i] : Len(Words(v)[i][j].literal) <= MaxLiteral
  /\ FoldLeft(LAMBDA n, w : n + Cells(w), 0, Words(v)) <= MaxExecText
-----------------------------------------------------------------------------
(* executionValidation.runtime *)
RuntimeSound(v) ==
  /\ CASE v.runtime.kind = "host" ->
            v.runtime.identity \in {"host-bundle", "host-executable"} /\ v.user # ""
       [] v.runtime.kind \in {"oci", "database-container"} ->
            v.runtime.identity = "image-manifest"
       [] OTHER -> FALSE
  /\ IF v.runtime.kind = "database-container"
     THEN Named(v.services, v.runtime.database) # {}
     ELSE v.runtime.database = ""
  /\ v.network \in {"none", "services", "local-context"}
  /\ v.network = "local-context" =>
        v.runtime.kind = "host" /\ v.runtime.identity = "host-executable"

(* executionValidation.service: a service that authenticates names a       *)
(* secret of that purpose which names the service.                         *)
ServiceSound(v, s) ==
  /\ s.transport \in {"tcp", "unix"}
  /\ \/ s.secret = "" /\ s.profile = ""
     \/ /\ Named(v.secrets, s.secret) # {}
        /\ The(v.secrets, s.secret).purpose = "authentication"
        /\ The(v.secrets, s.secret).service = s.name
        /\ s.user # "" /\ s.profile # ""

(* Mutant of SecretSound: the service need not point back.                 *)
SecretSoundOneWay(v, s) ==
  \/ /\ s.purpose = "semantic" /\ s.service = "" /\ s.reference # ""
  \/ /\ s.purpose = "authentication" /\ s.reference = ""
     /\ Named(v.services, s.service) # {}

(* executionNormalize: the purposes of a secret.                           *)
SecretSound(v, s) ==
  \/ /\ s.purpose = "semantic" /\ s.service = "" /\ s.reference # ""
  \/ /\ s.purpose = "authentication" /\ s.reference = ""
     /\ Named(v.services, s.service) # {}
     /\ The(v.services, s.service).secret = s.name

InputSound(i) ==
  i.profile = "file" \/ (i.profile = "tree" /\ ~i.executable)

(* executionValidation.path *)
PathSound(v, p, directory, target) ==
  /\ p.relative # "unsound"
  /\ target => IF v.runtime.kind = "host" THEN p.root = "workspace"
               ELSE p.root \in {"image", "image:c"}
  /\ CASE p.root = "tool" ->
            /\ v.runtime.kind = "host"
            /\ v.runtime.identity = "host-executable" => p.relative = "" /\ ~directory
       [] p.root = "workspace" -> v.runtime.kind = "host"
       [] p.root = "image" -> v.runtime.kind # "host" /\ v.runtime.os # "windows"
       [] p.root = "image:c" -> v.runtime.kind # "host" /\ v.runtime.os = "windows"
       [] p.root = "mount" ->
            /\ Named(v.mounts, p.of) # {}
            /\ LET m == The(v.mounts, p.of)
                   file == m.kind = "input" /\ Named(v.inputs, m.input) # {}
                             /\ The(v.inputs, m.input).profile = "file"
               IN m.kind = "secret" \/ file => p.relative = "" /\ ~directory
       [] p.root \in {"socket", "socket-directory", "credential-file"} ->
            /\ p.relative = ""
            /\ Named(v.services, p.of) # {}
            /\ LET s == The(v.services, p.of)
               IN CASE p.root = "socket" -> s.transport = "unix" /\ ~directory
                    [] p.root = "socket-directory" -> s.transport = "unix"
                    [] OTHER -> s.secret # "" /\ s.profile # "" /\ ~directory
       [] OTHER -> FALSE

ServicePath(p) == p.root \in {"socket", "socket-directory", "credential-file"}

(* executionValidation.word: a part has what its kind calls for, a secret  *)
(* is one of semantic purpose and stands in the environment only.          *)
PartSound(v, p, secrets) ==
  CASE p.kind = "literal" -> p.of = "" /\ p.field = "" /\ p.path = NoPath /\ p.format = ""
    [] p.kind = "secret" ->
         /\ secrets /\ p.literal = <<>> /\ p.field = "" /\ p.path = NoPath /\ p.format = ""
         /\ Named(v.secrets, p.of) # {} /\ The(v.secrets, p.of).purpose = "semantic"
    [] p.kind = "service" ->
         /\ p.literal = <<>> /\ p.path = NoPath /\ p.format = ""
         /\ Named(v.services, p.of) # {}
         /\ LET s == The(v.services, p.of)
            IN CASE p.field \in {"host", "port"} -> s.transport = "tcp"
                 [] p.field = "database" -> s.database # ""
                 [] p.field = "user" -> s.user # ""
                 [] OTHER -> FALSE
    [] p.kind = "path" ->
         /\ p.literal = <<>> /\ p.of = "" /\ p.field = ""
         /\ p.path # NoPath /\ p.format \in {"native", "forward"}
         /\ PathSound(v, p.path, FALSE, FALSE)
    [] OTHER -> FALSE

(* The normal form of a word: empty literals are dropped, neighbouring     *)
(* literals are joined, and a word without parts is one empty literal.     *)
Joined(word) ==
  LET join(done, p) ==
        IF p.kind # "literal" THEN Append(done, p)
        ELSE IF p.literal = <<>> THEN done
        ELSE IF done # <<>> /\ Last(done).kind = "literal"
        THEN Front(done) \o <<Literal(Last(done).literal \o p.literal)>>
        ELSE Append(done, p)
      parts == FoldLeft(join, <<>>, word)
  IN IF parts = <<>> THEN <<Literal(<<>>)>> ELSE parts

WordSound(v, word, secrets) ==
  /\ \A i \in DOMAIN word : PartSound(v, word[i], secrets)
  /\ \A i \in DOMAIN Joined(word) : Len(Joined(word)[i].literal) <= MaxLiteral

MountSound(v, m) ==
  /\ PathSound(v, m.target, FALSE, TRUE)
  /\ CASE m.kind = "input" -> Named(v.inputs, m.input) # {} /\ m.secret = ""
       [] m.kind = "scratch" -> m.input = "" /\ m.secret = "" /\ ~m.readonly
       [] m.kind = "secret" ->
            /\ Named(v.secrets, m.secret) # {}
            /\ The(v.secrets, m.secret).purpose = "semantic"
            /\ m.input = "" /\ m.readonly
       [] OTHER -> FALSE

(* The first word is the tool.                                             *)
ToolSound(v) ==
  LET first == Joined(v.argv[1])
  IN /\ Len(first) = 1
     /\ \/ first[1].kind = "path"
        \/ first[1].kind = "literal" /\ first[1].literal # <<>>
     /\ v.runtime.kind = "host" =>
          first[1].kind = "path" /\ first[1].path.root = "tool" /\ first[1].format = "native"

(* On Windows the names of variables are put in upper case.                *)
Upper(name) == IF name = "path" THEN "PATH" ELSE name
VariableName(v, e) == IF v.runtime.os = "windows" THEN Upper(e.name) ELSE e.name

(* What is used: everything declared has to be.                            *)
PartsOf(v) == UNION {ToSet(Words(v)[i]) : i \in DOMAIN Words(v)}
PathsOf(v) == {v.workdir} \cup {p.path : p \in {q \in PartsOf(v) : q.kind = "path"}}
ServicesUsed(v) ==
  {v.runtime.database}
    \cup (IF v.network = "services" THEN {s.name : s \in ToSet(v.services)} ELSE {})
    \cup {s.service : s \in ToSet(v.secrets)}
    \cup {p.of : p \in {q \in PartsOf(v) : q.kind = "service"}}
    \cup {p.of : p \in {q \in PathsOf(v) : ServicePath(q)}}
SecretsUsed(v) ==
  {s.name : s \in {x \in ToSet(v.secrets) : x.purpose = "authentication"}}
    \cup {m.secret : m \in ToSet(v.mounts)}
    \cup {p.of : p \in {q \in PartsOf(v) : q.kind = "secret"}}
InputsUsed(v) == {m.input : m \in ToSet(v.mounts)}

(* executionNormalize: the checks ...                                      *)
EnvironmentSound(v) ==
  /\ Distinct(v.inputs) /\ Distinct(v.mounts)
  /\ Distinct(v.services) /\ Distinct(v.secrets)
  /\ RuntimeSound(v)
  /\ \A i \in DOMAIN v.inputs : InputSound(v.inputs[i])
  /\ \A i \in DOMAIN v.services : ServiceSound(v, v.services[i])
  /\ \A i \in DOMAIN v.secrets : SecretSound(v, v.secrets[i])
  /\ \A i \in DOMAIN v.mounts : MountSound(v, v.mounts[i])
  /\ \A i, j \in DOMAIN v.mounts : i # j => v.mounts[i].target # v.mounts[j].target
  /\ PathSound(v, v.workdir, TRUE, FALSE)
  /\ v.argv # <<>>
  /\ \A i \in DOMAIN v.argv : WordSound(v, v.argv[i], FALSE)
  /\ ToolSound(v)
  /\ \A i, j \in DOMAIN v.environment : i # j =>
        VariableName(v, v.environment[i]) # VariableName(v, v.environment[j])
  /\ \A i \in DOMAIN v.environment : WordSound(v, v.environment[i].value, TRUE)
  /\ {i.name : i \in ToSet(v.inputs)} \subseteq InputsUsed(v)
  /\ {s.name : s \in ToSet(v.services)} \subseteq ServicesUsed(v)
  /\ {s.name : s \in ToSet(v.secrets)} \subseteq SecretsUsed(v)

(* ... and the normal form.  What is keyed by a name is sorted by it, here *)
(* it is the set of its members; argv and mounts keep their order.         *)
Normalized(v) ==
  [v EXCEPT !.argv = [i \in DOMAIN @ |-> Joined(@[i])],
            !.environment = {[name |-> VariableName(v, e), value |-> Joined(e.value)] :
                               e \in ToSet(@)},
            !.inputs = ToSet(@), !.services = ToSet(@), !.secrets = ToSet(@)]
-----------------------------------------------------------------------------
Unaccepted == [kind |-> "refused"]
Keep(record, names) == [n \in names |-> record[n]]

(* executionFields: the primitive and the six trees; a member that does    *)
(* not apply to the variant is left out.                                   *)
PartFields(p) ==
  CASE p.kind = "literal" -> Keep(p, {"kind", "literal"})
    [] p.kind = "secret"  -> Keep(p, {"kind", "of"})
    [] p.kind = "service" -> Keep(p, {"kind", "of", "field"})
    [] p.kind = "path"    -> Keep(p, {"kind", "path", "format"})
WordFields(word) == [i \in DOMAIN word |-> PartFields(word[i])]
executionFields(n) ==
  [kind |-> n.runtime.kind,
   runtime |-> Keep(n.runtime, {"identity", "os"} \cup
                 (IF n.runtime.kind = "database-container" THEN {"database"} ELSE {})),
   argv |-> [i \in DOMAIN n.argv |-> WordFields(n.argv[i])],
   environment |-> {[name |-> e.name, value |-> WordFields(e.value)] : e \in n.environment},
   workdir |-> n.workdir, user |-> n.user, network |-> n.network,
   inputs |-> {Keep(i, {"name", "profile"} \cup
                 (IF i.profile = "file" THEN {"executable"} ELSE {})) : i \in n.inputs},
   services |-> {Keep(s, {"name", "transport", "database", "user"} \cup
                 (IF s.secret # "" THEN {"secret", "profile"} ELSE {})) : s \in n.services},
   mounts |-> [i \in DOMAIN n.mounts |-> Keep(n.mounts[i],
                 {"name", "target", "kind", "readonly"}
                   \cup (IF n.mounts[i].kind = "input" THEN {"input"} ELSE {})
                   \cup (IF n.mounts[i].kind = "secret" THEN {"secret"} ELSE {}))],
   secrets |-> {Keep(s, {"name", "purpose"} \cup
                 (IF s.purpose = "authentication" THEN {"service"} ELSE {"reference"})) :
                   s \in n.secrets}]

(* BuildExecutionEnvironmentIdentity *)
BuildIdentity(v) ==
  IF executionPreflight(v) /\ EnvironmentSound(v)
  THEN executionFields(Normalized(v)) ELSE Unaccepted

(* executionRead: members that are absent are read as empty, members that  *)
(* do not belong to the variant are refused.                               *)
Get(r, name, default) == IF name \in DOMAIN r THEN r[name] ELSE default
ReadPart(p) ==
  Part(p.kind, Get(p, "literal", <<>>), Get(p, "of", ""), Get(p, "field", ""),
       Get(p, "path", NoPath), Get(p, "format", ""))
ReadWord(w) == [i \in DOMAIN w |-> ReadPart(w[i])]
ShapeSound(id) ==
  /\ \A i \in id.inputs : i.profile = "file" <=> "executable" \in DOMAIN i
  /\ \A i \in DOMAIN id.mounts :
        /\ "input" \in DOMAIN id.mounts[i] => id.mounts[i].kind = "input"
        /\ "secret" \in DOMAIN id.mounts[i] => id.mounts[i].kind = "secret"
  /\ \A s \in id.secrets :
        \/ s.purpose = "authentication" /\ "reference" \notin DOMAIN s /\ "service" \in DOMAIN s
        \/ s.purpose = "semantic" /\ "service" \notin DOMAIN s /\ "reference" \in DOMAIN s
executionRead(id) ==
  [runtime |-> [kind |-> id.kind, identity |-> id.runtime.identity, os |-> id.runtime.os,
                database |-> Get(id.runtime, "database", "")],
   argv |-> [i \in DOMAIN id.argv |-> ReadWord(id.argv[i])],
   environment |-> SetToSeq({[name |-> e.name, value |-> ReadWord(e.value)] : e \in id.environment}),
   workdir |-> id.workdir, user |-> id.user, network |-> id.network,
   inputs |-> SetToSeq({[name |-> i.name, profile |-> i.profile,
                         executable |-> Get(i, "executable", FALSE)] : i \in id.inputs}),
   services |-> SetToSeq({[name |-> s.name, transport |-> s.transport, database |-> s.database,
                           user |-> s.user, secret |-> Get(s, "secret", ""),
                           profile |-> Get(s, "profile", "")] : s \in id.services}),
   mounts |-> [i \in DOMAIN id.mounts |->
                [name |-> id.mounts[i].name, target |-> id.mounts[i].target,
                 kind |-> id.mounts[i].kind, readonly |-> id.mounts[i].readonly,
                 input |-> Get(id.mounts[i], "input", ""),
                 secret |-> Get(id.mounts[i], "secret", "")]],
   secrets |-> SetToSeq({[name |-> s.name, purpose |-> s.purpose,
                          service |-> Get(s, "service", ""),
                          reference |-> Get(s, "reference", "")] : s \in id.secrets})]

(* ParseExecutionEnvironmentIdentity: what was read is built again and has *)
(* to give the identity it was read from.                                  *)
ParseIdentity(id) ==
  IF ShapeSound(id) /\ BuildIdentity(executionRead(id)) = id
  THEN Normalized(executionRead(id)) ELSE Unaccepted
-----------------------------------------------------------------------------
ExecStart(v) ==
  /\ described = v
  /\ twin = described
  /\ encoded = Unaccepted
  /\ view = Unaccepted
ExecInit == \E v \in ExecInputs : ExecStart(v)

Swapped(list) == IF Len(list) = 2 THEN <<list[2], list[1]>> ELSE list
Split(word) ==
  IF word # <<>> /\ word[1].kind = "literal" /\ Len(word[1].literal) > 1
  THEN <<Literal(<<word[1].literal[1]>>), Literal(<<>>), Literal(Tail(word[1].literal))>> \o Tail(word)
  ELSE <<Literal(<<>>)>> \o word

(* Another caller presents the environment in another order, or with its   *)
(* literals cut differently, ...                                           *)
Rearrange ==
  /\ encoded = Unaccepted /\ twin = described
  /\ twin' \in {[described EXCEPT !.inputs = Swapped(@), !.services = Swapped(@)],
                [described EXCEPT !.secrets = Swapped(@), !.environment = Swapped(@)],
                [described EXCEPT !.argv = [i \in DOMAIN @ |-> Split(@[i])]]}
  /\ UNCHANGED <<described, encoded, view>>

(* ... or describes another one: the order of words and of mounts matters. *)
Differ ==
  /\ encoded = Unaccepted /\ twin = described
  /\ twin' \in {[described EXCEPT !.argv = Reverse(@)], [described EXCEPT !.mounts = Swapped(@)]}
               \cup ExecInputs
  /\ UNCHANGED <<described, encoded, view>>

Encode ==
  /\ encoded = Unaccepted /\ BuildIdentity(described) # Unaccepted
  /\ encoded' = BuildIdentity(described)
  /\ twin' = described
  /\ UNCHANGED <<described, view>>

(* The identity is not the one that was built: a member is of another      *)
(* variant or a word is not in normal form.                                *)
AlterIdentity ==
  /\ encoded # Unaccepted /\ view = Unaccepted /\ encoded = BuildIdentity(described)
  /\ \/ \E i \in DOMAIN encoded.argv :
           encoded' = [encoded EXCEPT !.argv[i] = <<Keep(Literal(<<>>), {"kind", "literal"})>> \o @]
     \/ \E i \in DOMAIN encoded.mounts, k \in {"input", "scratch", "secret"} :
           encoded' = [encoded EXCEPT !.mounts[i].kind = k]
     \/ \E s \in encoded.services :
           encoded' = [encoded EXCEPT !.services = (@ \ {s}) \cup {[s EXCEPT !.user = ""]}]
     \/ \E s \in encoded.secrets, p \in {"authentication", "semantic"} :
           encoded' = [encoded EXCEPT !.secrets = (@ \ {s}) \cup {[s EXCEPT !.purpose = p]}]
     \/ \E n \in {"none", "services", "local-context"} :
           encoded' = [encoded EXCEPT !.network = n]
  /\ UNCHANGED <<described, twin, view>>

ParseExecution ==
  /\ encoded # Unaccepted /\ view = Unaccepted
  /\ view' = ParseIdentity(encoded)
  /\ view' # Unaccepted
  /\ UNCHANGED <<described, twin, encoded>>

ExecStops == UNCHANGED execVars

ExecNext == Rearrange \/ Differ \/ Encode \/ AlterIdentity \/ ParseExecution \/ ExecStops
-----------------------------------------------------------------------------
(* Two descriptions that are accepted have the same identity exactly when  *)
(* they have the same normal form: neither the order of what is keyed by   *)
(* name nor the cutting of literals shows, and everything else does, so a  *)
(* cached result is never taken for another environment.                   *)
IdentityTells ==
  LET a == BuildIdentity(described)
      b == BuildIdentity(twin)
  IN (a # Unaccepted /\ b # Unaccepted) => (a = b <=> Normalized(described) = Normalized(twin))

(* What a caller built is read back by every reader as its normal form,    *)
(* and what a reader accepts is in normal form.                            *)
ReadBack ==
  /\ (encoded # Unaccepted /\ encoded = BuildIdentity(described)) =>
        ParseIdentity(encoded) = Normalized(described)
  /\ view # Unaccepted => executionFields(view) = encoded

(* In an accepted environment no word of the command line holds a secret,  *)
(* a secret for authentication belongs to one service and is put into no   *)
(* variable and no mount, and whatever is named anywhere is declared.      *)
SecretsApart ==
  view # Unaccepted =>
    LET authenticating == {s.name : s \in {x \in view.secrets : x.purpose = "authentication"}}
        parts == UNION {ToSet(w) : w \in ToSet(view.argv) \cup {e.value : e \in view.environment}}
    IN /\ \A w \in ToSet(view.argv) : \A p \in ToSet(w) : p.kind # "secret"
       /\ \A p \in parts : p.kind = "secret" => p.of \notin authenticating
       /\ \A m \in ToSet(view.mounts) : m.secret \notin authenticating
       /\ \A a \in authenticating : Cardinality({s \in view.services : s.secret = a}) = 1
       /\ {m.input : m \in ToSet(view.mounts)} \ {""} = {i.name : i \in view.inputs}

(* The identity of an execution environment is faithful.                   *)
ExecutionEnvSafe == IdentityTells /\ ReadBack /\ SecretsApart
=============================================================================

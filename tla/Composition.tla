---------------------------- MODULE Composition ----------------------------
(***************************************************************************)
(* Composition of alias documents (the runtime contract library, package   *)
(* composition).  An alias is a transform, or a recipe: a base, which is a *)
(* factory or another recipe, and steps, each an inline transform or the   *)
(* use of a transform alias.  Expanding a recipe walks the chain of bases  *)
(* to its factory and then emits the steps from the factory outwards, with *)
(* a trace that says where every transform of the result comes from.       *)
(*                                                                         *)
(* A pointer into a document is a record instead of a path, a transform is *)
(* its weight, 0 where the document has none; the origin of the factory    *)
(* and the names of the sources are left out.                              *)
(***************************************************************************)
EXTENDS Integers, SequencesExt

CONSTANTS
  AliasNames,       \* the names
  AliasDocuments,   \* pairs of documents: a definition, or NoAlias, per name
  MaxExpanded,      \* MaxTransforms: transforms of an expanded recipe
  MaxExpandedBytes  \* MaxJSONBytes: size of an expanded recipe

VARIABLES
  aliases,    \* the two documents of the catalog
  wanted,     \* the recipe or transform that is expanded
  stage,      \* "build", "admit", "walk", "emit", "trace", "done"
  chain,      \* the recipes from the wanted one to the one with the factory
  nodes,      \* the trace: the aliases that took part
  origins,    \* the trace: where each transform comes from
  output,     \* the transforms of the expanded recipe
  used,       \* bytes charged
  at,         \* the recipe of the chain and its step that come next
  failure     \* the diagnostic, "" if there is none

compositionVars == <<aliases, wanted, stage, chain, nodes, origins, output, used,
                     at, failure>>

NoAlias == [type |-> "none"]
Pointer(alias, part, step) == [alias |-> alias, part |-> part, step |-> step]
definitionPointer(alias) == Pointer(alias, "definition", 0)

TraceNode(kind, alias, parent, reference) ==
  [kind |-> kind, alias |-> alias, parent |-> parent, reference |-> reference]

(* The weight of a transform, and of the envelope with its factory. *)
Weight(t) == t
EnvelopeBytes == 1

CompositionStart(documents, name) ==
  /\ aliases = documents
  /\ wanted = name
  /\ stage = "build"
  /\ chain = <<>> /\ nodes = <<>> /\ origins = <<>> /\ output = <<>>
  /\ used = 0 /\ at = <<0, 0>> /\ failure = ""
CompositionInit ==
  \E documents \in AliasDocuments, name \in AliasNames : CompositionStart(documents, name)

(* The one definition of a name in the catalog. *)
Definition(name) ==
  IF aliases[1][name].type # "none" THEN aliases[1][name] ELSE aliases[2][name]

Invalid(code) ==
  /\ stage' = "done" /\ failure' = code
  /\ UNCHANGED <<aliases, wanted, chain, nodes, origins, output, used, at>>

(* The wire form has one of the two types. *)
decodeAliasDocument(d) == d.type \in {"none", "transform", "recipe"}

(* A base is a factory or a recipe, a step a use or a transform, never     *)
(* both and never neither.                                                 *)
buildRecipeAlias(d) ==
  /\ d.base \notin {"", "both"}
  /\ Len(d.steps) <= MaxExpanded
  /\ \A i \in 1..Len(d.steps) : (d.steps[i].use = "") # (d.steps[i].transform = 0)

NewAliasDocument ==
  /\ stage = "build"
  /\ IF \A i \in {1, 2}, n \in AliasNames :
          /\ decodeAliasDocument(aliases[i][n])
          /\ aliases[i][n].type = "recipe" => buildRecipeAlias(aliases[i][n])
       THEN /\ stage' = "admit"
            /\ UNCHANGED <<aliases, wanted, chain, nodes, origins, output, used, at, failure>>
       ELSE Invalid("invalid document")

(* A transform alias is its own expansion. *)
ExpandTransform ==
  /\ stage' = "trace"
  /\ nodes' = <<TraceNode("transform", wanted, -1, definitionPointer(wanted))>>
  /\ origins' = <<[node |-> 0, pointer |-> Pointer(wanted, "declaration", 0)]>>
  /\ output' = <<Definition(wanted).transform>>
  /\ UNCHANGED <<aliases, wanted, chain, used, at, failure>>

(* NewCatalog refuses a name two sources define; then the target is looked *)
(* up.                                                                     *)
NewCatalog ==
  /\ stage = "admit"
  /\ IF \E n \in AliasNames : aliases[1][n].type # "none" /\ aliases[2][n].type # "none"
       THEN Invalid("ambiguous")
       ELSE CASE Definition(wanted).type = "none" -> Invalid("missing")
              [] Definition(wanted).type = "transform" -> ExpandTransform
              [] OTHER ->
                   /\ stage' = "walk" /\ chain' = <<wanted>>
                   /\ UNCHANGED <<aliases, wanted, nodes, origins, output, used, at, failure>>

(* The chain has its factory: the nodes of the recipes are laid down and   *)
(* the envelope is charged; the steps start at the innermost recipe.       *)
StartSteps ==
  /\ nodes' = [i \in 1..Len(chain) |->
                 IF i = 1
                   THEN TraceNode("recipe", chain[1], -1, definitionPointer(chain[1]))
                   ELSE TraceNode("recipe", chain[i], i - 2, Pointer(chain[i - 1], "base/recipe", 0))]
  /\ used' = EnvelopeBytes
  /\ at' = <<Len(chain), 1>>
  /\ stage' = "emit"
  /\ UNCHANGED <<aliases, wanted, chain, origins, output, failure>>

(* Mutant of WalkBase: only the wanted recipe itself counts as a cycle. *)
WalkBaseSelf ==
  /\ stage = "walk"
  /\ LET recipe == Definition(Last(chain))
         child == recipe.base
     IN CASE child = "factory" -> StartSteps
          [] child # "factory" /\ Definition(child).type = "none" -> Invalid("missing")
          [] child # "factory" /\ Definition(child).type = "transform" -> Invalid("wrong kind")
          [] child # "factory" /\ Definition(child).type = "recipe" /\ child = chain[1] -> Invalid("cycle")
          [] OTHER -> /\ chain' = Append(chain, child)
                      /\ UNCHANGED <<aliases, wanted, stage, nodes, origins, output, used, at, failure>>

(* One turn of the loop that walks the bases. *)
WalkBase ==
  /\ stage = "walk"
  /\ LET recipe == Definition(Last(chain))
         child == recipe.base
     IN CASE child = "factory" -> StartSteps
          [] child # "factory" /\ Definition(child).type = "none" -> Invalid("missing")
          [] child # "factory" /\ Definition(child).type = "transform" -> Invalid("wrong kind")
          [] child # "factory" /\ Definition(child).type = "recipe" /\ child \in ToSet(chain) -> Invalid("cycle")
          [] OTHER -> /\ chain' = Append(chain, child)
                      /\ UNCHANGED <<aliases, wanted, stage, nodes, origins, output, used, at, failure>>

(* What the next transform adds to the size, its comma included. *)
Charge(t) == Weight(t) + (IF output = <<>> THEN 0 ELSE 1)
Fits(t) == Len(output) < MaxExpanded /\ used + Charge(t) <= MaxExpandedBytes

(* Mutant of EmitStep: a used alias is charged to the outermost recipe. *)
EmitStepOuter ==
  /\ stage = "emit" /\ at[1] > 0
  /\ LET recipe == Definition(chain[at[1]])
         step == recipe.steps[at[2]]
         target == IF step.use = "" THEN NoAlias ELSE Definition(step.use)
         t == IF step.use = "" THEN step.transform ELSE target.transform
     IN IF at[2] > Len(recipe.steps)
          THEN /\ at' = <<at[1] - 1, 1>>
               /\ UNCHANGED <<aliases, wanted, stage, chain, nodes, origins, output, used, failure>>
        ELSE IF step.use # "" /\ target.type = "none" THEN Invalid("missing")
        ELSE IF step.use # "" /\ target.type # "transform" THEN Invalid("wrong kind")
        ELSE IF ~Fits(t) THEN Invalid("too large")
        ELSE /\ output' = Append(output, t)
             /\ used' = used + Charge(t)
             /\ at' = <<at[1], at[2] + 1>>
             /\ nodes' = IF step.use = "" THEN nodes
                         ELSE Append(nodes, TraceNode("transform", step.use, 0,
                                         Pointer(chain[at[1]], "use", at[2] - 1)))
             /\ origins' = Append(origins,
                  IF step.use = "" THEN [node |-> at[1] - 1, pointer |-> Pointer(chain[at[1]], "transform", at[2] - 1)]
                  ELSE [node |-> Len(nodes), pointer |-> Pointer(step.use, "declaration", 0)])
             /\ UNCHANGED <<aliases, wanted, stage, chain, failure>>

(* One step of one recipe of the chain, from the factory outwards. *)
EmitStep ==
  /\ stage = "emit" /\ at[1] > 0
  /\ LET recipe == Definition(chain[at[1]])
         step == recipe.steps[at[2]]
         target == IF step.use = "" THEN NoAlias ELSE Definition(step.use)
         t == IF step.use = "" THEN step.transform ELSE target.transform
     IN IF at[2] > Len(recipe.steps)
          THEN /\ at' = <<at[1] - 1, 1>>
               /\ UNCHANGED <<aliases, wanted, stage, chain, nodes, origins, output, used, failure>>
        ELSE IF step.use # "" /\ target.type = "none" THEN Invalid("missing")
        ELSE IF step.use # "" /\ target.type # "transform" THEN Invalid("wrong kind")
        ELSE IF ~Fits(t) THEN Invalid("too large")
        ELSE /\ output' = Append(output, t)
             /\ used' = used + Charge(t)
             /\ at' = <<at[1], at[2] + 1>>
             /\ nodes' = IF step.use = "" THEN nodes
                         ELSE Append(nodes, TraceNode("transform", step.use, at[1] - 1,
                                                      Pointer(chain[at[1]], "use", at[2] - 1)))
             /\ origins' = Append(origins,
                  IF step.use = "" THEN [node |-> at[1] - 1, pointer |-> Pointer(chain[at[1]], "transform", at[2] - 1)]
                  ELSE [node |-> Len(nodes), pointer |-> Pointer(step.use, "declaration", 0)])
             /\ UNCHANGED <<aliases, wanted, stage, chain, failure>>

EmitEnds ==
  /\ stage = "emit" /\ at[1] = 0
  /\ stage' = "trace"
  /\ UNCHANGED <<aliases, wanted, chain, nodes, origins, output, used, at, failure>>

-----------------------------------------------------------------------------
(* The grammar of a trace. *)
IsRecipe(n) == n.kind = "recipe"

RecipeCount(ns) ==
  IF \A i \in 1..Len(ns) : IsRecipe(ns[i]) THEN Len(ns)
  ELSE (CHOOSE i \in 1..Len(ns) : ~IsRecipe(ns[i]) /\ \A j \in 1..(i - 1) : IsRecipe(ns[j])) - 1

validateStandaloneTrace(ns, os) ==
  /\ Len(ns) = 1 /\ Len(os) = 1
  /\ os[1] = [node |-> 0, pointer |-> Pointer(ns[1].alias, "declaration", 0)]

(* The recipe and the step an origin names; step -1 if its pointer is not  *)
(* one of that recipe.                                                     *)
StepOf(ns, o) ==
  LET n == ns[o.node + 1]
      recipe == IF IsRecipe(n) THEN o.node ELSE n.parent
      p == IF IsRecipe(n) THEN o.pointer ELSE n.reference
      part == IF IsRecipe(n) THEN "transform" ELSE "use"
  IN <<recipe, IF p.alias = ns[recipe + 1].alias /\ p.part = part THEN p.step ELSE -1>>

(* One origin in the order of the output: recipes from the factory         *)
(* outwards, their steps without a gap, the used aliases in turn.          *)
NextOrigin(ns, acc, o) ==
  IF ~acc.ok \/ o.node < 0 \/ o.node >= Len(ns) THEN [acc EXCEPT !.ok = FALSE]
  ELSE LET n == ns[o.node + 1]
           s == StepOf(ns, o)
           from == IF s[1] < acc.recipe THEN -1 ELSE acc.step
       IN [ok |-> /\ ~IsRecipe(n) => /\ o.node = acc.next
                                     /\ o.pointer = Pointer(n.alias, "declaration", 0)
                  /\ s[1] <= acc.recipe
                  /\ s[2] >= 0 /\ s[2] = from + 1,
           recipe |-> s[1], step |-> s[2],
           next |-> IF IsRecipe(n) THEN acc.next ELSE acc.next + 1]

validateRecipeTrace(ns, os) ==
  LET k == RecipeCount(ns)
      start == [ok |-> TRUE, recipe |-> k, step |-> -1, next |-> k]
      end == FoldLeft(LAMBDA acc, o : NextOrigin(ns, acc, o), start, os)
  IN /\ k > 0
     /\ \A i \in 2..k : ns[i].parent = i - 2 /\ ns[i].reference = Pointer(ns[i - 1].alias, "base/recipe", 0)
     /\ \A i \in (k + 1)..Len(ns) : ~IsRecipe(ns[i]) /\ ns[i].parent \in 0..(k - 1)
     /\ end.ok /\ end.next = Len(ns)

validateTraceData(ns, os) ==
  /\ ns # <<>>
  /\ ns[1].parent = -1
  /\ \A i \in 2..Len(ns) : ns[i].parent \in 0..(i - 2)
  /\ IF IsRecipe(ns[1]) THEN validateRecipeTrace(ns, os) ELSE validateStandaloneTrace(ns, os)

(* newTrace: the trace is validated like one that is read. *)
NewTrace ==
  /\ stage = "trace"
  /\ stage' = "done"
  /\ failure' = IF validateTraceData(nodes, origins) THEN "" ELSE "bad trace"
  /\ UNCHANGED <<aliases, wanted, chain, nodes, origins, output, used, at>>

CompositionDone == stage = "done" /\ UNCHANGED compositionVars

CompositionNext ==
  \/ NewAliasDocument \/ NewCatalog \/ WalkBase \/ EmitStep \/ EmitEnds \/ NewTrace \/ CompositionDone

-----------------------------------------------------------------------------
(* What an alias means: the transforms of its base, then its own. *)
StepMeaning(step) ==
  IF step.use = "" THEN step.transform ELSE Definition(step.use).transform

RECURSIVE Meaning(_)
Meaning(name) ==
  LET d == Definition(name) IN
  IF d.type = "transform" THEN <<d.transform>>
  ELSE (IF d.base = "factory" THEN <<>> ELSE Meaning(d.base))
         \o [i \in 1..Len(d.steps) |-> StepMeaning(d.steps[i])]

(* The names from which the chain of bases never meets a factory: the ones *)
(* still left after as many turns as there are names.                      *)
RECURSIVE Endless(_, _)
Endless(name, fuel) ==
  LET d == Definition(name) IN
  /\ d.type = "recipe" /\ d.base # "factory"
  /\ fuel = 0 \/ Endless(d.base, fuel - 1)

(* A successful expansion is what the alias means, within its limits. *)
ExpansionExact ==
  stage = "done" /\ failure = "" =>
    /\ output = Meaning(wanted)
    /\ Definition(wanted).type = "recipe" =>
         Len(output) <= MaxExpanded /\ used <= MaxExpandedBytes

(* A cycle is reported for the recipes that have one, and only for them;   *)
(* the walk never takes an alias twice.                                    *)
CyclesReported ==
  /\ stage = "done" /\ failure \notin {"invalid document", "ambiguous"} =>
       (failure = "cycle" <=> Endless(wanted, Cardinality(AliasNames)))
  /\ IsInjective(chain)

(* "Generated nodes satisfy the trace grammar by construction": no trace   *)
(* of an expansion is refused, and each origin names the very alias and    *)
(* step its transform was written in.                                      *)
TransformAt(o) ==
  CASE o.pointer.part = "declaration" -> Definition(o.pointer.alias).transform
    [] o.pointer.part = "transform" -> Definition(o.pointer.alias).steps[o.pointer.step + 1].transform

TraceTells ==
  /\ failure # "bad trace"
  /\ stage = "done" /\ failure = "" =>
       /\ Len(origins) = Len(output)
       /\ \A i \in 1..Len(output) : TransformAt(origins[i]) = output[i]

(* A trace with one origin moved to another node, or to another step, is   *)
(* refused when it is read back.                                           *)
TraceIsRigid ==
  stage = "done" /\ failure = "" =>
    \A i \in 1..Len(origins) :
      /\ \A n \in 0..(Len(nodes) - 1) \ {origins[i].node} :
           ~validateTraceData(nodes, [origins EXCEPT ![i].node = n])
      /\ origins[i].pointer.part = "transform" =>
           \A s \in 0..3 \ {origins[i].pointer.step} :
             ~validateTraceData(nodes, [origins EXCEPT ![i].pointer.step = s])

CompositionSafe == ExpansionExact /\ CyclesReported /\ TraceTells /\ TraceIsRigid
=============================================================================

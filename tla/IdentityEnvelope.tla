-------------------------- MODULE IdentityEnvelope --------------------------
(***************************************************************************)
(* Canonical identities (runtime contract library): a schema names the     *)
(* fields of an identity, a single-use builder collects them and binds the *)
(* resolved extensions, the identity is fingerprinted, and an envelope     *)
(* carries descriptor and subject to another process, which recomputes     *)
(* every commitment before it trusts the envelope and explains it.         *)
(*                                                                         *)
(* A digest is its preimage: SHA-256 is taken to be injective.  Hex, JSON  *)
(* and the accessors are left out; a value is a number.                    *)
(***************************************************************************)
EXTENDS Integers, SequencesExt

CONSTANTS
  IdentitySchemas,   \* sequences of field definitions, as an author writes them
  ExtensionInputs,   \* the extensions a declaration names: sequences of kinds
  FieldValues,       \* payloads
  MaxBuilderCalls    \* bound on calls to the builder

VARIABLES
  idSchema,    \* the definitions of the schema
  declared,    \* the extension inputs of the declaration
  idBuilder,   \* fields, extensions bound, sealed, and the calls made
  observed,    \* observations the builder has taken
  identity,    \* the identity built, as a sequence of typed fields
  sent,        \* the envelope on the wire
  received,    \* what the reader has after UnmarshalJSON
  shown        \* the safe explanation

envelopeVars == <<idSchema, declared, idBuilder, observed, identity, sent, received, shown>>

FieldKinds == {"text", "canonical-value", "secret-reference"}
FieldNames == {"extension.input.0", "extension.input.1", "locator", "plan", "token"}
NameOrder == <<"extension.input.0", "extension.input.1", "locator", "plan", "token">>
Rank(name) == CHOOSE i \in DOMAIN NameOrder : NameOrder[i] = name
ByName(a, b) == Rank(a.name) < Rank(b.name)

FieldDefinition(name, role, kind, required, disclosure) ==
  [name |-> name, role |-> role, kind |-> kind, required |-> required,
   disclosure |-> disclosure]
ReservedNames == {"extension.input.0", "extension.input.1"}

(* schemaauthor.validate *)
ValidSchema(fields) ==
  /\ \A i, j \in DOMAIN fields : i # j => fields[i].name # fields[j].name
  /\ \A i \in DOMAIN fields :
        /\ fields[i].name \notin ReservedNames
        /\ fields[i].role = "operational" =>
              ~fields[i].required /\ fields[i].kind = "text"

Disclosures == {"public", "protected"}
ASSUME EnvelopeAssumption ==
  /\ \A s \in IdentitySchemas :
       ValidSchema(s) =>
         s \in Seq([name : FieldNames, role : {"semantic", "operational"}, kind : FieldKinds,
                   required : BOOLEAN, disclosure : Disclosures])
  /\ ExtensionInputs \subseteq Seq(STRING)

Definitions(name) == {d \in ToSet(idSchema) : d.name = name}
-----------------------------------------------------------------------------
(* newIdentityField: the commitment covers name, kind and payload.         *)
IdField(name, kind, value) ==
  [name |-> name, kind |-> kind, value |-> value,
   commitment |-> [name |-> name, kind |-> kind, payload |-> value]]
Disclosed(field, disclosure) ==
  [name |-> field.name, kind |-> field.kind, value |-> field.value,
   commitment |-> field.commitment, disclosure |-> disclosure]

(* Fields of different names, ordered by name.                             *)
ByFieldName(fields) ==
  CHOOSE s \in [1..Cardinality(fields) -> fields] :
    \A i, j \in DOMAIN s : i < j => ByName(s[i], s[j])

(* canonicalTypedFieldSet: names, kinds and commitments, ordered by name.  *)
canonicalTypedFieldSet(fields) ==
  LET ordered == ByFieldName(ToSet(fields))
  IN [i \in DOMAIN ordered |-> [name |-> ordered[i].name, kind |-> ordered[i].kind,
                                commitment |-> ordered[i].commitment]]

Domain(kind) ==
  CASE kind = "factory-state" -> "domain/factory-state"
    [] kind = "transform" -> "domain/transform"
    [] OTHER -> ""
canonicalFingerprint(domain, provider, fields) ==
  [domain |-> domain, provider |-> provider, fields |-> canonicalTypedFieldSet(fields)]

FingerprintKinds == {"factory-state", "transform"}
Providers == {"sqlrs", "other"}
NoWire == [kind |-> "none"]
NoIdentity == [kind |-> "none"]

EnvelopeStart(schema, inputs) ==
  /\ idSchema = schema
  /\ declared = inputs
  /\ idBuilder = [fields |-> {}, extensions |-> FALSE, sealed |-> FALSE, calls |-> 0]
  /\ observed = <<>>
  /\ identity = NoIdentity
  /\ sent = NoWire
  /\ received = NoIdentity
  /\ shown = <<>>
EnvelopeInit ==
  \E schema \in {s \in IdentitySchemas : ValidSchema(s)}, inputs \in ExtensionInputs :
    EnvelopeStart(schema, inputs)

BuilderCall == idBuilder.calls < MaxBuilderCalls /\ ~idBuilder.sealed
Called(b) == [b EXCEPT !.calls = @ + 1]
builderOnly == <<idSchema, declared, observed, identity, sent, received, shown>>

(* addIdentityField: only a semantic field of the schema, of its kind, and *)
(* only once.                                                              *)
AddIdentityField(name, kind, value) ==
  /\ BuilderCall
  /\ \E d \in Definitions(name) :
        /\ d.role = "semantic"
        /\ d.kind = kind
        /\ \A f \in idBuilder.fields : f.name # name
        /\ idBuilder' = [Called(idBuilder) EXCEPT
             !.fields = @ \cup {Disclosed(IdField(name, kind, value), d.disclosure)}]
  /\ UNCHANGED builderOnly

(* addObservation: diagnostics stay outside the identity.                  *)
AddObservation(name, value) ==
  /\ BuilderCall
  /\ \E d \in Definitions(name) : d.role = "operational" /\ d.kind = "text"
  /\ observed' = Append(observed, [name |-> name, value |-> value])
  /\ idBuilder' = Called(idBuilder)
  /\ UNCHANGED <<idSchema, declared, identity, sent, received, shown>>

(* BindExtensions: one resolved identity for each declared input, of the   *)
(* kind the declaration names at that position; staged, then put in.       *)
BindExtensions(resolved) ==
  /\ BuilderCall /\ ~idBuilder.extensions
  /\ Len(resolved) = Len(declared)
  /\ \A i \in DOMAIN resolved : resolved[i].kind = declared[i]
  /\ LET field(i) == Disclosed(IdField(NameOrder[i], "text", resolved[i].fingerprint), "public")
         bound == {field(i) : i \in DOMAIN resolved}
     IN idBuilder' = [Called(idBuilder) EXCEPT !.extensions = TRUE,
          !.fields = {f \in @ : \A g \in bound : g.name # f.name} \cup bound]
  /\ UNCHANGED builderOnly

(* FactoryIdentityBuilder.Build refuses a declaration with extensions      *)
(* before they are bound.                                                  *)
ExtensionsBound == declared # <<>> => idBuilder.extensions

(* Build: every required field is there; the builder is spent. *)
Build ==
  /\ BuilderCall
  /\ ExtensionsBound
  /\ \A d \in ToSet(idSchema) : d.role = "semantic" /\ d.required =>
        \E f \in idBuilder.fields : f.name = d.name
  /\ \E kind \in FingerprintKinds :
        identity' = [kind |-> kind, provider |-> "sqlrs",
                     fields |-> ByFieldName(idBuilder.fields)]
  /\ idBuilder' = [Called(idBuilder) EXCEPT !.sealed = TRUE]
  /\ UNCHANGED <<idSchema, declared, observed, sent, received, shown>>
-----------------------------------------------------------------------------
(* newIdentityEnvelope, MarshalJSON, fieldToWire: the token of a canonical *)
(* value travels beside the value.                                         *)
fieldToWire(f) ==
  [name |-> f.name, kind |-> f.kind, value |-> f.value, token |-> f.value,
   commitment |-> f.commitment, disclosure |-> f.disclosure]

Envelope(id) ==
  [kind |-> id.kind, domain |-> Domain(id.kind), provider |-> id.provider,
   digest |-> canonicalFingerprint(Domain(id.kind), id.provider, id.fields),
   fields |-> [i \in DOMAIN id.fields |-> fieldToWire(id.fields[i])]]

Marshal ==
  /\ idBuilder.sealed /\ sent = NoWire
  /\ sent' = Envelope(identity)
  /\ UNCHANGED <<idSchema, declared, idBuilder, observed, identity, received, shown>>

(* On its way one thing of the envelope changes.                           *)
AlterWire ==
  /\ sent # NoWire /\ received = NoIdentity /\ sent = Envelope(identity)
  /\ \/ \E k \in FingerprintKinds : sent' = [sent EXCEPT !.kind = k]
     \/ \E k \in FingerprintKinds : sent' = [sent EXCEPT !.kind = k, !.domain = Domain(k)]
     \/ \E p \in Providers : sent' = [sent EXCEPT !.provider = p]
     \/ \E v \in FieldValues, i \in DOMAIN sent.fields :
           \/ sent' = [sent EXCEPT !.fields[i].value = v]
           \/ sent' = [sent EXCEPT !.fields[i].value = v, !.fields[i].token = v]
     \/ \E n \in FieldNames, i \in DOMAIN sent.fields :
           sent' = [sent EXCEPT !.fields[i].name = n]
     \/ \E k \in FieldKinds, i \in DOMAIN sent.fields :
           sent' = [sent EXCEPT !.fields[i].kind = k]
     \/ \E d \in Disclosures, i \in DOMAIN sent.fields :
           sent' = [sent EXCEPT !.fields[i].disclosure = d]
     \/ \E i \in DOMAIN sent.fields :
           sent' = [sent EXCEPT !.fields = RemoveAt(@, i)]
     \/ sent' = [sent EXCEPT !.fields = Reverse(@)]
  /\ UNCHANGED <<idSchema, declared, idBuilder, observed, identity, received, shown>>

(* Mutant of decodeIdentityField: the commitment is taken from the wire.   *)
DecodeFieldTrusting(w) == Disclosed(w, w.disclosure)

(* decodeIdentityField: the field is made anew from its payload.           *)
decodeIdentityField(w) == Disclosed(IdField(w.name, w.kind, w.value), w.disclosure)

FieldAccepted(w) ==
  /\ w.kind = "canonical-value" => w.token = w.value
  /\ decodeIdentityField(w).commitment = w.commitment

(* validateDescriptor: the kind decides the domain.                        *)
validateDescriptor(w) == w.kind \in FingerprintKinds /\ w.domain = Domain(w.kind)

(* UnmarshalJSON; a refused envelope leaves the reader with nothing.       *)
Unmarshal ==
  /\ sent # NoWire /\ received = NoIdentity
  /\ validateDescriptor(sent)
  /\ \A i \in DOMAIN sent.fields : FieldAccepted(sent.fields[i])
  /\ \A i \in 2..Len(sent.fields) : ByName(sent.fields[i - 1], sent.fields[i])
  /\ LET fields == [i \in DOMAIN sent.fields |-> decodeIdentityField(sent.fields[i])]
     IN /\ canonicalFingerprint(sent.domain, sent.provider, fields) = sent.digest
        /\ received' = [kind |-> sent.kind, provider |-> sent.provider, fields |-> fields]
  /\ UNCHANGED <<idSchema, declared, idBuilder, observed, identity, sent, shown>>

(* explain: the safe profile redacts protected fields and every secret     *)
(* reference, commitment included.                                         *)
explain(f, internal) ==
  IF ~internal /\ (f.disclosure = "protected" \/ f.kind = "secret-reference")
  THEN [name |-> f.name, redacted |-> TRUE, value |-> 0]
  ELSE [name |-> f.name, redacted |-> FALSE, value |-> f.value]

ExplainSafe ==
  /\ received # NoIdentity /\ shown = <<>> /\ received.fields # <<>>
  /\ shown' = [i \in DOMAIN received.fields |-> explain(received.fields[i], FALSE)]
  /\ UNCHANGED <<idSchema, declared, idBuilder, observed, identity, sent, received>>

EnvelopeStops == (idBuilder.calls > 0) /\ UNCHANGED envelopeVars

(* The identities extensions may resolve to.                               *)
Resolutions ==
  UNION {[1..n -> [kind : {"file", "image"}, fingerprint : FieldValues]] : n \in 0..2}

EnvelopeNext ==
  \/ \E n \in FieldNames, k \in FieldKinds, v \in FieldValues : AddIdentityField(n, k, v)
  \/ \E n \in FieldNames, v \in FieldValues : AddObservation(n, v)
  \/ \E r \in Resolutions : BindExtensions(r)
  \/ Build \/ Marshal \/ AlterWire \/ Unmarshal \/ ExplainSafe \/ EnvelopeStops

EnvelopeSpec == EnvelopeInit /\ [][EnvelopeNext]_envelopeVars
-----------------------------------------------------------------------------
Told(fields) == {[name |-> f.name, kind |-> f.kind, value |-> f.value] : f \in ToSet(fields)}

(* An envelope that is accepted says of its identity what the builder was  *)
(* told, whatever was altered on the way: the value of a field cannot be   *)
(* changed under a digest that was computed for another.                   *)
EnvelopeExact ==
  received # NoIdentity =>
    /\ received.kind = identity.kind
    /\ received.provider = identity.provider
    /\ Told(received.fields) = Told(identity.fields)

(* An identity has exactly one field per declared extension besides those  *)
(* of the schema, each with the fingerprint resolved for its position, and *)
(* no observation: required fields are there and nothing is there twice.   *)
IdentityWhole ==
  identity # NoIdentity =>
    LET names == {f.name : f \in ToSet(identity.fields)}
        required == {d.name : d \in {x \in ToSet(idSchema) : x.role = "semantic" /\ x.required}}
        allowed == {d.name : d \in {x \in ToSet(idSchema) : x.role = "semantic"}}
        bound == {NameOrder[i] : i \in DOMAIN declared}
    IN /\ Cardinality(names) = Len(identity.fields)
       /\ required \cup bound \subseteq names
       /\ names \subseteq allowed \cup bound

(* The safe explanation of an accepted envelope shows the value of no      *)
(* secret reference the builder was given, and of no protected field       *)
(* unless its disclosure was altered on the way: a disclosure, unlike the  *)
(* kind, is in no commitment.                                              *)
SafeExplanation ==
  \A i \in DOMAIN shown :
    LET given == identity.fields[i]
    IN /\ given.kind = "secret-reference" => shown[i].value = 0
       /\ given.disclosure = "protected" /\ sent.fields[i].disclosure = "protected" =>
            shown[i].value = 0

(* Identities, their envelopes and their explanations are what they say.   *)
IdentityEnvelopeSafe == EnvelopeExact /\ IdentityWhole /\ SafeExplanation
=============================================================================

------------------------------ MODULE MCInputs ------------------------------
(***************************************************************************)
(* What is computed from inputs, under TLC: what psql and Liquibase        *)
(* requests name, discovery of aliases, the runtime contract library       *)
(* (composition, canonical values, identity envelopes, execution           *)
(* environments) and the configuration.  They share no state: a behaviour  *)
(* is one of one of them, named by part, and the others keep an initial    *)
(* state.                                                                  *)
(***************************************************************************)
EXTENDS InputCases, DiscoveryCases, ContractCases, ConfigStore

VARIABLE part
inputVars == <<part, psqlVars, lbVars, discoverVars, compositionVars, canonicalVars, envelopeVars,
               execVars, configVars>>

(* The inputs of the modules that rest.                                    *)
APsqlRequest == CHOOSE r \in PsqlRequests : TRUE
AnLbRequest == CHOOSE r \in LbRequests : TRUE
SomeDocuments == <<NoEntries, NoEntries>>
ASchema == CHOOSE s \in IdentitySchemas : ValidSchema(s)

Init ==
  /\ part \in {"psql", "lb", "discover", "compose", "value", "envelope", "exec", "config"}
  /\ DiscoverInit /\ ConfigInit
  /\ IF part = "psql" THEN PsqlInit ELSE PsqlStart(APsqlRequest)
  /\ IF part = "lb" THEN LbInit ELSE LbStart(AnLbRequest)
  /\ IF part = "compose" THEN CompositionInit ELSE CompositionStart(SomeDocuments, "a")
  /\ IF part = "value" THEN CanonicalInit ELSE CanonicalStart(NullTree)
  /\ IF part = "envelope" THEN EnvelopeInit ELSE EnvelopeStart(ASchema, <<>>)
  /\ IF part = "exec" THEN ExecInit ELSE ExecStart(Host)

Next ==
  \/ /\ part = "psql" /\ PsqlNext
     /\ UNCHANGED <<part, lbVars, discoverVars, compositionVars, canonicalVars, envelopeVars,
                    execVars, configVars>>
  \/ /\ part = "lb" /\ LbNext
     /\ UNCHANGED <<part, psqlVars, discoverVars, compositionVars, canonicalVars, envelopeVars,
                    execVars, configVars>>
  \/ /\ part = "discover" /\ DiscoverNext
     /\ UNCHANGED <<part, psqlVars, lbVars, compositionVars, canonicalVars, envelopeVars, execVars,
                    configVars>>
  \/ /\ part = "compose" /\ CompositionNext
     /\ UNCHANGED <<part, psqlVars, lbVars, discoverVars, canonicalVars, envelopeVars, execVars,
                    configVars>>
  \/ /\ part = "value" /\ CanonicalNext
     /\ UNCHANGED <<part, psqlVars, lbVars, discoverVars, compositionVars, envelopeVars, execVars,
                    configVars>>
  \/ /\ part = "envelope" /\ EnvelopeNext
     /\ UNCHANGED <<part, psqlVars, lbVars, discoverVars, compositionVars, canonicalVars, execVars,
                    configVars>>
  \/ /\ part = "exec" /\ ExecNext
     /\ UNCHANGED <<part, psqlVars, lbVars, discoverVars, compositionVars, canonicalVars,
                    envelopeVars, configVars>>
  \/ /\ part = "config" /\ ConfigNext
     /\ UNCHANGED <<part, psqlVars, lbVars, discoverVars, compositionVars, canonicalVars,
                    envelopeVars, execVars>>

Spec == Init /\ [][Next]_inputVars

-----------------------------------------------------------------------------
\* What is hashed for a psql or Liquibase request is what its execution reads
\* (PsqlInputs, LiquibaseInputs); aliases that discovery proposes can be created,
\* cover every root it found, and a second discovery proposes nothing (Discovery);
\* the configuration in force is the durable one and valid (ConfigStore).
InputsSafe ==
  CASE part = "psql" -> PsqlInputsSafe
    [] part = "lb" -> LiquibaseInputsSafe
    [] part = "discover" -> DiscoverySafe
    [] part = "config" -> ConfigSafe
    [] OTHER -> TRUE

\* The runtime contract library: expansion is the substitution its document means
\* (Composition), a value has one encoding (CanonicalValues), an identity arrives
\* whole (IdentityEnvelope), and different environments have different identities
\* (ExecutionEnv).
ContractSafe ==
  CASE part = "compose" -> CompositionSafe
    [] part = "value" -> CanonicalValuesSafe
    [] part = "envelope" -> IdentityEnvelopeSafe
    [] part = "exec" -> ExecutionEnvSafe
    [] OTHER -> TRUE
=============================================================================

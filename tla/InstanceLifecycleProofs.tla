---------------------- MODULE InstanceLifecycleProofs ----------------------
(***************************************************************************)
(* Proofs about InstanceLifecycle: access row, instance row, secret and    *)
(* runtime agree for every number of restarts, with and without            *)
(* cancellation and removal of the job.                                    *)
(***************************************************************************)
EXTENDS InstanceLifecycle, TLAPS

\* Setting a flag of one runtime.
LEMMA FlagUpdate ==
  ASSUME NEW f \in [Bindings -> BOOLEAN], NEW b \in Bindings, NEW v \in BOOLEAN
  PROVE  [f EXCEPT ![b] = v] \in [Bindings -> BOOLEAN]
  OBVIOUS

\* The invariant holds before the first step.
LEMMA LifecycleInit == Init => LifecycleInv
<1> SUFFICES ASSUME Init PROVE LifecycleInv
  OBVIOUS
<1>1. rt \in Bindings \cup {None} /\ None \notin Bindings /\ (rt = Started => FALSE)
  BY LifecycleAssumption DEF Init, Bindings
<1>2. TypeOK
  BY <1>1 DEF Init, TypeOK, Stages, JobSteps
<1>3. FenceOwned /\ RunnerKnows /\ DeletionKnows
  BY DEF Init, FenceOwned, RunnerKnows, DeletionKnows, Fenced
<1>4. BindingSane
  BY <1>1, LifecycleAssumption DEF Init, BindingSane, Bindings
<1>5. SecretBeforeIntent /\ IntentBeforeMutation /\ PublishedVerified
      /\ UseProtected /\ RetiredIsGone
  BY DEF Init, SecretBeforeIntent, IntentBeforeMutation, PublishedVerified, UseProtected,
         RetiredIsGone
<1> QED BY <1>2, <1>3, <1>4, <1>5 DEF LifecycleInv

\* Finding, resuming or starting the runtime touches no access row.
LEMMA LookupPreserves ==
  ASSUME LifecycleInv,
         Lookup \/ Resume \/ Start \/ Activate
  PROVE  LifecycleInv'
<1> USE LifecycleAssumption
    DEF LifecycleInv, TypeOK, FenceOwned, RunnerKnows, DeletionKnows, BindingSane,
        SecretBeforeIntent, IntentBeforeMutation, PublishedVerified, UseProtected, RetiredIsGone,
        Bindings, Stages, JobSteps, Fenced, durable
<1>1. CASE Lookup
  BY <1>1 DEF Lookup
<1>2. CASE Resume
  BY <1>2 DEF Resume
<1>3. CASE Start
  <2>1. TypeOK'
    <3>1. op' \in [Bindings -> {"none", "running", "retired"}]
      BY <1>3 DEF Start
    <3>3. container' \in [Bindings -> BOOLEAN]
      <4>1. container' \in {container, [container EXCEPT ![Started] = TRUE]}
        BY <1>3 DEF Start
      <4> QED BY <4>1, FlagUpdate
    <3>4. clone' \in [Bindings -> BOOLEAN]
      <4>1. clone' \in {clone, [clone EXCEPT ![Started] = TRUE]}
        BY <1>3 DEF Start
      <4> QED BY <4>1, FlagUpdate
    <3>2. rt' \in Bindings \cup {None} /\ jpc' \in JobSteps
      BY <1>3 DEF Start
    <3> QED BY <1>3, <3>1, <3>2, <3>3, <3>4 DEF Start
  <2>2. FenceOwned'
    BY <1>3 DEF Start
  <2>3. RunnerKnows'
    BY <1>3 DEF Start
  <2>4. DeletionKnows'
    BY <1>3 DEF Start
  <2>5. BindingSane'
    BY <1>3 DEF Start
  <2>6. SecretBeforeIntent'
    BY <1>3 DEF Start
  <2>7. IntentBeforeMutation'
    BY <1>3 DEF Start
  <2>8. PublishedVerified'
    BY <1>3 DEF Start
  <2>9. UseProtected'
    BY <1>3 DEF Start
  <2>10. RetiredIsGone'
    BY <1>3 DEF Start
  <2> QED BY <2>1, <2>2, <2>3, <2>4, <2>5, <2>6, <2>7, <2>8, <2>9, <2>10
<1>4. CASE Activate
  BY <1>4 DEF Activate
<1> QED BY <1>1, <1>2, <1>3, <1>4

\* Activation moves the access row through its stages under the fence.
LEMMA ActivatePreserves ==
  ASSUME LifecycleInv,
         Load \/ Intent \/ Begin \/ Apply \/ Verify \/ Publish
  PROVE  LifecycleInv'
<1> USE LifecycleAssumption
    DEF LifecycleInv, TypeOK, FenceOwned, RunnerKnows, DeletionKnows, BindingSane,
        SecretBeforeIntent, IntentBeforeMutation, PublishedVerified, UseProtected, RetiredIsGone,
        Bindings, Stages, JobSteps, Fenced, durable
<1>1. CASE Load
  BY <1>1 DEF Load
<1>2. CASE Intent
  <2>1. TypeOK'
    BY <1>2 DEF Intent
  <2>2. FenceOwned'
    BY <1>2 DEF Intent
  <2>3. RunnerKnows'
    BY <1>2 DEF Intent
  <2>4. DeletionKnows'
    BY <1>2 DEF Intent
  <2>5. BindingSane'
    BY <1>2 DEF Intent
  <2>6. SecretBeforeIntent'
    BY <1>2 DEF Intent
  <2>7. IntentBeforeMutation'
    BY <1>2 DEF Intent
  <2>8. PublishedVerified'
    BY <1>2 DEF Intent
  <2>9. UseProtected'
    BY <1>2 DEF Intent
  <2>10. RetiredIsGone'
    BY <1>2 DEF Intent
  <2> QED BY <2>1, <2>2, <2>3, <2>4, <2>5, <2>6, <2>7, <2>8, <2>9, <2>10
<1>3. CASE Begin
  BY <1>3 DEF Begin
<1>4. CASE Apply
  BY <1>4 DEF Apply
<1>5. CASE Verify
  BY <1>5 DEF Verify
<1>6. CASE Publish
  BY <1>6 DEF Publish
<1> QED BY <1>1, <1>2, <1>3, <1>4, <1>5, <1>6

\* Failing, finishing and cleaning up leave the access row and the fence's owner alone.
LEMMA EndPreserves ==
  ASSUME LifecycleInv,
         Fails \/ Finish \/ Succeed \/ FailJob \/ CleanupRetire \/ CleanupStop \/ CleanupErase \/ Cancel
  PROVE  LifecycleInv'
<1> USE LifecycleAssumption
    DEF LifecycleInv, TypeOK, FenceOwned, RunnerKnows, DeletionKnows, BindingSane,
        SecretBeforeIntent, IntentBeforeMutation, PublishedVerified, UseProtected, RetiredIsGone,
        Bindings, Stages, JobSteps, Fenced, durable
<1>1. CASE Fails
  BY <1>1 DEF Fails
<1>2. CASE Finish
  BY <1>2 DEF Finish
<1>3. CASE Succeed
  BY <1>3 DEF Succeed, AfterJob
<1>4. CASE FailJob
  BY <1>4 DEF FailJob, AfterJob
<1>5. CASE CleanupRetire
  BY <1>5 DEF CleanupRetire
<1>6. CASE CleanupStop
  <2>1. TypeOK'
    <3>1. container' \in [Bindings -> BOOLEAN] /\ jpc' \in JobSteps
      BY <1>6 DEF CleanupStop
    <3> QED BY <1>6, <3>1 DEF CleanupStop
  <2>2. FenceOwned'
    BY <1>6 DEF CleanupStop
  <2>3. RunnerKnows'
    BY <1>6 DEF CleanupStop
  <2>4. DeletionKnows'
    BY <1>6 DEF CleanupStop
  <2>5. BindingSane'
    BY <1>6 DEF CleanupStop
  <2>6. SecretBeforeIntent'
    BY <1>6 DEF CleanupStop
  <2>7. IntentBeforeMutation'
    BY <1>6 DEF CleanupStop
  <2>8. PublishedVerified'
    BY <1>6 DEF CleanupStop
  <2>9. UseProtected'
    BY <1>6 DEF CleanupStop
  <2>10. RetiredIsGone'
    BY <1>6 DEF CleanupStop
  <2> QED BY <2>1, <2>2, <2>3, <2>4, <2>5, <2>6, <2>7, <2>8, <2>9, <2>10
<1>7. CASE CleanupErase
  <2>1. clone' \in [Bindings -> BOOLEAN]
    <3>1. clone' \in {clone, [clone EXCEPT ![rt] = FALSE]} /\ rt \in Bindings
      BY <1>7 DEF CleanupErase
    <3>2. QED BY <3>1, FlagUpdate
  <2>2. \A b \in Bindings : clone'[b] => clone[b]
    BY <1>7 DEF CleanupErase
  <2>3. QED BY <1>7, <2>1, <2>2 DEF CleanupErase
<1>8. CASE Cancel
  BY <1>8 DEF Cancel
<1> QED BY <1>1, <1>2, <1>3, <1>4, <1>5, <1>6, <1>7, <1>8

\* An authorised use holds the fence from the check to its end.
LEMMA UsePreserves ==
  ASSUME LifecycleInv,
         UseBegin \/ UseLoad \/ UseEnd
  PROVE  LifecycleInv'
<1> USE LifecycleAssumption
    DEF LifecycleInv, TypeOK, FenceOwned, RunnerKnows, DeletionKnows, BindingSane,
        SecretBeforeIntent, IntentBeforeMutation, PublishedVerified, UseProtected, RetiredIsGone,
        Bindings, Stages, JobSteps, Fenced, durable
<1>1. CASE UseBegin
  BY <1>1 DEF UseBegin
<1>2. CASE UseLoad
  <2>1. TypeOK'
    BY <1>2 DEF UseLoad
  <2>2. FenceOwned'
    BY <1>2 DEF UseLoad
  <2>3. RunnerKnows'
    BY <1>2 DEF UseLoad
  <2>4. DeletionKnows'
    BY <1>2 DEF UseLoad
  <2>5. BindingSane'
    BY <1>2 DEF UseLoad
  <2>6. SecretBeforeIntent'
    BY <1>2 DEF UseLoad
  <2>7. IntentBeforeMutation'
    BY <1>2 DEF UseLoad
  <2>8. PublishedVerified'
    BY <1>2 DEF UseLoad
  <2>9. UseProtected'
    BY <1>2 DEF UseLoad
  <2>10. RetiredIsGone'
    BY <1>2 DEF UseLoad
  <2> QED BY <2>1, <2>2, <2>3, <2>4, <2>5, <2>6, <2>7, <2>8, <2>9, <2>10
<1>3. CASE UseEnd
  BY <1>3 DEF UseEnd
<1> QED BY <1>1, <1>2, <1>3

\* Deletion retires under the fence and forgets the row last.
LEMMA DeletePreserves ==
  ASSUME LifecycleInv,
         DeleteRead \/ DeleteFence \/ DeleteIntent \/ DeleteStop \/ DeleteErase \/ DeleteForget \/ DeleteClose \/ DeleteFails
  PROVE  LifecycleInv'
<1> USE LifecycleAssumption
    DEF LifecycleInv, TypeOK, FenceOwned, RunnerKnows, DeletionKnows, BindingSane,
        SecretBeforeIntent, IntentBeforeMutation, PublishedVerified, UseProtected, RetiredIsGone,
        Bindings, Stages, JobSteps, Fenced, durable
<1>1. CASE DeleteRead
  BY <1>1 DEF DeleteRead
<1>2. CASE DeleteFence
  BY <1>2 DEF DeleteFence
<1>3. CASE DeleteIntent
  <2>1. TypeOK'
    BY <1>3 DEF DeleteIntent
  <2>2. FenceOwned'
    BY <1>3 DEF DeleteIntent
  <2>3. RunnerKnows'
    BY <1>3 DEF DeleteIntent
  <2>4. DeletionKnows'
    BY <1>3 DEF DeleteIntent
  <2>5. BindingSane'
    BY <1>3 DEF DeleteIntent
  <2>6. SecretBeforeIntent'
    BY <1>3 DEF DeleteIntent
  <2>7. IntentBeforeMutation'
    BY <1>3 DEF DeleteIntent
  <2>8. PublishedVerified'
    BY <1>3 DEF DeleteIntent
  <2>9. UseProtected'
    BY <1>3 DEF DeleteIntent
  <2>10. RetiredIsGone'
    BY <1>3 DEF DeleteIntent
  <2> QED BY <2>1, <2>2, <2>3, <2>4, <2>5, <2>6, <2>7, <2>8, <2>9, <2>10
<1>4. CASE DeleteStop
  BY <1>4 DEF DeleteStop
<1>5. CASE DeleteErase
  BY <1>5 DEF DeleteErase
<1>6. CASE DeleteForget
  BY <1>6 DEF DeleteForget
<1>7. CASE DeleteClose
  BY <1>7 DEF DeleteClose
<1>8. CASE DeleteFails
  BY <1>8 DEF DeleteFails
<1> QED BY <1>1, <1>2, <1>3, <1>4, <1>5, <1>6, <1>7, <1>8

\* Trimming the job and restarting keep the access row, the secret and the instance row.
LEMMA RestartPreserves ==
  ASSUME LifecycleInv,
         ForgetJob \/ Crash
  PROVE  LifecycleInv'
<1> USE LifecycleAssumption
    DEF LifecycleInv, TypeOK, FenceOwned, RunnerKnows, DeletionKnows, BindingSane,
        SecretBeforeIntent, IntentBeforeMutation, PublishedVerified, UseProtected, RetiredIsGone,
        Bindings, Stages, JobSteps, Fenced, durable
<1>1. CASE ForgetJob
  <2>1. clone' \in [Bindings -> BOOLEAN] /\ \A b \in Bindings : clone'[b] => clone[b]
    BY <1>1 DEF ForgetJob
  <2>2. aside' \in SUBSET Bindings
    BY <1>1 DEF ForgetJob
  <2>3. QED BY <1>1, <2>1, <2>2 DEF ForgetJob
<1>2. CASE Crash
  <2>1. TypeOK'
    <3>1. crashes' \in Nat /\ jpc' \in JobSteps
      BY <1>2 DEF Crash
    <3> QED BY <1>2, <3>1 DEF Crash
  <2>2. FenceOwned'
    BY <1>2 DEF Crash
  <2>3. RunnerKnows'
    BY <1>2 DEF Crash
  <2>4. DeletionKnows'
    BY <1>2 DEF Crash
  <2>5. BindingSane'
    BY <1>2 DEF Crash
  <2>6. SecretBeforeIntent'
    BY <1>2 DEF Crash
  <2>7. IntentBeforeMutation'
    BY <1>2 DEF Crash
  <2>8. PublishedVerified'
    BY <1>2 DEF Crash
  <2>9. UseProtected'
    BY <1>2 DEF Crash
  <2>10. RetiredIsGone'
    BY <1>2 DEF Crash
  <2> QED BY <2>1, <2>2, <2>3, <2>4, <2>5, <2>6, <2>7, <2>8, <2>9, <2>10
<1> QED BY <1>1, <1>2

\* Every step of the specification keeps the invariant.
LEMMA LifecycleStep == LifecycleInv /\ [Next]_vars => LifecycleInv'
<1> SUFFICES ASSUME LifecycleInv, [Next]_vars PROVE LifecycleInv'
  OBVIOUS
<1>1. CASE JobStep \/ Cancel
  BY <1>1, LookupPreserves, ActivatePreserves, EndPreserves DEF JobStep, JobProgress
<1>2. CASE UseBegin \/ UseLoad \/ UseEnd
  BY <1>2, UsePreserves
<1>3. CASE DeleteStep
  BY <1>3, DeletePreserves DEF DeleteStep
<1>4. CASE ForgetJob \/ Crash
  BY <1>4, RestartPreserves
<1>5. CASE UNCHANGED vars
  BY <1>5
  DEF vars, LifecycleInv, TypeOK, FenceOwned, RunnerKnows, DeletionKnows, BindingSane,
      SecretBeforeIntent, IntentBeforeMutation, PublishedVerified, UseProtected, RetiredIsGone
<1> QED BY <1>1, <1>2, <1>3, <1>4, <1>5 DEF Next

\* The inductive invariant is an invariant of the specification.
THEOREM LifecycleInvariant == Spec => []LifecycleInv
  BY LifecycleInit, LifecycleStep, PTL DEF Spec

\* An intent never refers to a secret that is not stored, whatever fails and
\* however often the engine restarts (Activate).
THEOREM SecretsFirst == Spec => []SecretBeforeIntent
<1>1. LifecycleInv => SecretBeforeIntent
  BY DEF LifecycleInv
<1> QED BY <1>1, LifecycleInvariant, PTL

\* No database role is changed without a recorded intent (Activate).
THEOREM IntentsFirst == Spec => []IntentBeforeMutation
<1>1. LifecycleInv => IntentBeforeMutation
  BY DEF LifecycleInv
<1> QED BY <1>1, LifecycleInvariant, PTL

\* Only verified accesses are published (Activate, RetireBound).
THEOREM PublishedIsVerified == Spec => []PublishedVerified
<1>1. LifecycleInv => PublishedVerified
  BY DEF LifecycleInv
<1> QED BY <1>1, LifecycleInvariant, PTL

\* An authorised command never overlaps retirement (Use, RetireBound).
THEOREM UseIsProtected == Spec => []UseProtected
<1>1. LifecycleInv => UseProtected
  BY DEF LifecycleInv
<1> QED BY <1>1, LifecycleInvariant, PTL

\* A retired access has no row, no container and no data where its runtime was,
\* and only a retirement leaves a renamed directory (DeleteInstance).
THEOREM RetiredAreGone == Spec => []RetiredIsGone
<1>1. LifecycleInv => RetiredIsGone
  BY DEF LifecycleInv
<1> QED BY <1>1, LifecycleInvariant, PTL

\* Retirement is final: a deletion that has begun is never undone (RetireBound,
\* Activate and the trigger instance_access_lifecycle).
THEOREM RetirementIsFinal == Spec => RetirementFinal
<1>1. LifecycleInv /\ [Next]_vars =>
        [/\ stage = "retiring" => stage' \in {"retiring", "retired"}
         /\ stage = "retired" => stage' = "retired"]_vars
  <2> SUFFICES ASSUME LifecycleInv, [Next]_vars
               PROVE  /\ stage = "retiring" => stage' \in {"retiring", "retired"}
                      /\ stage = "retired" => stage' = "retired"
    OBVIOUS
  <2>1. CASE Intent \/ Begin \/ Apply \/ Verify
    BY <2>1 DEF Intent, Begin, Apply, Verify, LifecycleInv, RunnerKnows
  <2>2. CASE DeleteIntent \/ DeleteClose
    BY <2>2 DEF DeleteIntent, DeleteClose, LifecycleInv, DeletionKnows
  <2>3. CASE Lookup \/ Resume \/ Start \/ Activate \/ Load \/ Publish \/ Fails \/ Finish
             \/ Succeed \/ FailJob \/ CleanupRetire \/ CleanupStop \/ CleanupErase \/ Cancel
    BY <2>3 DEF Lookup, Resume, Start, Activate, Load, Publish, Fails, Finish, Succeed, FailJob,
                CleanupRetire, CleanupStop, CleanupErase, Cancel, durable
  <2>4. CASE UseBegin \/ UseLoad \/ UseEnd \/ DeleteRead \/ DeleteFence \/ DeleteStop
             \/ DeleteErase \/ DeleteForget \/ DeleteFails \/ ForgetJob \/ Crash
    BY <2>4 DEF UseBegin, UseLoad, UseEnd, DeleteRead, DeleteFence, DeleteStop,
                DeleteErase, DeleteForget, DeleteFails, ForgetJob, Crash, durable
  <2>5. CASE UNCHANGED vars
    BY <2>5 DEF vars
  <2> QED BY <2>1, <2>2, <2>3, <2>4, <2>5 DEF Next, JobStep, JobProgress, DeleteStep
<1> QED BY <1>1, LifecycleInvariant, PTL DEF Spec, RetirementFinal
=============================================================================

-------------------------- MODULE StateBuildProofs --------------------------
(***************************************************************************)
(* Proofs about StateBuild: for any number of jobs and of removals, with   *)
(* either back end and any number of restarts, the seal and the row of a   *)
(* state agree although the lock file may have been lost.                  *)
(***************************************************************************)
EXTENDS StateBuild, TLAPS

\* The invariant holds before the first step.
LEMMA BuildInvInit == Init => BuildInv
<1> SUFFICES ASSUME Init PROVE BuildInv
  OBVIOUS
<1>1. TypeOK
  <2>1. rt \in [Builders -> BOOLEAN]
    <3>1. \A b \in Builders : (b \in Warm) \in BOOLEAN
      OBVIOUS
    <3>2. rt = [b \in Builders |-> b \in Warm]
      BY Zenon DEF Init
    <3> QED BY <3>1, <3>2, Zenon
  <2>2. op \in [Builders -> OpStages] /\ pc \in [Builders -> Steps]
    BY DEF Init, OpStages, Steps
  <2>3. /\ lock = FALSE /\ marker = FALSE /\ dir = FALSE /\ files = {}
        /\ whole = None /\ row = None /\ seal = None
        /\ rpc = [r \in Removers |-> "idle"] /\ crashes = 0
    BY Zenon DEF Init
  <2> HIDE DEF Init
  <2> QED BY <2>1, <2>2, <2>3 DEF TypeOK
<1>2. SealMatchesRow /\ PublishExclusive /\ RuntimeOwned /\ SealJournalled
  BY BuildAssumption DEF Init, SealMatchesRow, PublishExclusive, RuntimeOwned, SealJournalled
<1> QED BY <1>1, <1>2 DEF BuildInv

\* Builder steps before the seal touch neither the seal nor the row.
LEMMA EarlyPreserves ==
  ASSUME BuildInv, NEW b \in Builders,
         \/ Check(b) \/ EnsureStateDir(b) \/ TryLock(b) \/ Busy(b) \/ Steal(b)
         \/ Recheck(b) \/ ResetStateDir(b)
  PROVE  BuildInv'
<1> USE BuildAssumption
    DEF BuildInv, TypeOK, SealMatchesRow, PublishExclusive, RuntimeOwned, SealJournalled, Goto, disk, Steps
<1>1. CASE Check(b)
  BY <1>1 DEF Check
<1>2. CASE EnsureStateDir(b)
  <2>1. TypeOK'
    BY <1>2 DEF EnsureStateDir
  <2>2. SealMatchesRow'
    BY <1>2 DEF EnsureStateDir
  <2>3. PublishExclusive'
    BY <1>2 DEF EnsureStateDir
  <2>4. RuntimeOwned'
    BY <1>2 DEF EnsureStateDir
  <2>5. SealJournalled'
    BY <1>2 DEF EnsureStateDir
  <2> QED BY <2>1, <2>2, <2>3, <2>4, <2>5
<1>3. CASE TryLock(b)
  <2>1. TypeOK'
    BY <1>3 DEF TryLock
  <2>2. SealMatchesRow'
    BY <1>3 DEF TryLock
  <2>3. PublishExclusive'
    BY <1>3 DEF TryLock
  <2>4. RuntimeOwned'
    BY <1>3 DEF TryLock
  <2>5. SealJournalled'
    BY <1>3 DEF TryLock
  <2> QED BY <2>1, <2>2, <2>3, <2>4, <2>5
<1>4. CASE Busy(b)
  BY <1>4 DEF Busy
<1>5. CASE Steal(b)
  BY <1>5 DEF Steal
<1>6. CASE Recheck(b)
  BY <1>6 DEF Recheck
<1>7. CASE ResetStateDir(b)
  BY <1>7 DEF ResetStateDir, RemoveStateDir
<1> QED BY <1>1, <1>2, <1>3, <1>4, <1>5, <1>6, <1>7

\* Starting the runtime moves the job's own journal entry only.
LEMMA RuntimePreserves ==
  ASSUME BuildInv, NEW b \in Builders, Assign(b) \/ Clone(b) \/ Attach(b)
  PROVE  BuildInv'
<1> USE BuildAssumption
    DEF BuildInv, TypeOK, SealMatchesRow, PublishExclusive, RuntimeOwned, SealJournalled, Goto, disk, Steps, OpStages
<1>1. CASE Assign(b)
  BY <1>1 DEF Assign
<1>2. CASE Clone(b)
  <2>1. TypeOK'
    BY <1>2 DEF Clone
  <2>2. SealMatchesRow'
    BY <1>2 DEF Clone
  <2>3. PublishExclusive'
    BY <1>2 DEF Clone
  <2>4. RuntimeOwned'
    BY <1>2 DEF Clone
  <2>5. SealJournalled'
    BY <1>2 DEF Clone
  <2> QED BY <2>1, <2>2, <2>3, <2>4, <2>5
<1>3. CASE Attach(b)
  <2>1. TypeOK'
    <3>1. op' \in [Builders -> OpStages]
      BY <1>3 DEF Attach
    <3>3. rt' \in [Builders -> BOOLEAN]
      BY <1>3 DEF Attach
    <3>2. pc' \in [Builders -> Steps]
      BY <1>3 DEF Attach
    <3> QED BY <1>3, <3>1, <3>2, <3>3 DEF Attach
  <2>2. SealMatchesRow'
    BY <1>3 DEF Attach
  <2>3. PublishExclusive'
    BY <1>3 DEF Attach
  <2>4. RuntimeOwned'
    BY <1>3 DEF Attach
  <2>5. SealJournalled'
    BY <1>3 DEF Attach
  <2> QED BY <2>1, <2>2, <2>3, <2>4, <2>5
<1> QED BY <1>1, <1>2, <1>3

\* The seal can be taken only while no job is between seal and publication.
LEMMA RecordSealPreserves ==
  ASSUME BuildInv, NEW b \in Builders, RecordSeal(b)
  PROVE  BuildInv'
<1> USE BuildAssumption DEF BuildInv, RecordSeal, Goto
<1>1. CASE /\ op[b] = "running"
           /\ \/ seal \in {None, b}
              \/ row = None /\ op[seal] = "retired"
  <2>1. /\ seal' = b /\ pc' = [pc EXCEPT ![b] = "snap"]
        /\ UNCHANGED <<disk, row, op, rt, rpc, crashes>>
    BY <1>1
  <2>2. row = None
    BY <1>1 DEF SealMatchesRow, SealJournalled, TypeOK
  <2>3. \A c \in Builders : pc[c] \in {"snap", "snapping", "publish"} => c = b
    BY <1>1 DEF PublishExclusive, TypeOK
  <2>4. TypeOK'
    BY <2>1 DEF TypeOK, disk, Steps
  <2>5. SealMatchesRow'
    BY <2>1, <2>2 DEF SealMatchesRow
  <2>6. PublishExclusive'
    BY <1>1, <2>1, <2>2, <2>3 DEF PublishExclusive, TypeOK
  <2>7. RuntimeOwned'
    BY <2>1 DEF RuntimeOwned, TypeOK
  <2>8. SealJournalled'
    BY <1>1, <2>1, <2>2 DEF SealJournalled, TypeOK
  <2> QED BY <2>4, <2>5, <2>6, <2>7, <2>8
<1>2. CASE ~ (/\ op[b] = "running"
              /\ \/ seal \in {None, b}
                 \/ row = None /\ op[seal] = "retired")
  BY <1>2 DEF TypeOK, SealMatchesRow, PublishExclusive, RuntimeOwned, SealJournalled, disk, Steps
<1> QED BY <1>1, <1>2

\* Snapshot and publication use the seal the job holds.
LEMMA PublishPreserves ==
  ASSUME BuildInv, NEW b \in Builders,
         Snapshot(b) \/ SnapshotEnds(b) \/ Publish(b) \/ Mark(b) \/ Commit(b)
  PROVE  BuildInv'
<1> USE BuildAssumption
    DEF BuildInv, TypeOK, SealMatchesRow, PublishExclusive, RuntimeOwned, SealJournalled, Goto, disk, Steps
<1>1. CASE Snapshot(b)
  <2>1. TypeOK'
    <3>1. pc' \in [Builders -> Steps]
      BY <1>1 DEF Snapshot
    <3>2. dir' \in BOOLEAN /\ files' \in SUBSET Builders /\ whole' \in Builders \cup {None}
      <4>1. CASE Kind = "btrfs" /\ dir
        BY <1>1, <4>1 DEF Snapshot
      <4>2. CASE Kind = "btrfs" /\ ~dir
        BY <1>1, <4>2 DEF Snapshot
      <4>3. CASE Kind = "copy"
        BY <1>1, <4>3 DEF Snapshot
      <4> QED BY <4>1, <4>2, <4>3
    <3>3. marker' \in BOOLEAN
      BY <1>1, Zenon DEF Snapshot
    <3> QED BY <1>1, <3>1, <3>2, <3>3 DEF Snapshot
  <2>2. SealMatchesRow'
    BY <1>1 DEF Snapshot
  <2>3. PublishExclusive'
    BY <1>1 DEF Snapshot
  <2>4. RuntimeOwned'
    BY <1>1 DEF Snapshot
  <2>5. SealJournalled'
    BY <1>1 DEF Snapshot
  <2> QED BY <2>1, <2>2, <2>3, <2>4, <2>5
<1>2. CASE SnapshotEnds(b)
  BY <1>2 DEF SnapshotEnds
<1>3. CASE Publish(b)
  <2>1. TypeOK'
    <3>1. pc' \in [Builders -> Steps] /\ row' \in Builders \cup {None}
      BY <1>3 DEF Publish
    <3>2. /\ lock' \in BOOLEAN /\ marker' \in BOOLEAN /\ dir' \in BOOLEAN
          /\ files' \in SUBSET Builders /\ whole' \in Builders \cup {None}
      BY <1>3 DEF Publish, RemoveStateDir
    <3> QED BY <1>3, <3>1, <3>2 DEF Publish
  <2>2. SealMatchesRow'
    BY <1>3 DEF Publish, RemoveStateDir
  <2>3. PublishExclusive'
    BY <1>3 DEF Publish, RemoveStateDir
  <2>4. RuntimeOwned'
    BY <1>3 DEF Publish, RemoveStateDir
  <2>5. SealJournalled'
    BY <1>3 DEF Publish, RemoveStateDir
  <2> QED BY <2>1, <2>2, <2>3, <2>4, <2>5
<1>4. CASE Mark(b)
  BY <1>4 DEF Mark
<1>5. CASE Commit(b)
  BY <1>5 DEF Commit
<1> QED BY <1>1, <1>2, <1>3, <1>4, <1>5

\* Leaving the lock, failing and retiring the operation.
LEMMA LeavePreserves ==
  ASSUME BuildInv, NEW b \in Builders, Unlock(b) \/ CleanupRuntime(b) \/ Abort(b)
  PROVE  BuildInv'
<1> USE BuildAssumption
    DEF BuildInv, TypeOK, SealMatchesRow, PublishExclusive, RuntimeOwned, SealJournalled, Goto, disk, Steps, OpStages
<1>1. CASE Unlock(b)
  BY <1>1 DEF Unlock
<1>2. CASE CleanupRuntime(b)
  BY <1>2 DEF CleanupRuntime
<1>3. CASE Abort(b)
  <2>1. TypeOK'
    BY <1>3 DEF Abort
  <2>2. SealMatchesRow'
    BY <1>3 DEF Abort
  <2>3. PublishExclusive'
    BY <1>3 DEF Abort
  <2>4. RuntimeOwned'
    BY <1>3 DEF Abort
  <2>5. SealJournalled'
    BY <1>3 DEF Abort
  <2> QED BY <2>1, <2>2, <2>3, <2>4, <2>5
<1> QED BY <1>1, <1>2, <1>3

\* Removal takes the seal of the row it deletes, and no other.
LEMMA RemoverPreserves ==
  ASSUME BuildInv, NEW r \in Removers, RemoverStep(r)
  PROVE  BuildInv'
<1> USE BuildAssumption
    DEF BuildInv, TypeOK, SealMatchesRow, PublishExclusive, RuntimeOwned, SealJournalled, disk
<1>1. CASE ListState(r)
  BY <1>1 DEF ListState
<1>2. CASE RemoveFiles(r)
  BY <1>2 DEF RemoveFiles, RemoveStateDir
<1>3. CASE DeleteRow(r)
  BY <1>3 DEF DeleteRow
<1> QED BY <1>1, <1>2, <1>3 DEF RemoverStep

\* A restart forgets the runners and keeps seal, row and journal.
LEMMA CrashPreserves ==
  ASSUME BuildInv, Crash
  PROVE  BuildInv'
  BY BuildAssumption DEF Crash, BuildInv, TypeOK, SealMatchesRow, PublishExclusive, RuntimeOwned, SealJournalled, disk, Steps

\* Every step of the specification keeps the invariant.
LEMMA BuildInvStep == BuildInv /\ [Next]_vars => BuildInv'
<1> SUFFICES ASSUME BuildInv, [Next]_vars PROVE BuildInv'
  OBVIOUS
<1>1. ASSUME NEW b \in Builders, BuilderStep(b) PROVE BuildInv'
  BY <1>1, EarlyPreserves, RuntimePreserves, RecordSealPreserves, PublishPreserves, LeavePreserves
  DEF BuilderStep
<1>2. ASSUME NEW r \in Removers, RemoverStep(r) PROVE BuildInv'
  BY <1>2, RemoverPreserves
<1>3. CASE Crash
  BY <1>3, CrashPreserves
<1>4. CASE UNCHANGED vars
  BY <1>4 DEF vars, BuildInv, TypeOK, SealMatchesRow, PublishExclusive, RuntimeOwned, SealJournalled
<1> QED BY <1>1, <1>2, <1>3, <1>4 DEF Next

\* The inductive invariant is an invariant of the specification.
THEOREM BuildInvariant == Spec => []BuildInv
  BY BuildInvInit, BuildInvStep, PTL DEF Spec

\* For every number of jobs, removals and restarts: a published state carries
\* the seal of the job that published it (RecordSeal, CreateState).
THEOREM SealsMatchRows == Spec => []SealMatchesRow
<1>1. BuildInv => SealMatchesRow
  BY DEF BuildInv
<1> QED BY <1>1, BuildInvariant, PTL

\* For every number of jobs, removals and restarts: at most one job is between
\* its seal and publication, with or without the lock file (RecordSeal).
THEOREM PublicationExclusive == Spec => []PublishExclusive
<1>1. BuildInv => PublishExclusive
  BY DEF BuildInv
<1> QED BY <1>1, BuildInvariant, PTL

-----------------------------------------------------------------------------
\* A builder step is a step of the abstract publication or a stutter.
LEMMA BuilderRefines ==
  ASSUME BuildInv, NEW b \in Builders, BuilderStep(b)
  PROVE  [Sealed!SealedNext]_<<seal, row>>
<1>1. CASE RecordSeal(b)
  <2>1. CASE seal' = b /\ row = None /\ row' = row
    BY <2>1 DEF Sealed!SealedNext, Sealed!Seal
  <2>2. CASE seal' = seal /\ row' = row
    BY <2>2
  <2> QED BY <1>1, <2>1, <2>2, BuildAssumption
          DEF RecordSeal, BuildInv, SealMatchesRow, TypeOK
<1>2. CASE Publish(b)
  <2>1. CASE row' = row /\ seal' = seal
    BY <2>1
  <2>2. CASE row = None /\ row' = b /\ seal' = seal /\ seal = b
    BY <2>2 DEF Sealed!SealedNext, Sealed!Publish
  <2> QED BY <1>2, <2>1, <2>2 DEF Publish, BuildInv, PublishExclusive
<1>3. CASE Check(b) \/ EnsureStateDir(b) \/ TryLock(b) \/ Busy(b) \/ Steal(b)
           \/ Recheck(b) \/ ResetStateDir(b) \/ Assign(b) \/ Clone(b) \/ Attach(b)
  BY <1>3 DEF Check, EnsureStateDir, TryLock, Busy, Steal, Recheck, ResetStateDir,
              Assign, Clone, Attach
<1>4. CASE Snapshot(b) \/ SnapshotEnds(b) \/ Mark(b) \/ Commit(b) \/ Unlock(b)
           \/ CleanupRuntime(b) \/ Abort(b)
  BY <1>4 DEF Snapshot, SnapshotEnds, Mark, Commit, Unlock, CleanupRuntime, Abort
<1> QED BY <1>1, <1>2, <1>3, <1>4 DEF BuilderStep

\* A removal step is a withdrawal or a stutter.
LEMMA RemoverRefines ==
  ASSUME NEW r \in Removers, RemoverStep(r)
  PROVE  [Sealed!SealedNext]_<<seal, row>>
<1>1. CASE DeleteRow(r)
  BY <1>1 DEF DeleteRow, Sealed!SealedNext, Sealed!Withdraw
<1>2. CASE ListState(r) \/ RemoveFiles(r)
  BY <1>2 DEF ListState, RemoveFiles
<1> QED BY <1>1, <1>2 DEF RemoverStep

\* The build protocol implements the abstract publication: a published seal is
\* immutable and only its owner publishes (RecordSeal, CreateState, the trigger).
THEOREM BuildRefinement == Spec => ImplementsSealed
<1>1. Init => Sealed!SealedInit
  BY DEF Init, Sealed!SealedInit
<1>2. BuildInv /\ [Next]_vars => [Sealed!SealedNext]_<<seal, row>>
  <2> SUFFICES ASSUME BuildInv, [Next]_vars PROVE [Sealed!SealedNext]_<<seal, row>>
    OBVIOUS
  <2>1. CASE Crash
    BY <2>1 DEF Crash
  <2>2. CASE UNCHANGED vars
    BY <2>2 DEF vars
  <2> QED BY <2>1, <2>2, BuilderRefines, RemoverRefines DEF Next
<1> QED BY <1>1, <1>2, BuildInvariant, PTL
        DEF Spec, ImplementsSealed, Sealed!SealedSpec, Sealed!SealedVars

-----------------------------------------------------------------------------
\* With btrfs the lock file and the marker are beside the state directory, and
\* while no state is removed the lock does what it is there for, restarts
\* included.  Both parts are needed: see the run of the copy back end for what
\* a directory that takes the lock with it does, and section 3 of the README
\* for what an inherited marker does.
LockHeld(b) == pc[b] \in {"recheck", "reset", "assign", "clone", "attach", "seal", "snap", "publish",
                          "mark", "commit", "unlock", "undo"}

\* Before the state is published the lock has one holder and there is no
\* marker; afterwards nobody builds and the directory is the publisher's.
LockInv ==
  /\ \A b \in Builders : pc[b] # "snapping"
  /\ row = None =>
       /\ ~marker
       /\ \A b \in Builders : LockHeld(b) => lock
       /\ \A b, c \in Builders : LockHeld(b) /\ LockHeld(c) => b = c
       /\ \A b \in Builders : pc[b] \notin {"steal", "mark", "commit", "unlock", "ok"}
       /\ \A b \in Builders : pc[b] = "publish" => dir /\ files = {b} /\ whole = b
  /\ row # None =>
       /\ dir /\ files = {row} /\ whole = row
       /\ \A b \in Builders : ~Building(b) /\ pc[b] # "reset"

\* With the lock beside the directory every step keeps it.
LEMMA LockStep ==
  ASSUME Kind = "btrfs", Removers = {}, BuildInv, LockInv, [Next]_vars
  PROVE  LockInv'
<1> USE BuildAssumption DEF LockInv, LockHeld, Building, Goto, disk
<1>1. \A b \in Builders : pc[b] \in Steps
  BY DEF BuildInv, TypeOK
<1>2. pc \in [Builders -> Steps]
  BY DEF BuildInv, TypeOK
<1>3. ASSUME NEW b \in Builders, Check(b) \/ EnsureStateDir(b) \/ TryLock(b)
      PROVE  LockInv'
  <2>1. CASE Check(b)
    BY <1>2, <1>3, <2>1 DEF Check, Steps
  <2>2. CASE EnsureStateDir(b)
    <3>1. UNCHANGED <<lock, marker, files, whole, row>> /\ pc[b] = "mkdir"
      BY <2>2 DEF EnsureStateDir
    <3>2. dir => dir'
      BY <2>2 DEF EnsureStateDir
    <3>3. pc'[b] \in {"acquire", "cleanup"} /\ \A c \in Builders : c # b => pc'[c] = pc[c]
      BY <1>2, <2>2 DEF EnsureStateDir
    <3> QED BY <3>1, <3>2, <3>3
  <2>3. CASE TryLock(b)
    BY <1>2, <1>3, <2>3 DEF TryLock, Steps
  <2> QED BY <1>3, <2>1, <2>2, <2>3
<1>4. ASSUME NEW b \in Builders, Busy(b) \/ Steal(b) \/ Recheck(b) \/ ResetStateDir(b)
      PROVE  LockInv'
  <2>1. CASE Busy(b)
    BY <1>2, <1>4, <2>1 DEF Busy, Steps
  <2>2. CASE Steal(b)
    BY <1>2, <1>4, <2>2 DEF Steal, Steps
  <2>3. CASE Recheck(b)
    <3>1. UNCHANGED <<lock, marker, dir, files, whole, row>> /\ pc[b] = "recheck"
      BY <2>3 DEF Recheck
    <3>2. row # None => pc'[b] \in {"unlock", "undo"}
      BY <1>2, <2>3 DEF Recheck, Steps
    <3>3. row = None => pc'[b] \in {"reset", "assign"}
      BY <1>2, <2>3 DEF Recheck, Steps
    <3>4. \A c \in Builders : c # b => pc'[c] = pc[c]
      BY <1>2, <2>3 DEF Recheck
    <3> QED BY <3>1, <3>2, <3>3, <3>4
  <2>4. CASE ResetStateDir(b)
    BY <1>2, <1>4, <2>4 DEF ResetStateDir, RemoveStateDir, Steps
  <2> QED BY <1>4, <2>1, <2>2, <2>3, <2>4
<1>5. ASSUME NEW b \in Builders, Assign(b) \/ Clone(b) \/ Attach(b) \/ RecordSeal(b)
      PROVE  LockInv'
  BY <1>2, <1>5 DEF Assign, Clone, Attach, RecordSeal, Steps
<1>6. ASSUME NEW b \in Builders, Snapshot(b) \/ SnapshotEnds(b)
      PROVE  LockInv'
  <2>1. CASE SnapshotEnds(b)
    BY <2>1 DEF SnapshotEnds
  <2>2. CASE Snapshot(b)
    <3>1. row = None /\ pc[b] = "snap" /\ UNCHANGED <<lock, row>>
      BY <2>2 DEF Snapshot
    <3>2. marker' = marker
      <4>1. marker' = (marker \/ (Kind = "copy" /\ b \in Inheritors)) /\ marker \in BOOLEAN
        BY <2>2, Zenon DEF Snapshot, BuildInv, TypeOK
      <4> QED BY <4>1
    <3>3. \/ pc'[b] = "undo"
          \/ pc'[b] = "publish" /\ dir' = TRUE /\ files' = {b} /\ whole' = b
      BY <1>2, <2>2 DEF Snapshot
    <3>4. \A c \in Builders : c # b => pc'[c] = pc[c]
      BY <1>2, <2>2 DEF Snapshot
    <3>5. \A c \in Builders : c # b => ~LockHeld(c)
      BY <3>1
    <3> QED BY <3>1, <3>2, <3>3, <3>4, <3>5
  <2> QED BY <1>6, <2>1, <2>2
<1>7. ASSUME NEW b \in Builders, Publish(b)
      PROVE  LockInv'
  <2>1. row = None /\ pc[b] = "publish"
    BY <1>7 DEF Publish
  <2>2. \A c \in Builders : c # b => ~LockHeld(c)
    BY <2>1
  <2>3. \A c \in Builders : c # b => pc'[c] = pc[c]
    BY <1>2, <1>7 DEF Publish
  <2>4. CASE row' = b /\ pc'[b] = "mark" /\ UNCHANGED <<lock, marker, dir, files, whole>>
    BY <2>1, <2>2, <2>3, <2>4
  <2>5. CASE row' = row /\ pc'[b] = "undo" /\ UNCHANGED <<lock, marker>>
    BY <2>1, <2>2, <2>3, <2>5
  <2> QED BY <1>2, <1>7, <2>1, <2>4, <2>5 DEF Publish, RemoveStateDir
<1>8. ASSUME NEW b \in Builders, Mark(b) \/ Commit(b) \/ Unlock(b)
      PROVE  LockInv'
  <2>1. CASE Mark(b)
    <3>1. /\ row # None /\ pc[b] = "mark" /\ pc'[b] = "commit" /\ UNCHANGED <<files, whole, row>>
          /\ \A c \in Builders : c # b => pc'[c] = pc[c]
      BY <1>2, <2>1 DEF Mark
    <3>2. dir => dir'
      BY <2>1 DEF Mark
    <3> QED BY <3>1, <3>2
  <2>2. CASE Commit(b)
    BY <1>2, <2>2 DEF Commit
  <2>3. CASE Unlock(b)
    <3>1. /\ pc[b] \in {"unlock", "undo"} /\ pc'[b] = (IF pc[b] = "unlock" THEN "ok" ELSE "cleanup")
          /\ UNCHANGED <<marker, dir, files, whole, row>>
          /\ \A c \in Builders : c # b => pc'[c] = pc[c]
      BY <1>2, <2>3 DEF Unlock
    <3>2. row = None => \A c \in Builders : ~(pc'[c] \in {"recheck", "reset", "assign", "clone", "attach", "seal",
                          "snap", "publish", "mark", "commit", "unlock", "undo"})
      BY <3>1
    <3> QED BY <3>1, <3>2
  <2> QED BY <1>8, <2>1, <2>2, <2>3
<1>9. ASSUME NEW b \in Builders, CleanupRuntime(b) \/ Abort(b)
      PROVE  LockInv'
  BY <1>2, <1>9 DEF CleanupRuntime, Abort, Steps
<1>10. CASE Crash
  <2>1. \A b \in Builders : pc'[b] \in {"check", "ok", "failed"} /\ (pc'[b] = "ok" => pc[b] = "ok")
    BY <1>10 DEF Crash
  <2>2. UNCHANGED <<lock, marker, dir, files, whole, row>>
    BY <1>10 DEF Crash
  <2> QED BY <2>1, <2>2
<1>11. CASE UNCHANGED vars
  BY <1>11 DEF vars
<1> QED BY <1>3, <1>4, <1>5, <1>6, <1>7, <1>8, <1>9, <1>10, <1>11 DEF Next, BuilderStep

\* With btrfs and no removals, for any number of jobs and of restarts.
LEMMA LockInvariant == Kind = "btrfs" /\ Removers = {} => (Spec => []LockInv)
<1> SUFFICES ASSUME Kind = "btrfs", Removers = {} PROVE Spec => []LockInv
  OBVIOUS
<1>1. Init => LockInv
  BY BuildAssumption DEF Init, LockInv, LockHeld
<1>2. BuildInv /\ LockInv /\ [Next]_vars => LockInv'
  BY LockStep
<1> QED BY <1>1, <1>2, BuildInvariant, PTL DEF Spec

\* The lock file serialises the builders of a state, restarts included, as long
\* as it is beside the directory and no state is removed.
THEOREM BuildersSerialized == Kind = "btrfs" /\ Removers = {} => (Spec => []Serialized)
<1> SUFFICES ASSUME Kind = "btrfs", Removers = {} PROVE Spec => []Serialized
  OBVIOUS
<1>1. LockInv => Serialized
  BY DEF LockInv, LockHeld, Serialized, Building
<1> QED BY <1>1, LockInvariant, PTL

\* A published state then has the whole snapshot of its publisher.
THEOREM RowsHaveSnapshots == Kind = "btrfs" /\ Removers = {} => (Spec => []RowHasSnapshot)
<1> SUFFICES ASSUME Kind = "btrfs", Removers = {} PROVE Spec => []RowHasSnapshot
  OBVIOUS
<1>1. LockInv => RowHasSnapshot
  BY DEF LockInv, RowHasSnapshot
<1> QED BY <1>1, LockInvariant, PTL

\* A job that reports the state, also one that took it from the cache or stole
\* the lock of a finished build, finds it published with its files.
THEOREM SuccessIsPublished == Kind = "btrfs" /\ Removers = {} => (Spec => []SuccessMeansPublished)
<1> SUFFICES ASSUME Kind = "btrfs", Removers = {} PROVE Spec => []SuccessMeansPublished
  OBVIOUS
<1>1. LockInv => SuccessMeansPublished
  BY DEF LockInv, SuccessMeansPublished
<1> QED BY <1>1, LockInvariant, PTL

\* No cache hit is reported for a directory that is not complete.
THEOREM HitsAreWhole == Kind = "btrfs" /\ Removers = {} => (Spec => CachedIsWhole)
<1> SUFFICES ASSUME Kind = "btrfs", Removers = {} PROVE Spec => CachedIsWhole
  OBVIOUS
<1>1. BuildInv /\ LockInv /\ [Next]_vars =>
        [\A b \in Builders : pc[b] = "check" /\ pc'[b] = "ok" => dir /\ whole # None]_vars
  <2> SUFFICES ASSUME BuildInv, LockInv, Next, NEW b \in Builders, pc[b] = "check", pc'[b] = "ok"
               PROVE  dir /\ whole # None
    OBVIOUS
  <2>1. row # None
    <3>1. pc \in [Builders -> Steps]
      BY DEF BuildInv, TypeOK
    <3>2. row = None => pc'[b] # "ok"
      BY <3>1 DEF Next, BuilderStep, Check, EnsureStateDir, TryLock, Busy, Steal, Recheck, ResetStateDir,
                  Assign, Clone, Attach, RecordSeal, Snapshot, SnapshotEnds, Publish, Mark, Commit, Unlock,
                  CleanupRuntime, Abort, Crash, Goto, LockInv
    <3> QED BY <3>2
  <2> QED BY <2>1 DEF LockInv
<1> QED BY <1>1, BuildInvariant, LockInvariant, PTL DEF Spec, CachedIsWhole
=============================================================================

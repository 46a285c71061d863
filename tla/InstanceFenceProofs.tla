------------------------ MODULE InstanceFenceProofs ------------------------
(***************************************************************************)
(* Proofs that the counted fence objects of instanceaccess/fence.go give   *)
(* one exclusive lock per instance reference, for any set of callers,      *)
(* references and fence allocations.                                       *)
(***************************************************************************)
EXTENDS InstanceFence, FiniteSetTheorems, TLAPS

\* The users of an object are finitely many: they are callers.
LEMMA UsersFinite ==
  ASSUME NEW o
  PROVE  /\ IsFiniteSet(UsersOf(o))
         /\ Cardinality(UsersOf(o)) \in Nat
<1>1. UsersOf(o) \in SUBSET Callers
  BY DEF UsersOf
<1>2. IsFiniteSet(UsersOf(o))
  BY <1>1, FS_Subset, FenceAssumption
<1> QED
  BY <1>2, FS_CardinalityType

\* The inductive invariant holds initially: no caller has entered.
LEMMA FenceInvInit == Init => FenceInv
<1> SUFFICES ASSUME Init PROVE FenceInv
  OBVIOUS
<1> USE FenceAssumption DEF Init
<1>1. TypeOK
  BY DEF TypeOK, Steps
<1>2. PointersRegistered /\ RegistryInjective /\ CountsExact /\ GateOwned
  BY DEF PointersRegistered, RegistryInjective, CountsExact, GateOwned
<1> QED
  BY <1>1, <1>2 DEF FenceInv

\* Registering preserves the invariant: the caller joins the registered
\* object, or a fresh one that nobody points to.
LEMMA RegisterPreserves ==
  ASSUME NEW c \in Callers, NEW r \in Refs, FenceInv, Register(c, r)
  PROVE  FenceInv'
<1> USE FenceAssumption
<1>a. TypeOK /\ PointersRegistered /\ RegistryInjective /\ CountsExact /\ GateOwned
  BY DEF FenceInv
<1>b. pc[c] = "idle" /\ at[c] = None
  BY <1>a DEF Register, PointersRegistered
<1>1. CASE /\ fences[r] # None
           /\ at' = [at EXCEPT ![c] = fences[r]]
           /\ users' = [users EXCEPT ![fences[r]] = @ + 1]
           /\ UNCHANGED <<fences, gate>>
  <2> DEFINE o == fences[r]
  <2>1. o \in Objects
    BY <1>a, <1>1 DEF TypeOK
  <2>2. TypeOK'
    BY <1>a, <1>1, <2>1 DEF TypeOK, Register, Steps
  <2>3. PointersRegistered'
    BY <1>a, <1>1, <2>1 DEF TypeOK, Register, PointersRegistered
  <2>4. RegistryInjective'
    BY <1>a, <1>1 DEF RegistryInjective
  <2>5. UsersOf(o)' = UsersOf(o) \cup {c}
    BY <1>a, <1>1, <2>1 DEF UsersOf, TypeOK
  <2>6. c \notin UsersOf(o)
    BY <1>b, <1>1 DEF UsersOf
  <2>7. Cardinality(UsersOf(o)') = Cardinality(UsersOf(o)) + 1
    BY <2>5, <2>6, UsersFinite, FS_AddElement
  <2>8. \A s \in Refs : s # r /\ fences[s] # None => UsersOf(fences[s])' = UsersOf(fences[s])
    BY <1>a, <1>b, <1>1 DEF UsersOf, TypeOK, RegistryInjective
  <2>9. CountsExact'
    <3> SUFFICES ASSUME NEW s \in Refs, fences[s] # None
                 PROVE  /\ users'[fences[s]] = Cardinality(UsersOf(fences[s])')
                        /\ users'[fences[s]] > 0
      BY <1>1 DEF CountsExact
    <3>1. CASE s = r
      BY <3>1, <2>1, <2>7, <1>a, <1>1 DEF TypeOK, CountsExact
    <3>2. CASE s # r
      <4>1. fences[s] # o
        BY <3>2, <1>a, <1>1 DEF RegistryInjective
      <4>2. users'[fences[s]] = users[fences[s]]
        BY <4>1, <1>a, <1>1, <2>1 DEF TypeOK
      <4> QED
        BY <4>2, <3>2, <2>8, <1>a DEF CountsExact
    <3> QED
      BY <3>1, <3>2
  <2>10. GateOwned'
    BY <1>a, <1>b, <1>1 DEF GateOwned, Register, TypeOK
  <2> QED
    BY <2>2, <2>3, <2>4, <2>9, <2>10 DEF FenceInv
<1>2. ASSUME fences[r] = None, NEW o \in Fresh,
             at' = [at EXCEPT ![c] = o],
             fences' = [fences EXCEPT ![r] = o],
             users' = [users EXCEPT ![o] = 1],
             gate' = [gate EXCEPT ![o] = FALSE]
      PROVE  FenceInv'
  <2>1. /\ o \in Objects /\ o # None
        /\ \A s \in Refs : fences[s] # o
        /\ \A d \in Callers : at[d] # o
    BY <1>2 DEF Fresh
  <2>2. TypeOK'
    BY <1>a, <1>2, <2>1 DEF TypeOK, Register, Steps
  <2>3. PointersRegistered'
    BY <1>a, <1>2, <2>1 DEF TypeOK, Register, PointersRegistered
  <2>4. RegistryInjective'
    BY <1>a, <1>2, <2>1 DEF RegistryInjective, TypeOK
  <2>5. UsersOf(o)' = {c}
    BY <1>a, <1>2, <2>1 DEF UsersOf, TypeOK
  <2>6. CountsExact'
    <3> SUFFICES ASSUME NEW s \in Refs, fences'[s] # None
                 PROVE  /\ users'[fences'[s]] = Cardinality(UsersOf(fences[s])')
                        /\ users'[fences'[s]] > 0
      BY DEF CountsExact
    <3>1. CASE s = r
      <4>1. fences'[s] = o /\ users'[o] = 1
        BY <3>1, <1>a, <1>2, <2>1 DEF TypeOK
      <4>2. UsersOf(fences[s])' = {c}
        BY <4>1, <2>5 DEF UsersOf
      <4> QED
        BY <4>1, <4>2, FS_Singleton
    <3>2. CASE s # r
      <4>1. fences'[s] = fences[s] /\ fences[s] # o /\ fences[s] \in Objects
        BY <3>2, <1>a, <1>2, <2>1 DEF TypeOK
      <4>2. users'[fences[s]] = users[fences[s]]
        BY <4>1, <1>a, <1>2 DEF TypeOK
      <4>3. UsersOf(fences[s])' = UsersOf(fences[s])
        BY <4>1, <1>a, <1>b, <1>2 DEF UsersOf, TypeOK
      <4> QED
        BY <4>1, <4>2, <4>3, <1>a DEF CountsExact
    <3> QED
      BY <3>1, <3>2
  <2>7. GateOwned'
    BY <1>a, <1>b, <1>2, <2>1 DEF GateOwned, Register, TypeOK
  <2> QED
    BY <2>2, <2>3, <2>4, <2>6, <2>7 DEF FenceInv
<1> QED
  BY <1>1, <1>2 DEF Register

\* Releasing preserves the invariant: the entry is deleted exactly when the
\* leaving caller is the only user left.
LEMMA ReleasePreserves ==
  ASSUME NEW c \in Callers, FenceInv, ReleaseReference(c)
  PROVE  FenceInv'
<1> USE FenceAssumption
<1>a. TypeOK /\ PointersRegistered /\ RegistryInjective /\ CountsExact /\ GateOwned
  BY DEF FenceInv
<1>0. at[c] \in Objects /\ want[c] \in Refs /\ at[c] = fences[want[c]]
  BY <1>a DEF ReleaseReference, PointersRegistered, TypeOK
<1>p. PICK o \in Objects, r \in Refs : o = at[c] /\ r = want[c] /\ o = fences[r]
  BY <1>0
<1>b. o = at[c] /\ r = want[c] /\ o = fences[r] /\ o # None
  BY <1>p
<1>c. users[o] = Cardinality(UsersOf(o)) /\ users[o] \in Nat /\ users[o] > 0
  BY <1>a, <1>b DEF CountsExact, TypeOK
<1>d. UsersOf(o)' = UsersOf(o) \ {c} /\ c \in UsersOf(o)
  BY <1>a, <1>b DEF UsersOf, TypeOK, ReleaseReference
<1>e. Cardinality(UsersOf(o)') = users[o] - 1
  BY <1>c, <1>d, UsersFinite, FS_RemoveElement
<1>f. users' = [users EXCEPT ![o] = @ - 1]
  BY <1>b DEF ReleaseReference
<1>g. at' = [at EXCEPT ![c] = None] /\ pc' = [pc EXCEPT ![c] = "idle"]
  BY DEF ReleaseReference
<1>1. TypeOK'
  BY <1>a, <1>b, <1>c DEF TypeOK, ReleaseReference, Steps
<1>2. GateOwned'
  BY <1>a, <1>g DEF GateOwned, ReleaseReference, TypeOK
<1>3. \A s \in Refs : s # r /\ fences[s] # None =>
        /\ fences[s] # o
        /\ UsersOf(fences[s])' = UsersOf(fences[s])
        /\ users'[fences[s]] = users[fences[s]]
  <2> SUFFICES ASSUME NEW s \in Refs, s # r, fences[s] # None
               PROVE  /\ fences[s] # o
                      /\ UsersOf(fences[s])' = UsersOf(fences[s])
                      /\ users'[fences[s]] = users[fences[s]]
    OBVIOUS
  <2>1. fences[s] # o
    BY <1>a, <1>b DEF RegistryInjective
  <2>2. UsersOf(fences[s])' = {d \in Callers : at'[d] = fences'[s]}
    BY DEF UsersOf
  <2>3. fences'[s] = fences[s]
    BY <1>a, <1>b DEF ReleaseReference, TypeOK
  <2>4. UsersOf(fences[s])' = UsersOf(fences[s])
    BY <2>1, <2>2, <2>3, <1>a, <1>b, <1>g DEF UsersOf, TypeOK
  <2> QED
    BY <2>1, <2>4, <1>a, <1>f DEF TypeOK
<1>4. CASE users[o] = 1
  <2>1. fences' = [fences EXCEPT ![r] = None]
    BY <1>4, <1>b DEF ReleaseReference
  <2>2. UsersOf(o) \ {c} = {}
    <3>1. Cardinality(UsersOf(o) \ {c}) = 0
      BY <1>4, <1>d, <1>e
    <3>2. IsFiniteSet(UsersOf(o) \ {c})
      BY UsersFinite, FS_RemoveElement
    <3> QED
      BY <3>1, <3>2, FS_EmptySet
  <2>3. \A d \in Callers : d # c /\ pc[d] # "idle" => want[d] # r
    BY <2>2, <1>a, <1>b DEF UsersOf, PointersRegistered
  <2>4. PointersRegistered'
    BY <2>1, <2>3, <1>a, <1>b, <1>g DEF PointersRegistered, TypeOK, ReleaseReference
  <2>5. RegistryInjective'
    BY <2>1, <1>a DEF RegistryInjective, TypeOK
  <2>6. CountsExact'
    <3> SUFFICES ASSUME NEW s \in Refs, fences'[s] # None
                 PROVE  /\ users'[fences'[s]] = Cardinality(UsersOf(fences[s])')
                        /\ users'[fences'[s]] > 0
      BY DEF CountsExact
    <3>1. s # r /\ fences'[s] = fences[s]
      BY <2>1, <1>a, <1>b DEF TypeOK
    <3> QED
      BY <3>1, <1>3, <1>a DEF CountsExact
  <2> QED
    BY <1>1, <1>2, <2>4, <2>5, <2>6 DEF FenceInv
<1>5. CASE users[o] # 1
  <2>1. fences' = fences
    BY <1>5, <1>b DEF ReleaseReference
  <2>4. PointersRegistered'
    BY <2>1, <1>a, <1>b, <1>g DEF PointersRegistered, TypeOK, ReleaseReference
  <2>5. RegistryInjective'
    BY <2>1, <1>a DEF RegistryInjective
  <2>6. CountsExact'
    <3> SUFFICES ASSUME NEW s \in Refs, fences[s] # None
                 PROVE  /\ users'[fences[s]] = Cardinality(UsersOf(fences[s])')
                        /\ users'[fences[s]] > 0
      BY <2>1 DEF CountsExact
    <3>1. CASE s = r
      <4>1. UsersOf(fences[s])' = UsersOf(o)'
        BY <3>1, <2>1, <1>b DEF UsersOf
      <4>2. users'[fences[s]] = users[o] - 1
        BY <3>1, <1>a, <1>b, <1>f DEF TypeOK
      <4> QED
        BY <4>1, <4>2, <1>c, <1>e, <1>5
    <3>2. CASE s # r
      BY <3>2, <1>3, <1>a DEF CountsExact
    <3> QED
      BY <3>1, <3>2
  <2> QED
    BY <1>1, <1>2, <2>4, <2>5, <2>6 DEF FenceInv
<1> QED
  BY <1>4, <1>5

\* Every step of the fence code preserves the invariant.
LEMMA FenceInvStep == FenceInv /\ [Next]_vars => FenceInv'
<1> SUFFICES ASSUME FenceInv, [Next]_vars PROVE FenceInv'
  OBVIOUS
<1> USE FenceAssumption
<1>a. TypeOK /\ PointersRegistered /\ RegistryInjective /\ CountsExact /\ GateOwned
  BY DEF FenceInv
<1>1. ASSUME NEW c \in Callers, NEW r \in Refs, Register(c, r) PROVE FenceInv'
  BY <1>1, RegisterPreserves
<1>2. ASSUME NEW c \in Callers, Acquire(c) PROVE FenceInv'
  <2>0. at[c] \in Objects
    BY <1>a, <1>2 DEF Acquire, PointersRegistered, TypeOK
  <2>1. TypeOK'
    BY <1>a, <1>2, <2>0 DEF TypeOK, Acquire, Steps
  <2>2. PointersRegistered' /\ RegistryInjective'
    BY <1>a, <1>2 DEF TypeOK, Acquire, PointersRegistered, RegistryInjective
  <2>3. CountsExact'
    BY <1>a, <1>2 DEF CountsExact, UsersOf, Acquire
  <2>4. GateOwned'
    BY <1>a, <1>2, <2>0 DEF GateOwned, Acquire, TypeOK
  <2> QED
    BY <2>1, <2>2, <2>3, <2>4 DEF FenceInv
<1>3. ASSUME NEW c \in Callers, GiveUp(c) PROVE FenceInv'
  <2>1. TypeOK' /\ PointersRegistered' /\ RegistryInjective'
    BY <1>a, <1>3 DEF TypeOK, GiveUp, Steps, PointersRegistered, RegistryInjective
  <2>2. CountsExact'
    BY <1>a, <1>3 DEF CountsExact, UsersOf, GiveUp
  <2>3. GateOwned'
    BY <1>a, <1>3 DEF GateOwned, GiveUp, TypeOK
  <2> QED
    BY <2>1, <2>2, <2>3 DEF FenceInv
<1>4. ASSUME NEW c \in Callers, Unlock(c) PROVE FenceInv'
  <2>0. at[c] \in Objects /\ pc[c] \in {"held", "undo"}
    BY <1>a, <1>4 DEF Unlock, PointersRegistered, TypeOK
  <2>1. TypeOK' /\ PointersRegistered' /\ RegistryInjective'
    BY <1>a, <1>4, <2>0 DEF TypeOK, Unlock, Steps, PointersRegistered, RegistryInjective
  <2>2. CountsExact'
    BY <1>a, <1>4 DEF CountsExact, UsersOf, Unlock
  <2>3. GateOwned'
    <3>1. \A d \in Callers : d # c /\ pc[d] \in {"held", "undo"} => at[d] # at[c]
      BY <1>a, <2>0 DEF GateOwned
    <3> QED
      BY <3>1, <1>a, <1>4, <2>0 DEF GateOwned, Unlock, TypeOK
  <2> QED
    BY <2>1, <2>2, <2>3 DEF FenceInv
<1>5. ASSUME NEW c \in Callers, ReleaseReference(c) PROVE FenceInv'
  BY <1>5, ReleasePreserves
<1>6. ASSUME NEW c \in Callers, CancelContext(c) PROVE FenceInv'
  <2>1. TypeOK' /\ PointersRegistered' /\ RegistryInjective' /\ GateOwned'
    BY <1>a, <1>6 DEF TypeOK, CancelContext, PointersRegistered, RegistryInjective, GateOwned
  <2>2. CountsExact'
    BY <1>a, <1>6 DEF CountsExact, UsersOf, CancelContext
  <2> QED
    BY <2>1, <2>2 DEF FenceInv
<1>7. CASE UNCHANGED vars
  <2>1. TypeOK' /\ PointersRegistered' /\ RegistryInjective' /\ GateOwned'
    BY <1>a, <1>7 DEF TypeOK, vars, PointersRegistered, RegistryInjective, GateOwned
  <2>2. CountsExact'
    BY <1>a, <1>7 DEF CountsExact, UsersOf, vars
  <2> QED
    BY <2>1, <2>2 DEF FenceInv
<1> QED
  BY <1>1, <1>2, <1>3, <1>4, <1>5, <1>6, <1>7 DEF Next

\* FenceInv is an invariant of the fence code for every instance.
THEOREM FenceInvariant == Spec => []FenceInv
  BY FenceInvInit, FenceInvStep, PTL DEF Spec

\* At most one caller owns the fence of an instance reference, for any number
\* of callers, references and generations of fence objects (fence.go).
THEOREM FenceExclusive == Spec => []Exclusive
<1>1. FenceInv => Exclusive
  BY DEF FenceInv, Exclusive, Holds, GateOwned, PointersRegistered
<1> QED
  BY <1>1, FenceInvariant, PTL

\* The registry has an entry for exactly the references in use: nothing leaks
\* and no entry is dropped under a waiter (fence.go, releaseReference).
THEOREM FenceRegistryExact == Spec => []RegistryExact
<1>1. FenceInv => RegistryExact
  <2> SUFFICES ASSUME FenceInv, NEW r \in Refs
               PROVE  fences[r] # None <=> \E c \in Callers : pc[c] # "idle" /\ want[c] = r
    BY DEF RegistryExact
  <2>1. ASSUME NEW c \in Callers, pc[c] # "idle", want[c] = r PROVE fences[r] # None
    BY <2>1 DEF FenceInv, PointersRegistered
  <2>2. ASSUME fences[r] # None PROVE \E c \in Callers : pc[c] # "idle" /\ want[c] = r
    <3>1. UsersOf(fences[r]) # {}
      <4>1. Cardinality(UsersOf(fences[r])) > 0
        BY <2>2 DEF FenceInv, CountsExact
      <4> QED
        BY <4>1, FS_EmptySet
    <3>2. PICK c \in Callers : at[c] = fences[r]
      BY <3>1 DEF UsersOf
    <3>3. pc[c] # "idle" /\ at[c] = fences[want[c]] /\ want[c] \in Refs
      BY <2>2, <3>2 DEF FenceInv, PointersRegistered, TypeOK
    <3> QED
      BY <2>2, <3>2, <3>3 DEF FenceInv, RegistryInjective
  <2> QED
    BY <2>1, <2>2
<1> QED
  BY <1>1, FenceInvariant, PTL

\* The fence code implements the abstract lock: its initial state is the
\* lock's, and every step takes, gives back or leaves alone an owner.
THEOREM FenceRefinement == Spec => ImplementsLock
<1>1. Init => Lock!FenceInit
  BY DEF Init, Lock!FenceInit, ownersBar, Holds
<1>2. FenceInv /\ FenceInv' /\ [Next]_vars => [Lock!FenceNext]_ownersBar
  <2> SUFFICES ASSUME FenceInv, FenceInv', [Next]_vars
               PROVE  Lock!FenceNext \/ ownersBar' = ownersBar
    OBVIOUS
  <2>a. TypeOK /\ PointersRegistered /\ GateOwned
    BY DEF FenceInv
  <2>1. ASSUME NEW c \in Callers, NEW r \in Refs, Register(c, r)
        PROVE  ownersBar' = ownersBar
    BY <2>a, <2>1 DEF Register, ownersBar, Holds, TypeOK
  <2>2. ASSUME NEW c \in Callers, Acquire(c)
        PROVE  Lock!FenceNext \/ ownersBar' = ownersBar
    <3>1. CASE cancelled[c]
      BY <2>a, <2>2, <3>1 DEF Acquire, ownersBar, Holds, TypeOK
    <3>2. CASE ~cancelled[c]
      <4>1. PICK r \in Refs : r = want[c]
        BY <2>a DEF TypeOK
      <4>2. \A d \in Callers : ~Holds(d, r)
        BY <2>a, <2>2, <4>1 DEF Acquire, Holds, PointersRegistered, GateOwned
      <4>3. /\ \A s \in Refs, d \in Callers :
                  Holds(d, s)' <=> Holds(d, s) \/ (d = c /\ s = r)
        BY <2>a, <2>2, <3>2, <4>1 DEF Acquire, Holds, TypeOK
      <4>4. ownersBar[r] = {}
        BY <4>2 DEF ownersBar
      <4>5. ownersBar' = [ownersBar EXCEPT ![r] = {c}]
        BY <4>2, <4>3 DEF ownersBar
      <4> QED
        BY <4>4, <4>5 DEF Lock!FenceNext, Lock!Own
    <3> QED
      BY <3>1, <3>2
  <2>3. ASSUME NEW c \in Callers, GiveUp(c) PROVE ownersBar' = ownersBar
    BY <2>a, <2>3 DEF GiveUp, ownersBar, Holds, TypeOK
  <2>4. ASSUME NEW c \in Callers, Unlock(c)
        PROVE  Lock!FenceNext \/ ownersBar' = ownersBar
    <3>1. CASE pc[c] = "undo"
      BY <2>a, <2>4, <3>1 DEF Unlock, ownersBar, Holds, TypeOK
    <3>2. CASE pc[c] = "held"
      <4>1. PICK r \in Refs : r = want[c]
        BY <2>a DEF TypeOK
      <4>2. \A d \in Callers : Holds(d, r) => d = c
        BY <2>a, <3>2, <4>1 DEF Holds, PointersRegistered, GateOwned
      <4>3. \A s \in Refs, d \in Callers :
                  Holds(d, s)' <=> Holds(d, s) /\ ~(d = c /\ s = r)
        BY <2>a, <2>4, <3>2, <4>1 DEF Unlock, Holds, TypeOK
      <4>4. c \in ownersBar[r]
        BY <3>2, <4>1 DEF ownersBar, Holds
      <4>5. ownersBar' = [ownersBar EXCEPT ![r] = {}]
        BY <4>2, <4>3 DEF ownersBar
      <4> QED
        BY <4>4, <4>5 DEF Lock!FenceNext, Lock!Disown
    <3> QED
      BY <2>4, <3>1, <3>2 DEF Unlock
  <2>5. ASSUME NEW c \in Callers, ReleaseReference(c) PROVE ownersBar' = ownersBar
    BY <2>a, <2>5 DEF ReleaseReference, ownersBar, Holds, TypeOK
  <2>6. ASSUME NEW c \in Callers, CancelContext(c) PROVE ownersBar' = ownersBar
    BY <2>6 DEF CancelContext, ownersBar, Holds
  <2>7. CASE UNCHANGED vars
    BY <2>7 DEF vars, ownersBar, Holds
  <2> QED
    BY <2>1, <2>2, <2>3, <2>4, <2>5, <2>6, <2>7 DEF Next
<1> QED
  BY <1>1, <1>2, FenceInvariant, PTL DEF Spec, ImplementsLock, Lock!FenceSpec
=============================================================================
